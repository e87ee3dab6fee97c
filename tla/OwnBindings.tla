---------------------------- MODULE OwnBindings ----------------------------
(***************************************************************************)
(* What is known of the handles of a function from its text alone: which   *)
(* obligation a handle stands for wherever it stands for one, where it is  *)
(* bound, and which loans are open at each instruction.  The builder has   *)
(* it in hand in its scopes and its stack of open statements.  It is why   *)
(* the merges of the analyzer never disagree, and why a path never uses a  *)
(* handle it has not bound.                                                *)
(***************************************************************************)
EXTENDS OwnBuilderInvariants

(* obl: the obligation of a handle, itself when it is never bound;         *)
(* bound: the handles that are bound somewhere; here, loans: the handles   *)
(* bound and the loans open before instruction j of block b.               *)
Bindings == [obl   : [Sym -> Sym],
             bound : SUBSET Sym,
             here  : [Nat -> [Nat -> SUBSET Sym]],
             loans : [Nat -> [Nat -> SUBSET Loan]]]

(* Subject, of any graph.                                                  *)
SubjectIn(sy, i) ==
  CASE i.op \in {"move", "alias", "borrow_start"} -> i.src
    [] i.op \in {"release", "return"}             -> i.sym
    [] i.op \in {"use", "arg"} /\ sy[i.sym].kind = "owned" -> i.sym
    [] OTHER                                      -> NoSym

Binds(i) == IF i.op \in {"acquire", "move", "alias"} THEN {i.sym} ELSE {}

LoanOf(A, i) == [binding |-> i.sym, owner |-> A.obl[i.src], mut |-> i.mut]

LoansAfter(A, i, ls) ==
  CASE i.op = "borrow_start" -> {l \in ls : l.binding # i.sym} \cup {LoanOf(A, i)}
    [] i.op = "borrow_end"   -> {l \in ls : l.binding # i.sym}
    [] OTHER                 -> ls

(* The handle an instruction acts on is owned and, if it is ever bound, is *)
(* bound where the instruction stands.                                     *)
InPlace(sy, A, h, here) ==
  h # NoSym => sy[h].kind = "owned" /\ (h \in A.bound => h \in here)

(* An instruction leads from what is bound and open before it to what is   *)
(* after it; a derived handle keeps the storage of its source.             *)
Flows(sy, A, i, here, ls, here2, ls2) ==
  /\ InPlace(sy, A, SubjectIn(sy, i), here)
  /\ here2 \subseteq here \cup Binds(i)
  /\ ls2 = LoansAfter(A, i, ls)
  /\ i.op \in {"acquire", "move"} => A.obl[i.sym] = i.sym
  /\ i.op = "alias" => A.obl[i.sym] = A.obl[i.src]
  /\ i.op = "move" => sy[i.sym].buf = sy[i.src].buf

SymbolsNoted(sy, ps, A) ==
  /\ \A h \in Sym \ A.bound : A.obl[h] = h
  /\ A.bound \subseteq DOMAIN sy
  /\ \A h \in DOMAIN sy : A.obl[h] \in DOMAIN sy /\ sy[A.obl[h]].buf = sy[h].buf
  /\ \A p \in ps : A.obl[p] = p

EndOf(bs, b) == Len(bs[b].instrs) + 1

BlocksNoted(bs, sy, A) ==
  \A b \in DOMAIN bs : \A j \in DOMAIN bs[b].instrs :
     Flows(sy, A, bs[b].instrs[j], A.here[b][j], A.loans[b][j],
           A.here[b][j + 1], A.loans[b][j + 1])

JumpsNoted(bs, A) ==
  \A b \in DOMAIN bs : \A t \in Targets(bs, b) :
     /\ A.here[t][1] \subseteq A.here[b][EndOf(bs, b)]
     /\ A.loans[t][1] = A.loans[b][EndOf(bs, b)]

EntryNoted(sy, ps, A) ==
  /\ A.here[Entry][1] \subseteq {p \in ps : sy[p].kind = "owned"}
  /\ A.loans[Entry][1] = {}

Noted(bs, sy, ps, A) ==
  /\ A \in Bindings
  /\ SymbolsNoted(sy, ps, A) /\ EntryNoted(sy, ps, A)
  /\ BlocksNoted(bs, sy, A) /\ JumpsNoted(bs, A)

(* The resolver has reported nothing: every owned symbol is bound.         *)
AllBound(sy, A) ==
  berrs = {} => \A h \in DOMAIN sy : sy[h].kind = "owned" => h \in A.bound

-----------------------------------------------------------------------------
(* What the builder has in hand. *)

(* The symbols with a name in the n outermost scopes.                      *)
Visible(scs, n) ==
  {h \in Sym : \E j \in 1 .. n : \E x \in DOMAIN scs[j] : scs[j][x] = h}

(* The loans of the n outermost open statements.                           *)
Lent(fs, n) == {j \in 1 .. n : fs[j].kind = "borrow"}
OpenLoans(A, fs, n) == {LoanOf(A, fs[j].end) : j \in Lent(fs, n)}

(* Block b goes on where the n outermost scopes are open.                  *)
GoesOn(A, bs, b, scs, fs, n) ==
  /\ Visible(scs, n) \cap A.bound \subseteq A.here[b][EndOf(bs, b)]
  /\ A.loans[b][EndOf(bs, b)] = OpenLoans(A, fs, n - 1)

CurNoted(A, bs, c, scs, fs) == c # NoBlock => GoesOn(A, bs, c, scs, fs, Len(scs))

FrameNoted(A, bs, scs, fs, j) ==
  /\ OpenBlock(fs[j]) # NoBlock => GoesOn(A, bs, OpenBlock(fs[j]), scs, fs, j)
  /\ fs[j].kind = "while" =>
       /\ A.here[fs[j].header][1] \subseteq Visible(scs, j) \cap A.bound
       /\ A.loans[fs[j].header][1] = OpenLoans(A, fs, j - 1)
  /\ fs[j].kind = "borrow" =>
       /\ fs[j].end.op = "borrow_end"
       /\ \A i \in Lent(fs, j - 1) : fs[i].end.sym # fs[j].end.sym

BuilderNoted(A) ==
  /\ Noted(blocks, syms, DOMAIN header.params, A)
  /\ AllBound(syms, A)
  /\ CurNoted(A, blocks, cur, scopes, frames)
  /\ \A j \in DOMAIN frames : FrameNoted(A, blocks, scopes, frames, j)

-----------------------------------------------------------------------------
(* The worklist. *)

(* Blocks are computed for the first time in the order of their numbers.   *)
InOrder ==
  /\ phase = "idle" => work = <<>>
  /\ phase = "seed" => \A j \in DOMAIN work : work[j] < blk
  /\ \A i, j \in DOMAIN work :
       (i < j /\ work[i] \notin computed /\ work[j] \notin computed)
          => work[i] < work[j]
  /\ \A b \in reach : (b \in computed \/ InFlight(b)) =>
       \A p \in reach : p < b => p \in computed

-----------------------------------------------------------------------------
(* The states of the analyzer and of the run agree with the text. *)

CodeOf(c) == [b \in Blocks(c) |-> [instrs |-> c.instrs[b], succ |-> c.succ[b]]]

Stands(A, rid, here) ==
  \A h \in Sym : /\ rid[h] \in {NoSym, A.obl[h]}
                 /\ h \in here => rid[h] = A.obl[h]

Fits(A, s, b, j) ==
  Stands(A, s.rid, A.here[b][j]) /\ s.loans = A.loans[b][j]

StatesFit(A) ==
  /\ phase = "transfer" => Fits(A, st, blk, k)
  /\ \A b \in computed : Fits(A, outs[b], b, Last(b))

(* A resource lives where its handle says.                                 *)
StoreFits ==
  \A r \in Sym : cs.store[r] # "none" =>
     r \in DOMAIN cfg.syms /\ cs.store[r] = cfg.syms[r].buf

RunFits(A) ==
  mode = "running" => Stands(A, cs.rid, A.here[rb][rk]) /\ StoreFits

CallNoted(A) ==
  /\ Noted(CodeOf(cfg), cfg.syms, cfg.params, A) /\ AllBound(cfg.syms, A)
  /\ StatesFit(A) /\ RunFits(A)

BindingInv ==
  /\ phase = "idle" => \E A : BuilderNoted(A)
  /\ phase # "idle" => \E A : CallNoted(A)
  /\ InOrder
  /\ NeverRaises /\ BoundBeforeUse /\ StackStaysHome
=============================================================================
