------------------------------ MODULE OwnDomain ------------------------------
(***************************************************************************)
(* The state domain of the flow-sensitive ownership analysis               *)
(* (ownlang/analysis.py): what is known at one program point, how the      *)
(* knowledge of several paths is merged, what one instruction does to it   *)
(* (`step`), and which diagnostics the instruction deserves there.         *)
(*                                                                         *)
(* A symbol (cfg.py: Symbol) is a number, its declaration order.  A        *)
(* resource obligation, the code's RID, is the symbol that minted it.      *)
(* The code's dictionaries are total functions here: {} for a RID that has *)
(* no entry in `var`, 0 for a handle that has none in `handle_rid`, line 0 *)
(* for a RID that has no site.                                             *)
(***************************************************************************)
EXTENDS Naturals, Sequences, FiniteSets

CONSTANT
  MaxSyms     \* bound: symbols one function declares

ASSUME MaxSymsAssumption == MaxSyms \in Nat \ {0}

Sym     == 1 .. MaxSyms
NoSym   == 0
Kinds   == {"owned", "borrow", "plain"}
Backing == {"none", "stack", "heap"}
Effects == {"borrow", "borrow_mut", "consume", "plain"}
InstrOps == {"acquire", "move", "alias", "release", "use", "overspan",
             "invoke", "arg", "borrow_start", "borrow_end", "return"}

\* `param`: a borrowed parameter, live in the whole body.  `buf`: the storage
\* policy of a buffer.
SymInfo == [kind : Kinds, param : BOOLEAN, mut : BOOLEAN, buf : Backing,
            type : STRING]

(***************************************************************************)
(* One instruction.  `sym` is the symbol the instruction is about (dst of  *)
(* a move, handle of an alias, binding of a borrow), `src` the other one   *)
(* (src, owner).  An Invoke is "invoke" followed by one "arg" for each     *)
(* argument that is a name: the loop of `step` over `ins.args`, unrolled.  *)
(***************************************************************************)
Instr == [op : InstrOps, sym : Sym \cup {NoSym}, src : Sym \cup {NoSym},
          mut : BOOLEAN, eff : Effects, line : Nat]

VarState == {"OWNED", "MOVED", "RELEASED", "ESCAPED"}
Gone     == {"MOVED", "RELEASED", "ESCAPED"}
Loan     == [binding : Sym, owner : Sym, mut : BOOLEAN]
Site     == [line : Nat, exact : BOOLEAN]
NoSite   == [line |-> 0, exact |-> TRUE]

State == [var   : [Sym -> SUBSET VarState],
          loans : SUBSET Loan,
          rid   : [Sym -> Sym \cup {NoSym}],
          moved : [Sym -> Site],
          acq   : [Sym -> Site]]

EmptyState == [var   |-> [r \in Sym |-> {}],
               loans |-> {},
               rid   |-> [h \in Sym |-> NoSym],
               moved |-> [r \in Sym |-> NoSite],
               acq   |-> [r \in Sym |-> NoSite]]

-----------------------------------------------------------------------------
(* Handles, obligations and loans. *)

RidOf(s, h) == IF s.rid[h] # NoSym THEN s.rid[h] ELSE h

\* A RID without an entry counts as OWNED: `var.get(rid, {OWNED})`.
Held(s, h) == LET S == s.var[RidOf(s, h)] IN IF S = {} THEN {"OWNED"} ELSE S

SharedOn(s, h) == \E l \in s.loans : l.owner = RidOf(s, h) /\ ~ l.mut
MutOn(s, h)    == \E l \in s.loans : l.owner = RidOf(s, h) /\ l.mut
Borrowed(s, h) == SharedOn(s, h) \/ MutOn(s, h)

BindingLive(c, s, h) == c.syms[h].param \/ \E l \in s.loans : l.binding = h

Mint(s, h, line) == [s EXCEPT !.rid[h] = h,
                              !.var[h] = {"OWNED"},
                              !.acq[h] = [line |-> line, exact |-> TRUE]]

SetHeld(s, h, v) == [s EXCEPT !.var[RidOf(s, h)] = {v}]

-----------------------------------------------------------------------------
(* Merging the states of several paths. *)

\* `_join_handle_rid` and `join` raise on these: two predecessors that know
\* a handle under different RIDs, or whose active loans differ.
MergeConflict(SS) ==
  \E s, t \in SS :
     \/ s.loans # t.loans
     \/ \E h \in Sym : NoSym \notin {s.rid[h], t.rid[h]} /\ s.rid[h] # t.rid[h]

\* The earliest line among the sites known; exact when all of them agree.
JoinSites(sites) ==
  LET known == {x \in sites : x.line # 0}
  IN  IF known = {} THEN NoSite
      ELSE [line  |-> CHOOSE l \in {x.line : x \in known} :
                        \A x \in known : l <= x.line,
            exact |-> \A x, y \in known : x.exact /\ x.line = y.line]

\* Mutant of JoinAll: the merge keeps the states of one path only.
JoinAllOnePath(SS) ==
  LET one == CHOOSE s \in SS : TRUE
  IN  [one EXCEPT !.rid = [h \in Sym |->
         IF \E s \in SS : s.rid[h] # NoSym
         THEN (CHOOSE s \in SS : s.rid[h] # NoSym).rid[h] ELSE NoSym]]

\* The pairwise `join`, folded over a non-empty set of states.
JoinAll(SS) ==
  [var   |-> [r \in Sym |-> UNION {s.var[r] : s \in SS}],
   loans |-> (CHOOSE s \in SS : TRUE).loans,
   rid   |-> [h \in Sym |->
                IF \E s \in SS : s.rid[h] # NoSym
                THEN (CHOOSE s \in SS : s.rid[h] # NoSym).rid[h]
                ELSE NoSym],
   moved |-> [r \in Sym |-> JoinSites({s.moved[r] : s \in SS})],
   acq   |-> [r \in Sym |-> JoinSites({s.acq[r] : s \in SS})]]

-----------------------------------------------------------------------------
(* What one instruction does to the state. *)

MoveInto(s, i) ==
  LET r    == RidOf(s, i.src)
      site == IF "OWNED" \in Held(s, i.src)
              THEN [line |-> i.line, exact |-> TRUE] ELSE s.moved[r]
  IN  Mint([s EXCEPT !.moved[r] = site, !.var[r] = {"MOVED"}], i.sym, i.line)

OpenLoan(s, i) ==
  [s EXCEPT !.loans = {l \in @ : l.binding # i.sym} \cup
       {[binding |-> i.sym, owner |-> RidOf(s, i.src), mut |-> i.mut]}]

CloseLoan(s, i) == [s EXCEPT !.loans = {l \in @ : l.binding # i.sym}]

Consumes(c, i) ==
  i.op = "arg" /\ c.syms[i.sym].kind = "owned" /\ i.eff = "consume"

Step(c, i, s) ==
  CASE i.op = "acquire"                     -> Mint(s, i.sym, i.line)
    [] i.op = "move"                        -> MoveInto(s, i)
    [] i.op = "alias"        -> [s EXCEPT !.rid[i.sym] = RidOf(s, i.src)]
    [] i.op = "release"                     -> SetHeld(s, i.sym, "RELEASED")
    [] Consumes(c, i)                       -> SetHeld(s, i.sym, "ESCAPED")
    [] i.op = "return" /\ i.sym # NoSym     -> SetHeld(s, i.sym, "ESCAPED")
    [] i.op = "borrow_start"                -> OpenLoan(s, i)
    [] i.op = "borrow_end"                  -> CloseLoan(s, i)
    [] OTHER                                -> s

-----------------------------------------------------------------------------
(***************************************************************************)
(* What one instruction is reported for: the codes `err` would be called   *)
(* with.  `maybe` tells the "on some path" wording from the definite one.  *)
(***************************************************************************)
Problem(code, maybe, sym) == [code |-> code, maybe |-> maybe, sym |-> sym]

When(cond, code, h) == IF cond THEN {Problem(code, FALSE, h)} ELSE {}

\* The checks of one operation run in order; the first that reports ends them.
OrElse(P, Q) == IF P # {} THEN P ELSE Q

\* Mutant of StateProblem: only what is certain is reported.
StateProblemIfCertain(s, h) ==
  LET S == Held(s, h)
  IN  IF "OWNED" \in S THEN {}
      ELSE {Problem(IF "MOVED" \in S THEN "OWN005" ELSE "OWN002", FALSE, h)}

\* Mutant of StateProblem: what is possible is reported as certain.
StateProblemTooSure(s, h) ==
  LET S == Held(s, h)
  IN  CASE "MOVED" \in S -> {Problem("OWN005", FALSE, h)}
        [] "MOVED" \notin S /\ S \cap {"RELEASED", "ESCAPED"} # {} ->
             {Problem("OWN002", FALSE, h)}
        [] OTHER -> {}

StateProblem(s, h) ==
  LET S == Held(s, h)
  IN  CASE "OWNED" \notin S /\ "MOVED" \in S -> {Problem("OWN005", FALSE, h)}
        [] "OWNED" \notin S /\ "MOVED" \notin S
                                            -> {Problem("OWN002", FALSE, h)}
        [] "OWNED" \in S /\ S \cap {"RELEASED", "ESCAPED"} # {}
                                            -> {Problem("OWN009", TRUE, h)}
        [] S = {"OWNED", "MOVED"}           -> {Problem("OWN010", TRUE, h)}
        [] OTHER                            -> {}

ConsumeLike(s, h) ==
  OrElse(StateProblem(s, h), When(Borrowed(s, h), "OWN007", h))

MutBorrowable(s, h) ==
  OrElse(StateProblem(s, h),
         OrElse(When(SharedOn(s, h), "OWN006", h),
                When(MutOn(s, h), "OWN011", h)))

SharedBorrowable(s, h) ==
  OrElse(StateProblem(s, h), When(MutOn(s, h), "OWN012", h))

ReleaseProblems(s, h) ==
  LET S == Held(s, h)
  IN  IF "RELEASED" \in S
      THEN {Problem("OWN003", S # {"RELEASED"}, h)}
      ELSE OrElse(StateProblem(s, h), When(Borrowed(s, h), "OWN008", h))

UseProblems(c, s, h) ==
  CASE c.syms[h].kind = "owned"  ->
         OrElse(StateProblem(s, h), When(MutOn(s, h), "OWN013", h))
    [] c.syms[h].kind = "borrow" -> When(~ BindingLive(c, s, h), "OWN004", h)
    [] OTHER                     -> {}

\* `_apply_effect`: one argument of a call.
OwnedArg(c, i, s) ==
  LET buf == c.syms[i.sym].buf
  IN  CASE i.eff = "consume"    -> ConsumeLike(s, i.sym)
                                   \cup When(buf = "stack", "OWN016", i.sym)
                                   \cup When(buf = "heap", "OWN017", i.sym)
        [] i.eff = "borrow_mut" -> MutBorrowable(s, i.sym)
        [] i.eff = "borrow"     -> SharedBorrowable(s, i.sym)
        [] OTHER                -> When(TRUE, "OWN041", i.sym)

BorrowArg(c, i, s) ==
  CASE i.eff = "borrow"     -> When(~ BindingLive(c, s, i.sym), "OWN004", i.sym)
    [] i.eff = "borrow_mut" -> When(~ c.syms[i.sym].mut, "OWN041", i.sym)
    [] i.eff = "consume"    -> When(TRUE, "OWN034", i.sym)
    [] OTHER                -> When(TRUE, "OWN041", i.sym)

ArgProblems(c, i, s) ==
  CASE c.syms[i.sym].kind = "owned"  -> OwnedArg(c, i, s)
    [] c.syms[i.sym].kind = "borrow" -> BorrowArg(c, i, s)
    [] OTHER                         -> When(i.eff # "plain", "OWN041", i.sym)

\* Mutant of Leaks: only what is held on every path leaks.
LeaksIfCertain(s, excl) ==
  {Problem("OWN001", FALSE, r) : r \in {x \in Sym :
      s.var[x] = {"OWNED"} /\ (excl = NoSym \/ x # RidOf(s, excl))}}

\* Obligations still OWNED on some path, the returned one excepted.
Leaks(s, excl) ==
  {Problem("OWN001", FALSE, r) : r \in {x \in Sym :
      "OWNED" \in s.var[x] /\ (excl = NoSym \/ x # RidOf(s, excl))}}

\* A return asks for the definite states only, then for loans and storage.
ReturnProblems(c, s, h) ==
  LET S == Held(s, h)
  IN  CASE "OWNED" \notin S -> {Problem(IF "MOVED" \in S THEN "OWN005"
                                        ELSE "OWN002", FALSE, h)}
        [] "OWNED" \in S /\ Borrowed(s, h) -> When(TRUE, "OWN007", h)
        [] OTHER -> When(c.syms[h].buf = "stack", "OWN015", h)
                    \cup When(c.syms[h].buf = "heap", "OWN017", h)

Problems(c, i, s) ==
  CASE i.op = "move"     -> ConsumeLike(s, i.src)
    [] i.op = "release"  -> ReleaseProblems(s, i.sym)
    [] i.op = "use"      -> UseProblems(c, s, i.sym)
    [] i.op = "overspan" -> When(TRUE, "OWN025", i.sym)
    [] i.op = "arg"      -> ArgProblems(c, i, s)
    [] i.op = "borrow_start" /\ i.mut   -> MutBorrowable(s, i.src)
    [] i.op = "borrow_start" /\ ~ i.mut -> SharedBorrowable(s, i.src)
    [] i.op = "return"   -> Leaks(s, i.sym) \cup
                            (IF i.sym = NoSym THEN {}
                             ELSE ReturnProblems(c, s, i.sym))
    [] OTHER             -> {}
=============================================================================
