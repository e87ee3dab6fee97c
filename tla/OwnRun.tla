------------------------------- MODULE OwnRun -------------------------------
(***************************************************************************)
(* What the verdicts of the analyzer are about: the runs of the analyzed   *)
(* function.  When the analyzer is done, one path is taken through the     *)
(* graph, block by block and instruction by instruction, and each          *)
(* obligation has ONE state on it, where the analyzer has a set.  A path   *)
(* may go through a loop any number of times and leave a branch either     *)
(* way: conditions are opaque to the checker.                              *)
(*                                                                         *)
(* The run keeps going after a fault, with the state the operation would   *)
(* leave, so that each fault of a path is looked for, not only the first.  *)
(***************************************************************************)
EXTENDS OwnAnalysis

VARIABLES
  mode,     \* "waiting", "running", "ended" or "stuck"
  rb, rk,   \* the next instruction of the run
  cs,       \* the state of the run
  faults,   \* what went wrong on this path, and where
  leaked,   \* obligations still held when the path left the function
  lost      \* obligations held when the path acquired them anew

rvars == <<mode, rb, rk, cs, faults, leaked, lost>>
vars  == <<avars, rvars>>

RunState == [var   : [Sym -> VarState \cup {"NONE"}],
             loans : SUBSET Loan,
             rid   : [Sym -> Sym \cup {NoSym}],
             moved : [Sym -> Nat],
             store : [Sym -> Backing]]   \* where the resource itself lives

NotRunning == [var   |-> [r \in Sym |-> "NONE"],
               loans |-> {},
               rid   |-> [h \in Sym |-> NoSym],
               moved |-> [r \in Sym |-> 0],
               store |-> [r \in Sym |-> "none"]]

Here == Instrs(rb)[rk]

(***************************************************************************)
(* The owned handle an instruction acts on, NoSym when it acts on none.    *)
(***************************************************************************)
Subject(i) ==
  CASE i.op \in {"move", "alias", "borrow_start"} -> i.src
    [] i.op \in {"release", "return"}             -> i.sym
    [] i.op \in {"use", "arg"} /\ cfg.syms[i.sym].kind = "owned" -> i.sym
    [] OTHER                                      -> NoSym

Obl(h) == cs.rid[h]

\* The path has given the handle an obligation.
Bound(h) == Obl(h) # NoSym

SharedLoan(h) == \E l \in cs.loans : l.owner = Obl(h) /\ ~ l.mut
MutLoan(h)    == \E l \in cs.loans : l.owner = Obl(h) /\ l.mut

Takes(i)   == i.op \in {"move", "release", "return"}
              \/ (i.op = "arg" /\ i.eff = "consume")
Excludes(i) == (i.op = "borrow_start" /\ i.mut)
              \/ (i.op = "arg" /\ i.eff = "borrow_mut")
Reads(i)   == i.op = "use" \/ (i.op = "borrow_start" /\ ~ i.mut)
              \/ (i.op = "arg" /\ i.eff = "borrow")
Touches(i) == Takes(i) \/ Excludes(i) \/ Reads(i)

GoneFault(i) ==
  Subject(i) # NoSym /\ Touches(i) /\ cs.var[Obl(Subject(i))] \in Gone

LoanFault(i) ==
  /\ Subject(i) # NoSym
  /\ \/ Takes(i) \/ Excludes(i)
     \/ Reads(i) /\ MutLoan(Subject(i))
  /\ SharedLoan(Subject(i)) \/ MutLoan(Subject(i))

DeadBorrow(i) ==
  /\ i.op \in {"use", "arg"}
  /\ cfg.syms[i.sym].kind = "borrow" /\ ~ cfg.syms[i.sym].param
  /\ ~ \E l \in cs.loans : l.binding = i.sym

\* Memory of this stack frame is handed to somebody who outlives it.
Outlives(i) ==
  /\ i.op = "return" \/ Consumes(cfg, i)
  /\ Subject(i) # NoSym
  /\ cs.store[Obl(Subject(i))] = "stack"

FaultKinds(i) ==
  {x \in {"gone", "returned_gone", "borrowed", "dead_borrow", "outlives"} :
     \/ x = "gone" /\ GoneFault(i) /\ i.op # "return"
     \/ x = "returned_gone" /\ GoneFault(i) /\ i.op = "return"
     \/ x = "borrowed" /\ LoanFault(i) /\ ~ GoneFault(i)
     \/ x = "dead_borrow" /\ DeadBorrow(i)
     \/ x = "outlives" /\ Outlives(i) /\ ~ GoneFault(i)}

Take(h, v) == [cs EXCEPT !.var[Obl(h)] = v]

Own(s, h, where) ==
  [s EXCEPT !.rid[h] = h, !.var[h] = "OWNED", !.store[h] = where]

MoveOut(i) ==
  LET r == Obl(i.src)
      line == IF cs.var[r] = "OWNED" THEN i.line ELSE cs.moved[r]
  IN  Own([cs EXCEPT !.moved[r] = line, !.var[r] = "MOVED"], i.sym,
          cs.store[r])

Effect(i) ==
  CASE i.op = "acquire"                 -> Own(cs, i.sym, cfg.syms[i.sym].buf)
    [] i.op = "move"                    -> MoveOut(i)
    [] i.op = "alias"                 -> [cs EXCEPT !.rid[i.sym] = Obl(i.src)]
    [] i.op = "release"                 -> Take(i.sym, "RELEASED")
    [] Consumes(cfg, i)                 -> Take(i.sym, "ESCAPED")
    [] i.op = "return" /\ i.sym # NoSym -> Take(i.sym, "ESCAPED")
    [] i.op = "borrow_start" ->
         [cs EXCEPT !.loans = {l \in @ : l.binding # i.sym} \cup
            {[binding |-> i.sym, owner |-> Obl(i.src), mut |-> i.mut]}]
    [] i.op = "borrow_end" ->
         [cs EXCEPT !.loans = {l \in @ : l.binding # i.sym}]
    [] OTHER                            -> cs

HeldNow(h) ==
  {r \in Sym : cs.var[r] = "OWNED" /\ (h = NoSym \/ r # Obl(h))}

LeftBehind(h) == {[sym |-> r, blk |-> rb, k |-> rk] : r \in HeldNow(h)}

-----------------------------------------------------------------------------
RunInit ==
  /\ mode = "waiting"
  /\ rb = NoBlock /\ rk = 0
  /\ cs = NotRunning
  /\ faults = {} /\ leaked = {} /\ lost = {}

StartRun ==
  /\ mode = "waiting"
  /\ phase = "done"
  /\ mode' = "running"
  /\ rb' = Entry /\ rk' = 1
  /\ LET held == {p \in cfg.params : cfg.syms[p].kind = "owned"} IN
       cs' = [NotRunning EXCEPT
                !.var = [r \in Sym |-> IF r \in held THEN "OWNED" ELSE "NONE"],
                !.rid = [h \in Sym |-> IF h \in held THEN h ELSE NoSym]]
  /\ UNCHANGED <<faults, leaked, lost, avars>>

AtInstr == mode = "running" /\ rk \in DOMAIN Instrs(rb)

Stuck(i) == Subject(i) # NoSym /\ ~ Bound(Subject(i))

Execute ==
  /\ AtInstr
  /\ ~ Stuck(Here)
  /\ cs' = Effect(Here)
  /\ rk' = rk + 1
  /\ faults' = faults \cup
       {[kind |-> x, sym |-> Subject(Here), blk |-> rb, k |-> rk] :
          x \in FaultKinds(Here)}
  /\ leaked' = IF Here.op = "return" THEN leaked \cup LeftBehind(Here.sym)
               ELSE leaked
  /\ lost' = IF /\ Here.op \in {"acquire", "move"}
                /\ cs.var[Here.sym] = "OWNED"
             THEN lost \cup {Here.sym} ELSE lost
  /\ UNCHANGED <<mode, rb, avars>>

\* The path reached a handle it never bound: no run of the C# does this.
GetStuck ==
  /\ AtInstr
  /\ Stuck(Here)
  /\ mode' = "stuck"
  /\ UNCHANGED <<rb, rk, cs, faults, leaked, lost, avars>>

Jump ==
  /\ mode = "running"
  /\ rk \notin DOMAIN Instrs(rb)
  /\ \E s \in Succs(cfg, rb) : rb' = s
  /\ rk' = 1
  /\ UNCHANGED <<mode, cs, faults, leaked, lost, avars>>

Leave ==
  /\ mode = "running"
  /\ rk \notin DOMAIN Instrs(rb)
  /\ cfg.succ[rb] = <<>>
  /\ mode' = "ended"
  /\ leaked' = IF FallsOffEnd(cfg, rb) THEN leaked \cup LeftBehind(NoSym)
               ELSE leaked
  /\ UNCHANGED <<rb, rk, cs, faults, lost, avars>>

RunnerStep == StartRun \/ Execute \/ GetStuck \/ Jump \/ Leave

Init == AnalysisInit /\ RunInit

Call == phase = "idle" /\ (\E c \in Cfgs : Begin(c)) /\ UNCHANGED rvars

Next ==
  \/ Call
  \/ AnalyzerStep /\ UNCHANGED rvars
  \/ RunnerStep

Spec == Init /\ [][Next]_vars /\ WF_vars(AnalyzerStep /\ UNCHANGED rvars)

-----------------------------------------------------------------------------
(* Types. *)

\* The variables hold what their comments say.
TypeOK ==
  /\ phase \in Phases
  /\ mode \in {"waiting", "running", "ended", "stuck"}
  /\ reach \subseteq Blocks(cfg)
  /\ st \in State
  /\ computed \subseteq Blocks(cfg)
  /\ work \in Seq(Blocks(cfg))
  /\ todo \in Seq(Blocks(cfg))
  /\ ins \in [Blocks(cfg) -> State]
  /\ outs \in [Blocks(cfg) -> State]
  /\ fin \in [Blocks(cfg) -> State]
  /\ DOMAIN at = Blocks(cfg)
  /\ \A b \in Blocks(cfg) : at[b] \in [1 .. Len(cfg.instrs[b]) + 1 -> State]
  /\ cs \in RunState
  /\ lost \subseteq Sym

-----------------------------------------------------------------------------
(* The analyzer on its own. *)

\* `a` says no more than `b` about the obligations of the paths.
Below(a, b) ==
  /\ \A r \in Sym : a.var[r] \subseteq b.var[r]
  /\ \A h \in Sym : a.rid[h] # NoSym => b.rid[h] = a.rid[h]
  /\ a.loans = b.loans

(***************************************************************************)
(* The reporting pass recomputes the out-states the fixpoint converged to, *)
(* and each in-state is the join of ALL the predecessors' out-states, not  *)
(* of those that happened to be computed first.  A diagnostic is appended  *)
(* once, however many times its block went through the silent worklist.    *)
(***************************************************************************)
ReportsOnFixpoint ==
  /\ \A d \in DOMAIN diags : diags[d] = 1
  /\ phase \in {"leaks", "done"} =>
       \A b \in reach :
          /\ fin[b] = outs[b]
          /\ b # Entry => ins[b] = JoinAll({outs[p] : p \in Preds(cfg, b) \cap reach})

\* The merge assertions of `join` and `_join_handle_rid` are never raised.
NeverRaises == phase # "raised"

\* analyze() returns: the worklist converges although blocks are re-queued.
Terminates == (phase = "seed") ~> (phase \in {"done", "raised"})

-----------------------------------------------------------------------------
(* The verdicts against the runs. *)

GoneCodes == {"OWN002", "OWN003", "OWN005", "OWN009", "OWN010"}
LoanCodes == {"OWN006", "OWN007", "OWN008", "OWN011", "OWN012", "OWN013"}

CodesFor(kind) ==
  IF kind = "borrowed" THEN GoneCodes \cup LoanCodes ELSE GoneCodes

Diagnosed(f) ==
  \E d \in DOMAIN diags :
     d.blk = f.blk /\ d.k = f.k /\ d.code \in CodesFor(f.kind)

\* The state of the run is one of those the analyzer has for this point.
Covers(s, run) ==
  /\ \A r \in Sym : run.var[r] # "NONE" => run.var[r] \in s.var[r]
  /\ \A h \in Sym : run.rid[h] # NoSym => s.rid[h] = run.rid[h]
  /\ s.loans = run.loans

(***************************************************************************)
(* Soundness of the fixpoint: whatever path the run takes, and however     *)
(* often it goes through a loop, its state is covered at each instruction  *)
(* by the state the instruction was judged on.                             *)
(***************************************************************************)
StateCovered == mode = "running" => Covers(at[rb][rk], cs)

(***************************************************************************)
(* R2-R9 of OwnCore.md: an operation that fails on some path (on an        *)
(* obligation already released, moved or consumed, or against a live loan) *)
(* is diagnosed at that very operation.  Returning a resource that is gone *)
(* on some paths only is the subject of ReturnsChecked.                    *)
(***************************************************************************)
FaultsDiagnosed ==
  \A f \in faults : f.kind \in {"gone", "borrowed"} => Diagnosed(f)

\* README: every operation on a resource that MIGHT have been released or
\* moved on some path is reported, the return of it included.
ReturnsChecked ==
  \A f \in faults : f.kind = "returned_gone" => Diagnosed(f)

(***************************************************************************)
(* A stack-backed buffer that leaves its function by a return or a         *)
(* consuming call is refused (OWN015, OWN016, or a loan that is live on    *)
(* it), under whatever name it has been moved or aliased to by then.       *)
(***************************************************************************)
StackStaysHome ==
  \A f \in faults : f.kind = "outlives" =>
    \E d \in DOMAIN diags :
       /\ d.blk = f.blk /\ d.k = f.k
       /\ d.code \in {"OWN007", "OWN015", "OWN016"}

(***************************************************************************)
(* A leak is only reported of an obligation the function has: one that an  *)
(* instruction mints or that came in as an owned parameter.  A name the    *)
(* resolver refused to bind, for which `var` has no entry, leaks nothing.  *)
(***************************************************************************)
Minted ==
  {p \in cfg.params : cfg.syms[p].kind = "owned"} \cup
  {i.sym : i \in {j \in UNION {{cfg.instrs[b][n] : n \in DOMAIN cfg.instrs[b]} :
                                b \in Blocks(cfg)} :
                   j.op \in {"acquire", "move"}}}

NoPhantomLeaks ==
  \A d \in DOMAIN diags : d.code = "OWN001" => d.sym \in Minted

(***************************************************************************)
(* A definite code (OWN002, OWN005, "released twice") is a fault on every  *)
(* path: no run reaches that operation with the resource still held.       *)
(***************************************************************************)
DefiniteMeansEveryPath ==
  (AtInstr /\ ~ Stuck(Here)) =>
    \A d \in DOMAIN diags :
       (/\ d.blk = rb /\ d.k = rk /\ ~ d.maybe
        /\ d.code \in {"OWN002", "OWN003", "OWN005"}) => GoneFault(Here)

\* R1: an obligation a path leaves behind is reported where that path leaves
\* the function, whatever the other paths do with it.
LeaksDiagnosed ==
  \A x \in leaked : \E d \in DOMAIN diags :
     d.code = "OWN001" /\ d.sym = x.sym /\ d.blk = x.blk /\ d.k = x.k

(***************************************************************************)
(* R1 in loops: an obligation that a path overwrites by acquiring it anew, *)
(* which no exit check of that path can see any more, is reported all the  *)
(* same.                                                                   *)
(***************************************************************************)
OverwritesDiagnosed ==
  \A r \in lost : \E d \in DOMAIN diags : d.code = "OWN001" /\ d.sym = r

(***************************************************************************)
(* analysis.py: a move site is `exact` when every path that moved the      *)
(* resource moved it at that line.                                         *)
(***************************************************************************)
ExactMoveSite ==
  mode = "running" =>
    \A r \in Sym : LET site == at[rb][rk].moved[r] IN
       (cs.var[r] = "MOVED" /\ site.line # 0 /\ site.exact)
          => cs.moved[r] = site.line
=============================================================================
