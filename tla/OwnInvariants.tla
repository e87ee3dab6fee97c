---------------------------- MODULE OwnInvariants ----------------------------
(***************************************************************************)
(* The inductive invariant of the analyzer and of the run, as conjunctions *)
(* of named parts.  The proof modules show that it holds for every set of  *)
(* well-formed graphs, whoever made them.                                  *)
(***************************************************************************)
EXTENDS OwnRun

(* A step of the analyzer or of the run, on whatever well-formed graph the *)
(* analyzer is called with.                                                *)
AnyCall == (\E c : WellFormed(c) /\ Begin(c)) /\ UNCHANGED rvars

AnyNext ==
  \/ AnyCall
  \/ AnalyzerStep /\ UNCHANGED rvars
  \/ RunnerStep

Todo == {todo[j] : j \in DOMAIN todo}

(* Where the control of the analyzer and of the run may point. *)
Shape ==
  /\ phase = "idle" => cfg = NoCfg
  /\ phase # "idle" => /\ WellFormed(cfg)
                       /\ reach = Reachable(cfg)
                       /\ Entry \in reach
                       /\ \A p \in reach : Succs(cfg, p) \subseteq reach
  /\ blk \in Nat /\ k \in Nat
  /\ phase \in {"seed", "report", "leaks"} => blk > 0
  /\ phase \in {"transfer", "judge", "requeue"} => blk \in reach
  /\ phase \in {"transfer", "judge"} =>
        k \in 1 .. Len(cfg.instrs[blk]) + 1
  /\ computed \subseteq reach
  /\ Queued \subseteq reach
  /\ Todo \subseteq reach
  /\ mode # "waiting" => phase = "done"
  /\ mode = "running" => rb \in reach /\ rk \in 1 .. Len(cfg.instrs[rb]) + 1
  /\ phase \in {"report", "judge", "leaks", "done"} => work = <<>>

TypeInv == TypeOK /\ Shape

-----------------------------------------------------------------------------
(* The fixpoint. *)

Converging == {"fixpoint", "transfer", "requeue"}
Settled    == {"report", "judge", "leaks", "done"}

\* The block the worklist has popped and not stored yet.
InFlight(b) == phase = "transfer" /\ b = blk

\* The states kept for a block follow from each other, up to instruction n.
Stepped(b, n) ==
  \A j \in DOMAIN Instrs(b) :
     j < n => at[b][j + 1] = Step(cfg, Instrs(b)[j], at[b][j])

Last(b) == Len(cfg.instrs[b]) + 1

\* A block with an out-state has the states that lead to it from its
\* in-state.
ChainInv ==
  \A b \in computed : ~ InFlight(b) =>
     /\ at[b][1] = ins[b]
     /\ Stepped(b, Last(b))
     /\ at[b][Last(b)] = outs[b]

\* The state being transferred is the one its block has led to.
CurrentInv ==
  /\ phase = "transfer" =>
       at[blk][1] = ins[blk] /\ Stepped(blk, k) /\ st = at[blk][k]
  /\ phase = "judge" => st = at[blk][k]

EntryInv ==
  Entry \in computed \/ InFlight(Entry) => ins[Entry] = InitialState(cfg)

\* No reachable block is forgotten.
SeededInv ==
  /\ phase = "idle" => computed = {}
  /\ phase = "seed" => /\ computed = {}
                       /\ \A b \in reach : b < blk => b \in Queued
  /\ phase \in Converging =>
       \A b \in reach : b \in computed \/ b \in Queued \/ InFlight(b)
  /\ phase \in Settled => computed = reach

\* What a block has sent out has arrived at its successors, or will: the
\* successor is queued, or about to be.
EdgeInv ==
  \A p \in computed : \A b \in Succs(cfg, p) :
     \/ b \in Queued
     \/ phase = "requeue" /\ p = blk /\ b \in Todo
     \/ Below(outs[p], ins[b])

FixInv == ChainInv /\ CurrentInv /\ EntryInv /\ SeededInv /\ EdgeInv

\* An in-state is the join of what the computed predecessors have sent out
\* by now, or its block is queued, or about to be.
AgreeInv ==
  \A b \in reach \ {Entry} : (b \in computed \/ InFlight(b)) =>
     \/ b \in Queued
     \/ phase = "requeue" /\ b \in Todo
     \/ ins[b] = InStateOf(b)

-----------------------------------------------------------------------------
(* The verdicts. *)

\* The reporting pass has judged instruction j of block b.
Judged(b, j) ==
  \/ phase \in {"leaks", "done"}
  \/ phase \in {"report", "judge"} /\ b < blk
  \/ phase = "judge" /\ b = blk /\ j < k

\* Each problem of a judged instruction is in the bag.
JudgedInv ==
  \A b \in reach : \A j \in DOMAIN Instrs(b) : Judged(b, j) =>
     Reported(Problems(cfg, Instrs(b)[j], at[b][j]), b, j, Instrs(b)[j].line)
        \subseteq DOMAIN diags

\* The leak checks read the state at the end of their block, and those done
\* are in the bag.
LeakInv ==
  /\ \A b \in reach :
       (phase \in {"leaks", "done"} \/ (phase \in {"report", "judge"} /\ b < blk))
          => fin[b] = at[b][Last(b)]
  /\ \A b \in reach :
       (FallsOffEnd(cfg, b) /\ (phase = "done" \/ (phase = "leaks" /\ b < blk)))
       => Reported(Leaks(fin[b], NoSym), b, Last(b), LastLine(cfg, b))
             \subseteq DOMAIN diags

\* Nothing is reported before the fixpoint is reached, and what is reported
\* of an instruction is a problem of the state kept for it.
OnlyInv ==
  /\ phase \notin Settled => DOMAIN diags = {}
  /\ \A d \in DOMAIN diags : d.code # "OWN001" =>
       /\ d.blk \in reach /\ d.k \in DOMAIN Instrs(d.blk)
       /\ \E p \in Problems(cfg, Instrs(d.blk)[d.k], at[d.blk][d.k]) :
            p.code = d.code /\ p.maybe = d.maybe

VerdictInv == JudgedInv /\ LeakInv /\ OnlyInv

\* A diagnostic is about an instruction that has been judged, or about the
\* end of a block whose leak check has been made; so the next one is new.
Placed(d) ==
  /\ d.blk \in reach
  /\ \/ d.k \in DOMAIN Instrs(d.blk) /\ Judged(d.blk, d.k)
     \/ /\ d.k = Last(d.blk)
        /\ phase = "done" \/ (phase = "leaks" /\ d.blk < blk)

PlacedInv == \A d \in DOMAIN diags : diags[d] = 1 /\ Placed(d)

\* Only what the function mints is ever OWNED.
Owns(s) == \A r \in Sym : "OWNED" \in s.var[r] => r \in Minted

OriginInv ==
  /\ phase \in {"transfer", "judge"} => Owns(st)
  /\ \A b \in Blocks(cfg) : Owns(ins[b]) /\ Owns(outs[b]) /\ Owns(fin[b])
  /\ \A d \in DOMAIN diags : d.code = "OWN001" => d.sym \in Minted


\* A handle of the run that has an obligation has one in some state.
HandlesInv == \A h \in Sym : Bound(h) => cs.var[Obl(h)] # "NONE"

\* What has happened on the path of the run so far.
RunInv == HandlesInv /\ StateCovered /\ FaultsDiagnosed /\ LeaksDiagnosed

IndInv ==
  /\ TypeInv
  /\ FixInv /\ AgreeInv
  /\ VerdictInv /\ PlacedInv /\ OriginInv
  /\ RunInv
=============================================================================
