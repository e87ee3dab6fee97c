----------------------------- MODULE OwnAnalysis -----------------------------
(***************************************************************************)
(* The analyzer of ownlang/analysis.py (`_Analyzer`): a forward worklist   *)
(* that converges the in-states of the basic blocks without reporting      *)
(* (`fixpoint`), then one reporting transfer of each block on its          *)
(* converged in-state, then the leak checks of the blocks where the        *)
(* function falls off its end (`run`).                                     *)
(*                                                                         *)
(* One step of the model is one instruction: `transfer` is the loop over   *)
(* `blk.instrs`, and `at` keeps the state that stood before each           *)
(* instruction the last time its block was transferred.  Blocks are        *)
(* numbered from 1, the entry block.                                       *)
(***************************************************************************)
EXTENDS OwnDomain, Bags

CONSTANT
  Cfgs      \* the control-flow graphs `analyze` may be called with

Entry   == 1
NoBlock == 0

Blocks(c) == DOMAIN c.instrs
Succs(c, b) == {c.succ[b][j] : j \in DOMAIN c.succ[b]}
Preds(c, b) == {p \in Blocks(c) : b \in Succs(c, p)}

\* What every instruction of a graph refers to exists, and nothing jumps
\* back to the entry block.
InstrOk(c, i) ==
  /\ i \in Instr
  /\ i.op \notin {"invoke", "return"} => i.sym \in DOMAIN c.syms
  /\ i.op = "return" => i.sym = NoSym \/ i.sym \in DOMAIN c.syms
  /\ i.op \in {"move", "alias", "borrow_start", "borrow_end"} =>
        i.src \in DOMAIN c.syms

WellFormed(c) ==
  /\ c.instrs \in Seq(Seq(Instr))
  /\ Len(c.instrs) > 0
  /\ c.succ \in Seq(Seq(Blocks(c)))
  /\ Len(c.succ) = Len(c.instrs)
  /\ c.syms \in Seq(SymInfo)
  /\ DOMAIN c.syms \subseteq Sym
  /\ c.params \subseteq DOMAIN c.syms
  /\ \A b \in Blocks(c) : \A j \in DOMAIN c.instrs[b] :
        InstrOk(c, c.instrs[b][j])
  /\ \A b \in Blocks(c) : Entry \notin Succs(c, b)

ASSUME CfgsAssumption == \A c \in Cfgs : WellFormed(c)

NoCfg == [instrs |-> <<>>, succ |-> <<>>, syms |-> <<>>, params |-> {}]

NoStates == [b \in {} |-> EmptyState]

VARIABLES
  cfg,       \* the function being analyzed
  phase,     \* where the analyzer is
  reach,     \* the reachable blocks
  work,      \* the deque of block ids
  computed,  \* blocks that have an entry in `out_states`
  ins,       \* in_states
  outs,      \* out_states of the fixpoint
  fin,       \* out_states of the reporting pass
  blk, k,    \* block being transferred, its next instruction
  st,        \* the state being transferred
  todo,      \* successors still to be queued
  at,        \* history: the state before instruction k of block b
  diags      \* a bag: the diagnostics appended so far

avars == <<cfg, phase, reach, work, computed, ins, outs, fin, blk, k, st,
           todo, at, diags>>

Phases == {"idle", "seed", "fixpoint", "transfer", "requeue", "report",
           "judge", "leaks", "done", "raised"}

\* reachable(): the least set with the entry block that is closed under succ.
Reachable(c) ==
  {b \in Blocks(c) :
     \A R \in SUBSET Blocks(c) :
        (Entry \in R /\ \A p \in R : Succs(c, p) \subseteq R) => b \in R}

Queued == {work[j] : j \in DOMAIN work}

Instrs(b) == cfg.instrs[b]

\* initial_state(): the owned parameters are held, with no acquire site.
InitialState(c) ==
  LET held == {p \in c.params : c.syms[p].kind = "owned"}
  IN  [EmptyState EXCEPT
         !.var = [r \in Sym |-> IF r \in held THEN {"OWNED"} ELSE {}],
         !.rid = [h \in Sym |-> IF h \in held THEN h ELSE NoSym]]

\* in_state_of(): the predecessors that already have an out-state, joined.
Known(b)     == Preds(cfg, b) \cap computed

InStateOf(b) ==
  CASE b = Entry       -> InitialState(cfg)
    [] b # Entry /\ Known(b) = {} -> EmptyState
    [] OTHER           -> JoinAll({outs[p] : p \in Known(b)})

JoinRaises(b) == b # Entry /\ MergeConflict({outs[p] : p \in Known(b)})

\* Diagnostics carry the place of the instruction they were reported for.
Reported(P, b, j, line) ==
  {[code |-> p.code, maybe |-> p.maybe, sym |-> p.sym,
    blk |-> b, k |-> j, line |-> line] : p \in P}

\* err(): nothing is appended while the analyzer is silent.
Err(ds, silent) ==
  diags' = IF silent THEN diags ELSE diags (+) SetToBag(ds)

-----------------------------------------------------------------------------
AnalysisInit ==
  /\ cfg = NoCfg
  /\ phase = "idle"
  /\ reach = {} /\ work = <<>> /\ computed = {} /\ todo = <<>>
  /\ ins = NoStates /\ outs = NoStates /\ fin = NoStates /\ at = NoStates
  /\ blk = NoBlock /\ k = 0
  /\ st = EmptyState
  /\ diags = EmptyBag

\* analyze(cfg).
Begin(c) ==
  /\ phase = "idle"
  /\ phase' = "seed"
  /\ cfg' = c
  /\ reach' = Reachable(c)
  /\ ins'  = [b \in Blocks(c) |-> EmptyState]
  /\ outs' = [b \in Blocks(c) |-> EmptyState]
  /\ fin'  = [b \in Blocks(c) |-> EmptyState]
  /\ at'   = [b \in Blocks(c) |->
                [j \in 1 .. Len(c.instrs[b]) + 1 |-> EmptyState]]
  /\ blk' = Entry
  /\ UNCHANGED <<work, computed, k, st, todo, diags>>

\* Mutant of Seed: block ids that start at one too many.
SeedPastEnd ==
  /\ phase = "seed"
  /\ IF blk \in Blocks(cfg)
     THEN /\ work' = IF blk \in reach THEN Append(work, blk + 1) ELSE work
          /\ blk' = blk + 1
          /\ UNCHANGED phase
     ELSE /\ phase' = "fixpoint"
          /\ blk' = NoBlock
          /\ UNCHANGED work
  /\ UNCHANGED <<cfg, reach, computed, ins, outs, fin, k, st, todo, at,
                 diags>>

\* work = deque(sorted(reachable)), block by block.
Seed ==
  /\ phase = "seed"
  /\ IF blk \in Blocks(cfg)
     THEN /\ work' = IF blk \in reach THEN Append(work, blk) ELSE work
          /\ blk' = blk + 1
          /\ UNCHANGED phase
     ELSE /\ phase' = "fixpoint"
          /\ blk' = NoBlock
          /\ UNCHANGED work
  /\ UNCHANGED <<cfg, reach, computed, ins, outs, fin, k, st, todo, at,
                 diags>>

\* bid = work.popleft(); in_states[bid] = in_state_of(bid)
Pop ==
  /\ phase = "fixpoint"
  /\ work # <<>>
  /\ ~ JoinRaises(Head(work))
  /\ LET b == Head(work) IN
       /\ work' = Tail(work)
       /\ ins' = [ins EXCEPT ![b] = InStateOf(b)]
       /\ st' = InStateOf(b)
       /\ at' = [at EXCEPT ![b][1] = InStateOf(b)]
       /\ blk' = b
  /\ k' = 1
  /\ phase' = "transfer"
  /\ UNCHANGED <<cfg, reach, computed, outs, fin, todo, diags>>

\* The AssertionError of `join`.
Raise ==
  /\ phase = "fixpoint"
  /\ work # <<>>
  /\ JoinRaises(Head(work))
  /\ phase' = "raised"
  /\ UNCHANGED <<cfg, reach, work, computed, ins, outs, fin, blk, k, st, todo,
                 at, diags>>

\* One turn of the loop of transfer(): step(ins, st).
Transfer(during, silent) ==
  /\ phase = during
  /\ k \in DOMAIN Instrs(blk)
  /\ LET i == Instrs(blk)[k] IN
       /\ st' = Step(cfg, i, st)
       /\ at' = [at EXCEPT ![blk][k + 1] = Step(cfg, i, st)]
       /\ Err(Reported(Problems(cfg, i, st), blk, k, i.line), silent)
  /\ k' = k + 1
  /\ UNCHANGED <<cfg, phase, reach, work, computed, ins, outs, fin, blk, todo>>

\* Mutant of SilentStep: the fixpoint reports as it goes.
LoudStep == Transfer("transfer", FALSE)

SilentStep == Transfer("transfer", TRUE)

\* Mutant of Store: the first out-state of a block is final.
StoreOnce ==
  /\ phase = "transfer"
  /\ k \notin DOMAIN Instrs(blk)
  /\ IF blk \notin computed
     THEN /\ outs' = [outs EXCEPT ![blk] = st]
          /\ computed' = computed \cup {blk}
          /\ todo' = cfg.succ[blk]
          /\ phase' = "requeue"
     ELSE /\ phase' = "fixpoint"
          /\ UNCHANGED <<outs, computed, todo>>
  /\ UNCHANGED <<cfg, reach, work, ins, fin, blk, k, st, at, diags>>

\* Mutant of Store: the successors are queued whether or not anything is new.
StoreAlways ==
  /\ phase = "transfer"
  /\ k \notin DOMAIN Instrs(blk)
  /\ outs' = [outs EXCEPT ![blk] = st]
  /\ computed' = computed \cup {blk}
  /\ todo' = cfg.succ[blk]
  /\ phase' = "requeue"
  /\ UNCHANGED <<cfg, reach, work, ins, fin, blk, k, st, at, diags>>

\* The block has been transferred: keep a new or changed out-state and go
\* through its successors.
Store ==
  /\ phase = "transfer"
  /\ k \notin DOMAIN Instrs(blk)
  /\ IF blk \notin computed \/ st # outs[blk]
     THEN /\ outs' = [outs EXCEPT ![blk] = st]
          /\ computed' = computed \cup {blk}
          /\ todo' = cfg.succ[blk]
          /\ phase' = "requeue"
     ELSE /\ phase' = "fixpoint"
          /\ UNCHANGED <<outs, computed, todo>>
  /\ UNCHANGED <<cfg, reach, work, ins, fin, blk, k, st, at, diags>>

\* for s in succ: if s in reachable and s not in queued: work.append(s)
Requeue ==
  /\ phase = "requeue"
  /\ IF todo # <<>>
     THEN /\ work' = IF Head(todo) \in reach \ Queued
                     THEN Append(work, Head(todo)) ELSE work
          /\ todo' = Tail(todo)
          /\ UNCHANGED phase
     ELSE /\ phase' = "fixpoint"
          /\ UNCHANGED <<work, todo>>
  /\ UNCHANGED <<cfg, reach, computed, ins, outs, fin, blk, k, st, at, diags>>

\* The worklist is empty: the reporting pass starts.
Converged ==
  /\ phase = "fixpoint"
  /\ work = <<>>
  /\ phase' = "report"
  /\ blk' = Entry
  /\ UNCHANGED <<cfg, reach, work, computed, ins, outs, fin, k, st, todo, at,
                 diags>>

\* for bid in sorted(reachable): transfer(blocks[bid], in_states[bid])
ReportBlock ==
  /\ phase = "report"
  /\ blk \in Blocks(cfg)
  /\ IF blk \in reach
     THEN /\ st' = ins[blk]
          /\ k' = 1
          /\ at' = [at EXCEPT ![blk][1] = ins[blk]]
          /\ phase' = "judge"
          /\ UNCHANGED blk
     ELSE /\ blk' = blk + 1
          /\ UNCHANGED <<st, k, at, phase>>
  /\ UNCHANGED <<cfg, reach, work, computed, ins, outs, fin, todo, diags>>

JudgeStep == Transfer("judge", FALSE)

JudgedBlock ==
  /\ phase = "judge"
  /\ k \notin DOMAIN Instrs(blk)
  /\ fin' = [fin EXCEPT ![blk] = st]
  /\ blk' = blk + 1
  /\ phase' = "report"
  /\ UNCHANGED <<cfg, reach, work, computed, ins, outs, k, st, todo, at,
                 diags>>

StartLeaks ==
  /\ phase = "report"
  /\ blk \notin Blocks(cfg)
  /\ phase' = "leaks"
  /\ blk' = Entry
  /\ UNCHANGED <<cfg, reach, work, computed, ins, outs, fin, k, st, todo, at,
                 diags>>

FallsOffEnd(c, b) ==
  LET n == Len(c.instrs[b])
  IN  c.succ[b] = <<>> /\ ~ (n > 0 /\ c.instrs[b][n].op = "return")

\* last_line(): the block's last instruction, else the function's first.
FirstLine(c) ==
  LET full == {b \in Blocks(c) : c.instrs[b] # <<>>}
  IN  IF full = {} THEN 0
      ELSE c.instrs[CHOOSE b \in full : \A d \in full : b <= d][1].line

LastLine(c, b) ==
  LET n == Len(c.instrs[b])
  IN  IF n > 0 THEN c.instrs[b][n].line ELSE FirstLine(c)

\* leak_check(out_states[bid], "at end of function")
LeakCheck ==
  /\ phase = "leaks"
  /\ blk \in Blocks(cfg)
  /\ blk' = blk + 1
  /\ IF blk \in reach /\ FallsOffEnd(cfg, blk)
     THEN Err(Reported(Leaks(fin[blk], NoSym), blk, Len(Instrs(blk)) + 1,
                       LastLine(cfg, blk)), FALSE)
     ELSE UNCHANGED diags
  /\ UNCHANGED <<cfg, phase, reach, work, computed, ins, outs, fin, k, st, todo,
                 at>>

Finished ==
  /\ phase = "leaks"
  /\ blk \notin Blocks(cfg)
  /\ phase' = "done"
  /\ UNCHANGED <<cfg, reach, work, computed, ins, outs, fin, blk, k, st, todo,
                 at, diags>>

AnalyzerStep ==
  \/ Seed \/ Pop \/ Raise \/ SilentStep \/ Store \/ Requeue \/ Converged
  \/ ReportBlock \/ JudgeStep \/ JudgedBlock \/ StartLeaks \/ LeakCheck
  \/ Finished
=============================================================================
