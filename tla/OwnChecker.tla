----------------------------- MODULE OwnChecker -----------------------------
(***************************************************************************)
(* One function through the checker (ownlang/__main__.py: check_module):   *)
(* build_cfg, then analyze on the graph it returns, whether or not the     *)
(* resolver reported errors; and then a run of the function.               *)
(***************************************************************************)
EXTENDS OwnCfg, OwnRun

allvars == <<bvars, vars>>

CheckerInit == BuilderInit /\ AnalysisInit /\ RunInit

\* build_cfg returns: the builder is dropped, its errors are kept.
Analyze ==
  /\ Complete
  /\ Begin(BuiltCfg)
  /\ berrs' = berrs \cup EndErrors
  /\ blocks' = <<>> /\ scopes' = <<>> /\ syms' = <<>>
  /\ cur' = NoBlock /\ frames' = <<>> /\ stmts' = 0
  /\ UNCHANGED <<header, rvars>>

AnalyzerTurn == AnalyzerStep /\ UNCHANGED <<bvars, rvars>>

CheckerNext ==
  \/ BuilderStep /\ UNCHANGED vars
  \/ Analyze
  \/ AnalyzerTurn
  \/ RunnerStep /\ UNCHANGED bvars

CheckerSpec ==
  CheckerInit /\ [][CheckerNext]_allvars /\ WF_allvars(AnalyzerTurn)

-----------------------------------------------------------------------------
(***************************************************************************)
(* What the analyzer takes for granted about every graph the builder       *)
(* makes, at any nesting of branches, loops, borrows and returns: its      *)
(* instructions refer to symbols that exist and nothing jumps to the       *)
(* entry block (whose predecessors in_state_of ignores); every block is    *)
(* reachable, and has a predecessor with a smaller number, so that the     *)
(* worklist, which starts sorted, never meets a block no predecessor of    *)
(* which has been computed (the `return State()` of in_state_of); and at   *)
(* most one block falls off the end of the function.                       *)
(***************************************************************************)
GraphSound ==
  phase = "seed" =>
    /\ WellFormed(cfg)
    /\ reach = Blocks(cfg)
    /\ \A b \in Blocks(cfg) \ {Entry} : \E p \in Preds(cfg, b) : p < b
    /\ Cardinality({b \in Blocks(cfg) : FallsOffEnd(cfg, b)}) <= 1

(***************************************************************************)
(* In a function without resolver errors every handle has an obligation    *)
(* by the time a path uses it: the default of `var.get(rid, {OWNED})`      *)
(* never invents a resource.                                               *)
(***************************************************************************)
BoundBeforeUse == berrs = {} => mode # "stuck"

(***************************************************************************)
(* ast_nodes.py: a borrow_mut parameter is a temporary EXCLUSIVE loan for  *)
(* the call, so the same resource passed twice to one call, once as        *)
(* borrow_mut, is reported.                                                *)
(***************************************************************************)
SameCall(b, j, l) ==
  /\ {cfg.instrs[b][j].op, cfg.instrs[b][l].op} = {"arg"}
  /\ cfg.instrs[b][j].line = cfg.instrs[b][l].line

ExclusiveForCall ==
  phase = "done" =>
    \A b \in Blocks(cfg) : \A j, l \in DOMAIN cfg.instrs[b] :
      LET x == cfg.instrs[b][j]
          y == cfg.instrs[b][l]
      IN  (/\ j # l /\ SameCall(b, j, l)
           /\ cfg.syms[x.sym].kind = "owned" /\ cfg.syms[y.sym].kind = "owned"
           /\ RidOf(at[b][j], x.sym) = RidOf(at[b][l], y.sym)
           /\ x.eff = "borrow_mut" /\ y.eff # "plain")
          => \E d \in DOMAIN diags : d.line = x.line
=============================================================================
