# Own.NET: models and proofs

This directory is a TLA+ development of Own.NET's checker: modules that model
the code, TLC configurations that check them on small instances, and proofs
checked by TLAPS. Paths below are relative to the repository.

Contents: [the system](#the-system) - [modules and code](#modules-and-code) -
[runs](#runs) - [fairness](#fairness) - [proofs](#proofs) -
[findings](#findings) - [what is not modelled](#what-is-not-modelled) -
[plan](#plan) - [how to run](#how-to-run)

## The system

Own.NET finds ownership errors (leaks, double releases, uses after a move,
conflicting borrows) in C# and in its own small language, and repairs one kind
of them. The Python package `ownlang` is the reference; a Rust port is compared
with it run by run.

```
 .own source --lexer, parser--> AST -----------+
                                               v
 C# --Roslyn extractor--> OwnIR facts --bridge--> module --cfg.py--> CFG --analysis.py--> diagnostics
                              |
                              +--> effects.py, ownership.py, heap_effects.py,
                              |    obligations.py, lifetimes.py, di.py --> diagnostics
                              |
                              +--> fix_candidates -> fix_plan -> fix_apply/fix_bundle --> patch bundle
                                                                 |  ^
                                                                 v  |
                                                            C# rewriter (own process)

 patch bundle --fix_gate--> gate --fix_delta--> delta --fix_target--> target --fix_certify--> certificate
```

| component | state | operations | what must be right |
|---|---|---|---|
| CFG builder, `cfg.py` | scopes, symbols, blocks under construction, errors | lower each statement, declare, look up, open and close branches, loops and borrows | the graph has the shape the analyzer assumes; the storage of a buffer follows its value |
| ownership analysis, `analysis.py` | deque of blocks, in- and out-states, diagnostics | `reachable`, `in_state_of`, `join`, `step`, `fixpoint`, `run`, `leak_check` | converges; reports once, on the fixpoint; misses no fault or leak of any path; is definite only when every path is |
| module checker, `__main__.py` | none | per function: build, then analyze whatever the builder said | a broken function does not make the analyzer lie or raise |
| OwnIR bridge, `ownir.py` | skeletons, summaries, the map from names to handles | infer skeletons and effects, solve, hoist, end trackings, lower each body | a summary promises no more than every run does; the lowered body says of each object what happens to it |
| transfer summaries (MOS), `ownership.py` | summary table per component of the call graph | condensation, least fixpoint, forwarded returns | least and sound summaries, in whatever order the table comes |
| heap effects, `heap_effects.py` | effect summaries | iterate per component, judge a call site | ends; a call admitted as harmless is |
| effect storms, `effects.py` | memo, resolution stack | resolve a binding through its references, judge the dependencies | ends on cycles; a storm exactly when a fresh identity reaches a dependency |
| protocol walker, `obligations.py` | state of an obligation, silence | walk the event tree, solve loops silently | converges; each crossing of a barrier reported once, definite only if it is |
| region lifetimes, `lifetimes.py` | the declared order | closure, four diagnostics | exactly the closure; cycles end |
| DI checks, `di.py` | registrations, stacks and visited sets | five searches, DI001 to DI005 | each captive found through any chain, and the chain is real |
| patch bundle, `fix_bundle.py`, `fix_apply.py`, the C# rewriter | files | gate, claim, rewrite, stage, rename, clean up | a bundle is exact for its plan or does not exist, whoever else runs |
| verification of a fix, `fix_gate.py`, `fix_delta.py`, `fix_target.py`, `fix_certify.py` | files: the bundle, four pieces of evidence | read, bind, analyze, try, read again, publish | evidence is about one attempt and true of it |
| lexer, parser, renderings, code generator | none that is read again | text in, text out | - |
| frontends, audit, `sandboy`, scripts | files, processes | extract facts, run tools, confine a command | - |

How they interact. Inside one process everything is a sequential call: the hard
behaviours there are orders that nobody wrote down (which block the worklist
takes next, which dependency a query asks first, in which order methods are
summarised), loops that must converge, and summaries computed in one place and
trusted in another. The fix pipeline is the concurrent part: several processes,
a child process, and inputs that anybody may save again share one file system,
and any of them may fail or be killed between two accesses.

## Modules and code

### The ownership checker

`OwnDomain` <- `OwnAnalysis` <- `OwnRun` <- `OwnInvariants`; `OwnCfg` beside
them; `OwnChecker` composes `OwnCfg` with `OwnRun`; `OwnBuilderInvariants` and
`OwnBindings` extend `OwnChecker`.

* **OwnDomain** - the abstract state of `analysis.py` and everything that is a
  function of it: `JoinAll` (`join`, `_join_sites`), `Step` (the state part of
  `step`), `Problems` (the diagnostics part of `step`, with `_state_problem`,
  `_consume_like`, `_apply_effect`, `leak_check`). A symbol is its declaration
  number; an obligation (`RID`) is the symbol that minted it; dictionaries are
  total functions with a value for "no entry". An `Invoke` is unrolled into one
  instruction per argument, as the loop over `ins.args` runs.
* **OwnAnalysis** - `_Analyzer` as a state machine, one step per instruction
  transferred: `Seed`, `Pop`, `Raise`, `SilentStep`, `Store`, `Requeue` are
  `fixpoint`; `Converged`, `ReportBlock`, `JudgeStep`, `JudgedBlock`,
  `StartLeaks`, `LeakCheck`, `Finished` are `run`. `at` is a history variable,
  the state before each instruction. `Raise` is the `AssertionError` of `join`.
  Diagnostics are a bag, so that one reported twice is seen.
* **OwnRun** - what the diagnostics are claims about: once the analyzer is done
  a path is taken through the graph, any number of times round a loop, with one
  state per obligation where the analyzer has a set. It records faults, leaks
  and lost obligations. This semantics is not code of the repository: it is
  the C# that the graph stands for, and is marked external.
* **OwnCfg** - `_Builder` of `cfg.py`, one action per statement form, with its
  scopes, its stack of open blocks and its errors. The statements come from the
  environment: TLC builds every function that a header (parameters, return
  type, names, callees, forms, bounds) allows, in the order the parser would
  deliver it. `OwnSignature` is `collect_signatures`, for the recursive call.
* **OwnChecker** - `check_module` for one function: build, then analyze also
  when the builder reported errors (that is what the code does), then a run.
* **OwnInvariants**, **OwnBuilderInvariants**, **OwnBindings** - the inductive
  invariants of analyzer and run, of the builder, and of what the text says of
  its handles, in named parts.

### From facts to the core

`Mos` <- `Bridge`, beside `OwnDomain`.

* **Bridge** - a document of OwnIR facts from end to end. `Skeletons` is
  `_build_skeletons` with its helpers (`WalkRelease`, `DefiniteRelease`,
  `Handoffs`, `Straight`, `PathsOf`, `ReturnOf`); the solver is that of `Mos`;
  `Handed`, `Marked`, `Untracked` say whose tracking a call ends
  (`_unverified_transfer_calls`, `_kill_sites_for_unverified`); `Hoisted` is
  `_hoisted_branch_locals`; `LowerAll` is `_lower_flow`, one operator per
  operation; `Lower` gives each method the instructions of the core. Then a run
  of the program, on real objects: every method call, branch and turn of a loop,
  and beside it the abstract state the core has at that point of the lowered
  body (`OwnDomain!Step`, on one path, where no join blurs it).
* The input assumptions, which the extractor's facts satisfy: parameters are
  not written to, an object is passed under one name per call, a method returns
  only what it has made, and no name is mentioned before it is bound. Left out:
  overloads and their signature keys, explicit `effect` parameters, exclusive
  regions and `overspan`, moves and mutable borrows, subscriptions and captures,
  the advisories OWN051/OWN052, the wording of findings.

### Transfer summaries

`Sccs` and `Mos` <- `MosRun`; `Summaries` composes both.

* **Sccs** - `_sccs` of `ownership.py`, Tarjan's algorithm with its explicit
  stack of walks; a step per callee looked at, a component emitted per `Finish`.
* **Mos** - `solve_with_log`: `Take`, `Evaluate`, `Again`, `Settle` iterate one
  component after another, `Ask`, `Follow`, `HandBack` are `resolve_return`. The
  paths of a parameter are a set and the members of a component are swept in any
  order; the fold of `join` does not mind (`JoinFolds`, which TLC evaluates).
* **MosRun** - what a summary claims: a call, which takes a path of its
  parameter, enters callees, and ends with the argument gone or kept. External,
  like `OwnRun`. Its `Spec` solves any list of components.
* **Summaries** - the call graph, its components from `Sccs`, the solver on
  them, and a call. `CondensationRefines`: what Tarjan's algorithm emits makes
  the whole an instance of `MosRun!Spec`, the solver on any list of components.

### The analyses beside the core

`check_facts` asks one document five more questions, one after the other:
**Facts** composes the five modules in that order, with the refusal after the
first, and the empty input for a part that is absent.

* **HeapEffects** - `_evaluate` (`Roots`, `Marks`, `Writes`, `Returned`), the
  evaluation of each component again and again, `harmless`, `site_verdict`, and
  `_admit_proven_calls`. Components come in a dependency order; the algorithm
  that finds them is the one of `Sccs`.
* **Lifetimes** - `_strictly_longer` for each region, with its stack and set,
  then `check_lifetimes` and `_check_fn`.
* **DiGraph** - the five searches of `di.py`. Each has a stack, a visited set
  and the path so far; `DI001` and `DI003` judge on the edge, one step per edge,
  the others when a service is taken from the stack, as in the code.
* **EffectStability** - `_Lattice` and `find_effect_storms` for one effect. The
  recursion of `_resolve` and `_classify` is an explicit stack; `ret` is the
  value being returned. The memo survives from one dependency to the next.
* **Obligations** - `check_protocols`: one step per event, `nest` is the
  recursion of `walk` and `walk_seq`, with the branches and the loops (and
  whether they are still solved silently) the walk is inside of.
* **ProtocolRuns** - the runs of a method, which take a branch either way and a
  loop any number of times, as a set computed from the tree. External.

### The fix pipeline

`BundleStore`; `ApplyBundle` and `FixDelta` <- `FixChain`.

**BundleStore** is the promise: an output directory that is absent, or holds one
whole bundle exact for one plan, for good; a run that returns published it, one
that refuses did not. **ApplyBundle** is `apply_bundle` (`fix_bundle.py`) with
its gate (`fix_apply.py`) and the rewriter process (`Owen.CSharp.Rewriter`),
each access to the file system a step of its own, any number of runs on one
output directory. Contents are records that name what they were made from (a
postimage is made from a plan and a source); two contents have one hash only if
they are equal. `Replace`, `Kill`, `Fail` and a removal that fails (`Left`) are
the environment, each counted by `mishaps`. A killed run takes its rewriter with
it, and a stale work directory is swept only when its run is over. Two variables
are there for the properties alone: `mishaps`, and `unremoved`, which remembers
the run whose removal of the work directory failed (`rmtree` ignores it), as
nothing on disk tells it from one that never tried.

**FixDelta** is the analyzer delta as a function: a file is seen through its
subscriptions, by position; a finding id is an identity and an occurrence
number (`finding_id`), an observation a printed key and a shape.
`Verdict` is `classify_delta`, question by question in its order, and
`Representable` what the certification recomputes of it from the evidence
alone. `AsPlanned` is the reference, in terms of positions: the conversions of
the plan happened, and nothing else.

**FixChain** is the chain of four programs behind a published bundle. Each is a
script of instructions - read a file, check what was read, read a file again,
try the wrapper - that ends in one rename; `GateScript`, `DeltaScript`,
`TargetScript` and `CertifyScript` give the order of `run_gate`,
`run_verify_delta`, `run_verify_target` and `run_certify`. What a check asks is
an operator of its own. Evidence is a record of the contents it is about (the
hashes in it). Between any two instructions `ReplaceInput` saves another plan,
source or candidates, `ReplaceTools` changes the reference directories or the
runtime, `Exchange` puts the genuine artifact of another attempt in place, and
`StopStep` ends the program; all are counted by `mishaps`. `Applying` is the
whole of `ApplyBundle`, and `HandOver` starts the chain on what it published. A
world says what the opaque names stand for: which sites a source has, what a
plan converts, what its postimage looks like, how the wrapper behaves. Left
out: the shapes of the JSON, paths and layouts, private work directories and
their removal, the throwaway repository, the binding of call sites and of the
wrapper's ordinal; OWN050 is a count instead of a multiset.

## Runs

Instances are in the `MC*` modules. Every bound is a constant, a field of a
header or a set of inputs, and each run is exhaustive within them.

| run | asks | bounds |
|---|---|---|
| `loops` | The worklist converges and stops (`Terminates`), the report stands on the fixpoint and says each thing once (`ReportsOnFixpoint`), an obligation overwritten by the next turn is reported (`OverwritesDiagnosed`); `TypeOK`. | 1 name, 2 symbols, 4 statements, depth 2: a loop in a loop, a branch in a loop, a loop after one |
| `paths` | Whatever the path, the judged state covers it (`StateCovered`), each fault and leak has its diagnostic (`FaultsDiagnosed`, `LeaksDiagnosed`), a definite code is right on every path (`DefiniteMeansEveryPath`). | two handles on one obligation, 5 statements; moves and early returns, 4 statements; calls of every effect, 3 statements; 4 symbols |
| `lowering` | The graph is what the analyzer assumes (`GraphSound`), merges never raise (`NeverRaises`), no handle is used unbound (`BoundBeforeUse`), stack memory stays (`StackStaysHome`). | every nesting of blocks, depth 2, 4 statements; buffers, 4; one resolver error, 3, under 8 headers |
| `summaries` | Components come bottom-up (`BottomUp`), summaries are the least fixpoint in whatever order the table comes (`SummariesLeast`) and sound for every call (`TransferSound`), iterates only rise (`OnlyRises`), a forwarded return is what its chain ends with (`ReturnsExact`), what leaves the table is logged and nothing else (`LogComplete`), the whole refines the solver on any list (`CondensationRefines`), the solver ends (`SummariesEnd`). | all tables of 3 methods, 1 parameter, up to 2 paths; all forwards of 3 returns; missing, undisposable and external targets; 2 orders of the table |
| `bridge` | No summary promises a transfer that some run of the method does not make (`TransfersHold`); on every run of a body as the lowering assumes, the core's verdict on the lowered body is what happened to the objects (`LoweringExact`); a name overwritten in a branch hides no leak (`OverwrittenLeaks`), and no early return meets a hoisted name that has no object yet (`HoistInventsNoLeak`). | 6 families of documents of 3 methods: chains and rings of 2, swapped parameters, straight bodies of 3 operations, branches and loops with arms of 2, nested ones, forwarded returns; 2 turns of a loop, 3 open calls, 6 symbols; any order of components |
| `facts` | A call admitted as harmless is (`ProvenCallsHarmless`); escapes, captives and storms are exactly those of a declarative definition over all paths (`EscapesExact`, `CaptivesExact`, `StormExact`) and their evidence is real (`EvidenceIsReal`); a violation is reported, once, for exactly the crossings of some run (`CrossingsReported`), and a definite one is certain (`DefiniteCrossing`); `check_facts` ends (`FactsEnd`). | 3 methods with every effect on one parameter; 3 region declarations with repeats, cycles and strangers; 5 services with 2 transients in cycles and a second registration; all tables of 3 bindings with up to 2 references; trees of 4 events in 3 nestings of loops and branches, 2 protocols |
| `pipeline` | The bundle: `StoreRefined`, `OwnWorkdir`, `NoStaleWorkdir` (only a kill, or a removal that fails, leaves a work directory), `NotAllLose` (contention alone never makes every run lose), `RunsEnd`. The chain: published evidence is what one undisturbed attempt makes and deserves (`EvidenceOfOneAttempt`), the steps that read their inputs again publish of files that were there together (`AtOneMoment`), and what deserves a certificate gets one (`CertifiedWhenTrue`). | 2 runs of `apply_bundle`, 3 plans, 2 sources, 2 closures, 2 runtimes, 2 mishaps over the whole pipeline; worlds of 6 sites with twins, shared keys and unfixable ones: every selection, choice of conversions and outcome |
| `return`, `exclusive`, `movesite`, `heaploop`, `handoff` | The [findings](#findings). | the smallest inputs that show them |

What `LoweringExact` assumes of a run (`AsAssumed`) leaves out the hard half of
two mechanisms, which have properties of their own. A hoisted name is assumed to
get exactly one object: `HoistInventsNoLeak` says of every run that returns early
that it has one by then, or returns that name, so the hoisted acquire is not
charged to a path that never made an object (the guard `_branch_hoist_safe`);
that two may be made is [observed](#findings) below. No name is assumed to be
overwritten in a branch: there the map forgets the handle for the other paths
too, so a verdict may be too strict, but `OverwrittenLeaks` says it is not too
lenient, as long as no loop comes back. In the documents the body of a callee
varies only where the caller calls it: elsewhere it cannot change the run.

Why the bounds are enough to be worth the run: a disagreement between two paths
needs one branch, one between turns of a loop two turns (paths are not bounded
in the ownership checker, only programs are), one between two handles two names
and an alias, and each bound leaves one more statement than the shortest such
program. A component of the call graph with more than two members adds no new
way to depend on an iterate. Two mishaps are a replaced input together with a
failure, a kill or a second replacement - a change and the change back, or an
exchange of one artifact after another; two runs are the contention, and the
proofs remove both bounds. Three bounds of `pipeline` are chosen to keep it
small: the chain starts only from an application that nothing disturbed (what a
disturbed one leaves is the same bundle or none, by `StoreRefined`); where
inputs are replaced all worlds are good, and where they are not every outcome
is tried; and a rival attempt differs from the present one in one respect, its
plan, its closure or its runtime. `AtOneMoment` lets a file escape that was
changed and put back between two reads, which no reader can see.

`Symmetry` permutes the two names in `paths` and `lowering`, which check
invariants only; the builder compares names and nothing else, and symbols are
numbered by declaration, so permuted names give the same graph. Deadlock is not
checked: a function that has been checked, a search that has ended, runs that
are over and a chain that has refused or published have no next step.

Each property of a passing run has a mutant, a definition placed before the one
it mutates (`JoinAllOnePath` before `JoinAll`): a plausible bug in the code the
definition models, which makes TLC report that property. Trying further ones
showed which checks of the delta stand for each other: in these worlds dropping
`NothingNew`, the clause about undeclared ids or `Reproduced` alone changes no
outcome, as the remaining equations imply them, and the IDEMPOTENCE verdict of
`classify_delta` cannot be reached.

## Fairness

* `WF(AnalyzerTurn)`, and in `OwnRun` `WF(AnalyzerStep)`: `analyze` is a
  sequential loop, and while it has a step to take nothing but the interpreter
  decides when. The builder and the run have no fairness: a parser may deliver
  no further statement and a run may stay in a loop. `Terminates` speaks of the
  analyzer only.
* `WF(FactsNext)` in `Facts`, `WF(HeNext)` in `MCHeapLoop`: `check_facts` is
  sequential code, in which some step is always possible until it reports or
  refuses.
* `WF` of the solver, and in `Summaries` of the condensation before it:
  sequential code, which evaluates one parameter after the other. A call has no
  fairness and may recurse for ever. `Bridge` states no fairness and no
  liveness.
* `WF(Step(r))` for each run in `ApplyBundle`: the operating system schedules
  each process, and the rewriter (straight-line code) ends. Weak is enough, as
  no step of a run waits for another. `Fail`, `Kill`, `Replace` and `Sweep` have
  no fairness: they need not happen.
* `FixChain` has the same for each run, and `WF(ChainStep)`: the four programs
  are straight-line code whose child processes are killed after a timeout. The
  operator's `HandOver` and everything that disturbs a step have none.

## Proofs

| module | proves |
|---|---|
| `OwnAnalysisProofs` | types of the operators of the domain; `JoinBelow`: a join is above each state joined; one step of a run is covered by the abstract step (`StepCovers`); a fault of a covered run is a problem (`GoneReported`, `LoanReported`); **`TypeCorrect`**: `Spec => []TypeOK`; **`Invariant`**, and from it **`Soundness`**, **`EveryFaultDiagnosed`**, **`EveryLeakDiagnosed`**, **`DefiniteIsCertain`**, **`FixpointIsReported`**, **`LeaksAreReal`** |
| `OwnCheckerProofs` | of `CheckerSpec`: **`CheckerInvariant`**, **`GraphsAreSound`**, and the theorems above for whatever function is built: **`CheckerTypes`**, **`CheckerSound`**, **`CheckerIsCertain`**, **`CheckerLeaksAreReal`**, **`CheckerReportsOnFixpoint`** |
| `OwnBindingProofs` | every statement of the builder keeps an annotation of the text (`BuilderNotedStep`), the graph it returns carries it (`GraphNoted`), analyzer and run agree with it: of `CheckerSpec`, **`BindingInvariant`**, **`MergesAgree`**, **`HandlesAreBound`**, **`StackBuffersStay`** |
| `SummariesProofs` | of the solver alone (`MosRun!Spec`): `SolverInvariant`, **`TransfersAreSound`**, **`IteratesRise`**; of `SummariesSpec`: **`SummariesInvariant`**, **`ComponentsBottomUp`**, **`SummariesAreLeast`**, **`ReturnsAreExact`**, **`LogIsComplete`**, **`SummariesAreSound`**, **`SweepsRise`**; **`CondensationImplements`**: its steps are those of `MosRun` |
| `DiGraphProofs` | every step of the five searches keeps `DiInv` (`DiNextInv`), and `DiInv` says what is reported (`DiInvProves`) |
| `FactsProofs` | the same for the lifetimes (`LtInv`) and the effects (`EffInv`); of `FactsSpec`: **`FactsInvariant`**, **`LifetimesExact`**, **`StormsExact`**, **`EveryCaptiveReported`**, **`EvidenceReal`** |
| `ApplyBundleProofs` | **`BundleInvariant`**, **`WorkdirIsOwned`**, **`WorkdirIsRemoved`**, **`ImplementsStore`**: `Spec => StoreRefined` |
| `FixChainProofs` | ids name subscriptions (`OneId`), what a verdict says of them (`VerdictTells`, `RepresentableTells`), what the scripts read and check (`LastRead`, `SamePlace`, `ScriptShaped`); of `ChainSpec`: **`EvidenceAtOneMoment`**, **`EvidenceIsOfOneAttempt`**, and of the application inside it **`ChainKeepsStore`**, **`ChainKeepsWorkdirs`** |

Assumptions. `MaxSyms` is a positive natural, and the theorems about `OwnRun!Spec`
take graphs that are well formed (`CfgsAssumption`: instructions refer to symbols
that exist, nothing jumps to the entry block), of any number, size and shape. The
theorems about `CheckerSpec` do not: the graphs there are the builder's, and
`GraphsAreSound` proves them well formed. They assume what `OwnCfg` says of its
constants: the parameters of a header are a sequence and fit in `MaxSyms`
(`HeadersAssumption`), types are strings (`TypesAssumption`), and a
signature is a sequence of effects (`SignaturesAssumption`). The bundle theorems assume that each plan is made
from a source, and that `MaxMishaps` is a natural, however large. The theorems
about the solver alone assume nothing: any table, any list of components that
has each method once. Those about `SummariesSpec` assume that a table comes in
some order (finite, so that the walk has a number for each method) and that
methods are numbers (`KeyOrdersAssumption`); that the list of components is as
the solver wants it is proved. Those about `FactsSpec` assume that the names of
the bindings are not those of plain values or expressions, and that the word for
"no name" is none of them (`NamesAssumption`), and that registrations are lists
of services (`RegistrationsAssumption`); regions, tables and registrations are
otherwise any, of any size. `EvidenceAtOneMoment` assumes nothing beyond the
bundle theorems. `EvidenceIsOfOneAttempt` assumes that the sites of a file are
finitely many positions (`SitesAssumption`), and that what is selected was
eligible in its source, and what is converted was selected
(`WorldAssumption`, part of what `validate_gate_authority` and the collection
of candidates establish); identities, keys, shapes, closures, worlds and the
number of mishaps are any.

**The analyzer.** What is wanted is `StateCovered`: the run's state is covered
by `at[rb][rk]`, the state its next instruction was judged on. It is not
inductive: when the run jumps to a successor, it needs the analyzer's out-state
to have arrived there, and that depends on how the worklist got to where it
stopped. `FixInv` says it while the worklist runs:

* `ChainInv`, `CurrentInv`: the states kept for a block follow from its
  in-state, instruction by instruction, and end in its out-state;
* `EntryInv`: the entry block starts from the parameters;
* `SeededInv`: a reachable block has been computed, is queued, or is in hand;
* `EdgeInv`: what a block has sent out has arrived at each successor, unless
  the successor is queued, or about to be. `JoinBelow` carries it over a `Pop`.

When the worklist is empty nothing is queued and `EdgeInv` is the fixpoint.
`VerdictInv` is the reporting pass: each problem of an instruction already
judged is in the bag (`JudgedInv`), the leak checks read the state at the end of
their block (`LeakInv`), and nothing else is in the bag (`OnlyInv`). `RunInv`
joins both with the run. `DefiniteIsCertain` follows from `OnlyInv` and
coverage: a definite problem means that OWNED is not in the abstract set, so it
is not the state of the run. `AgreeInv` sharpens `EdgeInv` from below to equal,
which gives `FixpointIsReported`; `PlacedInv` (each diagnostic lies behind the
cursor of the reporting pass) says that nothing is appended twice; `OriginInv`
says that what is OWNED in some state was minted by the text.

**The builder.** That a graph is sound is a fact about the end of `build()`;
`OwnBuilderInvariants` says what is true between any two statements. `SymbolsOk`:
the scopes name symbols that exist. `FramesOk`: each open statement has a block
to go on from that no other shares. `GraphOk`: every jump is to a block that
exists and not to the entry; every other block is jumped to from one with a
smaller number; a block that goes nowhere is open or returns. When no statement
is open only the current block is, and this is `GraphSound` (`BuiltSound`).
Steps that neither build nor analyze leave it alone, and `Analyze` starts the
analyzer on a well-formed graph, so that the invariant of the analyzer, which is
proved for any well-formed graph (`AnyNext`), carries over.

**What the text says of its handles.** `join` asserts that the paths that meet
agree about the handles and the loans. The states of the analyzer do not say why
they do: two unrelated paths agree because the same text lies before them. So
`OwnBindings` puts the reason into words: an annotation `A` of the graph gives
each handle the obligation it stands for wherever it stands for one (`obl`), and
each instruction the handles bound and the loans open before it (`here`,
`loans`). `Noted` says that it fits the text: instructions and jumps lead from
one annotation to the next. `BuilderNoted` is what the builder has in hand for
it: the handles visible in the scopes and the loans of the statements still open
are those of the block that goes on (`GoesOn`). `BindingInv` says that SOME
annotation fits; each statement of the builder extends it, and none is ever
revised. The analyzer's states stand as noted (`StatesFit`), so what meets at a
merge agrees (`JoinFits`). `InOrder` (blocks are computed for the first time in
the order of their numbers) excludes the one state that would not fit, the empty
one of a block none of whose predecessors has been computed. In the run
(`RunFits`) a handle in place has its obligation, so no path gets stuck, and the
storage of an obligation is the one its handle was declared with, so that the
check of the handle's declaration (`stack_backed`) is a check of the memory.

**The bundle.** `OwnWorkdir` is inductive by itself, given the types: only
`os.makedirs` on an absent directory claims it. Whoever holds it is at work in
it, was killed, or could not remove it (`Attended`): a step that fails after the
claim sends its run to the cleanup, and the cleanup of a run takes the directory
away, since by `OwnWorkdir` it is its own (`WorkdirIsRemoved`). The refinement
needs in addition what each run knows at each step: past the gate its candidates
are the plan's (`MineOk`), a report on disk is the work of a rewriter that
checked its inputs (`RwOk`, `ReportOk`), what is staged follows from what was
read (`StagingOk`, undisturbed by `OwnWorkdir`), and who has published is who
says so (`ResultOk`). Then the rename is `Store!Publish`, the last step of a run
is `Store!End`, and everything else stutters.

**The summaries.** `TransferSound` speaks of the end of a call, and a call goes
through many parameters. `RunCovered` says that where it stands the verdict is
below the one it is about, which needs every final verdict to be above what its
paths say of their callees (`Covered`). A component settles when a sweep changed
nothing: each iterate is what its paths say then (`Swept`), and a join is above
each of them (`JoinAllUpper`). One thing breaks the order: "no evidence" becomes
"no" when it settles, after callers in the component have read it as nothing.
Such a parameter only forwards to others like it (`SettleBarren`), so a call
that enters it never ends (`Barren`). Where the code says that lookups past the
order of components cannot happen, the proof does not need it: they answer
`unknown`, which is above everything. `Rising` (no iterate is above what its
paths say) gives `IteratesRise`, as what the paths say is monotone
(`TransferRises`).

**The condensation.** `SccsInv` is Tarjan's argument for the walk with its
explicit stack. The stack is in the order of the numbers; a method whose walk is
open reaches all that is above it, and whatever is on the stack reaches an open
walk below it (`Reaching`). The low link of an open walk is the number of
something it reaches (`LowReal`), and no edge looked at so far from it, or from
what lies between it and the next open walk, leads to a lower number that is on
the stack (`LowSeen`). So when a walk ends with its own number, no path leaves
what is above it except into components that are out (`PoppedClosed`), and what
is popped is exactly what reaches it and is reached by it (`PoppedWhole`); and
when it ends with a lower one, it reaches an open walk below. Everything emitted
is whole and after what it depends on (`Whole`): `BottomUp`.

**Least verdicts.** `InOrder` says that the solver has done a prefix of what the
walk emitted, so that a member of the component in hand forwards into it or to a
verdict that is final (`Grounded`), never past the table. `Sum` is the join of
what a parameter meets by forwarding inside the component any number of times.
No iterate goes above it (`Below`): the meets of a callee in the component are
among its own (`SumForward`). And once a sweep has changed nothing, no iterate is
below: the parameters whose iterate is below the one in hand are closed under
forwarding (`FixpointAbove`). Final verdicts stay as they are (`SameLeast`), so
each is `LeastOf` its component, whose set is the one of the walk.

**Returns and log.** While a chain is followed, everything on the path forwards
to the next of it (`Passing`) and ends where the hop ends (`SameEnds`); what is
handed back is what the chain of each says (`Exact`), memo or not. `Logged` says
which crossings have been met, path by path and return by return.

**The searches of `check_facts`.** Three analyses walk a graph with cycles and
promise exactly what a declarative definition over all paths says; each reference
is a least closed set, so that "reaches" is a statement about sets that contain
something and are closed under a step, and the proof is about the set the search
has built. For the lifetimes, `LtInv` says of a region whose search is over that
what it found is its chains, and of the one being searched that whatever follows
from what was found is found or on the stack (`Exploring`). For the services,
`DiInv` says the same of the five searches (`DiCovered`: nothing hangs on a
followed transient but what is handled or on a stack), but for the names a
search keeps out on purpose: what was visited was wanted only if it was reported
(`DiFollowed`), which is why cutting a path at a visited transient loses no
captive. `DiTrails` says what a path on a stack is: real edges, through
transients visited before, without a turn. It is needed in two forms, as the
edge searches mark a transient when they see it and the others when they take
it. `DiPast` keeps what finished searches have reported; DI005, which stops at
the first scoped service of each cached type, has `DiCachedDone`.

For the effects the memo is the difficulty: a name met while it is open counts
as steady, and what is memoised meanwhile may be wrong about its own fixpoint
(see [findings](#findings)). `EffInv` says what is true instead. What is
memoised as anything but unstable is not fresh itself and refers only to names
that are unbound, open or memoised (`Memory`, `Settled`); what is memoised as
unstable has a real path (`Proven`) and is `Hot`: the query at work carries it
to its own dependency, which is diagnosed at once. So when a dependency is found
steady nothing is open, and the memoised names are a closed set without a fresh
one, which holds everything the dependency reaches. The three invariants hold
side by side (`FactsInv`), as a step of one analysis leaves the others alone.

**The chain.** `AtOneMoment` is about the whole history of a step: the files it
publishes of were there together, at one of the moments since it last read
something new or tried the wrapper. `ChainInv` follows the script: every file
read again since then (`Fresh`) had the contents in hand at one of those moments
(`Witnessed`), and the last moment is the present. At the end all that is
published of is `Fresh`, because of the order of the scripts (`Relooked`, which
is proved of their text: everything watched is read again after the last
reading or trial); a file that was there at a later moment and was not put back
was there at the first. The script of the target check depends on the plan,
which its first instruction reads; `SamePlace` says that the script does not
change under the step that reads it.

`EvidenceOfOneAttempt` says of a published file what was true when its author
had read other files, one by one, any of which may have been replaced since.
Three things carry it:

* `FilesInv`: whatever is in a file that is there is genuine, though perhaps not
  of the attempt at hand: a manifest is that of some plan, a piece of evidence is
  what some attempt makes and deserves. The patch and the postimage may be
  anybody's.
* `HeldInv`: what the step has read so far is right in that sense, each check it
  has passed still holds of what is in its hands, and each trial was made with
  the closure it has read. It survives an instruction because of the order of the
  scripts (`Shaped`, proved of the text of all four): what a check looks at is
  read before the check and never after it, and the closure is read before the
  first trial. A second reading changes nothing in hand.
* At the end of a script all that the evidence is about has been read and checked
  (`Does`), and `GateTells`, `DeltaTells`, `TargetTells` and `CertTells` find the
  one attempt: its plan is the one read, its closure and runtime those the delta
  was bound to, and the contents follow.

That the attempt deserves it is a fact about `classify_delta`: the equations
between sets of finding ids, and the multiset of observations lost, say that
the conversions of the plan happened and nothing else. An id is an identity and a
place among its twins; the places of a finite set of positions are numbered
without gaps (`PlacesFilled`), so ids name subscriptions (`OneId`), and the ids
that are gone are those of the last twins (`VerdictTells`). The certification asks
the same from the evidence alone, which excludes shared keys besides
(`RepresentableTells`).

The theorems about `ApplyBundle` speak of its `Spec`. Every step of the chain
leaves the state of the application alone or is a step its environment may take
(`ChainMoves`), so `IInv` and the refinement hold in `ChainSpec` as well.

Only model-checked: liveness (`Terminates`, `RunsEnd`, `SummariesEnd`,
`FactsEnd`, `NotAllLose`, `CertifiedWhenTrue`), which is out of the prover's
reach, and with it the fairness half of `CondensationRefines`;
`OverwritesDiagnosed`, which needs to know of a loop what no state of the
analyzer keeps; `ProvenCallsHarmless`, whose reference is an iteration to a
bound. What a recursive definition computes for every input is out of reach
too, and with it `CrossingsReported` and `DefiniteCrossing` (trees of events and
all their runs) and `TransfersHold`, `LoweringExact`, `OverwrittenLeaks` and
`HoistInventsNoLeak` (bodies of facts).

## Findings

Where the models and the repository's own words disagree; each is a run that
ends in a counterexample.

1. `ReturnsChecked` (`analysis.py:590`): `return` does not go through
   `_state_problem`, so returning what was released or moved on some path only
   gets no diagnostic, while `README.md:586` says each operation asks whether it
   is safe on all paths.
2. `ExclusiveForCall` (`analysis.py:696`): one call may take a resource twice,
   once as `borrow_mut`; `ast_nodes.py:27` calls that loan exclusive.
3. `ExactMoveSite` (`analysis.py:487`): a move of what is only maybe moved
   overwrites its site with an "exact" one; `analysis.py:103` defines exact as
   the same line on every path.
4. `EvaluationEnds` (`heap_effects.py:433`): a return set that may be unknown
   forgets the parameters it aliased, which lowers effects again; three methods
   in a ring make the evaluation go round for ever, while
   `heap_effects.py:293` calls the transfer function monotone.
5. `HandoffSilent` (`ownir.py:3076`): after the tracking of a name has ended, a
   direct call that takes it names it in the emitted code; the core reports
   OWN030 and the whole document is refused. `spec/Inference.md:243` says an
   untracked name is never referenced in emitted code.

Observed while modelling, without a run:

* A name acquired in two `if`s one after the other is hoisted once, before both,
  and the leak of the first object is silent (`if (a) x = acquire; if (b) x =
  acquire; release x`), while `ownir.py:2788` says that branches are mutually
  exclusive, so that exactly one acquire runs.
* One flat map from names to handles serves both arms of a branch and the turns
  of a loop (`spec/Bridge.md`, BR-L6, says so). In a second turn a name stands
  for the handle it had in the first: in `x = acquire; while (c) { if (d) {
  release x; return; } else { x = acquire; release x; } }` the path that turns
  back and returns discharges the first object, which it has lost. An alias
  taken after a name's tracking ended stays untracked. `if (c) { Maybe(x);
  return; } Maybe(x);` gets an OWN001 on the path that never returned. A name
  that was overwritten and is then passed to a method of the document gets
  OWN030. `LoweringExact` speaks of the bodies these do not occur in.
* A binding resolved while one of its references is open is memoised with the
  guess of the cycle guard (`effects.py:163`), below the fixpoint that
  `effects.py:129` promises. `StormExact` holds all the same: the query that
  meets the cycle reports its own dependency first.
* The certification counts accepted candidates where the delta counts eligible
  subscriptions (`fix_certify.py:561-568`), although its comment says that it
  mirrors `_bridge_r_c`: a chain the delta has accepted is refused when a
  subscription that was not selected shares the key of one that was
  (`SharedKey`). `Deserves` says so.
* Converting the first of two subscriptions with one identity is refused by the
  delta: the second takes its number, and the id that should be gone is there.

## What is not modelled

* Text: lexer, parser, messages, ordering of output, evidence other than the
  move site, renderings, the code generator, the text of the patch.
* Validation of JSON (facts, candidates, plans, reports, evidence): it refuses
  or lets through, and the models start from what it lets through.
* The size and layout arithmetic of buffer policies: only the decision stack or
  heap matters to the analysis.
* Of the bridge, what its section above lists; of the fix pipeline, what the
  section of `FixChain` lists, the Roslyn edits, and the rules about paths and
  links.
* The reducer and the reproduction artifacts: file formats around the checker.
* The orchestration around the core (audit, frontends, `sandboy`, scripts): I/O
  over external tools. The Rust port and the p037 kernel: second
  implementations of what is modelled here, compared with the first by the
  repository's own shadow runs; the models follow the Python reference.

## Plan

What is left, in order.

1. `ProvenCallsHarmless`, with a reference that is a least fixpoint.
2. The bridge: overloads, explicit effects, subscriptions and captures.
3. The private work directories of the gate, the target check and the
   certification, whose strict removal decides whether evidence is published.

## How to run

```
tlc -config OwnChecker_paths.cfg MCOwnChecker
tlapm FactsProofs.tla
```

`PROJECT.json` lists the runs with their properties and mutants, the source
lines of every definition, the hazards with the properties that watch them, and
the theorems.
