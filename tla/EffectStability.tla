--------------------------- MODULE EffectStability ---------------------------
(***************************************************************************)
(* The search for an effect storm, EFF001 (ownlang/effects.py): for one    *)
(* effect that does IO, its dependencies are asked one after the other for *)
(* the stability of their identity, and the first that is unstable is      *)
(* reported.                                                               *)
(*                                                                         *)
(* `_Lattice._resolve` and `_classify` call each other along the           *)
(* references of a binding; `stack` holds the activations of `_classify`   *)
(* that are open (the names of `on_stack`), `call` the name `_resolve` was *)
(* entered with, and `ret` what it returned.  Names resolved are           *)
(* memoised, also those resolved while a name they refer to was open.      *)
(***************************************************************************)
EXTENDS Naturals, Sequences

CONSTANTS
  Bound,    \* names with a render-scope binding
  Plain,    \* unbound identifiers and member chains
  Opaque,   \* unbound expressions the frontend forwarded as they stand
  Tables,   \* binding tables: name -> [init, refs]
  DepList      \* the dependency list of the effect

Inits == {"fresh", "referential", "derived", "call"}
Names == Bound \cup Plain \cup Opaque
None  == "none"

IsTable(t) ==
  /\ DOMAIN t = Bound
  /\ \A n \in Bound : t[n].init \in Inits /\ t[n].refs \in Seq(Names)

\* A name is bound, plain or an expression, and none of them is no name.
ASSUME NamesAssumption == Bound \cap (Plain \cup Opaque) = {} /\ None \notin Names
ASSUME TablesAssumption == \A t \in Tables : IsTable(t)
ASSUME DepsAssumption == DepList \in Seq(Names)

Stability == {"stable", "unknown", "unstable"}
Rank(s) == CASE s = "stable" -> 0 [] s = "unknown" -> 1 [] s = "unstable" -> 2

VARIABLES
  table,   \* the bindings of the effect, by name
  io,      \* the effect's body does IO
  next,    \* the next dependency
  call,    \* the name being resolved, or None
  ret,     \* what was returned, << >> or <<result>>
  stack,   \* open activations of _classify: [name, ref, worst]
  memo,    \* name -> the result it was memoised with
  storm    \* << >> or <<finding>>

evars == <<table, io, next, call, ret, stack, memo, storm>>

Result(stab, path) == [stab |-> stab, path |-> path]
Origin(r) == r.path[Len(r.path)]

Top   == stack[Len(stack)]
BelowTop == SubSeq(stack, 1, Len(stack) - 1)
Open  == {stack[j].name : j \in DOMAIN stack}

Binding(n) == table[n]

-----------------------------------------------------------------------------
EffInit(tables, doesIo) ==
  /\ table \in tables
  /\ io \in doesIo
  /\ next = 1
  /\ call = None /\ ret = << >> /\ stack = << >>
  /\ memo = [n \in {} |-> Result("stable", <<n>>)]
  /\ storm = << >>

Idle == call = None /\ ret = << >> /\ stack = << >>

\* for dep in e.deps: lat.stability(dep)
Ask ==
  /\ Idle /\ io /\ storm = << >>
  /\ next \in DOMAIN DepList
  /\ call' = DepList[next]
  /\ UNCHANGED <<table, io, next, ret, stack, memo, storm>>

Answer(r) ==
  /\ ret' = <<r>>
  /\ call' = None

\* _resolve: the memo is asked before the cycle guard.
MemoHit ==
  /\ call \in DOMAIN memo
  /\ Answer(memo[call])
  /\ UNCHANGED <<table, io, next, stack, memo, storm>>

Unbound ==
  /\ call \in Plain \cup Opaque
  /\ Answer(Result(IF call \in Plain THEN "stable" ELSE "unknown", <<call>>))
  /\ UNCHANGED <<table, io, next, stack, memo, storm>>

\* Mutant of CycleCut: an identity cycle is taken for a fresh identity.
CycleCutUnstable ==
  /\ call \in Open \ DOMAIN memo
  /\ Answer(Result("unstable", <<call>>))
  /\ UNCHANGED <<table, io, next, stack, memo, storm>>

\* An identity cycle: nothing can be proven, and nothing is memoised.
CycleCut ==
  /\ call \in Open \ DOMAIN memo
  /\ Answer(Result("unknown", <<call>>))
  /\ UNCHANGED <<table, io, next, stack, memo, storm>>

Enter ==
  /\ call \in Bound \ (Open \cup DOMAIN memo)
  /\ stack' = Append(stack, [name |-> call, ref |-> 1,
                             worst |-> Result("stable", <<call>>)])
  /\ call' = None
  /\ UNCHANGED <<table, io, next, ret, memo, storm>>

Classifying == stack # << >> /\ call = None /\ ret = << >>

\* for r in b.refs: self._resolve(r, on_stack)
NextRef ==
  /\ Classifying
  /\ Binding(Top.name).init = "derived"
  /\ Top.ref \in DOMAIN Binding(Top.name).refs
  /\ call' = Binding(Top.name).refs[Top.ref]
  /\ stack' = Append(BelowTop, [Top EXCEPT !.ref = @ + 1])
  /\ UNCHANGED <<table, io, next, ret, memo, storm>>

\* Mutant of TakeRef: the path of the reference without the name it came by.
TakeRefForgetsName ==
  /\ ret # << >>
  /\ stack # << >>
  /\ LET r == ret[1] IN
       stack' = IF Rank(r.stab) > Rank(Top.worst.stab)
                THEN Append(BelowTop, [Top EXCEPT !.worst = r])
                ELSE stack
  /\ ret' = << >>
  /\ UNCHANGED <<table, io, next, call, memo, storm>>

\* The worst of the references so far, with the path it came by.
TakeRef ==
  /\ ret # << >>
  /\ stack # << >>
  /\ LET r == ret[1] IN
       stack' = IF Rank(r.stab) > Rank(Top.worst.stab)
                THEN Append(BelowTop, [Top EXCEPT !.worst =
                       Result(r.stab, <<Top.name>> \o r.path)])
                ELSE stack
  /\ ret' = << >>
  /\ UNCHANGED <<table, io, next, call, memo, storm>>

\* What _classify returns, once the references of a derivation are resolved.
Classified(f) ==
  LET bound == Binding(f.name) IN
  CASE bound.init = "fresh"       -> Result("unstable", <<f.name>>)
    [] bound.init = "referential" -> Result("stable", <<f.name>>)
    [] bound.init = "derived" /\ bound.refs # << >> -> f.worst
    [] OTHER                  -> Result("unknown", <<f.name>>)

\* _classify returns; _resolve memoises the result and returns it.
LeaveBinding ==
  /\ Classifying
  /\ \/ Binding(Top.name).init # "derived"
     \/ Top.ref \notin DOMAIN Binding(Top.name).refs
  /\ memo' = [n \in DOMAIN memo \cup {Top.name} |->
                IF n = Top.name THEN Classified(Top) ELSE memo[n]]
  /\ ret' = <<Classified(Top)>>
  /\ stack' = BelowTop
  /\ UNCHANGED <<table, io, next, call, storm>>

\* The dependency is judged: one finding for each effect.
Judge ==
  /\ ret # << >>
  /\ stack = << >>
  /\ IF ret[1].stab = "unstable"
     THEN /\ storm' = <<[dep |-> DepList[next], origin |-> Origin(ret[1]),
                         path |-> ret[1].path]>>
          /\ UNCHANGED next
     ELSE /\ next' = next + 1
          /\ UNCHANGED storm
  /\ ret' = << >>
  /\ UNCHANGED <<table, io, call, stack, memo>>

EffNext ==
  \/ Ask \/ MemoHit \/ Unbound \/ CycleCut \/ Enter \/ NextRef \/ TakeRef
  \/ LeaveBinding \/ Judge


-----------------------------------------------------------------------------
(* The reference: which names a fresh identity reaches. *)

RefsOf(n) ==
  IF n \in Bound /\ Binding(n).init = "derived"
  THEN {Binding(n).refs[j] : j \in DOMAIN Binding(n).refs} ELSE {}

Reaches(n) ==
  {x \in Names : \A S \in SUBSET Names :
     (n \in S /\ \A y \in S : RefsOf(y) \subseteq S) => x \in S}

Fresh == {n \in Bound : Binding(n).init = "fresh"}

Unsteady(n) == Reaches(n) \cap Fresh # {}

EffDone == Idle /\ (~ io \/ storm # << >> \/ next \notin DOMAIN DepList)

(***************************************************************************)
(* An effect that does IO is reported exactly when a fresh identity        *)
(* reaches one of its dependencies, and for the first such dependency:     *)
(* neither the cycle guard nor what it leaves in the memo hides a storm or *)
(* makes one up.                                                           *)
(***************************************************************************)
StormExact ==
  EffDone =>
    LET culprits == {j \in DOMAIN DepList : Unsteady(DepList[j])} IN
    IF ~ io \/ culprits = {} THEN storm = << >>
    ELSE /\ storm # << >>
         /\ \E j \in culprits : (\A x \in culprits : j <= x) /\ storm[1].dep = DepList[j]

(***************************************************************************)
(* The evidence of a storm is a chain of real references from the          *)
(* dependency to a fresh binding, without a turn through a cycle.          *)
(***************************************************************************)
PathIsReal ==
  storm # << >> =>
    LET p == storm[1].path IN
    /\ p[1] = storm[1].dep
    /\ p[Len(p)] = storm[1].origin /\ storm[1].origin \in Fresh
    /\ \A j \in 1 .. Len(p) - 1 : p[j + 1] \in RefsOf(p[j])
    /\ \A j, l \in DOMAIN p : p[j] = p[l] => j = l
=============================================================================
