----------------------------- MODULE MCHeapLoop -----------------------------
(* Heap effects alone, on programs of three methods that call each other.  *)
EXTENDS HeapEffects

P(i) == <<"param", i>>
C(k) == <<"call", k>>

Call(callee, args) ==
  [callee |-> callee, dispatch |-> "direct", args |-> args, onto |-> {}]
Extern == [callee |-> 0, dispatch |-> "extern", args |-> << >>, onto |-> {}]

Meth(arity, writes, returns, calls) ==
  [params |-> [i \in 1 .. arity |-> FALSE], receiver |-> FALSE, locals |-> << >>,
   derefs |-> {}, writes |-> writes, stores |-> {}, returns |-> returns,
   calls |-> calls, unknown |-> FALSE, returnInert |-> FALSE]

\* G(p) returns p or what H returns; F(p, q) writes what G(p) returned and calls
\* itself; H calls F and returns what outside code returned.
LoopPrograms ==
  { [methods |-> << Meth(1, {}, {P(1), C(1)}, <<Call(3, << >>)>>),
                    Meth(2, {[kind |-> k, target |-> {t}]}, {},
                         <<Call(1, <<{P(1)}>>), Call(2, <<{x}, {y}>>)>>),
                    Meth(0, {}, {C(1)}, <<Extern, Call(2, <<{Heap}, {Heap}>>)>>) >>,
     site |-> 2, callee |-> 1] :
    k \in {"instance", "indirect"}, t \in {C(1), P(1)}, x, y \in {P(1), P(2)} }

Spec == HeInit(Programs) /\ [][HeNext]_hevars /\ WF_hevars(HeNext)

(***************************************************************************)
(* heap_effects.py: "the solution is the least fixpoint of a monotone      *)
(* system over finite lattices": the evaluation of a component ends.       *)
(***************************************************************************)
EvaluationEnds == <>HeDone
=============================================================================
