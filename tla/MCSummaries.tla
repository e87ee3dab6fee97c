---------------------------- MODULE MCSummaries ----------------------------
(* The same instances with the components of the call graph.               *)
EXTENDS Summaries, MCMosRun

NoOrders == {}   \* the components come from the call graph

\* The table comes in two orders.
Both == {<<1, 2, 3>>, <<3, 1, 2>>}

\* Every list of components the three methods can be put into.
Lists ==
  {order \in UNION {[1 .. n -> (SUBSET (1 .. 3)) \ {{}}] : n \in 1 .. 3} :
     /\ UNION {order[j] : j \in DOMAIN order} = 1 .. 3
     /\ \A i, j \in DOMAIN order : i # j => order[i] \cap order[j] = {}}

AnyList == INSTANCE MosRun WITH Orders <- Lists

(***************************************************************************)
(* What Tarjan's walk hands to the solver is one of the lists of MosRun,   *)
(* each method in one component: solve_with_log with its condensation is   *)
(* the solver SummariesProofs is about, and hides the walk from it.        *)
(***************************************************************************)
CondensationRefines == AnyList!Spec
=============================================================================
