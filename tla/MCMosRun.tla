------------------------------ MODULE MCMosRun ------------------------------
(***************************************************************************)
(* Tables of summaries for TLC: three methods, numbered 1 to 3, and one    *)
(* outside the table.                                                      *)
(***************************************************************************)
EXTENDS MosRun, TLC, FiniteSetsExt

\* The fold of a set of verdicts does not mind in which order they come.
ASSUME JoinFolds ==
  \A V \in SUBSET Values : JoinAll(V) = FoldSet(Join, "bot", V)

None   == 0
Extern == 9

Act(kind)     == [kind |-> kind, callee |-> None, arg |-> 0]
Forward(m, i) == [kind |-> "forward", callee |-> m, arg |-> i]

Ret(kind)     == [kind |-> kind, callee |-> None]
RetForward(m) == [kind |-> "forward", callee |-> m]

Skeleton(disposable, paths, returned) ==
  [params |-> [i \in {0} |-> [disposable |-> disposable, paths |-> paths]],
   ret |-> returned]

\* One parameter each, up to two paths: disposed, borrowed, forwarded.
Forwardings == {Forward(m, 0) : m \in 1 .. 3}

UpToTwo(S) == {{}} \cup {{x, y} : x, y \in S}

TablesOver(acts) ==
  [1 .. 3 -> {Skeleton(TRUE, p, Ret("none")) : p \in UpToTwo(acts)}]

TransferTables  == TablesOver({Act("dispose"), Act("borrow")} \cup Forwardings)

\* Forwards out of the table, to a parameter that is not there, to one that
\* is not disposable, and returns of every kind.
Returns == {Ret("fresh"), Ret("aliased"), Ret("aliasOf"), Ret("odd")}
           \cup {RetForward(m) : m \in {1, 2, 3, Extern}}

OddPaths == {{}, {Act("dispose"), Forward(Extern, 0)}, {Forward(3, 1)},
             {Act("odd")}, {Forward(3, 0), Act("dispose")}}

OddTables ==
  {(1 :> Skeleton(TRUE, p, Ret("none")))
   @@ (2 :> Skeleton(TRUE, q, RetForward(1)))
   @@ (3 :> Skeleton(d, r, RetForward(Extern))) :
     p, q, r \in OddPaths, d \in BOOLEAN}

ReturnTables ==
  [1 .. 3 -> {Skeleton(TRUE, {}, r) : r \in Returns}] \cup OddTables

AllTables == TransferTables \cup ReturnTables
=============================================================================
