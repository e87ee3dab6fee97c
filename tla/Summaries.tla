----------------------------- MODULE Summaries -----------------------------
(***************************************************************************)
(* `solve_with_log` (ownlang/ownership.py) as a whole: the call graph, its *)
(* components bottom-up (Sccs), their summaries (Mos), and a call.         *)
(***************************************************************************)
EXTENDS Sccs, MosRun

CONSTANT KeyOrders   \* the orders a table of skeletons may come in

\* Methods are numbers.
ASSUME KeyOrdersAssumption == \A order \in KeyOrders : order \in Seq(Nat)

allvars == <<svars, vars>>

SummariesInit ==
  /\ MosInit /\ RunInit
  /\ \E order \in KeyOrders :
       /\ {order[j] : j \in DOMAIN order} = Methods
       /\ SccsInit(CallGraph, order)

Condense == SccsStep /\ UNCHANGED vars

Begin == SccsDone /\ Start(out) /\ UNCHANGED <<svars, runvars>>

Solve == SolverStep /\ UNCHANGED <<svars, runvars>>

SummariesNext == Condense \/ Begin \/ Solve \/ (RunStep /\ UNCHANGED svars)

SummariesSpec ==
  /\ SummariesInit /\ [][SummariesNext]_allvars
  /\ WF_allvars(Condense \/ Begin \/ Solve)

-----------------------------------------------------------------------------
(***************************************************************************)
(* The reference: what a parameter meets by forwarding any number of times *)
(* inside its component, joined at once.                                   *)
(***************************************************************************)
Inside(key, ms) ==
  {Target(a) : a \in {x \in Param(key).paths : Passes(x) /\ x.callee \in ms}}

Forwarded(key, ms) ==
  {x \in Disposables : \A S \in SUBSET Disposables :
     (key \in S /\ \A y \in S : Inside(y, ms) \subseteq S) => x \in S}

Meets(key, ms) ==
  (IF Param(key).paths = {} THEN {"no"} ELSE {})
  \cup {Contrib(a) : a \in {x \in Param(key).paths :
          ~ (Passes(x) /\ x.callee \in ms)}}

LeastOf(key, ms) ==
  Final(JoinAll(UNION {Meets(x, ms) : x \in Forwarded(key, ms)}))

(***************************************************************************)
(* The transfer of each parameter is the least one its component allows,   *)
(* given those of the components below: what iteration finds is what it    *)
(* meets by forwarding any number of times, in whatever order methods and  *)
(* components come, and no lookup falls through to "unknown".              *)
(***************************************************************************)
SummariesLeast ==
  phase = "done" =>
    \A key \in Disposables :
      val[key] = LeastOf(key, {m \in Reach(key[1]) : key[1] \in Reach(m)})

(***************************************************************************)
(* A forwarded return is what the end of its chain is, whichever method is *)
(* asked about first: an alias of a callee's parameter, a chain that goes  *)
(* round and one that leaves the table are all unknown.                    *)
(***************************************************************************)
Chain(m) ==
  {n \in Methods : \A S \in SUBSET Methods :
     (m \in S /\ \A x \in S : sk[x].ret.kind = "forward" =>
                              {sk[x].ret.callee} \cap Methods \subseteq S)
       => n \in S}

ReturnsExact ==
  phase = "done" =>
    \A m \in Methods :
      LET ends == {n \in Chain(m) : sk[n].ret.kind # "forward"} IN
      CASE ends = {}  -> ret[m] = "unknown"
        [] m \in ends -> ret[m] = Terminal(sk[m].ret)
        [] OTHER      -> \A n \in ends :
             ret[m] = IF sk[n].ret.kind \in {"fresh", "aliased", "none"}
                      THEN sk[n].ret.kind ELSE "unknown"

\* "The log names every forward - param or return - that crosses an extern
\* boundary", and nothing else.
LogComplete ==
  phase = "done" =>
    log = (UNION {Outside(key) : key \in Disposables})
          \cup {<<sk[m].ret.callee>> : m \in {n \in Methods :
                 sk[n].ret.kind = "forward" /\ sk[n].ret.callee \notin Methods}}

\* The call graph is condensed and the summaries are solved, in the end.
SummariesEnd == <>(phase = "done")
=============================================================================
