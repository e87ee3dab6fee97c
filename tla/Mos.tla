-------------------------------- MODULE Mos --------------------------------
(***************************************************************************)
(* Method ownership summaries (ownlang/ownership.py: `solve_with_log`):    *)
(* does a call take the ownership of an argument away from its caller?     *)
(* The parameters of one component of the call graph are iterated to a     *)
(* fixpoint, component after component, and then the forwarded returns are *)
(* chased to their ends.  A run of the program follows.                    *)
(*                                                                         *)
(* A skeleton is [params, ret]: params maps the logical index of a         *)
(* parameter to [disposable, paths], ret is [kind, callee].  The paths are *)
(* a set and the members of a component are swept in any order: verdicts   *)
(* are joined, and join does not mind the order.                           *)
(***************************************************************************)
EXTENDS Naturals, Sequences

CONSTANTS
  Tables,    \* what may be asked about: functions from methods to skeletons
  Orders,    \* the lists of components that may be solved
  NoMethod

VARIABLES
  sk,         \* the skeletons
  phase,
  comps,      \* the components still to be solved
  cur,        \* the iterates of the component in hand; "bot" is None
  todo,       \* the members this sweep has still to evaluate
  changed,
  val,        \* `param_val`: the final transfers
  log,        \* `unresolved`: what crosses the boundary of the table
  path, hop,  \* resolve_return: the forwards above, and where it stands
  ret         \* `ret_val`

solver == <<sk, phase, comps, cur, todo, changed, val, log, path, hop, ret>>

-----------------------------------------------------------------------------
(* Transfers: bot < no, must < may < unknown. *)

Values == {"bot", "no", "must", "may", "unknown"}

Leq(a, b) ==
  \/ a = b \/ a = "bot" \/ b = "unknown"
  \/ a \in {"no", "must"} /\ b = "may"

\* `_join_opt`
Join(a, b) ==
  CASE a = "bot"                                   -> b
    [] a # "bot" /\ (b = "bot" \/ a = b)           -> a
    [] "bot" \notin {a, b} /\ a # b /\ "unknown" \in {a, b} -> "unknown"
    [] OTHER                                       -> "may"

\* `_join_opt` folded over the verdicts of several paths, from None.
JoinAll(V) ==
  LET known == V \ {"bot"} IN
  CASE known = {}                   -> "bot"
    [] "unknown" \in known          -> "unknown"
    [] \E v \in known \ {"unknown"} : known = {v} -> CHOOSE v \in known : TRUE
    [] OTHER                        -> "may"

-----------------------------------------------------------------------------
(* The skeletons. *)

Methods == DOMAIN sk

Param(key) == sk[key[1]].params[key[2]]

Keys == {<<m, i>> : m \in Methods, i \in UNION {DOMAIN sk[n].params : n \in Methods}}

\* The disposable parameters of some methods: `members` of a component.
Members(ms) ==
  {key \in Keys : /\ key[1] \in ms
                  /\ key[2] \in DOMAIN sk[key[1]].params
                  /\ Param(key).disposable}

Disposables == Members(Methods)

Target(a) == <<a.callee, a.arg>>

Known(a) == a.callee \in Methods /\ a.arg \in DOMAIN sk[a.callee].params

\* `_call_graph`
CallGraph ==
  [m \in Methods |->
     {n \in Methods :
        \/ \E i \in DOMAIN sk[m].params : \E a \in sk[m].params[i].paths :
             a.kind = "forward" /\ a.callee = n
        \/ sk[m].ret.kind = "forward" /\ sk[m].ret.callee = n}]

\* Mutant of Lookup: a callee of the component in hand counts as borrowing.
LookupBorrowed(a) ==
  CASE Known(a) /\ Target(a) \notin Disposables         -> "no"
    [] Target(a) \in Disposables \cap DOMAIN val         -> val[Target(a)]
    [] Target(a) \in (Disposables \cap DOMAIN cur) \ DOMAIN val -> "no"
    [] OTHER                                            -> "unknown"

\* `lookup`: the value of the parameter a path forwards to.  There may be
\* no such method or no such parameter.
Lookup(a) ==
  CASE Known(a) /\ Target(a) \notin Disposables         -> "no"
    [] Target(a) \in Disposables \cap DOMAIN val         -> val[Target(a)]
    [] Target(a) \in (Disposables \cap DOMAIN cur) \ DOMAIN val -> cur[Target(a)]
    [] OTHER                                            -> "unknown"

\* `contrib`
Contrib(a) ==
  CASE a.kind \in {"dispose", "adopt", "return"} -> "must"
    [] a.kind = "borrow"  -> "no"
    [] a.kind = "forward" -> Lookup(a)
    [] OTHER              -> "unknown"

\* `transfer_of`
TransferOf(key) ==
  IF Param(key).paths = {} THEN "no"
  ELSE JoinAll({Contrib(a) : a \in Param(key).paths})

-----------------------------------------------------------------------------
(* The transfers of the parameters. *)

Empty == [x \in {} |-> "bot"]

MosInit ==
  /\ sk \in Tables
  /\ phase = "graph"
  /\ comps = <<>> /\ cur = Empty /\ todo = {} /\ changed = FALSE
  /\ val = Empty /\ log = {} /\ path = <<>> /\ hop = NoMethod /\ ret = Empty

\* The components are known.
Start(order) ==
  /\ phase = "graph"
  /\ phase' = "solve"
  /\ comps' = order
  /\ UNCHANGED <<sk, cur, todo, changed, val, log, path, hop, ret>>

\* Mutant of Take: the iteration starts from "kept", not from no evidence.
TakeKept ==
  /\ phase = "solve" /\ comps # <<>>
  /\ phase' = "sweep"
  /\ cur' = [key \in Members(Head(comps)) |-> "no"]
  /\ todo' = Members(Head(comps))
  /\ changed' = FALSE
  /\ UNCHANGED <<sk, comps, val, log, path, hop, ret>>

\* The next component; one without members is swept too, and adds nothing.
Take ==
  /\ phase = "solve" /\ comps # <<>>
  /\ phase' = "sweep"
  /\ cur' = [key \in Members(Head(comps)) |-> "bot"]
  /\ todo' = Members(Head(comps))
  /\ changed' = FALSE
  /\ UNCHANGED <<sk, comps, val, log, path, hop, ret>>

Outside(key) ==
  {<<a.callee, a.arg>> : a \in {x \in Param(key).paths :
                                  x.kind = "forward" /\ x.callee \notin Methods}}

\* Mutant of Evaluate: the component is not swept again for a changed member.
EvaluateOnce(key) ==
  /\ phase = "sweep" /\ key \in todo
  /\ todo' = todo \ {key}
  /\ cur' = [cur EXCEPT ![key] = TransferOf(key)]
  /\ log' = log \cup Outside(key)
  /\ UNCHANGED <<sk, phase, comps, changed, val, path, hop, ret>>

Evaluate(key) ==
  /\ phase = "sweep" /\ key \in todo
  /\ todo' = todo \ {key}
  /\ cur' = [cur EXCEPT ![key] = TransferOf(key)]
  /\ changed' = (changed \/ TransferOf(key) # cur[key])
  /\ log' = log \cup Outside(key)
  /\ UNCHANGED <<sk, phase, comps, val, path, hop, ret>>

\* Mutant of Again: it does not matter whether anything changed.
AgainAlways ==
  /\ phase = "sweep" /\ todo = {} /\ cur # Empty
  /\ todo' = DOMAIN cur
  /\ changed' = FALSE
  /\ UNCHANGED <<sk, phase, comps, cur, val, log, path, hop, ret>>

Again ==
  /\ phase = "sweep" /\ todo = {} /\ changed
  /\ todo' = DOMAIN cur
  /\ changed' = FALSE
  /\ UNCHANGED <<sk, phase, comps, cur, val, log, path, hop, ret>>

\* No evidence counts as kept.
Final(v) == IF v = "bot" THEN "no" ELSE v

Settle ==
  /\ phase = "sweep" /\ todo = {} /\ ~ changed
  /\ phase' = "solve"
  /\ comps' = Tail(comps)
  /\ val' = [key \in DOMAIN val \cup DOMAIN cur |->
               IF key \in DOMAIN cur THEN Final(cur[key]) ELSE val[key]]
  /\ cur' = Empty
  /\ UNCHANGED <<sk, todo, changed, log, path, hop, ret>>

Solved ==
  /\ phase = "solve" /\ comps = <<>>
  /\ phase' = "returns"
  /\ UNCHANGED <<sk, comps, cur, todo, changed, val, log, path, hop, ret>>

-----------------------------------------------------------------------------
(* The returns: a chain of forwards is followed to its end, and what is    *)
(* found there is handed back to each method on the way.                   *)

Above == {path[j] : j \in DOMAIN path}

Ask(m) ==
  /\ phase = "returns" /\ hop = NoMethod
  /\ m \in Methods \ DOMAIN ret
  /\ hop' = m /\ path' = <<>>
  /\ UNCHANGED <<sk, phase, comps, cur, todo, changed, val, log, ret>>

Chasing == phase = "returns" /\ hop # NoMethod

OnCycle == sk[hop].ret.callee \in Above \cup {hop}

Follow ==
  /\ Chasing
  /\ hop \notin DOMAIN ret
  /\ sk[hop].ret.kind = "forward"
  /\ sk[hop].ret.callee \in Methods
  /\ ~ OnCycle
  /\ path' = Append(path, hop)
  /\ hop' = sk[hop].ret.callee
  /\ UNCHANGED <<sk, phase, comps, cur, todo, changed, val, log, ret>>

\* What the end of the chain says: `_terminal`, or what is known already.
Terminal(r) ==
  IF r.kind \in {"fresh", "aliasOf", "aliased", "none"} THEN r.kind ELSE "unknown"

Found ==
  CASE hop \in DOMAIN ret -> ret[hop]
    [] hop \notin DOMAIN ret /\ sk[hop].ret.kind # "forward" -> Terminal(sk[hop].ret)
    [] OTHER -> "unknown"

\* Mutant of Degraded: the index of a callee's parameter is handed on.
HandedOn(v) == v

\* An alias of the callee's parameter says nothing about ours.
Degraded(v) == IF v = "aliasOf" THEN "unknown" ELSE v

\* Mutant of Crossing: only the method that was asked about is logged.
CrossingAsked ==
  IF path = <<>> /\ hop \notin DOMAIN ret /\ sk[hop].ret.kind = "forward"
       /\ sk[hop].ret.callee \notin Methods
  THEN {<<sk[hop].ret.callee>>} ELSE {}

\* A return that is forwarded out of the table is logged where it is met.
Crossing ==
  IF hop \notin DOMAIN ret /\ sk[hop].ret.kind = "forward"
       /\ sk[hop].ret.callee \notin Methods
  THEN {<<sk[hop].ret.callee>>} ELSE {}

HandBack ==
  /\ Chasing
  /\ \/ hop \in DOMAIN ret
     \/ sk[hop].ret.kind # "forward"
     \/ sk[hop].ret.callee \notin Methods
     \/ OnCycle
  /\ ret' = [m \in DOMAIN ret \cup Above \cup {hop} |->
               IF m \in DOMAIN ret THEN ret[m]
               ELSE IF m = hop THEN Found ELSE Degraded(Found)]
  /\ log' = log \cup Crossing
  /\ hop' = NoMethod /\ path' = <<>>
  /\ UNCHANGED <<sk, phase, comps, cur, todo, changed, val>>

Summarised ==
  /\ phase = "returns" /\ hop = NoMethod /\ DOMAIN ret = Methods
  /\ phase' = "done"
  /\ UNCHANGED <<sk, comps, cur, todo, changed, val, log, path, hop, ret>>

SolverStep ==
  \/ Take \/ Again \/ Settle \/ Solved \/ Follow \/ HandBack \/ Summarised
  \/ \E key \in todo : Evaluate(key)
  \/ \E m \in Methods : Ask(m)
=============================================================================
