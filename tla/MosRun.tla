------------------------------- MODULE MosRun -------------------------------
(***************************************************************************)
(* What a summary is about: a call of the summarised method.  It takes one *)
(* of the paths of its parameter, and the next one of the callee's when    *)
(* the path forwards; it ends when the argument has left its caller or is  *)
(* kept.  Code outside the table may do either.                            *)
(***************************************************************************)
EXTENDS Mos

VARIABLES
  mode,    \* "waiting", "running", "left" or "kept"
  start,   \* the parameter the call is about
  at       \* the parameter the argument has been forwarded to

runvars == <<mode, start, at>>
vars    == <<solver, runvars>>

NoKey == <<NoMethod, 0>>

RunInit == mode = "waiting" /\ start = NoKey /\ at = NoKey

Call ==
  /\ mode = "waiting" /\ phase = "done"
  /\ \E key \in Disposables : start' = key /\ at' = key
  /\ mode' = "running"
  /\ UNCHANGED solver

Passes(a) == a.kind = "forward" /\ Target(a) \in Disposables

Keeps(a) == a.kind = "forward" /\ Known(a) /\ Target(a) \notin Disposables

\* How a path may end that is not followed into a callee.
Ends(a) ==
  CASE a.kind \in {"dispose", "adopt", "return"} -> {"left"}
    [] a.kind = "borrow" \/ Keeps(a)             -> {"kept"}
    [] Passes(a)                                 -> {}
    [] OTHER                                     -> {"left", "kept"}

Fall ==
  /\ mode = "running" /\ Param(at).paths = {}
  /\ mode' = "kept"
  /\ UNCHANGED <<start, at, solver>>

End ==
  /\ mode = "running"
  /\ \E a \in Param(at).paths : mode' \in Ends(a)
  /\ UNCHANGED <<start, at, solver>>

Enter ==
  /\ mode = "running"
  /\ \E a \in Param(at).paths :
       Passes(a) /\ at' = Target(a)
  /\ UNCHANGED <<mode, start, solver>>

RunStep == Call \/ Fall \/ End \/ Enter

\* The components are any list that has each method once.
ListOk(order) ==
  /\ order \in Seq(SUBSET Methods)
  /\ UNION {order[j] : j \in DOMAIN order} = Methods
  /\ \A i, j \in DOMAIN order : i # j => order[i] \cap order[j] = {}

Init == MosInit /\ RunInit

Next ==
  \/ (\E order \in Orders : ListOk(order) /\ Start(order)) /\ UNCHANGED runvars
  \/ SolverStep /\ UNCHANGED runvars
  \/ RunStep

Spec == Init /\ [][Next]_vars /\ WF_vars(SolverStep /\ UNCHANGED runvars)

-----------------------------------------------------------------------------
Transfer(key) == IF key \in DOMAIN val THEN val[key] ELSE "no"

(***************************************************************************)
(* ownership.py: a parameter is `must` only when ownership leaves the      *)
(* caller on EVERY normal-return path.  Whatever path the calls take, and  *)
(* however they recurse, a call that ends with the argument kept was not   *)
(* summarised as must, nor one that ends with it gone as no.               *)
(***************************************************************************)
TransferSound ==
  /\ mode = "kept" => Transfer(start) # "must"
  /\ mode = "left" => Transfer(start) # "no"

\* "monotone ascent": an iterate never goes down in the lattice.
OnlyRises ==
  [][phase = "sweep" /\ phase' = "sweep" =>
       \A key \in DOMAIN cur : Leq(cur[key], cur'[key])]_vars
=============================================================================
