---------------------------- MODULE BundleStore ----------------------------
(***************************************************************************)
(* What `apply_bundle` (ownlang/fix_bundle.py) promises about its output   *)
(* directory, whoever else runs it on the same one and whatever happens to *)
(* its inputs meanwhile: the directory is absent, or it holds ONE whole    *)
(* bundle that is exact for its plan and never changes again; a run that   *)
(* returns published that bundle, and a run that refuses published none.   *)
(***************************************************************************)
CONSTANTS
  Runs,      \* the runs that are given this output directory
  Plans,     \* validated plans
  InputOf    \* plan -> the source it was made for

VARIABLES
  out,       \* {}, or {bundle}: the output directory
  outcome    \* run -> "none", "published", "refused" or "killed"

\* The contents of the files.
Post(p, s)  == [plan |-> p, of |-> s]
Patch(s, t) == [from |-> s, to |-> t]
Manifest(p, s, t, d) == [plan |-> p, pre |-> s, post |-> t, patch |-> d]

\* The bundle of run r for plan p: everything follows from the plan.
Exact(r, p) ==
  LET s == InputOf[p]
      t == Post(p, s)
      d == Patch(s, t)
  IN  [by |-> r, patch |-> {d}, manifest |-> {Manifest(p, s, t, d)}, post |-> {t}]

Published(r) == \E b \in out : b.by = r

StoreInit ==
  /\ out = {}
  /\ outcome = [r \in Runs |-> "none"]

Publish(r) ==
  /\ outcome[r] = "none"
  /\ out = {}
  /\ \E p \in Plans : out' = {Exact(r, p)}
  /\ UNCHANGED outcome

End(r, how) ==
  /\ outcome[r] = "none"
  /\ how = "published" => Published(r)
  /\ how = "refused"   => ~ Published(r)
  /\ outcome' = [outcome EXCEPT ![r] = how]
  /\ UNCHANGED out

StoreNext ==
  \E r \in Runs :
    Publish(r) \/ \E how \in {"published", "refused", "killed"} : End(r, how)

StoreSpec == StoreInit /\ [][StoreNext]_<<out, outcome>>
=============================================================================
