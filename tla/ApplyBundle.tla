---------------------------- MODULE ApplyBundle ----------------------------
(***************************************************************************)
(* `apply_bundle` (ownlang/fix_bundle.py) and the rewriter process it runs *)
(* (Owen.CSharp.Rewriter), from the reading of the inputs to the removal   *)
(* of the work directory.  Several runs share one output directory, hence  *)
(* the work directory beside it; every access to the file system is a step *)
(* of its own.  The plan, the candidates and the source may be replaced    *)
(* between any two steps, an operation may fail, a run may be killed.      *)
(* Contents are abstract, and have the same hash only if they are equal.   *)
(***************************************************************************)
EXTENDS Naturals

CONSTANTS
  Runs,
  Plans,       \* validated plans
  Sources,     \* contents of the source, and of the candidates taken from it
  InputOf,     \* plan -> the candidates and the source it was made from
  MaxMishaps   \* bound: replaced inputs, failed operations and kills

ASSUME InputAssumption  == InputOf \in [Plans -> Sources]
ASSUME MishapAssumption == MaxMishaps \in Nat

VARIABLES
  file,      \* the inputs on disk: [plan, cands, source]
  out,       \* {} or {bundle}: the output directory
  work,      \* {} or {run}: the work directory, by the run that made it
  report,    \* {} or {report}: what the rewriter left in it, postimage and all
  staging,   \* the bundle being written in it; {} for a file not there yet
  pc,        \* run -> its next step
  mine,      \* run -> what it read: [plan, cands, pre, post]
  rw,        \* run -> what its rewriter read: [plan, cands, source]
  \* Auxiliary variables: no step of a run looks at them, but for the bound.
  mishaps,   \* how many there have been
  unremoved  \* {} or {run}: its removal of the work directory failed

avars == <<file, out, work, report, staging, pc, mine, rw, mishaps, unremoved>>
disk  == <<out, work, report, staging>>
memory == <<mine, rw>>
history == <<mishaps, unremoved>>

Outcome == [r \in Runs |-> IF pc[r] \in {"published", "refused", "killed"}
                           THEN pc[r] ELSE "none"]

Store == INSTANCE BundleStore WITH outcome <- Outcome

Post(p, s)  == Store!Post(p, s)
Patch(s, t) == Store!Patch(s, t)
Manifest(p, s, t, d) == Store!Manifest(p, s, t, d)

NoFiles == [patch |-> {}, manifest |-> {}, post |-> {}]

Unclaimed == {"plan", "cands", "gate", "out", "workdir", "claim"}
Rewriting == {"rw_plan", "rw_cands", "rw_check", "rw_source", "rw_publish"}
Claimed   == Rewriting \cup {"validate", "pristine", "patch", "manifest",
                             "post", "rename", "discard", "cleanup"}
Ended     == {"published", "refused", "killed"}

-----------------------------------------------------------------------------
Init ==
  /\ file \in {[plan |-> p, cands |-> InputOf[p], source |-> InputOf[p]] :
                 p \in Plans}
  /\ out = {} /\ work = {} /\ report = {} /\ staging = NoFiles
  /\ pc = [r \in Runs |-> "plan"]
  /\ mine = [r \in Runs |-> [plan |-> file.plan, cands |-> file.cands,
                             pre |-> file.source,
                             post |-> Post(file.plan, file.source)]]
  /\ rw = [r \in Runs |-> file]
  /\ mishaps = 0 /\ unremoved = {}

At(r, step)   == pc[r] = step
Goto(r, step) == pc' = [pc EXCEPT ![r] = step]

\* A refusal before the work directory is made, and one after it.
Refuse(r)  == Goto(r, "refused")
Discard(r) == Goto(r, "discard")

ReadPlan(r) ==
  /\ At(r, "plan") /\ Goto(r, "cands")
  /\ mine' = [mine EXCEPT ![r].plan = file.plan]
  /\ UNCHANGED <<file, disk, rw, history>>

ReadCands(r) ==
  /\ At(r, "cands") /\ Goto(r, "gate")
  /\ mine' = [mine EXCEPT ![r].cands = file.cands]
  /\ UNCHANGED <<file, disk, rw, history>>

\* validate_apply_inputs: the plan is for these candidates, and the source on
\* disk is the one they were taken from.
Gate(r) ==
  /\ At(r, "gate")
  /\ IF InputOf[mine[r].plan] = mine[r].cands /\ file.source = mine[r].cands
     THEN Goto(r, "out") ELSE Refuse(r)
  /\ UNCHANGED <<file, disk, memory, history>>

\* _prepare_out
CheckOut(r) ==
  /\ At(r, "out")
  /\ IF out = {} THEN Goto(r, "workdir") ELSE Refuse(r)
  /\ UNCHANGED <<file, disk, memory, history>>

CheckWorkdir(r) ==
  /\ At(r, "workdir")
  /\ IF work = {} THEN Goto(r, "claim") ELSE Refuse(r)
  /\ UNCHANGED <<file, disk, memory, history>>

\* Mutant of Claim: the directory is made inside the `try` that removes it.
ClaimInsideTry(r) ==
  /\ At(r, "claim")
  /\ IF work = {} THEN work' = {r} /\ Goto(r, "rw_plan")
                  ELSE Discard(r) /\ UNCHANGED work
  /\ UNCHANGED <<file, out, report, staging, memory, history>>

\* Mutant of Claim: os.makedirs(workdir, exist_ok=True).
ClaimExisting(r) ==
  /\ At(r, "claim") /\ Goto(r, "rw_plan")
  /\ work' = work \cup {r}
  /\ UNCHANGED <<file, out, report, staging, memory, history>>

\* os.makedirs(workdir) fails when the directory is there.
Claim(r) ==
  /\ At(r, "claim")
  /\ IF work = {} THEN work' = {r} /\ Goto(r, "rw_plan")
                  ELSE Refuse(r) /\ UNCHANGED work
  /\ UNCHANGED <<file, out, report, staging, memory, history>>

-----------------------------------------------------------------------------
(* The rewriter reads every input again. *)

RwPlan(r) ==
  /\ At(r, "rw_plan") /\ Goto(r, "rw_cands")
  /\ rw' = [rw EXCEPT ![r].plan = file.plan]
  /\ UNCHANGED <<file, disk, mine, history>>

RwCands(r) ==
  /\ At(r, "rw_cands") /\ Goto(r, "rw_check")
  /\ rw' = [rw EXCEPT ![r].cands = file.cands]
  /\ UNCHANGED <<file, disk, mine, history>>

\* ValidateCanonicalPlan
RwCheck(r) ==
  /\ At(r, "rw_check")
  /\ IF InputOf[rw[r].plan] = rw[r].cands
     THEN Goto(r, "rw_source") ELSE Discard(r)
  /\ UNCHANGED <<file, disk, memory, history>>

RwSource(r) ==
  /\ At(r, "rw_source")
  /\ rw' = [rw EXCEPT ![r].source = file.source]
  /\ IF file.source = InputOf[rw[r].plan]
     THEN Goto(r, "rw_publish") ELSE Discard(r)
  /\ UNCHANGED <<file, disk, mine, history>>

\* Publish: postimage and report appear together.
RwPublish(r) ==
  /\ At(r, "rw_publish") /\ Goto(r, "validate")
  /\ report' = {[plan |-> rw[r].plan, input |-> rw[r].cands,
                 pre |-> InputOf[rw[r].plan],
                 post |-> Post(rw[r].plan, rw[r].source)]}
  /\ UNCHANGED <<file, out, work, staging, memory, history>>

-----------------------------------------------------------------------------
\* validate_rewriter_output: the report is about this plan and its preimage.
Validate(r) ==
  /\ At(r, "validate")
  /\ \/ \E t \in report :
          /\ t.plan = mine[r].plan
          /\ t.input = mine[r].cands /\ t.pre = mine[r].cands
          /\ mine' = [mine EXCEPT ![r].post = t.post]
          /\ Goto(r, "pristine")
     \/ /\ \A t \in report : \/ t.plan # mine[r].plan
                             \/ t.input # mine[r].cands \/ t.pre # mine[r].cands
        /\ Discard(r)
        /\ UNCHANGED mine
  /\ UNCHANGED <<file, disk, rw, history>>

\* Mutant of ReadPristine: the bytes read for the patch are not hashed again.
ReadPristineUnhashed(r) ==
  /\ At(r, "pristine") /\ Goto(r, "patch")
  /\ mine' = [mine EXCEPT ![r].pre = file.source]
  /\ UNCHANGED <<file, disk, rw, history>>

\* _read_pristine
ReadPristine(r) ==
  /\ At(r, "pristine")
  /\ mine' = [mine EXCEPT ![r].pre = file.source]
  /\ IF file.source = mine[r].cands THEN Goto(r, "patch") ELSE Discard(r)
  /\ UNCHANGED <<file, disk, rw, history>>

Diff(r) == Patch(mine[r].pre, mine[r].post)

Write(r, name, content, nextStep) ==
  /\ staging' = [staging EXCEPT ![name] = {content}]
  /\ Goto(r, nextStep)
  /\ UNCHANGED <<file, out, work, report, memory, history>>

WritePatch(r) == At(r, "patch") /\ Write(r, "patch", Diff(r), "manifest")
WriteManifest(r) ==
  /\ At(r, "manifest")
  /\ Write(r, "manifest",
           Manifest(mine[r].plan, mine[r].cands, mine[r].post, Diff(r)), "post")

WritePost(r) == At(r, "post") /\ Write(r, "post", mine[r].post, "rename")

Bundle(r) == [by |-> r, patch |-> staging.patch,
              manifest |-> staging.manifest, post |-> staging.post]

\* Mutant of Rename: the run waits for the directory to go away.
RenameWaits(r) ==
  /\ At(r, "rename") /\ out = {}
  /\ out' = {Bundle(r)} /\ staging' = NoFiles /\ Goto(r, "cleanup")
  /\ UNCHANGED <<file, work, report, memory, history>>

\* os.rename(staging, out_phys) fails on a directory that is not empty.
Rename(r) ==
  /\ At(r, "rename")
  /\ IF out = {} THEN out' = {Bundle(r)} /\ staging' = NoFiles /\ Goto(r, "cleanup")
                 ELSE Discard(r) /\ UNCHANGED <<out, staging>>
  /\ UNCHANGED <<file, work, report, memory, history>>

\* shutil.rmtree(workdir, ignore_errors=True), then the result of the run.
Removed ==
  /\ work' = {} /\ report' = {} /\ staging' = NoFiles
  /\ UNCHANGED history

\* The removal fails, and nobody is told.
Left(r) ==
  /\ mishaps < MaxMishaps /\ mishaps' = mishaps + 1
  /\ unremoved' = unremoved \cup {r}
  /\ UNCHANGED <<work, report, staging>>

\* Mutant of Cleanup: the directory is removed only after a success.
CleanupOnSuccess(r) ==
  /\ \/ At(r, "cleanup") /\ Goto(r, "published") /\ (Removed \/ Left(r))
     \/ At(r, "discard") /\ Goto(r, "refused")
        /\ UNCHANGED <<work, report, staging, history>>
  /\ UNCHANGED <<file, out, memory>>

Cleanup(r) ==
  /\ \/ At(r, "cleanup") /\ Goto(r, "published")
     \/ At(r, "discard") /\ Goto(r, "refused")
  /\ Removed \/ Left(r)
  /\ UNCHANGED <<file, out, memory>>

Step(r) ==
  \/ ReadPlan(r) \/ ReadCands(r) \/ Gate(r)
  \/ CheckOut(r) \/ CheckWorkdir(r) \/ Claim(r)
  \/ RwPlan(r) \/ RwCands(r) \/ RwCheck(r) \/ RwSource(r) \/ RwPublish(r)
  \/ Validate(r) \/ ReadPristine(r)
  \/ WritePatch(r) \/ WriteManifest(r) \/ WritePost(r)
  \/ Rename(r) \/ Cleanup(r)

-----------------------------------------------------------------------------
(* What may happen to a run. *)

Mishap == mishaps < MaxMishaps /\ mishaps' = mishaps + 1 /\ UNCHANGED unremoved

\* An OSError, a refusal of the rewriter for a reason of its own.
Fail(r) ==
  /\ Mishap
  /\ \/ pc[r] \in Unclaimed /\ Refuse(r)
     \/ pc[r] \in Claimed \ {"discard", "cleanup"} /\ Discard(r)
  /\ UNCHANGED <<file, disk, memory>>

\* The rewriter of the run dies with it.
Kill(r) ==
  /\ Mishap
  /\ pc[r] \notin Ended
  /\ Goto(r, "killed")
  /\ UNCHANGED <<file, disk, memory>>

\* Somebody saves another plan, another bundle of candidates, another source.
Replace ==
  /\ Mishap
  /\ \/ \E p \in Plans : file' = [file EXCEPT !.plan = p]
     \/ \E s \in Sources : file' = [file EXCEPT !.cands = s]
     \/ \E s \in Sources : file' = [file EXCEPT !.source = s]
  /\ UNCHANGED <<disk, pc, memory>>

\* Somebody removes a work directory its run will never remove.
Sweep ==
  /\ \E r \in work : pc[r] \in Ended
  /\ work' = {} /\ report' = {} /\ staging' = NoFiles /\ unremoved' = {}
  /\ UNCHANGED <<file, out, pc, memory, mishaps>>

Next == Replace \/ Sweep \/ \E r \in Runs : Step(r) \/ Fail(r) \/ Kill(r)

Spec == Init /\ [][Next]_avars /\ \A r \in Runs : WF_avars(Step(r))

-----------------------------------------------------------------------------
Inputs    == [plan : Plans, cands : Sources, source : Sources]
Posts     == [plan : Plans, of : Sources]
Reads     == [plan : Plans, cands : Sources, pre : Sources, post : Posts]
Reports   == [plan : Plans, input : Sources, pre : Sources, post : Posts]
Patches   == [from : Sources, to : Posts]
Manifests == [plan : Plans, pre : Sources, post : Posts, patch : Patches]
Files     == [patch : SUBSET Patches, manifest : SUBSET Manifests,
              post : SUBSET Posts]
Bundles   == [by : Runs, patch : SUBSET Patches, manifest : SUBSET Manifests,
              post : SUBSET Posts]

TypeOK ==
  /\ file \in Inputs
  /\ out \subseteq Bundles
  /\ work \subseteq Runs
  /\ report \subseteq Reports
  /\ staging \in Files
  /\ pc \in [Runs -> Unclaimed \cup Claimed \cup Ended]
  /\ mine \in [Runs -> Reads]
  /\ rw \in [Runs -> Inputs]
  /\ mishaps \in Nat
  /\ unremoved \subseteq Runs

(***************************************************************************)
(* fix_bundle.py: `<out>` does not exist until every check has passed, and *)
(* "raises ApplyError (leaving no output ...)".  The directory appears     *)
(* once, whole and exact for one plan, with inputs that change between any *)
(* two reads, other runs and kills; who returns made it, who refuses did   *)
(* not.                                                                    *)
(***************************************************************************)
StoreRefined == Store!StoreSpec

(***************************************************************************)
(* The work directory of a run is its own from the claim to the cleanup:   *)
(* no run writes into, reads from or removes the directory of another.     *)
(***************************************************************************)
OwnWorkdir == \A r \in Runs : pc[r] \in Claimed => work = {r}

(***************************************************************************)
(* Runs that compete for one output directory do not all lose: unless an   *)
(* input is replaced, an operation fails or a run is killed, the bundle is *)
(* published in the end.                                                   *)
(***************************************************************************)
NotAllLose == [](mishaps = 0) => <>(out # {})

(***************************************************************************)
(* Only a kill, or a removal that itself fails, leaves a work directory    *)
(* behind, which makes every later run refuse.  Whatever step failed from  *)
(* the claim to the rename, whatever was replaced and whoever won: a run   *)
(* that returns or refuses has taken its directory with it.                *)
(***************************************************************************)
NoStaleWorkdir ==
  \A r \in work : pc[r] \in Ended => pc[r] = "killed" \/ r \in unremoved

\* Every run ends.
RunsEnd == \A r \in Runs : <>(pc[r] \in Ended)
=============================================================================
