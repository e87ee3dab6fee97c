------------------------- MODULE ApplyBundleProofs -------------------------
(***************************************************************************)
(* For any number of runs, plans and mishaps: the work directory belongs   *)
(* to one run at a time, and ApplyBundle implements BundleStore.           *)
(***************************************************************************)
EXTENDS ApplyBundle, TLAPS

Rewritten == {"pristine", "patch", "manifest", "post", "rename"}
Checked     == {"out", "workdir", "claim", "validate"} \cup Rewriting \cup Rewritten
Writing   == {"patch", "manifest", "post", "rename"}

\* What a run knows of what it has read, by the step it is about to take.
MineOk(r) ==
  LET s == InputOf[mine[r].plan] IN
  /\ pc[r] \in Checked => mine[r].cands = s
  /\ pc[r] \in Rewritten => mine[r].post = Post(mine[r].plan, s)
  /\ pc[r] \in Writing => mine[r].pre = s

RwOk(r) ==
  /\ pc[r] \in {"rw_source", "rw_publish"} => rw[r].cands = InputOf[rw[r].plan]
  /\ pc[r] = "rw_publish" => rw[r].source = InputOf[rw[r].plan]

\* A report on disk is the work of a rewriter that checked its inputs.
ReportOk == \A t \in report : t.post = Post(t.plan, InputOf[t.plan])

StagingOk(r) ==
  /\ pc[r] \in {"manifest", "post", "rename"} => staging.patch = {Diff(r)}
  /\ pc[r] \in {"post", "rename"} =>
       staging.manifest = {Manifest(mine[r].plan, mine[r].cands, mine[r].post, Diff(r))}
  /\ pc[r] = "rename" => staging.post = {mine[r].post}

\* Who has published and who has not.
ResultOk(r) ==
  /\ pc[r] \in {"cleanup", "published"} => Store!Published(r)
  /\ pc[r] \notin {"cleanup", "published", "killed"} => ~ Store!Published(r)

IInv ==
  /\ TypeOK
  /\ OwnWorkdir
  /\ ReportOk
  /\ \A r \in Runs : MineOk(r) /\ RwOk(r) /\ StagingOk(r) /\ ResultOk(r)

(***************************************************************************)
(* The steps of one run keep every variable in its type: what they read    *)
(* comes from the disk, what they write from what they read.               *)
(***************************************************************************)
LEMMA PcStep ==
  ASSUME TypeOK, NEW r \in Runs, Step(r) \/ Fail(r) \/ Kill(r)
  PROVE  /\ pc' \in [Runs -> Unclaimed \cup Claimed \cup Ended]
         /\ work' \subseteq Runs
         /\ mishaps' \in Nat /\ unremoved' \subseteq Runs
  BY DEF TypeOK, Step, Fail, Kill, Mishap, ReadPlan, ReadCands, Gate, CheckOut,
         CheckWorkdir, Claim, RwPlan, RwCands, RwCheck, RwSource, RwPublish,
         Validate, ReadPristine, WritePatch, WriteManifest, WritePost, Write,
         Rename, Cleanup, Removed, Left, At, Goto, Refuse, Discard, disk, memory,
         history, Unclaimed, Rewriting, Claimed, Ended

\* What a run remembers of its inputs is what was on disk.
LEMMA ReadStep ==
  ASSUME TypeOK, NEW r \in Runs, Step(r) \/ Fail(r) \/ Kill(r)
  PROVE  mine' \in [Runs -> Reads] /\ rw' \in [Runs -> Inputs] /\ file' \in Inputs
  <1>1. /\ file \in Inputs /\ mine[r] \in Reads /\ rw[r] \in Inputs
        /\ report \subseteq Reports
    BY DEF TypeOK
  <1>2. /\ [mine[r] EXCEPT !.plan = file.plan] \in Reads
        /\ [mine[r] EXCEPT !.cands = file.cands] \in Reads
        /\ [mine[r] EXCEPT !.pre = file.source] \in Reads
        /\ \A t \in report : [mine[r] EXCEPT !.post = t.post] \in Reads
    BY <1>1 DEF Inputs, Reads, Reports
  <1>3. /\ [rw[r] EXCEPT !.plan = file.plan] \in Inputs
        /\ [rw[r] EXCEPT !.cands = file.cands] \in Inputs
        /\ [rw[r] EXCEPT !.source = file.source] \in Inputs
    BY <1>1 DEF Inputs
  <1>4. /\ file' = file
        /\ \/ mine' = mine
           \/ \E x \in Reads : mine' = [mine EXCEPT ![r] = x]
        /\ \/ rw' = rw
           \/ \E x \in Inputs : rw' = [rw EXCEPT ![r] = x]
    BY <1>2, <1>3
       DEF Step, Fail, Kill, Mishap, ReadPlan, ReadCands, Gate, CheckOut,
           CheckWorkdir, Claim, RwPlan, RwCands, RwCheck, RwSource, RwPublish,
           Validate, ReadPristine, WritePatch, WriteManifest, WritePost, Write,
           Rename, Cleanup, disk, memory
  <1> QED
    BY <1>1, <1>4 DEF TypeOK

\* What a run leaves on disk is made of what it remembers.
LEMMA DiskStep ==
  ASSUME TypeOK, NEW r \in Runs, Step(r) \/ Fail(r) \/ Kill(r)
  PROVE  report' \subseteq Reports /\ staging' \in Files /\ out' \subseteq Bundles
  <1> USE DEF TypeOK
  <1>1. mine[r] \in Reads /\ rw[r] \in Inputs /\ InputOf \in [Plans -> Sources]
    BY InputAssumption
  <1>2. CASE RwPublish(r)
    <2>1. /\ rw[r].plan \in Plans /\ rw[r].cands \in Sources
          /\ rw[r].source \in Sources /\ InputOf[rw[r].plan] \in Sources
      BY <1>1 DEF Inputs
    <2> QED
      BY <1>2, <2>1 DEF RwPublish, Reports, Posts, Post, Store!Post
  <1>3. CASE WritePatch(r) \/ WriteManifest(r) \/ WritePost(r)
    <2>1. /\ mine[r].plan \in Plans /\ mine[r].cands \in Sources
          /\ mine[r].pre \in Sources /\ mine[r].post \in Posts
      BY <1>1 DEF Reads
    <2>2. Diff(r) \in Patches
      BY <2>1 DEF Diff, Patch, Store!Patch, Patches
    <2>3. Manifest(mine[r].plan, mine[r].cands, mine[r].post, Diff(r)) \in Manifests
      BY <2>1, <2>2 DEF Manifest, Store!Manifest, Manifests
    <2>4. /\ [staging EXCEPT !["patch"] = {Diff(r)}] \in Files
          /\ [staging EXCEPT !["manifest"] = {Manifest(mine[r].plan, mine[r].cands,
                                              mine[r].post, Diff(r))}] \in Files
          /\ [staging EXCEPT !["post"] = {mine[r].post}] \in Files
      BY <2>1, <2>2, <2>3 DEF Files
    <2> QED
      BY <1>3, <2>4 DEF WritePatch, WriteManifest, WritePost, Write
  <1>4. CASE Rename(r)
    <2>1. Bundle(r) \in Bundles /\ NoFiles \in Files
      BY DEF Bundle, Bundles, Files, NoFiles
    <2> QED
      BY <1>4, <2>1 DEF Rename
  <1>5. CASE Cleanup(r)
    <2>1. NoFiles \in Files
      BY DEF Files, NoFiles
    <2> QED
      BY <1>5, <2>1 DEF Cleanup, Removed, Left
  <1> QED
    BY <1>2, <1>3, <1>4, <1>5
       DEF Step, Fail, Kill, ReadPlan, ReadCands, Gate, CheckOut, CheckWorkdir,
           Claim, RwPlan, RwCands, RwCheck, RwSource, Validate, ReadPristine,
           disk, memory

\* The variables keep their types in every step, mishaps included.
LEMMA TypeStep == TypeOK /\ [Next]_avars => TypeOK'
  <1> SUFFICES ASSUME TypeOK, [Next]_avars PROVE TypeOK'
    OBVIOUS
  <1>1. CASE Replace
    BY <1>1 DEF Replace, Mishap, TypeOK, Inputs, disk, memory
  <1>2. CASE Sweep
    <2>1. NoFiles \in Files
      BY DEF Files, NoFiles
    <2> QED
      BY <1>2, <2>1 DEF Sweep, TypeOK, memory
  <1>3. ASSUME NEW r \in Runs, Step(r) \/ Fail(r) \/ Kill(r) PROVE TypeOK'
    BY <1>3, PcStep, ReadStep, DiskStep DEF TypeOK
  <1>4. CASE UNCHANGED avars
    BY <1>4 DEF avars, TypeOK
  <1> QED
    BY <1>1, <1>2, <1>3, <1>4 DEF Next

\* And have them at the start.
LEMMA TypeInit == Init => TypeOK
  <1> SUFFICES ASSUME Init PROVE TypeOK
    OBVIOUS
  <1>1. PICK p \in Plans :
          file = [plan |-> p, cands |-> InputOf[p], source |-> InputOf[p]]
    BY DEF Init
  <1>2. file \in Inputs
    BY <1>1, InputAssumption DEF Inputs
  <1>3. [plan |-> file.plan, cands |-> file.cands, pre |-> file.source,
         post |-> Post(file.plan, file.source)] \in Reads
    BY <1>2 DEF Inputs, Reads, Posts, Post, Store!Post
  <1>4. NoFiles \in Files
    BY DEF Files, NoFiles
  <1> QED
    BY <1>2, <1>3, <1>4 DEF Init, TypeOK, Unclaimed

-----------------------------------------------------------------------------
\* The work directory belongs to at most one run that is at work in it.
LEMMA OneClaimed ==
  ASSUME OwnWorkdir, NEW q \in Runs, NEW r \in Runs,
         pc[q] \in Claimed, pc[r] \in Claimed
  PROVE  q = r
  BY DEF OwnWorkdir

\* makedirs claims a directory that is not there, rmtree removes one's own.
LEMMA WorkdirStep == TypeOK /\ OwnWorkdir /\ [Next]_avars => OwnWorkdir'
  <1> SUFFICES ASSUME TypeOK, OwnWorkdir, [Next]_avars,
                      NEW q \in Runs, pc'[q] \in Claimed
               PROVE  work' = {q}
    BY DEF OwnWorkdir
  <1> USE DEF Unclaimed, Rewriting, Claimed, Ended
  <1>0. pc \in [Runs -> Unclaimed \cup Claimed \cup Ended]
    BY DEF TypeOK
  <1>1. CASE Replace \/ UNCHANGED avars
    BY <1>1 DEF Replace, disk, avars, OwnWorkdir
  <1>2. CASE Sweep
    BY <1>2 DEF Sweep, OwnWorkdir
  <1>3. ASSUME NEW r \in Runs, Claim(r) PROVE work' = {q}
    BY <1>0, <1>3 DEF Claim, At, Goto, Refuse, OwnWorkdir
  <1>4. ASSUME NEW r \in Runs, Cleanup(r) PROVE work' = {q}
    <2>1. pc[r] \in Claimed /\ pc'[r] \notin Claimed
      BY <1>0, <1>4 DEF Cleanup, At, Goto
    <2>2. pc[q] \in Claimed /\ q # r
      BY <1>0, <1>4, <2>1 DEF Cleanup, Goto
    <2> QED
      BY <2>1, <2>2, OneClaimed
  <1>5. ASSUME NEW r \in Runs, (Step(r) /\ ~ Claim(r) /\ ~ Cleanup(r)) \/ Fail(r) \/ Kill(r)
        PROVE  work' = {q}
    <2>1. work' = work
      BY <1>5 DEF Step, Fail, Kill, ReadPlan, ReadCands, Gate, CheckOut,
                  CheckWorkdir, RwPlan, RwCands, RwCheck, RwSource, RwPublish,
                  Validate, ReadPristine, WritePatch, WriteManifest, WritePost,
                  Write, Rename, disk
    <2>2. pc[q] \in Claimed
      BY <1>0, <1>5
         DEF Step, Fail, Kill, Mishap, ReadPlan, ReadCands, Gate, CheckOut,
             CheckWorkdir, RwPlan, RwCands, RwCheck, RwSource, RwPublish,
             Validate, ReadPristine, WritePatch, WriteManifest, WritePost,
             Write, Rename, At, Goto, Refuse, Discard
    <2> QED
      BY <2>1, <2>2 DEF OwnWorkdir
  <1> QED
    BY <1>1, <1>2, <1>3, <1>4, <1>5 DEF Next

(***************************************************************************)
(* A step of r leaves what another run has read, and where it stands.      *)
(***************************************************************************)
LEMMA OthersKeep ==
  ASSUME TypeOK, NEW r \in Runs, Step(r) \/ Fail(r) \/ Kill(r),
         NEW q \in Runs, q # r
  PROVE  pc'[q] = pc[q] /\ mine'[q] = mine[q] /\ rw'[q] = rw[q]
  BY DEF TypeOK, Step, Fail, Kill, ReadPlan, ReadCands, Gate, CheckOut,
         CheckWorkdir, Claim, RwPlan, RwCands, RwCheck, RwSource, RwPublish,
         Validate, ReadPristine, WritePatch, WriteManifest, WritePost, Write,
         Rename, Cleanup, At, Goto, Refuse, Discard, memory

\* The gate, the report and the second hash of the source establish MineOk.
LEMMA MineStep ==
  ASSUME TypeOK, ReportOk, NEW r \in Runs, MineOk(r),
         Step(r) \/ Fail(r) \/ Kill(r)
  PROVE  MineOk(r)'
  <1> USE DEF TypeOK, MineOk, Checked, Rewriting, Rewritten, Writing, At, Goto
  <1>1. CASE ReadPlan(r) \/ ReadCands(r) \/ Gate(r)
    BY <1>1 DEF ReadPlan, ReadCands, Gate, Refuse, memory
  <1>2. CASE Validate(r)
    <2>1. CASE pc' = [pc EXCEPT ![r] = "discard"]
      BY <1>2, <2>1 DEF Validate, Discard
    <2>2. ASSUME NEW t \in report, t.plan = mine[r].plan,
                 mine' = [mine EXCEPT ![r].post = t.post],
                 pc' = [pc EXCEPT ![r] = "pristine"]
          PROVE  MineOk(r)'
      <3>1. t.post = Post(mine[r].plan, InputOf[mine[r].plan])
        BY <2>2 DEF ReportOk
      <3>2. /\ mine'[r].plan = mine[r].plan /\ mine'[r].cands = mine[r].cands
            /\ mine'[r].post = t.post /\ pc'[r] = "pristine"
        BY <2>2 DEF Reads
      <3> QED
        BY <1>2, <3>1, <3>2 DEF Validate
    <2> QED
      BY <1>2, <2>1, <2>2 DEF Validate, Discard
  <1>3. CASE ReadPristine(r)
    <2>1. /\ mine'[r].plan = mine[r].plan /\ mine'[r].cands = mine[r].cands
          /\ mine'[r].post = mine[r].post /\ mine'[r].pre = file.source
      BY <1>3 DEF ReadPristine, Reads
    <2> QED
      BY <1>3, <2>1 DEF ReadPristine, Discard
  <1>4. CASE \/ CheckOut(r) \/ CheckWorkdir(r) \/ Claim(r) \/ RwPlan(r)
             \/ RwCands(r) \/ RwCheck(r) \/ RwSource(r) \/ RwPublish(r)
    BY <1>4 DEF CheckOut, CheckWorkdir, Claim, RwPlan, RwCands, RwCheck,
                RwSource, RwPublish, Refuse, Discard, memory
  <1>5. CASE \/ WritePatch(r) \/ WriteManifest(r) \/ WritePost(r) \/ Rename(r)
             \/ Cleanup(r) \/ Fail(r) \/ Kill(r)
    BY <1>5 DEF WritePatch, WriteManifest, WritePost, Write, Rename, Cleanup,
                Fail, Kill, Refuse, Discard, memory
  <1> QED
    BY <1>1, <1>2, <1>3, <1>4, <1>5 DEF Step

\* The rewriter checks the plan against the candidates and hashes the source.
LEMMA RwStep ==
  ASSUME TypeOK, NEW r \in Runs, RwOk(r), Step(r) \/ Fail(r) \/ Kill(r)
  PROVE  RwOk(r)'
  BY DEF TypeOK, Inputs, RwOk, Step, Fail, Kill, ReadPlan, ReadCands, Gate,
         CheckOut, CheckWorkdir, Claim, RwPlan, RwCands, RwCheck, RwSource,
         RwPublish, Validate, ReadPristine, WritePatch, WriteManifest, WritePost,
         Write, Rename, Cleanup, At, Goto, Refuse, Discard, memory

\* So what it publishes is the postimage of the plan it names.
LEMMA ReportStep ==
  ASSUME TypeOK, ReportOk, NEW r \in Runs, RwOk(r), Step(r) \/ Fail(r) \/ Kill(r)
  PROVE  ReportOk'
  <1>1. CASE RwPublish(r)
    <2>1. report' = {[plan |-> rw[r].plan, input |-> rw[r].cands,
                      pre |-> InputOf[rw[r].plan],
                      post |-> Post(rw[r].plan, InputOf[rw[r].plan])]}
      BY <1>1 DEF RwPublish, RwOk, At
    <2> QED
      BY <2>1 DEF ReportOk
  <1>2. CASE report' = report \/ report' = {}
    BY <1>2 DEF ReportOk
  <1> QED
    BY <1>1, <1>2
       DEF Step, Fail, Kill, ReadPlan, ReadCands, Gate, CheckOut, CheckWorkdir,
           Claim, RwPlan, RwCands, RwCheck, RwSource, Validate, ReadPristine,
           WritePatch, WriteManifest, WritePost, Write, Rename, Cleanup,
           Removed, Left, disk

\* What the run is writing follows from what it read, file after file.
LEMMA StagingStep ==
  ASSUME TypeOK, NEW r \in Runs, StagingOk(r), Step(r) \/ Fail(r) \/ Kill(r)
  PROVE  StagingOk(r)'
  <1> USE DEF TypeOK, StagingOk, At, Goto
  <1>1. CASE WritePatch(r) \/ WriteManifest(r) \/ WritePost(r)
    <2>1. Diff(r)' = Diff(r) /\ mine' = mine
      BY <1>1 DEF WritePatch, WriteManifest, WritePost, Write, Diff, memory
    <2>2. /\ staging \in Files
          /\ \A name \in {"patch", "manifest", "post"} : \A S :
               /\ [staging EXCEPT ![name] = S][name] = S
               /\ \A other \in {"patch", "manifest", "post"} \ {name} :
                    [staging EXCEPT ![name] = S][other] = staging[other]
      BY DEF Files
    <2>3. CASE WritePatch(r)
      BY <2>1, <2>2, <2>3 DEF WritePatch, Write
    <2>4. CASE WriteManifest(r)
      <3>1. /\ pc[r] = "manifest" /\ pc'[r] = "post"
            /\ staging'["manifest"] = {Manifest(mine[r].plan, mine[r].cands,
                                               mine[r].post, Diff(r))}
            /\ staging'["patch"] = staging["patch"]
        BY <2>2, <2>4 DEF WriteManifest, Write
      <3> QED
        BY <2>1, <3>1
    <2>5. CASE WritePost(r)
      <3>1. /\ pc[r] = "post" /\ pc'[r] = "rename"
            /\ staging'["post"] = {mine[r].post}
            /\ staging'["patch"] = staging["patch"]
            /\ staging'["manifest"] = staging["manifest"]
        BY <2>2, <2>5 DEF WritePost, Write
      <3> QED
        BY <2>1, <3>1
    <2> QED
      BY <1>1, <2>3, <2>4, <2>5
  <1>2. CASE \/ ReadPlan(r) \/ ReadCands(r) \/ Gate(r) \/ CheckOut(r)
             \/ CheckWorkdir(r) \/ Claim(r) \/ RwPlan(r) \/ RwCands(r)
             \/ RwCheck(r) \/ RwSource(r) \/ RwPublish(r) \/ Validate(r)
             \/ ReadPristine(r) \/ Rename(r) \/ Cleanup(r) \/ Fail(r) \/ Kill(r)
    <2>1. pc'[r] \notin {"manifest", "post", "rename"}
      BY <1>2 DEF ReadPlan, ReadCands, Gate, CheckOut, CheckWorkdir, Claim, RwPlan,
                  RwCands, RwCheck, RwSource, RwPublish, Validate, ReadPristine,
                  Rename, Cleanup, Fail, Kill, Refuse, Discard
    <2> QED
      BY <2>1
  <1> QED
    BY <1>1, <1>2 DEF Step

\* Only the rename publishes, and nothing takes the bundle away.
LEMMA ResultStep ==
  ASSUME TypeOK, NEW r \in Runs, \A q \in Runs : ResultOk(q),
         Step(r) \/ Fail(r) \/ Kill(r)
  PROVE  \A q \in Runs : ResultOk(q)'
  <1> USE DEF TypeOK, ResultOk, Store!Published, At, Goto
  <1>1. CASE Rename(r)
    <2>1. CASE out = {} /\ out' = {Bundle(r)} /\ pc' = [pc EXCEPT ![r] = "cleanup"]
      <3>1. Bundle(r).by = r
        BY DEF Bundle
      <3>2. \A q \in Runs : pc[q] \notin {"cleanup", "published"}
        BY <2>1
      <3> QED
        BY <2>1, <3>1, <3>2
    <2>2. CASE pc' = [pc EXCEPT ![r] = "discard"] /\ out' = out
      BY <1>1, <2>2 DEF Rename
    <2> QED
      BY <1>1, <2>1, <2>2 DEF Rename, Discard
  <1>2. CASE \/ ReadPlan(r) \/ ReadCands(r) \/ Gate(r) \/ CheckOut(r)
             \/ CheckWorkdir(r) \/ Claim(r) \/ RwPlan(r) \/ RwCands(r)
             \/ RwCheck(r) \/ RwSource(r) \/ RwPublish(r) \/ Validate(r)
             \/ ReadPristine(r) \/ WritePatch(r) \/ WriteManifest(r)
             \/ WritePost(r) \/ Fail(r)
    <2>1. out' = out
      BY <1>2 DEF ReadPlan, ReadCands, Gate, CheckOut, CheckWorkdir, Claim, RwPlan,
                  RwCands, RwCheck, RwSource, RwPublish, Validate, ReadPristine,
                  WritePatch, WriteManifest, WritePost, Write, Fail, disk
    <2>2. /\ pc[r] \notin {"cleanup", "published", "killed"}
          /\ pc'[r] \notin {"cleanup", "published", "killed"}
          /\ \A q \in Runs : q # r => pc'[q] = pc[q]
      BY <1>2 DEF ReadPlan, ReadCands, Gate, CheckOut, CheckWorkdir, Claim, RwPlan,
                  RwCands, RwCheck, RwSource, RwPublish, Validate, ReadPristine,
                  WritePatch, WriteManifest, WritePost, Write, Fail, Refuse,
                  Discard, Unclaimed, Rewriting, Claimed
    <2> QED
      BY <2>1, <2>2
  <1>3. CASE Cleanup(r) \/ Kill(r)
    BY <1>3 DEF Cleanup, Kill, disk
  <1> QED
    BY <1>1, <1>2, <1>3 DEF Step

(***************************************************************************)
(* A run that writes has the work directory to itself, so what another one *)
(* has staged is not disturbed.                                            *)
(***************************************************************************)
LEMMA StagingKept ==
  ASSUME TypeOK, OwnWorkdir, NEW r \in Runs, Step(r) \/ Fail(r) \/ Kill(r),
         NEW q \in Runs, q # r, StagingOk(q)
  PROVE  StagingOk(q)'
  <1>1. pc'[q] = pc[q] /\ mine'[q] = mine[q]
    BY OthersKeep
  <1>2. staging' = staging \/ pc[r] \in Claimed
    BY DEF Step, Fail, Kill, ReadPlan, ReadCands, Gate, CheckOut, CheckWorkdir,
           Claim, RwPlan, RwCands, RwCheck, RwSource, RwPublish, Validate,
           ReadPristine, WritePatch, WriteManifest, WritePost, Write, Rename,
           Cleanup, At, Rewriting, Claimed, disk
  <1>3. CASE staging' = staging
    BY <1>1, <1>3 DEF StagingOk, Diff
  <1>4. CASE pc[r] \in Claimed
    <2>1. pc[q] \notin {"manifest", "post", "rename"}
      BY <1>4, OneClaimed DEF Claimed
    <2> QED
      BY <1>1, <2>1 DEF StagingOk
  <1> QED
    BY <1>2, <1>3, <1>4

\* The steps put together, for the run that moves and for the others.
LEMMA IInvStep == IInv /\ [Next]_avars => IInv'
  <1> SUFFICES ASSUME IInv, [Next]_avars PROVE IInv'
    OBVIOUS
  <1>1. TypeOK' /\ OwnWorkdir'
    BY TypeStep, WorkdirStep DEF IInv
  <1>2. CASE Replace \/ UNCHANGED avars
    <2>1. UNCHANGED <<disk, pc, memory>>
      BY <1>2 DEF Replace, avars, disk, memory
    <2>2. ReportOk' /\ \A r \in Runs : MineOk(r)' /\ RwOk(r)'
      BY <2>1 DEF IInv, disk, memory, ReportOk, MineOk, RwOk
    <2>3. \A r \in Runs : StagingOk(r)' /\ ResultOk(r)'
      BY <2>1 DEF IInv, disk, memory, StagingOk, ResultOk, Diff, Store!Published
    <2> QED
      BY <1>1, <2>2, <2>3 DEF IInv
  <1>3. CASE Sweep
    <2>1. \A r \in Runs : pc[r] \notin {"manifest", "post", "rename"}
      BY <1>3 DEF Sweep, IInv, OwnWorkdir, Claimed, Ended
    <2>2. ReportOk' /\ \A r \in Runs : MineOk(r)' /\ RwOk(r)'
      BY <1>3 DEF Sweep, IInv, memory, ReportOk, MineOk, RwOk
    <2>3. \A r \in Runs : StagingOk(r)' /\ ResultOk(r)'
      BY <1>3, <2>1 DEF Sweep, IInv, memory, StagingOk, ResultOk, Store!Published
    <2> QED
      BY <1>1, <2>2, <2>3 DEF IInv
  <1>4. ASSUME NEW r \in Runs, Step(r) \/ Fail(r) \/ Kill(r) PROVE IInv'
    <2>1. ReportOk'
      BY <1>4, ReportStep DEF IInv
    <2>2. \A q \in Runs : ResultOk(q)'
      BY <1>4, ResultStep DEF IInv
    <2>3. ASSUME NEW q \in Runs PROVE MineOk(q)' /\ RwOk(q)' /\ StagingOk(q)'
      <3>1. CASE q = r
        BY <1>4, <3>1, MineStep, RwStep, StagingStep DEF IInv
      <3>2. CASE q # r
        <4>1. pc'[q] = pc[q] /\ mine'[q] = mine[q] /\ rw'[q] = rw[q]
          BY <1>4, <3>2, OthersKeep DEF IInv
        <4>2. MineOk(q)' /\ RwOk(q)'
          BY <4>1 DEF IInv, MineOk, RwOk
        <4> QED
          BY <1>4, <3>2, <4>2, StagingKept DEF IInv
      <3> QED
        BY <3>1, <3>2
    <2> QED
      BY <1>1, <2>1, <2>2, <2>3 DEF IInv
  <1> QED
    BY <1>2, <1>3, <1>4 DEF Next

\* A run that has not started knows, holds and has published nothing.
LEMMA IInvInit == Init => IInv
  BY TypeInit DEF Init, IInv, OwnWorkdir, ReportOk, MineOk, RwOk, StagingOk,
     ResultOk, Store!Published, Unclaimed, Claimed, Rewriting, Checked, Rewritten,
     Writing

-----------------------------------------------------------------------------
(* Every step is a step of BundleStore, or leaves it alone. *)

\* The directory is renamed into place: the bundle is the exact one.
LEMMA RenamePublishes ==
  ASSUME IInv, NEW r \in Runs, Rename(r), out = {}
  PROVE  Store!Publish(r)
  <1> DEFINE p == mine[r].plan
             s == InputOf[p]
  <1>1. pc[r] = "rename" /\ out' = {Bundle(r)} /\ pc' = [pc EXCEPT ![r] = "cleanup"]
    BY DEF Rename, At, Goto
  <1>2. p \in Plans
    BY DEF IInv, TypeOK, Reads
  <1>3. mine[r].cands = s /\ mine[r].post = Post(p, s) /\ mine[r].pre = s
    BY <1>1 DEF IInv, MineOk, Checked, Rewritten, Writing
  <1>4. Diff(r) = Patch(s, Post(p, s))
    BY <1>3 DEF Diff
  <1>5. /\ staging.patch = {Patch(s, Post(p, s))}
        /\ staging.manifest = {Manifest(p, s, Post(p, s), Patch(s, Post(p, s)))}
        /\ staging.post = {Post(p, s)}
    BY <1>1, <1>3, <1>4 DEF IInv, StagingOk
  <1>6. Bundle(r) = Store!Exact(r, p)
    BY <1>5 DEF Bundle, Store!Exact, Post, Patch, Manifest
  <1>7. Outcome[r] = "none" /\ Outcome' = Outcome
    BY <1>1 DEF Outcome, IInv, TypeOK
  <1> QED
    BY <1>1, <1>2, <1>6, <1>7 DEF Store!Publish

\* A run ends with the Outcome that is true of it.
LEMMA EndStep ==
  ASSUME IInv, NEW r \in Runs, Step(r) \/ Fail(r) \/ Kill(r), out' = out
  PROVE  \/ UNCHANGED <<out, Outcome>>
         \/ \E how \in {"published", "refused", "killed"} : Store!End(r, how)
  <1>1. /\ pc \in [Runs -> Unclaimed \cup Claimed \cup Ended]
        /\ pc' \in [Runs -> Unclaimed \cup Claimed \cup Ended]
        /\ IInv'
    BY PcStep, IInvStep DEF IInv, TypeOK, Next
  <1>2. pc[r] \notin Ended
    BY DEF Step, Fail, Kill, ReadPlan, ReadCands, Gate, CheckOut, CheckWorkdir,
           Claim, RwPlan, RwCands, RwCheck, RwSource, RwPublish, Validate,
           ReadPristine, WritePatch, WriteManifest, WritePost, Write, Rename,
           Cleanup, At, Unclaimed, Rewriting, Claimed, Ended
  <1>3. \A q \in Runs : q # r => pc'[q] = pc[q]
    BY OthersKeep DEF IInv
  <1>4. CASE pc'[r] \notin Ended
    BY <1>1, <1>2, <1>3, <1>4 DEF Outcome, Ended
  <1>5. CASE pc'[r] \in Ended
    <2>1. Outcome[r] = "none" /\ Outcome' = [Outcome EXCEPT ![r] = pc'[r]]
      BY <1>1, <1>2, <1>3, <1>5 DEF Outcome, Ended
    <2>2. /\ pc'[r] = "published" => Store!Published(r)
          /\ pc'[r] = "refused" => ~ Store!Published(r)
      BY <1>1 DEF IInv, ResultOk, Store!Published
    <2> QED
      BY <1>5, <2>1, <2>2 DEF Store!End, Ended
  <1> QED
    BY <1>4, <1>5

\* Next refines StoreNext.
LEMMA StoreStep == IInv /\ [Next]_avars => [Store!StoreNext]_<<out, Outcome>>
  <1> SUFFICES ASSUME IInv, [Next]_avars
               PROVE  [Store!StoreNext]_<<out, Outcome>>
    OBVIOUS
  <1>1. CASE Replace \/ Sweep \/ UNCHANGED avars
    BY <1>1 DEF Replace, Sweep, avars, disk, memory, Outcome
  <1>2. ASSUME NEW r \in Runs, Rename(r), out = {}
        PROVE  Store!StoreNext
    BY <1>2, RenamePublishes DEF Store!StoreNext
  <1>3. ASSUME NEW r \in Runs, Step(r) \/ Fail(r) \/ Kill(r),
               ~ (Rename(r) /\ out = {})
        PROVE  [Store!StoreNext]_<<out, Outcome>>
    <2>1. out' = out
      BY <1>3
         DEF Step, Fail, Kill, ReadPlan, ReadCands, Gate, CheckOut, CheckWorkdir,
             Claim, RwPlan, RwCands, RwCheck, RwSource, RwPublish, Validate,
             ReadPristine, WritePatch, WriteManifest, WritePost, Write, Rename,
             Cleanup, disk
    <2> QED
      BY <1>3, <2>1, EndStep DEF Store!StoreNext
  <1> QED
    BY <1>1, <1>2, <1>3 DEF Next

-----------------------------------------------------------------------------
(***************************************************************************)
(* In every run of any number of processes: IInv, with the types and the   *)
(* ownership of the work directory among its parts.                        *)
(***************************************************************************)
THEOREM BundleInvariant == Spec => []IInv
  BY IInvInit, IInvStep, PTL DEF Spec

(***************************************************************************)
(* os.makedirs is the lock of apply_bundle: the work directory of a run is *)
(* its own, whatever other runs, failures and kills do.                    *)
(***************************************************************************)
THEOREM WorkdirIsOwned == Spec => []OwnWorkdir
  <1>1. IInv => OwnWorkdir
    BY DEF IInv
  <1> QED
    BY <1>1, BundleInvariant, PTL

\* Who holds the work directory is at work in it, or could not remove it.
Attended == \A r \in work : pc[r] \in Claimed \cup {"killed"} \/ r \in unremoved

\* A run that holds the directory ends by the cleanup or by a kill: a failure
\* of any step before sends it to the cleanup.
LEMMA AttendedStep == IInv /\ Attended /\ [Next]_avars => Attended'
  <1> SUFFICES ASSUME IInv, Attended, [Next]_avars, NEW q \in work'
               PROVE  pc'[q] \in Claimed \cup {"killed"} \/ q \in unremoved'
    BY DEF Attended
  <1> USE DEF IInv, TypeOK, Attended
  <1>1. CASE Replace \/ Sweep \/ UNCHANGED avars
    BY <1>1 DEF Replace, Sweep, Mishap, avars, disk, memory
  <1>2. ASSUME NEW r \in Runs, Cleanup(r)
        PROVE  q \in unremoved'
    <2>1. work = {r}
      BY <1>2 DEF Cleanup, At, OwnWorkdir, Claimed
    <2> QED
      BY <1>2, <2>1 DEF Cleanup, Removed, Left
  <1>3. ASSUME NEW r \in Runs, Claim(r)
        PROVE  pc'[q] \in Claimed \cup {"killed"} \/ q \in unremoved'
    BY <1>3 DEF Claim, Refuse, At, Goto, Claimed, Rewriting, history
  <1>4. ASSUME NEW r \in Runs,
               (Step(r) /\ ~ Cleanup(r) /\ ~ Claim(r)) \/ Fail(r) \/ Kill(r)
        PROVE  pc'[q] \in Claimed \cup {"killed"} \/ q \in unremoved'
    <2>1. work' = work /\ unremoved' = unremoved
      BY <1>4 DEF Step, Fail, Kill, Mishap, ReadPlan, ReadCands, Gate, CheckOut,
                  CheckWorkdir, RwPlan, RwCands, RwCheck, RwSource, RwPublish,
                  Validate, ReadPristine, WritePatch, WriteManifest, WritePost,
                  Write, Rename, disk, history
    <2>2. CASE q # r
      BY <1>4, <2>1, <2>2, OthersKeep
    <2>3. CASE q = r
      <3>1. /\ pc[r] \in Claimed => pc'[r] \in Claimed \cup {"killed"}
            /\ pc[r] # "killed"
        BY <1>4
           DEF Step, Fail, Kill, ReadPlan, ReadCands, Gate, CheckOut,
               CheckWorkdir, RwPlan, RwCands, RwCheck, RwSource, RwPublish,
               Validate, ReadPristine, WritePatch, WriteManifest, WritePost,
               Write, Rename, At, Goto, Discard, Unclaimed, Rewriting, Claimed,
               Ended
      <3> QED
        BY <2>1, <2>3, <3>1
    <2> QED
      BY <2>2, <2>3
  <1> QED
    BY <1>1, <1>2, <1>3, <1>4 DEF Next

(***************************************************************************)
(* Whatever fails between the claim and the rename, whatever is replaced   *)
(* and however many runs compete: a run that returns or refuses has        *)
(* removed its work directory, unless the removal itself failed; else only *)
(* a killed run leaves one, which would make every later run refuse        *)
(* (fix_bundle.py: `rmtree` of the work directory, on either way out).     *)
(***************************************************************************)
THEOREM WorkdirIsRemoved == Spec => []NoStaleWorkdir
  <1>1. Init => Attended
    BY DEF Init, Attended
  <1>2. Attended => NoStaleWorkdir
    BY DEF Attended, NoStaleWorkdir, Claimed, Rewriting, Ended
  <1> QED
    BY <1>1, <1>2, AttendedStep, BundleInvariant, PTL DEF Spec

(***************************************************************************)
(* The output directory goes from absent to one whole bundle exact for one *)
(* plan, once; a run that returns published it, one that refuses did not.  *)
(***************************************************************************)
THEOREM ImplementsStore == Spec => StoreRefined
  <1>1. Init => Store!StoreInit
    BY DEF Init, Store!StoreInit, Outcome
  <1> QED
    BY <1>1, BundleInvariant, StoreStep, PTL
       DEF Spec, StoreRefined, Store!StoreSpec
=============================================================================
