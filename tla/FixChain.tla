----------------------------- MODULE FixChain -----------------------------
(***************************************************************************)
(* The chain of evidence behind a published bundle: the gate               *)
(* (ownlang/fix_gate.py), the analyzer delta (fix_delta.py), the target    *)
(* check (fix_target.py) and the certification (fix_certify.py).  Each     *)
(* step reads files, checks that they belong together, reads some of them  *)
(* again, and publishes one piece of evidence by a rename, or refuses and  *)
(* leaves nothing.  Between any two reads an input may be replaced, a file *)
(* exchanged for the genuine one of another attempt, or the step stopped.  *)
(* The chain starts from the bundle that ApplyBundle published.            *)
(***************************************************************************)
EXTENDS ApplyBundle, FixDelta, Sequences, Functions

CONSTANTS
  Closures,    \* contents of the reference directories
  Runtimes,    \* contents of the selected dotnet runtime
  Worlds       \* bound: what the opaque names may stand for

\* An attempt at the fix of a plan, with the tools it is verified with.
Attempts == [plan : Plans, refs : Closures, runtime : Runtimes]

(***************************************************************************)
(* A world: the plan whose bundle is verified and the run that published   *)
(* it; the image of each source and of each postimage, and the plans that  *)
(* changed the text; the sites selected in each source and the closure     *)
(* they were collected with; the sites each plan converts; the wrapper in  *)
(* each closure; the closure and the runtime at the start; and the rivals, *)
(* other attempts whose artifacts may turn up: with none, nothing at all   *)
(* is replaced and no step stops.                                          *)
(***************************************************************************)
Legal(w) ==
  /\ w.plan \in Plans /\ w.by \in Runs /\ w.rivals \subseteq Attempts
  /\ w.collected \in Closures /\ w.tools \in [refs : Closures, runtime : Runtimes]
  /\ \A s \in Sources :
       /\ w.image[s] \in Images
       /\ w.selected[s] \subseteq Eligible(w.image[s], w.collected)
  /\ \A p \in Plans :
       /\ w.fixed[p] \in Images
       /\ w.convert[p] \subseteq w.selected[InputOf[p]]
       /\ p \notin w.edited => w.fixed[p] = w.image[InputOf[p]]
  /\ w.wrapper \in [Closures -> {"weak", "strong", "flaky"}]

ASSUME WorldAssumption == \A w \in Worlds : Legal(w)

VARIABLES
  world,     \* {} before the chain starts, then {world}
  dossier,   \* file name -> content: the bundle and the evidence there is
  tools,     \* the reference closure and the runtime: [refs, runtime]
  at,        \* the step of the chain and its next instruction: [step, k]
  got,       \* name -> content: what the step has read, and its trials
  moments    \* the contents of all files since the step last learned something

cvars == <<world, dossier, tools, at, got, moments>>

W == CHOOSE w \in world : TRUE

None == [x \in {} |-> {}]

\* What is in f, and in g where f has nothing.
Over(f, g) ==
  [x \in DOMAIN f \cup DOMAIN g |-> IF x \in DOMAIN f THEN f[x] ELSE g[x]]

Disk == Over(file, Over(tools, dossier))

BundleFiles == {"manifest", "patch", "post"}

\* What a piece of evidence is about: the hashes it holds.
About == [
  gate   |-> {"plan", "cands", "source"} \cup BundleFiles,
  delta  |-> {"plan", "cands", "source", "gate", "refs", "runtime"} \cup BundleFiles,
  target |-> {"plan", "cands", "source", "delta", "refs", "trials"} \cup BundleFiles,
  cert   |-> {"plan", "cands", "gate", "delta", "target", "refs"} \cup BundleFiles]

Steps == DOMAIN About
Following == [gate |-> "delta", delta |-> "target", target |-> "cert", cert |-> "done"]

Converts(p) == W.convert[p] # {}
Edited(p)   == p \in W.edited

-----------------------------------------------------------------------------
(* The checks, on what was read. *)

\* validate_gate_authority
Authority == InputOf[got.plan] = got.cands

Agrees(e, fields) == \A x \in fields : e[x] = got[x]

\* Mutant of Gated: a plan that converts nothing has no bundle.
GatedEdited ==
  /\ got.source = got.cands
  /\ got.manifest = Manifest(got.plan, got.cands, got.post, got.patch)
  /\ got.patch = Patch(got.source, got.post)
  /\ Edited(got.post.plan) /\ Converts(got.plan)

\* run_gate, [6] to [10]: the source is pristine, the manifest the projection
\* of the rest, the patch empty just when the plan converts nothing, and
\* applying it gives the postimage.
Gated ==
  /\ got.source = got.cands
  /\ got.manifest = Manifest(got.plan, got.cands, got.post, got.patch)
  /\ got.patch = Patch(got.source, got.post)
  /\ Edited(got.post.plan) <=> Converts(got.plan)

\* bind_gate: the evidence is rebuilt from this plan and this bundle.
GateBound == Agrees(got.gate, About.gate)

\* check_baseline_authority and classify_delta
Classified ==
  LET pre    == W.image[got.source]
      post   == W.fixed[got.post.plan]
      ids(S) == {Id(pre, W.collected, s) : s \in S}
      chosen == W.selected[got.cands]
      converted == W.convert[got.plan]
  IN  /\ Reproduced(chosen, pre, W.collected, got.refs)
      /\ Verdict(ids(converted), ids(chosen \ converted), pre, post, got.refs) = "pass"

\* bind_delta, bind_bundle, reference_closure, resolve_probe_runtime
DeltaBound     == Authority /\ Agrees(got.delta, {"plan", "cands"})
BundleBound    == Agrees(got.delta, BundleFiles \cup {"source"})
ReferenceBound == Agrees(got.delta, {"refs"})
SameRuntime    == Agrees(got.delta, {"runtime"})

\* classify: the attempts agree, and all of them pass.
Collected == \A i \in 1..3 : got.trials[i] = "pass"

\* bind_certification_bundle, _bind_gate, _bind_delta, _bind_target; the hash
\* of the preimage is that of the candidates.
Certifiable ==
  LET pre == W.image[got.cands]
      ids(S) == {Id(pre, W.collected, s) : s \in S}
      chosen == W.selected[got.cands]
      converted == W.convert[got.plan]
  IN  /\ got.manifest = Manifest(got.plan, got.cands, got.post, got.patch)
      /\ Edited(got.post.plan) <=> Converts(got.plan)
      /\ Agrees(got.gate, About.gate \ {"source"}) /\ got.gate.source = got.cands
      /\ Agrees(got.delta, {"plan", "cands", "gate"} \cup BundleFiles)
      /\ got.delta.source = got.cands
      /\ Representable(ids(converted), ids(chosen \ converted), pre,
                       W.fixed[got.post.plan], got.delta.refs)
      /\ Agrees(got.target, {"plan", "cands", "delta"} \cup BundleFiles)
      /\ got.target.source = got.cands /\ got.target.refs = got.delta.refs
      /\ Converts(got.plan) = (got.target.trials # <<>>)

\* _bind_reference
ClosureBound == got.refs = got.delta.refs /\ got.refs = got.target.refs

Holds(check) ==
  CASE check = "authority"   -> Authority
    [] check = "gated"       -> Gated
    [] check = "gate"        -> GateBound
    [] check = "classified"  -> Classified
    [] check = "delta"       -> DeltaBound
    [] check = "bundle"      -> BundleBound
    [] check = "references"  -> ReferenceBound
    [] check = "runtime"     -> SameRuntime
    [] check = "collected"   -> Collected
    [] check = "certifiable" -> Certifiable
    [] check = "closure"     -> ClosureBound

-----------------------------------------------------------------------------
(* The steps as scripts of instructions: <<what to do, with what>>. *)

Read(names)  == [i \in DOMAIN names |-> <<"read", names[i]>>]
Again(names) == [i \in DOMAIN names |-> <<"again", names[i]>>]
Check(name)  == << <<"check", name>> >>
Trial        == Again(<<"runtime">>) \o << <<"try", "trials">> >>

GateScript ==
  Read(<<"manifest", "patch", "plan", "cands", "post">>) \o Check("authority")
    \o Read(<<"source">>) \o Check("gated")

\* run_verify_delta; "protected" is the source as _isolation_snapshot saw it.
DeltaScript ==
  Read(<<"plan", "cands", "gate">>) \o Check("authority")
    \o Read(<<"manifest", "patch", "post", "source">>) \o Check("gate")
    \o Read(<<"runtime", "refs", "protected">>)
    \o Again(<<"runtime", "runtime", "runtime", "protected">>)
    \o Check("classified")

\* Mutant of TargetInputs: the delta is not read again.
TargetInputsOnce == <<"plan", "cands", "source", "patch", "manifest", "post">>

\* _reval_inputs
TargetInputs == <<"plan", "cands", "delta", "source", "patch", "manifest", "post">>

TargetScript(converted) ==
  Read(<<"plan", "cands", "delta">>) \o Check("delta")
    \o Read(<<"manifest", "patch", "post", "source">>) \o Check("bundle")
    \o Read(<<"refs">>) \o Check("references")
    \o (IF converted
        THEN Read(<<"runtime">>) \o Check("runtime") \o Again(<<"runtime">>)
               \o Trial \o Trial \o Trial \o Check("collected")
        ELSE <<>>)
    \o Again(TargetInputs)
    \o (IF converted THEN Again(<<"runtime">>) ELSE <<>>)

\* _revalidate_originals
Originals == <<"plan", "cands", "gate", "delta", "target",
               "manifest", "patch", "post", "refs">>

CertifyScript ==
  Read(<<"plan", "cands", "gate", "delta", "target">>) \o Check("authority")
    \o Read(<<"manifest", "patch", "post">>) \o Check("certifiable")
    \o Read(<<"refs">>) \o Check("closure")
    \o Again(Originals) \o Again(Originals)

Script ==
  CASE at.step = "gate"   -> GateScript
    [] at.step = "delta"  -> DeltaScript
    [] at.step = "target" -> TargetScript("plan" \in DOMAIN got /\ Converts(got.plan))
    [] at.step = "cert"   -> CertifyScript

-----------------------------------------------------------------------------
(* The chain. *)

ChainInit ==
  /\ Init
  /\ world = {} /\ dossier = None /\ tools = None
  /\ at = [step |-> "apply", k |-> 1] /\ got = None /\ moments = <<>>

\* A step starts with nothing read.
Begin(step) ==
  at' = [step |-> step, k |-> 1] /\ got' = [trials |-> <<>>] /\ moments' = <<Disk'>>

\* bound: the bundle was published by an undisturbed application.
HandOver ==
  /\ at.step = "apply"
  /\ mishaps = 0 /\ \A r \in Runs : pc[r] \in Ended
  /\ \E w \in Worlds, b \in out :
       /\ w.plan = file.plan /\ w.by = b.by
       /\ world' = {w} /\ tools' = w.tools
       /\ dossier' = [x \in {y \in BundleFiles : b[y] # {}} |->
                        CHOOSE c \in b[x] : TRUE]
  /\ UNCHANGED avars
  /\ Begin("gate")

Advance   == at' = [at EXCEPT !.k = @ + 1]
GiveUp    == /\ at' = [step |-> "refused", k |-> 1] /\ got' = None /\ moments' = <<>>
             /\ UNCHANGED <<avars, world, dossier, tools>>
FileOf(x) == IF x = "protected" THEN "source" ELSE x
Present(x) == FileOf(x) \in DOMAIN Disk

\* The instruction of the step, if it is to do `what`.
Instruction(what) == at.step \in Steps /\ at.k \in DOMAIN Script /\ Script[at.k][1] = what
Operand     == Script[at.k][2]

ReadFile ==
  /\ Instruction("read")
  /\ \/ /\ Present(Operand)
        /\ got' = [x \in {Operand} \cup DOMAIN got |->
                     IF x = Operand THEN Disk[FileOf(x)] ELSE got[x]]
        /\ moments' = <<Disk>>
        /\ Advance
        /\ UNCHANGED <<avars, world, dossier, tools>>
     \/ ~ Present(Operand) /\ GiveUp

MakeCheck ==
  /\ Instruction("check")
  /\ \/ Holds(Operand) /\ Advance
        /\ UNCHANGED <<avars, world, dossier, tools, got, moments>>
     \/ ~ Holds(Operand) /\ GiveUp

ReadAgain ==
  LET same == Present(Operand) /\ Disk[FileOf(Operand)] = got[Operand] IN
  /\ Instruction("again")
  /\ \/ same /\ Advance
        /\ UNCHANGED <<avars, world, dossier, tools, got, moments>>
     \/ ~ same /\ GiveUp

\* run_probe_attempt, with the wrapper of the closure that was read.
TryWrapper ==
  /\ Instruction("try")
  /\ \E says \in CASE W.wrapper[got.refs] = "weak"   -> {"pass"}
                   [] W.wrapper[got.refs] = "strong" -> {"retains"}
                   [] W.wrapper[got.refs] = "flaky"  -> {"pass", "retains"} :
       got' = [got EXCEPT !.trials = Append(@, says)]
  /\ moments' = <<Disk>>
  /\ Advance
  /\ UNCHANGED <<avars, world, dossier, tools>>

\* _publish and its likes: the rename fails if there is something already.
PublishEvidence ==
  /\ at.step \in Steps /\ at.k = Len(Script) + 1
  /\ \/ /\ at.step \notin DOMAIN dossier
        /\ dossier' = Over([x \in {at.step} |-> Restrict(got, About[x])], dossier)
        /\ UNCHANGED <<avars, world, tools>>
        /\ Begin(Following[at.step])
     \/ at.step \in DOMAIN dossier /\ GiveUp

ChainStep == ReadFile \/ MakeCheck \/ ReadAgain \/ TryWrapper \/ PublishEvidence

-----------------------------------------------------------------------------
(* What an attempt makes of a plan, a closure and a runtime, undisturbed. *)

Undisturbed(a) ==
  LET s == InputOf[a.plan]
      t == Post(a.plan, s)
      d == Patch(s, t)
      files == [plan |-> a.plan, cands |-> s, source |-> s, post |-> t, patch |-> d,
                manifest |-> Manifest(a.plan, s, t, d), refs |-> a.refs,
                runtime |-> a.runtime,
                trials |-> IF Converts(a.plan) THEN <<"pass", "pass", "pass">> ELSE <<>>]
      gate   == Restrict(files, About.gate)
      delta  == Restrict(Over(files, [gate |-> gate]), About.delta)
      target == Restrict(Over(files, [delta |-> delta]), About.target)
      all    == Over(files, [gate |-> gate, delta |-> delta, target |-> target])
  IN  Over(all, [cert |-> Restrict(all, About.cert)])

\* An attempt that is right to produce this evidence.
Deserves(a, step) ==
  LET s == InputOf[a.plan]
      pre  == W.image[s]
      chosen == W.selected[s]
  IN  /\ Edited(a.plan) <=> Converts(a.plan)
      /\ step # "gate" =>
           /\ Reproduced(chosen, pre, W.collected, a.refs)
           /\ AsPlanned(chosen, W.convert[a.plan], pre, W.fixed[a.plan], a.refs)
      /\ step \in {"target", "cert"} =>
           (Converts(a.plan) => W.wrapper[a.refs] # "strong")
      /\ step = "cert" => ~ SharedKey(chosen, pre, a.refs)

-----------------------------------------------------------------------------
(* What may happen to a step. *)

Disturb(what) == at.step \in Steps /\ W.rivals # {} /\ what
See == Disk' # Disk /\ moments' = Append(moments, Disk')

\* The plan, the candidates or the source is replaced, or the tools are.
ReplaceInput ==
  /\ Disturb(Replace) /\ UNCHANGED <<world, dossier, tools, at, got>> /\ See
ReplaceTools ==
  /\ Disturb(Mishap)
  /\ \/ \E c \in Closures : tools' = [tools EXCEPT !.refs = c]
     \/ \E c \in Runtimes : tools' = [tools EXCEPT !.runtime = c]
  /\ UNCHANGED <<file, disk, pc, memory, world, dossier, at, got>>
  /\ See

\* The bundle, or a piece of evidence, becomes that of another attempt; or
\* evidence is removed.
Exchange ==
  /\ Disturb(Mishap)
  /\ \E a \in W.rivals :
       \/ dossier' = Over(Restrict(Undisturbed(a), BundleFiles), dossier)
       \/ \E step \in Steps :
            /\ Deserves(a, step)
            /\ dossier' = Over([x \in {step} |-> Undisturbed(a)[x]], dossier)
       \/ \E step \in Steps : dossier' = Restrict(dossier, (DOMAIN dossier) \ {step})
  /\ UNCHANGED <<file, disk, pc, memory, world, tools, at, got>>
  /\ See

\* A failed operation, or a kill: what is not published is gone.
StopStep ==
  /\ Disturb(Mishap)
  /\ at' = [step |-> "refused", k |-> 1] /\ got' = None /\ moments' = <<>>
  /\ UNCHANGED <<file, disk, pc, memory, world, dossier, tools>>

Applying == at.step = "apply" /\ Next /\ UNCHANGED cvars

ChainNext ==
  \/ Applying \/ HandOver \/ ChainStep
  \/ ReplaceInput \/ ReplaceTools \/ Exchange \/ StopStep

ChainSpec ==
  /\ ChainInit /\ [][ChainNext]_<<avars, cvars>>
  /\ \A r \in Runs : WF_avars(at.step = "apply" /\ Step(r) /\ UNCHANGED cvars)
  /\ WF_<<avars, cvars>>(ChainStep)

-----------------------------------------------------------------------------
(***************************************************************************)
(* Evidence is about one attempt, and true of it: whatever was exchanged   *)
(* or replaced between the reads, a published piece of evidence is the one *)
(* that an undisturbed attempt makes of one plan, one closure and one      *)
(* runtime, and that attempt deserves it: from the delta on, the fixed     *)
(* file differs from the original by the conversions of the plan.          *)
(***************************************************************************)
EvidenceOfOneAttempt ==
  at.k = 1 => \A step \in Steps \cap DOMAIN dossier :
                \E a \in Attempts : /\ dossier[step] = Undisturbed(a)[step]
                                    /\ Deserves(a, step)

(***************************************************************************)
(* What deserves a certificate gets it when nothing is replaced, no step   *)
(* stops and the wrapper holds subscribers weakly.                         *)
(***************************************************************************)
Worthy ==
  LET a == [plan |-> file.plan, refs |-> tools.refs, runtime |-> tools.runtime] IN
  /\ at.step = "gate" /\ at.k = 1 /\ W.rivals = {}
  /\ Deserves(a, "cert")
  /\ Converts(a.plan) => W.wrapper[a.refs] = "weak"

CertifiedWhenTrue == Worthy ~> ("cert" \in DOMAIN dossier)

(***************************************************************************)
(* The steps that read their inputs again before they publish              *)
(* (fix_target.py `_reval_inputs`, fix_certify.py `_revalidate_originals`) *)
(* publish of files that were all there together, at a moment when the     *)
(* step had read the last of them and made the last trial, although it     *)
(* read them one by one.  Only a file changed and put back escapes.        *)
(***************************************************************************)
Watched == [target |-> About.target \ {"refs", "trials"}, cert |-> About.cert]

Holding(x, m) == x \in DOMAIN m /\ m[x] = got[x]
PutBack(x) == \E i, j \in DOMAIN moments :
  i < j /\ ~ Holding(x, moments[i]) /\ Holding(x, moments[j])

AtOneMoment ==
  (at.step \in DOMAIN Watched /\ at.k = Len(Script) + 1) =>
    \/ \E i \in DOMAIN moments : \A x \in Watched[at.step] : Holding(x, moments[i])
    \/ \E x \in Watched[at.step] : PutBack(x)
=============================================================================
