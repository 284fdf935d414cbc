------------------------- MODULE CapturePlan_proofs -------------------------
(***************************************************************************)
(* Proofs about captures, their admission and their plans, for every set   *)
(* of captures, whatever they observed, and every command line.            *)
(***************************************************************************)
EXTENDS CapturePlan, TLAPS

\* An artefact whose raw output states its run is stamped with that run.
Stamped(class, file) ==
    file \notin {NoFile, Torn} /\ Recorded(class, file.from) => file.run = file.from

AllStamped ==
    /\ DOMAIN files = Classes
    /\ \A class \in Primary : Stamped(class, files[class])

\* Extraction stamps what it makes, or makes nothing: capture_extract.py refuses
\* a flag that contradicts the raw output.
LEMMA ExtractStamps ==
    ASSUME NEW class, NEW c, NEW flag, NEW proto, NEW split
    PROVE  Stamped(class, Extract(class, c, flag, proto, split))
<1> DEFINE made == Extract(class, c, flag, proto, split)
           stamp == CaptureRunId(class, c, flag)
           body == Body(class, c, Bytes(proto))
<1>1. made = Torn \/ (stamp # NoRun /\ made = Artifact(stamp, c, body))
  BY DEF Extract
<1>2. CASE made = Torn
  BY <1>2 DEF Stamped
<1>3. CASE stamp # NoRun /\ made = Artifact(stamp, c, body)
  <2>1. made.from = c /\ made.run = stamp
    BY <1>3 DEF Artifact
  <2>2. Recorded(class, c) => stamp = c
    BY <1>3 DEF CaptureRunId
  <2> QED BY <2>1, <2>2 DEF Stamped
<1> QED BY <1>1, <1>2, <1>3

\* What another command wrote for a capture carries that capture's run.
LEMMA SuppliedStamps ==
    ASSUME NEW class \in Primary, NEW c
    PROVE  Stamped(class, Supplied(class, c, c))
<1>1. class \notin Derived
  BY DEF Primary
<1> QED BY <1>1 DEF Stamped, Supplied, Artifact

LEMMA ProducedStamps ==
    ASSUME NEW class \in Primary
    PROVE  Stamped(class, Produced(class))
<1> DEFINE in == run.plan.input[class]
<1>1. \/ Produced(class) = Torn
      \/ \E proto, split : Produced(class) = Extract(class, in.from, run.plan.flag, proto, split)
      \/ Produced(class) = Supplied(class, in.from, in.from)
  BY DEF Produced
<1>2. CASE Produced(class) = Torn
  BY <1>2 DEF Stamped
<1> QED BY <1>1, <1>2, ExtractStamps, SuppliedStamps

LEMMA StampedInit == Init => AllStamped
BY DEF Init, AllStamped, Stamped, Primary

\* Replacing one file by a stamped one keeps all files stamped.
LEMMA ReplaceStamps ==
    ASSUME AllStamped, NEW class, NEW file,
           class \in Primary => Stamped(class, file),
           files' = [files EXCEPT ![class] = file]
    PROVE  AllStamped'
BY DEF AllStamped, Primary

LEMMA StampedNext == AllStamped /\ [Next]_vars => AllStamped'
<1> SUFFICES ASSUME AllStamped, [Next]_vars PROVE AllStamped'
  OBVIOUS
<1>1. CASE AdmitClass
  <2> DEFINE class == Order[run.at]
             file == IF Produced(class) = Torn THEN files[class] ELSE Produced(class)
  <2>1. files' = [files EXCEPT ![class] = file]
    BY <1>1 DEF AdmitClass
  <2>2. class \in Primary => Stamped(class, file)
    BY ProducedStamps DEF AllStamped
  <2> QED BY <2>1, <2>2, ReplaceStamps
<1>2. CASE Abort
  <2>1. CASE UNCHANGED files
    BY <2>1 DEF AllStamped, Stamped
  <2>2. CASE files' = [files EXCEPT ![Order[run.at]] = Torn]
    <3>1. Stamped(Order[run.at], Torn)
      BY DEF Stamped
    <3> QED BY <3>1, <2>2, ReplaceStamps
  <2> QED BY <1>2, <2>1, <2>2 DEF Abort
<1>3. CASE ExtractInPlace
  <2>1. PICK class, c, proto :
           /\ class \in Extractable /\ c \in Captures
           /\ files' = [files EXCEPT ![class] = Extract(class, c, c, proto, NoFile)]
    BY <1>3 DEF ExtractInPlace
  <2> QED BY <2>1, ExtractStamps, ReplaceStamps
<1>4. CASE UNCHANGED files
  BY <1>4 DEF AllStamped, Stamped
<1> QED
  BY <1>1, <1>2, <1>3, <1>4
     DEF Next, vars, BeginAdmission, BundleBuild, BundleVerification, ReadinessEvaluation,
         RebuildBundle, Sign, ReleaseCandidateEvidence

LEMMA StampedIsOneCapture == AllStamped => VerifiedIsOneCapture
<1> SUFFICES ASSUME AllStamped, Accepted, NEW class \in Primary, NEW other \in Primary,
                    Recorded(class, files[class].from), Recorded(other, files[other].from)
             PROVE  files[class].from = files[other].from
  BY DEF VerifiedIsOneCapture
<1>1. \A k \in Primary : files[k] \notin {NoFile, Torn}
  BY DEF Accepted, VerifyBundle, EntryChecks, ArtifactShape, Primary
<1>2. files[class].run = files[other].run
  BY DEF Accepted, VerifyBundle, CrossArtifactInvariants, CaptureRunIdBinding
<1> QED BY <1>1, <1>2 DEF AllStamped, Stamped

\* Every artefact of the directory whose raw output states its run is stamped
\* with that run, after any history of commands.
THEOREM AllStampedInvariant == Spec => []AllStamped
BY StampedInit, StampedNext, PTL DEF Spec

\* Whatever admissions, killed admissions, extractions in place and rebuilds made
\* of the directory, a bundle that verifies holds artefacts of one capture only.
THEOREM VerifiedBundlesAreOneCapture == Spec => []VerifiedIsOneCapture
BY AllStampedInvariant, StampedIsOneCapture, PTL

-----------------------------------------------------------------------------
\* Making, rehearsing and diffing plans never changes what admission works on.
THEOREM PlanningLeavesAdmissionAlone == PlanSpec => Spec
<1>1. PlanInit => Init
  BY DEF PlanInit
<1>2. [PlanNext]_allVars => [Next]_vars
  BY DEF PlanNext, Admitting, BuildManifest, SignManifest, Rehearse, Diff, Planning, allVars
<1> QED BY <1>1, <1>2, PTL DEF PlanSpec, Spec

\* What a report says is still so while the report is there: a rehearsal and a
\* diff end a history.
ReportsStand ==
    /\ diff.ok =>
          \E required \in BOOLEAN :
              DiffOk(plan, planSig, required, bundle, files, sidecar, required)
    /\ rehearsal.ok =>
          \E b, sig : \E required \in BOOLEAN :
              DiffOk(plan, planSig, required, b, plan.entries, sig, required)
    /\ diff.faithful => diff.ok
    /\ diff.ok \/ diff.faithful => diff.done
    /\ rehearsal.ok => rehearsal.done

LEMMA ReportsInit == PlanInit => ReportsStand
BY DEF PlanInit, ReportsStand

\* A plan whose every part is what the bundle has shows no drift.
LEMMA AsPlannedShowsNoDrift ==
    ASSUME NEW required \in BOOLEAN, AsPlanned(required)
    PROVE  DiffOk(plan, planSig, required, bundle, files, sidecar, required)
<1>1. VerifyBundle(bundle, files, sidecar, Keys, TRUE) /\ sidecar # NoSignature
  BY DEF AsPlanned, VerifyBundle, SignatureChecks
<1>2. VerifyBundle(bundle, files, sidecar, Keys, required)
  BY <1>1 DEF VerifyBundle, SignatureChecks
<1>3. /\ ContextTasks(files) /\ AuditImageBinding(files)
  BY <1>1 DEF VerifyBundle, CrossArtifactInvariants
<1>4. \A class \in Classes : plan.entries[class].body = files[class].body
  BY DEF AsPlanned
<1>5. {"fixed_protocol_config", "proposer_context_manifest", "live_harbor_audit",
       "live_terminal_bench_split_manifest", "proposal_validation_manifest"} \subseteq Classes
  BY DEF Classes, Order
<1>6. FixedProtocolFindings(plan, files)
  BY <1>4, <1>5 DEF FixedProtocolFindings
<1>7. ContextFindings(plan, files)
  BY <1>3, <1>4, <1>5 DEF ContextFindings, ContextTasks, CategoryDrift, EvidenceDrift
<1>8. ValidationFindings(plan, files)
  BY <1>4, <1>5 DEF ValidationFindings, OutcomeDrift
<1>9. AuditImageFindings(plan, files)
  BY <1>3, <1>4, <1>5 DEF AuditImageFindings
<1> QED
  BY <1>1, <1>2, <1>6, <1>7, <1>8, <1>9
     DEF AsPlanned, DiffOk, BindingFindings, SourceFindings, CaptureRunIdFindings, NetworkControlFindings, CustodyFindings

LEMMA ReportsNext == ReportsStand /\ [PlanNext]_allVars => ReportsStand'
<1> SUFFICES ASSUME ReportsStand, [PlanNext]_allVars PROVE ReportsStand'
  OBVIOUS
<1>1. CASE Diff
  <2>1. PICK required \in BOOLEAN :
           diff' = [done |-> TRUE, faithful |-> AsPlanned(required),
                    ok |-> DiffOk(plan, planSig, required, bundle, files, sidecar, required)]
    BY <1>1 DEF Diff
  <2>2. UNCHANGED <<plan, planSig, rehearsal, bundle, files, sidecar>>
    BY <1>1 DEF Diff, Planning, vars
  <2>3. AsPlanned(required) =>
           DiffOk(plan, planSig, required, bundle, files, sidecar, required)
    BY AsPlannedShowsNoDrift
  <2>4. /\ diff'.ok = DiffOk(plan, planSig, required, bundle, files, sidecar, required)
        /\ diff'.faithful = AsPlanned(required) /\ diff'.done
    BY <2>1
  <2> QED BY <2>2, <2>3, <2>4 DEF ReportsStand, DiffOk, VerifyManifest
<1>2. CASE Rehearse
  <2> DEFINE NoDrift(required, b, sig) ==
               DiffOk(plan, planSig, required, b, plan.entries, sig, required)
  <2>1. rehearsal'.done /\ (rehearsal'.ok => \E b, sig : \E required \in BOOLEAN :
                                NoDrift(required, b, sig))
    BY <1>2 DEF Rehearse
  <2>2. UNCHANGED <<plan, planSig, diff>> /\ ~diff.done
    BY <1>2 DEF Rehearse, Planning, Reported
  <2> QED BY <2>1, <2>2 DEF ReportsStand
<1>3. CASE Admitting \/ BuildManifest \/ SignManifest
  <2>1. ~Reported /\ UNCHANGED <<rehearsal, diff>>
    BY <1>3 DEF Admitting, BuildManifest, SignManifest, Planning, planVars
  <2> QED BY <2>1 DEF ReportsStand, Reported
<1>4. CASE UNCHANGED allVars
  BY <1>4 DEF allVars, planVars, vars, ReportsStand
<1> QED BY <1>1, <1>2, <1>3, <1>4 DEF PlanNext

\* The reports stay true of the plan, the bundle and the files they were made from.
THEOREM ReportsInvariant == PlanSpec => []ReportsStand
BY ReportsInit, ReportsNext, PTL DEF PlanSpec

\* What a diff without findings establishes about the files it looked at.
LEMMA NoDriftMeans ==
    ASSUME NEW p, NEW psig, NEW prequired, NEW b, NEW actual, NEW sig, NEW required,
           DiffOk(p, psig, prequired, b, actual, sig, required)
    PROVE  /\ \A class \in Primary : actual[class].run = p.run
           /\ actual["live_terminal_bench_split_manifest"].body.heldIn
                  = p.entries["live_terminal_bench_split_manifest"].body.heldIn
           /\ ContextTaskIds(actual["proposer_context_manifest"].body)
                  = p.entries["live_terminal_bench_split_manifest"].body.heldIn
           /\ \A class \in NeedsProtocol :
                 actual[class].body.proto.body = p.entries["fixed_protocol_config"].body
           /\ actual["network_resource_controls_attestation"].body.controls = p.controls
           /\ DOMAIN actual["live_two_repeat_evaluation_report"].body.attempts
                  = SplitTasks(actual["live_terminal_bench_split_manifest"])
           /\ DOMAIN actual["live_harbor_audit"].body.trials
                  = SplitTasks(actual["live_terminal_bench_split_manifest"])
<1>1. /\ EntryChecks(b, actual) /\ ContextTasks(actual) /\ ProtocolBinding(actual)
      /\ ValidationBinding(actual) /\ Coverage(actual)
  BY DEF DiffOk, VerifyBundle, CrossArtifactInvariants
<1>2. actual["fixed_protocol_config"] \notin {NoFile, Torn}
  <2>1. "fixed_protocol_config" \in Classes
    BY DEF Classes, Order
  <2> QED BY <1>1, <2>1 DEF EntryChecks, ArtifactShape
<1>3. Bytes(actual["fixed_protocol_config"]).body = p.entries["fixed_protocol_config"].body
  BY <1>2 DEF Bytes, DiffOk, FixedProtocolFindings
<1>4. \A class \in NeedsProtocol :
         actual[class].body.proto = Bytes(actual["fixed_protocol_config"])
  BY <1>1 DEF NeedsProtocol, ProtocolBinding, ValidationBinding
<1> QED
  BY <1>1, <1>3, <1>4
     DEF DiffOk, CaptureRunIdFindings, ContextFindings, ContextTasks,
         NetworkControlFindings, Coverage

LEMMA CleanDiffMeans == AllStamped /\ ReportsStand => CleanDiffIsThePlannedRun
<1> SUFFICES ASSUME AllStamped, ReportsStand, diff.ok PROVE CleanDiffIsThePlannedRun
  BY DEF CleanDiffIsThePlannedRun
<1>1. PICK required \in BOOLEAN :
         DiffOk(plan, planSig, required, bundle, files, sidecar, required)
  BY DEF ReportsStand
<1>2. \A class \in Primary : Recorded(class, files[class].from) => files[class].from = plan.run
  <2>1. \A class \in Primary : files[class].run = plan.run
    BY <1>1, NoDriftMeans
  <2>2. \A class \in Primary : files[class] \notin {NoFile, Torn}
    BY <1>1 DEF DiffOk, VerifyBundle, EntryChecks, ArtifactShape, Primary
  <2> QED BY <2>1, <2>2 DEF AllStamped, Stamped
<1>3. plan.entries["live_terminal_bench_split_manifest"].body.heldIn
         \subseteq SplitTasks(files["live_terminal_bench_split_manifest"])
  BY <1>1, NoDriftMeans DEF SplitTasks
<1> QED BY <1>1, <1>2, <1>3, NoDriftMeans DEF CleanDiffIsThePlannedRun

LEMMA RehearsedMeans == ReportsStand => RehearsedPlanIsCoherent
<1> SUFFICES ASSUME ReportsStand, rehearsal.ok PROVE RehearsedPlanIsCoherent
  BY DEF RehearsedPlanIsCoherent
<1>1. PICK b, sig : \E required \in BOOLEAN :
         DiffOk(plan, planSig, required, b, plan.entries, sig, required)
  BY DEF ReportsStand
<1> QED BY <1>1, NoDriftMeans DEF RehearsedPlanIsCoherent

\* A realized bundle that diffs clean is the planned run: its split, evaluation
\* and audit hold the planned held-in tasks, its evidence is bound to the planned
\* protocol, and what states its run comes from the planned run.
THEOREM CleanDiffsAreThePlannedRun == PlanSpec => []CleanDiffIsThePlannedRun
BY PlanningLeavesAdmissionAlone, AllStampedInvariant, ReportsInvariant, CleanDiffMeans, PTL

\* A plan that rehearses is coherent: one run, one protocol, one split, one
\* network policy, whichever templates were put among its stubs.
THEOREM RehearsedPlansAreCoherent == PlanSpec => []RehearsedPlanIsCoherent
BY ReportsInvariant, RehearsedMeans, PTL

\* No drift is reported of a bundle that has everything the plan fixes.
THEOREM AsPlannedBundlesDiffClean == PlanSpec => []AsPlannedDiffsClean
<1>1. ReportsStand => AsPlannedDiffsClean
  BY DEF ReportsStand, AsPlannedDiffsClean
<1> QED BY <1>1, ReportsInvariant, PTL

-----------------------------------------------------------------------------
(***************************************************************************)
(* The admission of an honest capture.                                     *)
(***************************************************************************)

\* What a complete capture observed agrees wherever the verifier will compare
\* the artefacts made of it, and gives each of them its shape.
Consistent(c) ==
    LET o == Observed[c]
        trust == ImageTrust(o)
    IN /\ SplitShape(SplitManifest(o))
       /\ o.images # {} /\ o.controls.bandwidth > 0
       /\ o.models = PaperModels /\ o.probed = PaperModels /\ o.asked = PaperModels
       /\ o.rounds > 0 /\ o.width > 0
       /\ o.calls = o.rounds /\ o.committed <= o.rounds * o.width
       /\ ContextShape(ContextManifest(o)) /\ \A row \in o.patterns : EvidenceAgrees(row)
       /\ ContextTaskIds(ContextManifest(o)) = o.heldIn
       /\ TaskIds(o.trials) = o.heldIn \cup o.heldOut
       /\ o.order \in {<<0, 1>>, <<1, 0>>}
       /\ \/ o.digests = {}
          \/ /\ ~SomeWithoutChildren(trust)
             /\ IF ChildDigests(trust) # {} THEN o.digests \subseteq ChildDigests(trust)
                ELSE o.digests = TrustedDigests(trust)
       /\ ~o.leakage /\ Records \subseteq o.recorded

\* A capture whose attempts are all there, in either order, is consistent.
CapturesAreConsistent ==
    \A c \in Captures : TwoAttempts(Observed[c].trials) => Consistent(c)

\* What stands for a missing or torn file, or for no run, is none.
Markers ==
    /\ \A r, c, body : Artifact(r, c, body) \notin {NoFile, Torn}
    /\ \A labels, hashes : [labels |-> labels, hashes |-> hashes] \notin {NoBundle, Torn}
    /\ NoRun \notin Captures

\* The artefacts that an honest plan for c makes.
Protocol(c) == [run |-> c, body |-> ProtocolConfig(Observed[c])]

FromOutside == Derived \cup {"proposal_validation_manifest"}

Expected(class, c) ==
    IF class \in FromOutside THEN Supplied(class, c, c)
    ELSE Artifact(c, c, Body(class, c, Protocol(c)))

\* The body of each of them.
LEMMA SuppliedProtocol ==
    ASSUME Markers, NEW c
    PROVE  Bytes(Artifact(c, c, Body("fixed_protocol_config", c, NoRun))) = Protocol(c)
<1>1. Body("fixed_protocol_config", c, NoRun) = ProtocolConfig(Observed[c])
  BY DEF Body
<1>2. Artifact(c, c, ProtocolConfig(Observed[c])) \notin {NoFile, Torn}
  BY DEF Markers
<1> QED BY <1>1, <1>2 DEF Bytes, Artifact, Protocol

LEMMA ExpectedExtracted ==
    ASSUME NEW c
    PROVE  LET o == Observed[c]
               body(class) == Expected(class, c).body
           IN  /\ body("container_image_trust_report") = ImageTrust(o)
               /\ body("fixed_protocol_config") = ProtocolConfig(o)
               /\ body("live_harbor_audit") = HarborAudit(o, Protocol(c))
               /\ body("live_harbor_preflight_report") = HarborPreflight(o)
               /\ body("live_terminal_bench_split_manifest") = SplitManifest(o)
               /\ body("live_two_repeat_evaluation_report") = EvaluationReport(o, Protocol(c))
               /\ body("model_backend_preflight_report") = ModelPreflight(o)
               /\ body("network_resource_controls_attestation") = NetworkControls(o)
               /\ body("proposer_context_manifest") = ContextManifest(o)
               /\ body("proposer_llm_request_log") = RequestLog(o, c)
<1>1. ASSUME NEW class, class \notin FromOutside
      PROVE  Expected(class, c).body = Body(class, c, Protocol(c))
  BY <1>1 DEF Expected, Artifact
<1> QED BY <1>1 DEF FromOutside, Derived, Body

Validates(validation, c) ==
    LET o == Observed[c]
    IN  /\ validation.proto = Protocol(c) /\ validation.rounds = o.rounds
        /\ validation.committed = o.committed /\ validation.traffic = c
        /\ validation.repeats = 2
        /\ validation.total = Cardinality(o.heldIn \cup o.heldOut)

LEMMA ExpectedSupplied ==
    ASSUME Markers, NEW c
    PROVE  /\ Expected("audit_verify_report", c).body
                  = [leakage |-> Observed[c].leakage, recorded |-> Observed[c].recorded]
           /\ Expected("release_candidate_evidence", c).body = [passed |-> ReleaseGates]
           /\ Validates(Expected("proposal_validation_manifest", c).body, c)
<1> DEFINE proto == Artifact(c, c, Body("fixed_protocol_config", c, NoRun))
<1>1. Bytes(proto) = Protocol(c)
  BY SuppliedProtocol
<1>2. ASSUME NEW class \in Derived
      PROVE  Expected(class, c).body = Body(class, c, Protocol(c))
  BY <1>1, <1>2 DEF Expected, FromOutside, Derived, Supplied, Artifact
<1>3. Expected("proposal_validation_manifest", c).body
          = [ValidationManifest(Observed[c], Protocol(c)) EXCEPT
                !.total = Cardinality(Observed[c].heldIn \cup Observed[c].heldOut),
                !.traffic = c]
  <2>1. Body("proposal_validation_manifest", c, Protocol(c))
            = ValidationManifest(Observed[c], Protocol(c))
    BY DEF Body
  <2> QED BY <1>1, <2>1 DEF Expected, FromOutside, Supplied, Artifact
<1>4. /\ Expected("audit_verify_report", c).body
             = [leakage |-> Observed[c].leakage, recorded |-> Observed[c].recorded]
      /\ Expected("release_candidate_evidence", c).body = [passed |-> ReleaseGates]
  BY <1>2 DEF Derived, Body
<1> HIDE DEF proto
<1> QED BY <1>3, <1>4 DEF ValidationManifest, Validates

LEMMA ExpectedRuns ==
    ASSUME NEW c, NEW class
    PROVE  \E body : Expected(class, c) = Artifact(IF class \in Derived THEN NoRun ELSE c, c, body)
BY DEF Expected, FromOutside, Derived, Supplied

\* What the shape of a class asks.
LEMMA ShapeOfClass ==
    ASSUME NEW body
    PROVE  /\ BodyShape("live_terminal_bench_split_manifest", body) <=> SplitShape(body)
           /\ BodyShape("live_two_repeat_evaluation_report", body) <=> EvaluationShape(body)
           /\ BodyShape("fixed_protocol_config", body) <=> ProtocolShape(body)
           /\ BodyShape("proposer_llm_request_log", body) <=> RequestLogShape(body)
           /\ BodyShape("proposer_context_manifest", body) <=> ContextShape(body)
           /\ BodyShape("live_harbor_preflight_report", body) <=> HarborPreflightShape(body)
           /\ BodyShape("container_image_trust_report", body) <=> ImageTrustShape(body)
           /\ BodyShape("model_backend_preflight_report", body) <=> ModelPreflightShape(body)
           /\ BodyShape("network_resource_controls_attestation", body) <=> NetworkShape(body)
           /\ BodyShape("live_harbor_audit", body) <=> AuditShape(body)
           /\ BodyShape("audit_verify_report", body) <=> AuditVerifyShape(body)
           /\ BodyShape("release_candidate_evidence", body) <=> ReleaseShape(body)
           /\ BodyShape("proposal_validation_manifest", body)
BY DEF BodyShape

\* Each of them has the shape of its class.
LEMMA ExpectedShapes ==
    ASSUME Markers, NEW c \in Captures, Consistent(c), NEW class \in Classes
    PROVE  ArtifactShape(class, Expected(class, c))
<1> DEFINE o == Observed[c]
           Shaped(k) == BodyShape(k, Expected(k, c).body)
<1>1. Expected(class, c) \notin {NoFile, Torn}
  BY ExpectedRuns DEF Markers
<1>2. class \in Primary => Expected(class, c).run # NoRun
  BY ExpectedRuns DEF Markers, Primary, Artifact
<1>3. /\ SplitShape(SplitManifest(o)) /\ ProtocolShape(ProtocolConfig(o))
      /\ RequestLogShape(RequestLog(o, c)) /\ ContextShape(ContextManifest(o))
      /\ ImageTrustShape(ImageTrust(o)) /\ ModelPreflightShape(ModelPreflight(o))
      /\ NetworkShape(NetworkControls(o))
  BY DEF ProtocolShape, ProtocolConfig, RequestLogShape, RequestLog, ImageTrustShape, ImageTrust,
         ModelPreflightShape, ModelPreflight, NetworkShape, NetworkControls, Consistent
<1>4. HarborPreflightShape(HarborPreflight(o))
  BY <1>3 DEF HarborPreflightShape, HarborPreflight, SplitShape, SplitManifest
<1>5. TaskIds(o.trials) # {}
  BY <1>3 DEF SplitShape, SplitManifest, Consistent
<1>6. EvaluationShape(EvaluationReport(o, Protocol(c)))
  BY <1>5 DEF EvaluationShape, EvaluationReport, ByRow
<1>7. AuditShape(HarborAudit(o, Protocol(c)))
  BY <1>5 DEF AuditShape, HarborAudit, ByIndex
<1>8. /\ AuditVerifyShape([leakage |-> o.leakage, recorded |-> o.recorded])
      /\ ReleaseShape([passed |-> ReleaseGates])
  BY DEF AuditVerifyShape, ReleaseShape, Consistent
<1>9. \A k \in Classes : Shaped(k)
  <2>1. /\ Shaped("live_terminal_bench_split_manifest") /\ Shaped("fixed_protocol_config")
        /\ Shaped("proposer_llm_request_log") /\ Shaped("proposer_context_manifest")
        /\ Shaped("container_image_trust_report") /\ Shaped("model_backend_preflight_report")
        /\ Shaped("network_resource_controls_attestation")
    BY <1>3, ExpectedExtracted, ShapeOfClass
  <2>2. /\ Shaped("live_harbor_preflight_report") /\ Shaped("live_harbor_audit")
        /\ Shaped("live_two_repeat_evaluation_report")
    BY <1>4, <1>6, <1>7, ExpectedExtracted, ShapeOfClass
  <2>3. /\ Shaped("audit_verify_report") /\ Shaped("release_candidate_evidence")
        /\ Shaped("proposal_validation_manifest")
    BY <1>8, ExpectedSupplied, ShapeOfClass
  <2> HIDE DEF Shaped
  <2> QED BY <2>1, <2>2, <2>3 DEF Classes, Order
<1> QED BY <1>1, <1>2, <1>9 DEF ArtifactShape

\* Listed by row and sorted by index the outcomes are the same exactly when the
\* rows agree.
LEMMA RowsAndIndices ==
    ASSUME NEW c, Observed[c].order \in {<<0, 1>>, <<1, 0>>}
    PROVE  RowsAgree(c) <=> ByRow(Observed[c].trials, Observed[c].order)
                                = ByIndex(Observed[c].trials)
<1> DEFINE o == Observed[c]
           first(id) == Passed(o.trials, id, 0)
           second(id) == Passed(o.trials, id, 1)
<1>1. ByIndex(o.trials) = [id \in TaskIds(o.trials) |-> <<first(id), second(id)>>]
  BY DEF ByIndex
<1>2. CASE o.order = <<0, 1>>
  <2>1. ByRow(o.trials, o.order) = ByIndex(o.trials)
    BY <1>2 DEF ByRow, ByIndex
  <2> QED BY <1>2, <2>1 DEF RowsAgree
<1>3. CASE o.order = <<1, 0>>
  <2>1. ByRow(o.trials, o.order) = [id \in TaskIds(o.trials) |-> <<second(id), first(id)>>]
    BY <1>3 DEF ByRow
  <2>2. o.order # <<0, 1>>
    BY <1>3
  <2>3. RowsAgree(c) <=> \A id \in TaskIds(o.trials) : first(id) = second(id)
    BY <2>2 DEF RowsAgree
  <2> HIDE DEF o, first, second
  <2>4. ASSUME NEW id \in TaskIds(o.trials), ByRow(o.trials, o.order) = ByIndex(o.trials)
        PROVE  first(id) = second(id)
    <3>1. ByRow(o.trials, o.order)[id] = <<second(id), first(id)>>
      BY <2>1
    <3>2. ByIndex(o.trials)[id] = <<first(id), second(id)>>
      BY <1>1
    <3> QED BY <2>4, <3>1, <3>2
  <2>5. ASSUME \A id \in TaskIds(o.trials) : first(id) = second(id)
        PROVE  ByRow(o.trials, o.order) = ByIndex(o.trials)
    BY <1>1, <2>1, <2>5
  <2>6. RowsAgree(c) <=> ByRow(o.trials, o.order) = ByIndex(o.trials)
    BY <2>3, <2>4, <2>5
  <2> QED BY <2>6 DEF o
<1> QED BY <1>2, <1>3

\* Together they agree in everything the verifier compares, but for the outcomes
\* when the rows do not agree.
LEMMA ExpectedAgree ==
    ASSUME Markers, NEW c \in Captures, Consistent(c),
           NEW actual, \A class \in Classes : actual[class] = Expected(class, c)
    PROVE  CrossArtifactInvariants(actual) <=> RowsAgree(c)
<1> DEFINE o == Observed[c]
           body(class) == Expected(class, c).body
<1>1. \A class \in {"audit_verify_report", "container_image_trust_report",
           "fixed_protocol_config", "live_harbor_audit",
           "live_harbor_preflight_report", "live_terminal_bench_split_manifest",
           "live_two_repeat_evaluation_report", "model_backend_preflight_report",
           "network_resource_controls_attestation", "proposal_validation_manifest",
           "proposer_context_manifest", "proposer_llm_request_log",
           "release_candidate_evidence"} : actual[class].body = body(class)
  BY DEF Classes, Order
<1>2. Bytes(actual["fixed_protocol_config"]) = Protocol(c)
  <2>1. "fixed_protocol_config" \in Classes /\ "fixed_protocol_config" \notin FromOutside
    BY DEF Classes, Order, FromOutside, Derived
  <2>2. Body("fixed_protocol_config", c, Protocol(c)) = ProtocolConfig(o)
    BY DEF Body
  <2>3. actual["fixed_protocol_config"] = Artifact(c, c, ProtocolConfig(o))
    BY <2>1, <2>2 DEF Expected
  <2>4. Artifact(c, c, ProtocolConfig(o)) \notin {NoFile, Torn}
    BY DEF Markers
  <2> QED BY <2>3, <2>4 DEF Bytes, Artifact, Protocol
<1> HIDE DEF body
<1>3. /\ actual["container_image_trust_report"].body = ImageTrust(o)
      /\ actual["fixed_protocol_config"].body = ProtocolConfig(o)
      /\ actual["live_harbor_audit"].body = HarborAudit(o, Protocol(c))
      /\ actual["live_harbor_preflight_report"].body = HarborPreflight(o)
      /\ actual["live_terminal_bench_split_manifest"].body = SplitManifest(o)
      /\ actual["live_two_repeat_evaluation_report"].body = EvaluationReport(o, Protocol(c))
      /\ actual["model_backend_preflight_report"].body = ModelPreflight(o)
      /\ actual["proposer_context_manifest"].body = ContextManifest(o)
      /\ actual["proposer_llm_request_log"].body = RequestLog(o, c)
  BY <1>1, ExpectedExtracted DEF body
<1>4. Validates(actual["proposal_validation_manifest"].body, c)
  <2>1. actual["proposal_validation_manifest"].body
            = Expected("proposal_validation_manifest", c).body
    BY <1>1 DEF body
  <2> QED BY <2>1, ExpectedSupplied
<1>5. SplitTasks(actual["live_terminal_bench_split_manifest"]) = o.heldIn \cup o.heldOut
  BY <1>3 DEF SplitTasks, SplitManifest
<1>6. ProtocolBinding(actual)
  BY <1>2, <1>3 DEF ProtocolBinding, EvaluationReport, HarborAudit
<1>7. ModelBinding(actual) /\ ProposerModelBinding(actual)
  BY <1>3 DEF ModelBinding, ProposerModelBinding, ProtocolConfig, ModelPreflight, RequestLog,
              Consistent
<1>8. ProposerRounds(actual)
  BY <1>3 DEF ProposerRounds, ProtocolConfig, ContextManifest, RequestLog, Consistent
<1>9. ContextTasks(actual)
  BY <1>3 DEF ContextTasks, SplitManifest, Consistent
<1>10. ValidationBinding(actual)
  BY <1>2, <1>3, <1>4, <1>5
     DEF Validates, ValidationBinding, ProposerTraffic, ProtocolConfig, RequestLog
<1>11. HarborVersionBinding(actual)
  BY <1>3 DEF HarborVersionBinding, SplitManifest, HarborPreflight
<1>12. CaptureRunIdBinding(actual)
  <2>1. \A class \in Primary : actual[class].run = c
    BY ExpectedRuns DEF Primary, Artifact
  <2> QED BY <2>1 DEF CaptureRunIdBinding
<1>13. AuditImageBinding(actual)
  BY <1>3 DEF AuditImageBinding, HarborAudit, Consistent
<1>14. Coverage(actual)
  BY <1>3, <1>5 DEF Coverage, EvaluationReport, HarborAudit, ByRow, ByIndex, Consistent
<1>15. OutcomesAgree(actual) <=> RowsAgree(c)
  <2>1. OutcomesAgree(actual) <=> ByRow(o.trials, o.order) = ByIndex(o.trials)
    BY <1>3 DEF OutcomesAgree, EvaluationReport, HarborAudit
  <2> QED BY <2>1, RowsAndIndices DEF Consistent
<1> QED
  BY <1>6, <1>7, <1>8, <1>9, <1>10, <1>11, <1>12, <1>13, <1>14, <1>15
     DEF CrossArtifactInvariants

-----------------------------------------------------------------------------
\* This admission has done with the class, as an honest plan for c would.
Made(class, c) == class \in run.admitted /\ files[class] = Expected(class, c)

Places == 1..13

Behind == IF run.stage = "admit" THEN 1..(run.at - 1) ELSE Places

OnTheWay(c) ==
    /\ ~run.failed
    /\ \A i \in Behind : Made(Order[i], c)
    /\ run.stage = "verify" => bundle = BuildBundle(files, run.plan.labels)
    /\ run.stage = "readiness" => RowsAgree(c)

RunType ==
    run # NoRun =>
        /\ run = [plan |-> run.plan, stage |-> run.stage, at |-> run.at,
                  admitted |-> run.admitted, failed |-> run.failed, verified |-> run.verified]
        /\ run.stage \in {"admit", "build", "verify", "readiness"}
        /\ run.at \in Places

\* While an honest plan is at work nothing has failed, and what it is past is
\* what it should be, whatever was in the directory.
AdmissionInv ==
    /\ AllStamped /\ RunType
    /\ \A c \in Captures : run # NoRun /\ Honest(run.plan, c) => OnTheWay(c)
    /\ HonestCaptureVerdict

LEMMA OrderOfClasses ==
    /\ DOMAIN Order = Places /\ Len(Order) = 13 /\ Classes = {Order[i] : i \in Places}
    /\ Order[3] = "fixed_protocol_config" /\ Order[6] = "live_terminal_bench_split_manifest"
    /\ \A i \in Places :
          /\ Order[i] \in {"live_harbor_audit", "live_two_repeat_evaluation_report"} => i > 3
          /\ Order[i] = "proposer_context_manifest" => i > 6
<1>1. DOMAIN Order = Places /\ Len(Order) = 13
  BY DEF Order, Places
<1>2. Order[3] = "fixed_protocol_config" /\ Order[6] = "live_terminal_bench_split_manifest"
  BY DEF Order
<1>3. ASSUME NEW i \in Places
      PROVE  /\ Order[i] \in {"live_harbor_audit", "live_two_repeat_evaluation_report"} => i > 3
             /\ Order[i] = "proposer_context_manifest" => i > 6
  <2>1. i > 6 \/ i = 1 \/ i = 2 \/ i = 3 \/ i = 4 \/ i = 5 \/ i = 6
    BY DEF Places
  <2>2. /\ Order[1] = "audit_verify_report" /\ Order[2] = "container_image_trust_report"
        /\ Order[4] = "live_harbor_audit" /\ Order[5] = "live_harbor_preflight_report"
    BY DEF Order
  <2> QED BY <1>2, <2>1, <2>2 DEF Places
<1> QED BY <1>1, <1>2, <1>3 DEF Classes

\* Only what is bound to the protocol depends on it.
LEMMA BodyWithoutProtocol ==
    ASSUME NEW class \in Classes \ NeedsProtocol, NEW c, NEW p, NEW q
    PROVE  Body(class, c, p) = Body(class, c, q)
BY DEF Body, NeedsProtocol, Classes, Order

\* The next class comes out as it should.
LEMMA HonestProduces ==
    ASSUME Fixture, Markers, NEW c \in Captures, Honest(run.plan, c), Consistent(c),
           run.at \in Places, \A i \in 1..(run.at - 1) : Made(Order[i], c)
    PROVE  Produced(Order[run.at]) = Expected(Order[run.at], c)
<1> DEFINE class == Order[run.at]
           in == run.plan.input[class]
           proto == Threaded("fixed_protocol_config")
           split == Threaded("live_terminal_bench_split_manifest")
           body == Body(class, c, Bytes(proto))
           o == Observed[c]
<1>1. class \in Classes /\ in.from = c /\ run.plan.flag = c
  BY OrderOfClasses DEF Honest
<1>2. CASE class \in FromOutside
  <2>1. in.kind = "supplied" /\ Available(class)
    BY <1>2 DEF Honest, FromOutside, Available
  <2>2. Produced(class) = Supplied(class, c, c)
    BY <1>1, <2>1 DEF Produced
  <2> QED BY <1>2, <2>2 DEF Expected
<1>3. CASE class \notin FromOutside
  <2>1. in.kind = "raw" /\ class \in Extractable
    BY <1>1, <1>3 DEF Honest, FromOutside, Extractable, Primary
  <2>2. Produced(class) = Extract(class, c, c, proto, split)
    BY <1>1, <2>1 DEF Produced
  <2>3. CaptureRunId(class, c, c) = c /\ c # NoRun
    BY DEF CaptureRunId, Markers
  <2>4. class \in {"live_harbor_audit", "live_two_repeat_evaluation_report"} =>
            proto # NoFile /\ Bytes(proto) = Protocol(c)
    <3> SUFFICES ASSUME class \in {"live_harbor_audit", "live_two_repeat_evaluation_report"}
                 PROVE  proto # NoFile /\ Bytes(proto) = Protocol(c)
      OBVIOUS
    <3>1. 3 \in 1..(run.at - 1)
      BY OrderOfClasses DEF Places
    <3>2. Made("fixed_protocol_config", c)
      BY <3>1, OrderOfClasses
    <3>3. proto = Artifact(c, c, ProtocolConfig(o))
      BY <3>2 DEF Made, Threaded, Expected, FromOutside, Derived, Body
    <3>4. Artifact(c, c, ProtocolConfig(o)) \notin {NoFile, Torn}
      BY DEF Markers
    <3> QED BY <3>3, <3>4 DEF Bytes, Artifact, Protocol
  <2>5. body = Body(class, c, Protocol(c))
    <3>1. CASE class \in {"live_harbor_audit", "live_two_repeat_evaluation_report"}
      BY <2>4, <3>1
    <3>2. CASE class \notin {"live_harbor_audit", "live_two_repeat_evaluation_report"}
      <4>1. class \in Classes \ NeedsProtocol
        BY <1>1, <1>3, <3>2 DEF FromOutside, NeedsProtocol
      <4> HIDE DEF class, proto
      <4> QED BY <4>1, BodyWithoutProtocol
    <3> QED BY <3>1, <3>2
  <2>6. ~(class \in NeedsProtocol /\ proto = NoFile)
    BY <1>3, <2>4 DEF NeedsProtocol, FromOutside
  <2>7. TwoAttempts(Observed[c].trials)
    BY DEF Honest
  <2>8. class = "proposer_context_manifest" => ContextTasksKnown(body, split)
    <3> SUFFICES ASSUME class = "proposer_context_manifest" PROVE ContextTasksKnown(body, split)
      OBVIOUS
    <3>1. 6 \in 1..(run.at - 1)
      BY OrderOfClasses DEF Places
    <3>2. Made("live_terminal_bench_split_manifest", c)
      BY <3>1, OrderOfClasses
    <3>3. split.body = SplitManifest(o)
      BY <3>2, ExpectedExtracted DEF Made, Threaded
    <3>4. body = ContextManifest(o)
      BY DEF Body
    <3>5. ContextTaskIds(body) = o.heldIn
      BY <3>4 DEF Consistent
    <3> QED BY <3>3, <3>5 DEF ContextTasksKnown, SplitTasks, SplitManifest
  <2>9. ~(\E row \in Observed[c].patterns : ~EvidenceAgrees(row))
    BY DEF Consistent
  <2> HIDE DEF class, proto, split
  <2>10. Extract(class, c, c, proto, split) = Artifact(c, c, body)
    BY <2>3, <2>6, <2>7, <2>8, <2>9 DEF Extract
  <2> QED BY <1>3, <2>2, <2>5, <2>10 DEF Expected, class
<1> QED BY <1>2, <1>3

LEMMA AdmissionInit == Init => AdmissionInv
<1> SUFFICES ASSUME Init PROVE AdmissionInv
  OBVIOUS
<1>1. run = NoRun /\ report.plan = NoRun
  BY DEF Init, NoReport
<1> QED BY <1>1, StampedInit DEF AdmissionInv, RunType, HonestCaptureVerdict

\* A plan that is not under way, or no longer, is of no concern.
LEMMA NoAdmission ==
    ASSUME AdmissionInv, AllStamped', run' = NoRun, report' = report
    PROVE  AdmissionInv'
BY DEF AdmissionInv, RunType, HonestCaptureVerdict

LEMMA BeginStep == ASSUME AdmissionInv, AllStamped', BeginAdmission PROVE AdmissionInv'
<1>1. PICK p : run' = [plan |-> p, stage |-> "admit", at |-> 1, admitted |-> {},
                       failed |-> FALSE, verified |-> FALSE]
  BY DEF BeginAdmission
<1>2. /\ run'.plan = p /\ run'.stage = "admit" /\ run'.at = 1 /\ ~run'.failed
      /\ report' = report
  BY <1>1 DEF BeginAdmission
<1>3. RunType'
  BY <1>1 DEF RunType, Places
<1>4. ASSUME NEW c PROVE OnTheWay(c)'
  <2>1. Behind' = {}
    BY <1>2 DEF Behind
  <2> QED BY <1>2, <2>1 DEF OnTheWay
<1> QED BY <1>2, <1>3, <1>4 DEF AdmissionInv, HonestCaptureVerdict

LEMMA AdmitStep ==
    ASSUME Fixture, Markers, CapturesAreConsistent, AdmissionInv, AllStamped', AdmitClass
    PROVE  AdmissionInv'
<1> DEFINE class == Order[run.at]
           keep == Produced(class) = Torn
           file == IF keep THEN files[class] ELSE Produced(class)
           ok == /\ keep => run.plan.input[class].kind = "absent"
                 /\ ArtifactShape(class, file)
           last == run.at = Len(Order)
<1>1. /\ run # NoRun /\ run.stage = "admit" /\ report' = report
      /\ files' = [files EXCEPT ![class] = file]
      /\ run' = [run EXCEPT !.admitted = IF ok THEN @ \cup {class} ELSE @,
                            !.failed = @ \/ ~ok,
                            !.at = IF @ = Len(Order) THEN @ ELSE @ + 1,
                            !.stage = IF last THEN "build" ELSE @]
  BY DEF AdmitClass
<1>2. /\ run.at \in Places /\ class \in Classes /\ DOMAIN files = Classes
      /\ run = [plan |-> run.plan, stage |-> run.stage, at |-> run.at,
                admitted |-> run.admitted, failed |-> run.failed, verified |-> run.verified]
  BY <1>1, OrderOfClasses DEF AdmissionInv, RunType, AllStamped
<1> HIDE DEF class, file, ok, keep
<1>3. /\ run' = [plan |-> run'.plan, stage |-> run'.stage, at |-> run'.at,
                 admitted |-> run'.admitted, failed |-> run'.failed, verified |-> run'.verified]
      /\ run'.plan = run.plan /\ run'.failed = (run.failed \/ ~ok)
      /\ run'.admitted = IF ok THEN run.admitted \cup {class} ELSE run.admitted
      /\ run'.at = IF last THEN run.at ELSE run.at + 1
      /\ run'.stage = IF last THEN "build" ELSE "admit"
  BY <1>1, <1>2
<1>4. RunType'
  BY <1>2, <1>3, OrderOfClasses DEF RunType, Places
<1>5. ASSUME NEW c \in Captures, Honest(run.plan, c) PROVE OnTheWay(c)'
  <2>1. Consistent(c)
    BY <1>5 DEF CapturesAreConsistent, Honest
  <2>2. ~run.failed /\ \A i \in 1..(run.at - 1) : Made(Order[i], c)
    BY <1>1, <1>5 DEF AdmissionInv, OnTheWay, Behind
  <2>3. Produced(class) = Expected(class, c)
    BY <1>2, <1>5, <2>1, <2>2, HonestProduces DEF class
  <2>4. ~keep /\ file = Expected(class, c) /\ ok
    <3>1. Expected(class, c) # Torn
      BY ExpectedRuns DEF Markers
    <3>2. ~keep /\ file = Expected(class, c)
      BY <2>3, <3>1 DEF keep, file
    <3>3. ArtifactShape(class, file)
      BY <1>2, <2>1, <3>2, ExpectedShapes
    <3> QED BY <3>2, <3>3 DEF ok
  <2>5. class \in run'.admitted /\ files'[class] = Expected(class, c)
    BY <1>1, <1>2, <1>3, <2>4
  <2>6. ASSUME NEW i \in 1..(run.at - 1)
        PROVE  Order[i] \in run'.admitted /\ files'[Order[i]] = Expected(Order[i], c)
    <3>1. Made(Order[i], c) /\ Order[i] \in Classes
      BY <1>2, <2>2, OrderOfClasses DEF Places
    <3>2. Order[i] = class \/ files'[Order[i]] = files[Order[i]]
      BY <1>1, <1>2, <3>1
    <3> QED BY <1>3, <2>4, <2>5, <3>1, <3>2 DEF Made
  <2>7. \A i \in Behind' : i \in 1..(run.at - 1) \/ i = run.at
    BY <1>2, <1>3, OrderOfClasses DEF Behind, Places
  <2>8. \A i \in Behind' : /\ Order[i] \in run'.admitted
                           /\ files'[Order[i]] = Expected(Order[i], c)
    BY <2>5, <2>6, <2>7 DEF class
  <2> QED BY <1>3, <2>2, <2>4, <2>8 DEF OnTheWay, Made
<1> QED
  BY <1>1, <1>3, <1>4, <1>5 DEF AdmissionInv, HonestCaptureVerdict

LEMMA BuildStep == ASSUME AdmissionInv, AllStamped', BundleBuild PROVE AdmissionInv'
<1>1. run # NoRun /\ run.stage = "build" /\ files' = files
  BY DEF BundleBuild
<1>2. CASE run.failed
  <2>1. run' = NoRun /\ report'.plan = run.plan
    BY <1>2 DEF BundleBuild, Finish
  <2>2. \A c \in Captures : ~Honest(report'.plan, c)
    BY <1>1, <1>2, <2>1 DEF AdmissionInv, OnTheWay
  <2> QED BY <2>1, <2>2 DEF AdmissionInv, RunType, HonestCaptureVerdict
<1>3. CASE ~run.failed
  <2>1. /\ bundle' = BuildBundle(files, run.plan.labels) /\ report' = report
        /\ run' = [run EXCEPT !.stage = "verify"]
    BY <1>3 DEF BundleBuild
  <2>2. /\ run.at \in Places
        /\ run = [plan |-> run.plan, stage |-> run.stage, at |-> run.at,
                  admitted |-> run.admitted, failed |-> run.failed, verified |-> run.verified]
    BY <1>1 DEF AdmissionInv, RunType
  <2>3. /\ run'.stage = "verify" /\ run'.plan = run.plan /\ run'.admitted = run.admitted
        /\ ~run'.failed /\ RunType'
    BY <1>3, <2>1, <2>2 DEF RunType
  <2>4. Behind = Places /\ Behind' = Places
    BY <1>1, <2>3 DEF Behind
  <2>5. ASSUME NEW c \in Captures, Honest(run.plan, c) PROVE OnTheWay(c)'
    <3>1. \A i \in Places : Made(Order[i], c)'
      BY <1>1, <2>3, <2>4, <2>5 DEF AdmissionInv, OnTheWay, Made
    <3>2. bundle' = BuildBundle(files', run'.plan.labels)
      BY <1>1, <2>1, <2>3
    <3> QED BY <2>3, <2>4, <3>1, <3>2 DEF OnTheWay
  <2> QED BY <2>1, <2>3, <2>5 DEF AdmissionInv, HonestCaptureVerdict
<1> QED BY <1>2, <1>3

\* What an honest plan made verifies exactly when the rows agree.
LEMMA HonestVerifies ==
    ASSUME Markers, CapturesAreConsistent, AdmissionInv, run # NoRun, run.stage = "verify",
           NEW c \in Captures, Honest(run.plan, c)
    PROVE  VerifyBundle(bundle, files, GivenSidecar(run.plan), Trusted, FALSE) <=> RowsAgree(c)
<1>1. Consistent(c)
  BY DEF CapturesAreConsistent, Honest
<1>2. \A class \in Classes : files[class] = Expected(class, c)
  BY OrderOfClasses DEF AdmissionInv, OnTheWay, Behind, Made
<1>3. bundle = BuildBundle(files, run.plan.labels)
  BY DEF AdmissionInv, OnTheWay
<1>4. bundle \notin {NoBundle, Torn}
  BY <1>3 DEF BuildBundle, Markers
<1>5. SignatureChecks(bundle, GivenSidecar(run.plan), Trusted, FALSE)
  BY DEF Honest, GivenSidecar, SignatureChecks
<1>6. EntryChecks(bundle, files)
  <2>1. \A class \in Classes : Bytes(files[class]) = bundle.hashes[class]
    BY <1>3 DEF BuildBundle
  <2>2. \A class \in Classes : ArtifactShape(class, files[class])
    BY <1>1, <1>2, ExpectedShapes
  <2> QED BY <2>1, <2>2 DEF EntryChecks
<1>7. CrossArtifactInvariants(files) <=> RowsAgree(c)
  BY <1>1, <1>2, ExpectedAgree
<1> QED BY <1>4, <1>5, <1>6, <1>7 DEF VerifyBundle

LEMMA VerifyStep ==
    ASSUME Markers, CapturesAreConsistent, AdmissionInv, AllStamped', BundleVerification
    PROVE  AdmissionInv'
<1> DEFINE verifies == VerifyBundle(bundle, files, GivenSidecar(run.plan), Trusted, FALSE)
<1>1. run # NoRun /\ run.stage = "verify" /\ UNCHANGED <<files, bundle>>
  BY DEF BundleVerification
<1>2. CASE ~verifies
  <2>1. run' = NoRun /\ report'.plan = run.plan /\ ~report'.verified
    BY <1>2 DEF BundleVerification, Finish
  <2>2. \A c \in Captures : Honest(report'.plan, c) => ~RowsAgree(c)
    BY <1>1, <1>2, <2>1, HonestVerifies
  <2> QED BY <2>1, <2>2 DEF AdmissionInv, RunType, HonestCaptureVerdict
<1>3. CASE verifies
  <2>1. run' = [run EXCEPT !.stage = "readiness", !.verified = TRUE] /\ report' = report
    BY <1>3 DEF BundleVerification
  <2>2. /\ run.at \in Places
        /\ run = [plan |-> run.plan, stage |-> run.stage, at |-> run.at,
                  admitted |-> run.admitted, failed |-> run.failed, verified |-> run.verified]
    BY <1>1 DEF AdmissionInv, RunType
  <2>3. /\ run'.stage = "readiness" /\ run'.plan = run.plan /\ run'.admitted = run.admitted
        /\ run'.failed = run.failed /\ RunType'
    BY <2>1, <2>2 DEF RunType
  <2>4. Behind = Places /\ Behind' = Places
    BY <1>1, <2>3 DEF Behind
  <2>5. ASSUME NEW c \in Captures, Honest(run.plan, c) PROVE OnTheWay(c)'
    <3>1. ~run.failed /\ \A i \in Places : Made(Order[i], c)'
      BY <1>1, <2>3, <2>4, <2>5 DEF AdmissionInv, OnTheWay, Made
    <3>2. RowsAgree(c)
      BY <1>1, <1>3, <2>5, HonestVerifies
    <3> QED BY <2>3, <2>4, <3>1, <3>2 DEF OnTheWay
  <2> QED BY <2>1, <2>3, <2>5 DEF AdmissionInv, HonestCaptureVerdict
<1> QED BY <1>2, <1>3

LEMMA ReadinessStep ==
    ASSUME AdmissionInv, AllStamped', ReadinessEvaluation PROVE AdmissionInv'
<1>1. run # NoRun /\ run.stage = "readiness"
  BY DEF ReadinessEvaluation
<1>2. run' = NoRun /\ report'.verified /\ report'.plan = run.plan
  BY <1>1 DEF ReadinessEvaluation, Finish, AdmissionInv
<1>3. \A c \in Captures : Honest(run.plan, c) => RowsAgree(c)
  BY <1>1 DEF AdmissionInv, OnTheWay
<1> QED BY <1>2, <1>3 DEF AdmissionInv, RunType, HonestCaptureVerdict

LEMMA AdmissionNext ==
    ASSUME Fixture, Markers, CapturesAreConsistent, AdmissionInv, [Next]_vars
    PROVE  AdmissionInv'
<1>1. AllStamped'
  BY StampedNext DEF AdmissionInv
<1>2. CASE Abort
  BY <1>1, <1>2, NoAdmission DEF Abort
<1>3. CASE ExtractInPlace \/ RebuildBundle \/ Sign \/ ReleaseCandidateEvidence
  BY <1>1, <1>3, NoAdmission
     DEF ExtractInPlace, RebuildBundle, Sign, ReleaseCandidateEvidence, Command
<1>4. CASE UNCHANGED vars
  <2>1. UNCHANGED <<files, bundle, run, report>>
    BY <1>4 DEF vars
  <2>2. Behind' = Behind /\ RunType'
    BY <2>1 DEF Behind, AdmissionInv, RunType
  <2>3. \A c \in Captures : OnTheWay(c) => OnTheWay(c)'
    BY <2>1, <2>2 DEF OnTheWay, Made
  <2> QED BY <1>1, <2>1, <2>2, <2>3 DEF AdmissionInv, HonestCaptureVerdict
<1> QED
  BY <1>1, <1>2, <1>3, <1>4, BeginStep, AdmitStep, BuildStep, VerifyStep, ReadinessStep DEF Next

\* Whatever earlier admissions left in the directory, and whatever commands came
\* between, an admission of one complete and consistent capture verifies its
\* bundle exactly when the capture's rows are in index order or its tasks are not
\* flaky, provided a release evidence file exists.
THEOREM HonestCapturesAreDecided ==
    ASSUME Fixture, Markers, CapturesAreConsistent
    PROVE  Spec => []HonestCaptureVerdict
<1>1. AdmissionInv => HonestCaptureVerdict
  BY DEF AdmissionInv
<1>2. AdmissionInv /\ [Next]_vars => AdmissionInv'
  BY AdmissionNext
<1> QED BY <1>1, <1>2, AdmissionInit, PTL DEF Spec
=============================================================================
