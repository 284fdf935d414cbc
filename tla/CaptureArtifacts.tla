-------------------------- MODULE CaptureArtifacts --------------------------
(***************************************************************************)
(* Reproduction evidence: the artefact classes of a benchmark capture, the *)
(* extraction of each from the raw output of a capture run                 *)
(* (capture_extract.py), the shape each must have (_artifact_shapes.py),   *)
(* the bundle manifest over them (reproduction_bundle_build.py) and the    *)
(* verifier with its cross-artifact bindings (reproduction_bundle.py).     *)
(* A hash is modelled by the bytes it stands for, so hashes never collide. *)
(***************************************************************************)
EXTENDS Integers, FiniteSets

CONSTANTS Captures,   \* capture runs that left raw output behind
          Observed,   \* what each capture observed and recorded
          PaperModels,   \* the model backends of the paper
          NoRun, NoBundle, NoSignature, NoFile, Torn

\* The required artefact classes, in the order admission and the builder visit
\* them. Mutant: the order of the requirements document.
OrderOfRequirements ==
    <<"live_terminal_bench_split_manifest", "live_two_repeat_evaluation_report",
      "fixed_protocol_config", "proposer_llm_request_log", "proposer_context_manifest",
      "proposal_validation_manifest", "live_harbor_preflight_report",
      "container_image_trust_report", "model_backend_preflight_report",
      "network_resource_controls_attestation", "live_harbor_audit",
      "audit_verify_report", "release_candidate_evidence">>
Order == <<"audit_verify_report", "container_image_trust_report",
           "fixed_protocol_config", "live_harbor_audit",
           "live_harbor_preflight_report", "live_terminal_bench_split_manifest",
           "live_two_repeat_evaluation_report", "model_backend_preflight_report",
           "network_resource_controls_attestation", "proposal_validation_manifest",
           "proposer_context_manifest", "proposer_llm_request_log",
           "release_candidate_evidence">>
Classes == {Order[i] : i \in DOMAIN Order}
Derived == {"audit_verify_report", "release_candidate_evidence"}
Primary == Classes \ Derived
Extractable == Primary

\* Raw output of these classes may state the run it belongs to; for the others
\* only the operator's capture_run_id says so.
StatesRun == Extractable \ {"live_harbor_preflight_report", "container_image_trust_report",
                            "model_backend_preflight_report", "live_harbor_audit"}
Recorded(class, c) == class \in StatesRun /\ class \in Observed[c].records

\* The run an extracted artefact is stamped with; NoRun when extraction refuses.
CaptureRunId(class, c, flag) ==
    IF Recorded(class, c)
    THEN IF flag \in {NoRun, c} THEN c ELSE NoRun
    ELSE flag

SplitTasks(split) == split.body.heldIn \cup split.body.heldOut

\* Both outcomes of every task, by attempt index (the audit) or in the order in
\* which the attempts JSONL lists them (the evaluation report).
TaskIds(trials) == {t.task : t \in trials}
TwoAttempts(trials) ==
    \A id \in TaskIds(trials) : {t.index : t \in {u \in trials : u.task = id}} = {0, 1}
Passed(trials, id, index) == \E t \in trials : t.task = id /\ t.index = index /\ t.passed
ByIndex(trials) == [id \in TaskIds(trials) |-> <<Passed(trials, id, 0), Passed(trials, id, 1)>>]
ByRow(trials, order) ==
    [id \in TaskIds(trials) |-> <<Passed(trials, id, order[1]), Passed(trials, id, order[2])>>]

\* What extraction makes of what a capture observed. proto is the fixed protocol
\* artefact that evidence is bound to.
SplitManifest(o) == [heldIn |-> o.heldIn, heldOut |-> o.heldOut, version |-> o.version]
HarborPreflight(o) == [version |-> o.version]
ImageTrust(o) == [images |-> o.images]
ModelPreflight(o) == [models |-> o.probed]
\* A failure pattern states evidence in the clear, its hash, or both, which must
\* then agree; the artefact has the hash.
Unstated == "unstated"
EvidenceAgrees(row) == Unstated \in {row.text, row.hash} \/ row.text = row.hash
NormalizedPattern(row) ==
    [cluster |-> row.cluster, tasks |-> row.tasks, category |-> row.category,
     evidence |-> IF row.text = Unstated THEN row.hash ELSE row.text]

RequestLog(o, c) ==
    [rounds |-> o.calls, width |-> o.width, committed |-> o.committed,
     models |-> o.asked, traffic |-> c]
ContextManifest(o) ==
    [rounds |-> o.rounds, patterns |-> {NormalizedPattern(row) : row \in o.patterns},
     passing |-> o.passing]
ProtocolConfig(o) == [rounds |-> o.rounds, width |-> o.width, models |-> o.models]
ValidationManifest(o, proto) ==
    [proto |-> proto, rounds |-> o.rounds, committed |-> o.committed,
     proposals |-> o.proposals, traffic |-> NoRun, repeats |-> 2,
     total |-> 2 * Cardinality(o.heldIn \cup o.heldOut)]
NetworkControls(o) == [controls |-> o.controls]
HarborAudit(o, proto) ==
    [proto |-> proto, trials |-> ByIndex(o.trials), digests |-> o.digests]
EvaluationReport(o, proto) == [proto |-> proto, attempts |-> ByRow(o.trials, o.order)]

\* The tasks a context refers to, as failing or as passing.
ContextTaskIds(context) == (UNION {p.tasks : p \in context.patterns}) \cup context.passing

ReleaseGates ==
    {"audit_integrity", "provenance_manifest", "attestation", "reproduction_readiness"}

Body(class, c, proto) ==
    LET o == Observed[c] IN
    CASE class = "container_image_trust_report" -> ImageTrust(o)
      [] class = "fixed_protocol_config" -> ProtocolConfig(o)
      [] class = "live_harbor_audit" -> HarborAudit(o, proto)
      [] class = "live_harbor_preflight_report" -> HarborPreflight(o)
      [] class = "live_terminal_bench_split_manifest" -> SplitManifest(o)
      [] class = "live_two_repeat_evaluation_report" -> EvaluationReport(o, proto)
      [] class = "model_backend_preflight_report" -> ModelPreflight(o)
      [] class = "network_resource_controls_attestation" -> NetworkControls(o)
      [] class = "proposal_validation_manifest" -> ValidationManifest(o, proto)
      [] class = "proposer_context_manifest" -> ContextManifest(o)
      [] class = "proposer_llm_request_log" -> RequestLog(o, c)
      [] class = "audit_verify_report" -> [leakage |-> o.leakage, recorded |-> o.recorded]
      [] class = "release_candidate_evidence" -> [passed |-> ReleaseGates]

Artifact(run, c, body) == [run |-> run, from |-> c, body |-> body]

\* What a file holds: where it came from is not written in it.
Bytes(file) == IF file \in {NoFile, Torn} THEN file ELSE [run |-> file.run, body |-> file.body]

-----------------------------------------------------------------------------
\* Extraction of one class under the operator's flag, bound to the protocol and
\* split artefacts it was given; Torn when it refuses.
NeedsProtocol == {"live_harbor_audit", "live_two_repeat_evaluation_report",
                  "proposal_validation_manifest"}
ContextTasksKnown(context, split) == ContextTaskIds(context) \subseteq SplitTasks(split)
Extract(class, c, flag, proto, split) ==
    LET run == CaptureRunId(class, c, flag)
        body == Body(class, c, Bytes(proto))
    IN IF \/ run = NoRun
          \/ class \in NeedsProtocol /\ proto = NoFile
          \/ class \in {"live_harbor_audit", "live_two_repeat_evaluation_report"}
                /\ ~TwoAttempts(Observed[c].trials)
          \/ class = "proposer_context_manifest" /\ split # NoFile
                /\ ~ContextTasksKnown(body, split)
          \/ class = "proposer_context_manifest"
                /\ \E row \in Observed[c].patterns : ~EvidenceAgrees(row)
       THEN Torn
       ELSE Artifact(run, c, body)

\* An artefact that another command wrote for capture c under a run id:
\* extraction's own output, a validation manifest that counts tasks rather than
\* attempts, or a report derived after the capture.
Supplied(class, c, run) ==
    LET proto == Artifact(run, c, Body("fixed_protocol_config", c, NoRun))
        body == Body(class, c, Bytes(proto))
    IN Artifact(IF class \in Derived THEN NoRun ELSE run, c,
                IF class = "proposal_validation_manifest"
                THEN [body EXCEPT !.total = Cardinality(Observed[c].heldIn \cup Observed[c].heldOut),
                                  !.traffic = c]
                ELSE body)

SplitShape(split) ==
    /\ split.version # ""
    /\ split.heldIn # {} /\ split.heldOut # {}
    /\ split.heldIn \cap split.heldOut = {}
RequestLogShape(calls) == calls.rounds > 0 /\ calls.committed <= calls.rounds * calls.width

\* Exactly two outcomes for each of at least one task.
EvaluationShape(evaluation) ==
    /\ DOMAIN evaluation.attempts # {}
    /\ \A id \in DOMAIN evaluation.attempts : DOMAIN evaluation.attempts[id] = {1, 2}
AuditShape(audit) ==
    /\ DOMAIN audit.trials # {}
    /\ \A id \in DOMAIN audit.trials : DOMAIN audit.trials[id] = {1, 2}

ProtocolShape(protocol) ==
    protocol.models = PaperModels /\ protocol.rounds > 0 /\ protocol.width > 0
HarborPreflightShape(preflight) == preflight.version # ""
ImageTrustShape(trust) == trust.images # {}
ModelPreflightShape(preflight) == preflight.models = PaperModels
NetworkShape(network) == network.controls.bandwidth > 0

\* A task that fails belongs to one failure pattern.
ContextShape(context) ==
    /\ context.rounds > 0
    /\ \A p \in context.patterns : p.tasks # {}
    /\ \A p, q \in context.patterns : p # q => p.tasks \cap q.tasks = {}

Records == {"proposer_evidence_inspected", "changed_surfaces_recorded",
            "evaluation_repeats_recorded", "rejected_reasons_recorded"}
AuditVerifyShape(report) == ~report.leakage /\ Records \subseteq report.recorded
ReleaseShape(evidence) == ReleaseGates \subseteq evidence.passed

\* What the validator of a class asks of the body of an artefact.
BodyShape(class, body) ==
    CASE class = "live_terminal_bench_split_manifest" -> SplitShape(body)
      [] class = "live_two_repeat_evaluation_report" -> EvaluationShape(body)
      [] class = "fixed_protocol_config" -> ProtocolShape(body)
      [] class = "proposer_llm_request_log" -> RequestLogShape(body)
      [] class = "proposer_context_manifest" -> ContextShape(body)
      [] class = "live_harbor_preflight_report" -> HarborPreflightShape(body)
      [] class = "container_image_trust_report" -> ImageTrustShape(body)
      [] class = "model_backend_preflight_report" -> ModelPreflightShape(body)
      [] class = "network_resource_controls_attestation" -> NetworkShape(body)
      [] class = "live_harbor_audit" -> AuditShape(body)
      [] class = "audit_verify_report" -> AuditVerifyShape(body)
      [] class = "release_candidate_evidence" -> ReleaseShape(body)
      [] OTHER -> TRUE

ArtifactShape(class, file) ==
    /\ file \notin {NoFile, Torn}
    /\ class \in Primary => file.run # NoRun
    /\ BodyShape(class, file.body)

\* The bundle manifest over the files of an artefact directory; labels stands
\* for its bundle id, its operator and the provider and operator of each source.
BuildBundle(files, labels) ==
    [labels |-> labels, hashes |-> [class \in Classes |-> Bytes(files[class])]]

-----------------------------------------------------------------------------
EntryChecks(bundle, files) ==
    \A class \in Classes :
        Bytes(files[class]) = bundle.hashes[class] /\ ArtifactShape(class, files[class])

ProtocolBinding(files) ==
    \A class \in {"live_two_repeat_evaluation_report", "live_harbor_audit"} :
        files[class].body.proto = Bytes(files["fixed_protocol_config"])

ProposerRounds(files) ==
    LET protocol == files["fixed_protocol_config"].body
        calls == files["proposer_llm_request_log"].body
    IN /\ calls.rounds = protocol.rounds /\ calls.width = protocol.width
       /\ files["proposer_context_manifest"].body.rounds = protocol.rounds

ModelBinding(files) ==
    /\ files["fixed_protocol_config"].body.models = PaperModels
    /\ files["model_backend_preflight_report"].body.models = PaperModels

ProposerModelBinding(files) == files["proposer_llm_request_log"].body.models = PaperModels

ContextTasks(files) ==
    ContextTaskIds(files["proposer_context_manifest"].body)
        = files["live_terminal_bench_split_manifest"].body.heldIn

\* The traffic hashes of a validation round are those of the log, if it has any.
ProposerTraffic(validation, calls) == validation.traffic \in {NoRun, calls.traffic}

ValidationBinding(files) ==
    LET validation == files["proposal_validation_manifest"].body
        calls == files["proposer_llm_request_log"].body
    IN /\ validation.proto = Bytes(files["fixed_protocol_config"])
       /\ validation.rounds = files["fixed_protocol_config"].body.rounds
       /\ validation.committed = calls.committed
       /\ ProposerTraffic(validation, calls)
       /\ validation.repeats = 2
       /\ validation.total
              = Cardinality(SplitTasks(files["live_terminal_bench_split_manifest"]))

HarborVersionBinding(files) ==
    files["live_terminal_bench_split_manifest"].body.version
        = files["live_harbor_preflight_report"].body.version

\* Mutant: only the classes bound to the protocol are compared.
CaptureRunIdOfBound(files) ==
    \A class, other \in NeedsProtocol : files[class].run = files[other].run
CaptureRunIdBinding(files) ==
    \A class, other \in Primary : files[class].run = files[other].run

\* An audit names the images it ran, or the members of the image lists that the
\* trust report resolved: all of the lists or none.
TrustedDigests(trust) == {image.digest : image \in trust.images}
ChildDigests(trust) == UNION {image.children : image \in trust.images}
SomeWithoutChildren(trust) ==
    ChildDigests(trust) # {} /\ \E image \in trust.images : image.children = {}
AuditImageBinding(files) ==
    LET digests == files["live_harbor_audit"].body.digests
        trust == files["container_image_trust_report"].body
    IN \/ digests = {}
       \/ /\ ~SomeWithoutChildren(trust)
          /\ IF ChildDigests(trust) # {} THEN digests \subseteq ChildDigests(trust)
             ELSE digests = TrustedDigests(trust)

Coverage(files) ==
    LET tasks == SplitTasks(files["live_terminal_bench_split_manifest"]) IN
    /\ DOMAIN files["live_two_repeat_evaluation_report"].body.attempts = tasks
    /\ DOMAIN files["live_harbor_audit"].body.trials = tasks

OutcomesAgree(files) ==
    files["live_two_repeat_evaluation_report"].body.attempts
        = files["live_harbor_audit"].body.trials

CrossArtifactInvariants(files) ==
    /\ ProtocolBinding(files) /\ ModelBinding(files)
    /\ ProposerModelBinding(files) /\ ProposerRounds(files)
    /\ ContextTasks(files) /\ ValidationBinding(files)
    /\ HarborVersionBinding(files) /\ CaptureRunIdBinding(files)
    /\ AuditImageBinding(files) /\ Coverage(files) /\ OutcomesAgree(files)

\* A sidecar is [manifest, key]; without a trusted key its own key is used.
SignatureChecks(bundle, sidecar, trusted, required) ==
    IF sidecar = NoSignature
    THEN ~required
    ELSE sidecar.manifest = bundle /\ sidecar.key \in trusted

VerifyBundle(bundle, files, sidecar, trusted, required) ==
    /\ bundle \notin {NoBundle, Torn}
    /\ SignatureChecks(bundle, sidecar, trusted, required)
    /\ EntryChecks(bundle, files)
    /\ CrossArtifactInvariants(files)

\* Readiness looks at the files again, at their shape only.
EvaluateReadiness(files, provisioned) ==
    provisioned /\ \A class \in Classes : ArtifactShape(class, files[class])
=============================================================================
