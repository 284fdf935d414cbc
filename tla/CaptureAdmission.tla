-------------------------- MODULE CaptureAdmission --------------------------
(***************************************************************************)
(* Admission of a capture (capture_admit.py) over one artefact directory,  *)
(* with the commands an operator runs between admissions: extraction of a  *)
(* single class in place, rebuilding the bundle manifest, signing it and   *)
(* producing the release evidence.  An admission writes class by class in  *)
(* place and may be killed at any step; files of earlier admissions stay.  *)
(***************************************************************************)
EXTENDS CaptureArtifacts, Sequences

CONSTANTS Plans,          \* admission command lines: [flag, input, sidecar, labels]
          Labels,         \* what a bundle may be labelled with
          Keys, Trusted,  \* signing keys, and those the verifier trusts
          MaxAdmissions, MaxCommands,
          Fixture         \* a release evidence file exists from elsewhere

ASSUME AdmissionAssumption ==
    /\ MaxAdmissions \in Nat /\ MaxCommands \in Nat /\ Fixture \in BOOLEAN
    /\ Trusted \subseteq Keys

VARIABLES
    files,      \* artifact_dir: class -> artefact | NoFile | Torn
    bundle,     \* bundle.json: class -> bytes | NoBundle | Torn
    sidecar,    \* bundle.json.sig
    run,        \* the admission under way, or NoRun
    report,     \* the last admission report
    release,    \* strict release evidence: "none" | "refused" | "issued"
    admissions, commands

vars == <<files, bundle, sidecar, run, report, release, admissions, commands>>

NoReport == [plan |-> NoRun, ok |-> FALSE, verified |-> FALSE]

Init ==
    /\ files = [class \in Classes |-> NoFile]
    /\ bundle = NoBundle /\ sidecar = NoSignature
    /\ run = NoRun /\ report = NoReport
    /\ release = "none"
    /\ admissions = 0 /\ commands = 0

-----------------------------------------------------------------------------
BeginAdmission ==
    /\ run = NoRun /\ admissions < MaxAdmissions
    /\ \E plan \in Plans :
          run' = [plan |-> plan, stage |-> "admit", at |-> 1,
                  admitted |-> {}, failed |-> FALSE, verified |-> FALSE]
    /\ admissions' = admissions + 1
    /\ UNCHANGED <<files, bundle, sidecar, report, release, commands>>

\* An artefact admitted earlier in this run is passed on to later extractions.
Threaded(class) == IF class \in run.admitted THEN files[class] ELSE NoFile

Available(class) == class # "release_candidate_evidence" \/ Fixture \/ release = "issued"

\* The file the plan makes of a class; Torn when there is none to admit.
Produced(class) ==
    LET in == run.plan.input[class] IN
    CASE in.kind = "raw" ->
            IF class \in Extractable
            THEN Extract(class, in.from, run.plan.flag, Threaded("fixed_protocol_config"),
                         Threaded("live_terminal_bench_split_manifest"))
            ELSE Torn
      [] in.kind = "supplied" -> IF Available(class) THEN Supplied(class, in.from, in.from) ELSE Torn
      [] OTHER -> Torn

\* One class: extracted, copied, or found in the directory, and its shape
\* checked; a failure is noted and the remaining classes are still written.
AdmitClass ==
    /\ run # NoRun /\ run.stage = "admit"
    /\ LET class == Order[run.at]
           keep == Produced(class) = Torn
           file == IF keep THEN files[class] ELSE Produced(class)
           ok == /\ keep => run.plan.input[class].kind = "absent"
                 /\ ArtifactShape(class, file)
       IN /\ files' = [files EXCEPT ![class] = file]
          /\ run' = [run EXCEPT
                        !.admitted = IF ok THEN @ \cup {class} ELSE @,
                        !.failed = @ \/ ~ok,
                        !.at = IF @ = Len(Order) THEN @ ELSE @ + 1,
                        !.stage = IF run.at = Len(Order) THEN "build" ELSE @]
    /\ UNCHANGED <<bundle, sidecar, report, release, admissions, commands>>

Finish(verified, ok) ==
    /\ report' = [plan |-> run.plan, ok |-> ok, verified |-> verified]
    /\ run' = NoRun

BundleBuild ==
    /\ run # NoRun /\ run.stage = "build"
    /\ IF run.failed
       THEN /\ Finish(FALSE, FALSE)
            /\ UNCHANGED bundle
       ELSE /\ bundle' = BuildBundle(files, run.plan.labels)
            /\ run' = [run EXCEPT !.stage = "verify"]
            /\ UNCHANGED report
    /\ UNCHANGED <<files, sidecar, release, admissions, commands>>

GivenSidecar(plan) == IF plan.sidecar THEN sidecar ELSE NoSignature

BundleVerification ==
    /\ run # NoRun /\ run.stage = "verify"
    /\ IF VerifyBundle(bundle, files, GivenSidecar(run.plan), Trusted, FALSE)
       THEN run' = [run EXCEPT !.stage = "readiness", !.verified = TRUE] /\ UNCHANGED report
       ELSE Finish(FALSE, FALSE)
    /\ UNCHANGED <<files, bundle, sidecar, release, admissions, commands>>

\* Readiness is evaluated unless the operator skips it.
ReadinessEvaluation ==
    /\ run # NoRun /\ run.stage = "readiness"
    /\ \E skip, provisioned \in BOOLEAN :
          Finish(TRUE, skip \/ EvaluateReadiness(files, provisioned))
    /\ UNCHANGED <<files, bundle, sidecar, release, admissions, commands>>

\* The process is killed, in the middle of the write it is at if there is one.
Abort ==
    /\ run # NoRun /\ run' = NoRun
    /\ \/ UNCHANGED <<files, bundle>>
       \/ /\ run.stage = "admit" /\ Produced(Order[run.at]) # Torn
          /\ files' = [files EXCEPT ![Order[run.at]] = Torn]
          /\ UNCHANGED bundle
       \/ /\ run.stage = "build" /\ ~run.failed
          /\ bundle' = Torn
          /\ UNCHANGED files
    /\ UNCHANGED <<sidecar, report, release, admissions, commands>>

-----------------------------------------------------------------------------
Command == run = NoRun /\ commands < MaxCommands /\ commands' = commands + 1

\* capture-extract of one class over the file an admission left, bound to the
\* protocol artefact in the directory.
ExtractInPlace ==
    /\ Command
    /\ \E class \in Extractable, c \in Captures :
          LET proto == files["fixed_protocol_config"]
              made == Extract(class, c, c,
                              IF ArtifactShape("fixed_protocol_config", proto)
                              THEN proto ELSE NoFile, NoFile)
          IN made # Torn /\ files' = [files EXCEPT ![class] = made]
    /\ UNCHANGED <<bundle, sidecar, run, report, release, admissions>>

RebuildBundle ==
    /\ Command
    /\ \A class \in Classes : ArtifactShape(class, files[class])
    /\ \E labels \in Labels : bundle' = BuildBundle(files, labels)
    /\ UNCHANGED <<files, sidecar, run, report, release, admissions>>

\* The manifest is signed as it is; the artefacts are not looked at.
Sign ==
    /\ Command
    /\ bundle \notin {NoBundle, Torn}
    /\ \E key \in Keys : sidecar' = [manifest |-> bundle, key |-> key]
    /\ UNCHANGED <<files, bundle, run, report, release, admissions>>

\* make release-candidate-evidence-reproduction: verify the bundle, evaluate
\* readiness, and issue the evidence only when both pass.
ReleaseCandidateEvidence ==
    /\ Command
    /\ release' = IF VerifyBundle(bundle, files, NoSignature, Trusted, FALSE)
                     /\ EvaluateReadiness(files, TRUE)
                  THEN "issued" ELSE "refused"
    /\ UNCHANGED <<files, bundle, sidecar, run, report, admissions>>

Next ==
    \/ BeginAdmission \/ AdmitClass \/ BundleBuild \/ BundleVerification
    \/ ReadinessEvaluation \/ Abort
    \/ ExtractInPlace \/ RebuildBundle \/ Sign \/ ReleaseCandidateEvidence

Spec == Init /\ [][Next]_vars

-----------------------------------------------------------------------------
Accepted == VerifyBundle(bundle, files, sidecar, Trusted, FALSE)

\* Whatever files of failed, killed or earlier admissions a bundle is built
\* over, if it verifies then all artefacts whose raw output states its run come
\* from one capture.
VerifiedIsOneCapture ==
    Accepted =>
        \A class, other \in Primary :
            /\ Recorded(class, files[class].from) /\ Recorded(other, files[other].from)
            => files[class].from = files[other].from

\* A plan that extracts everything it can from one capture under that capture's
\* run id, and is supplied the rest.
Honest(plan, c) ==
    /\ plan.flag = c /\ ~plan.sidecar
    /\ \A class \in Classes : plan.input[class].from = c
    /\ \A class \in Extractable \ {"proposal_validation_manifest"} :
          plan.input[class].kind = "raw"
    /\ \A class \in Derived \cup {"proposal_validation_manifest"} :
          plan.input[class].kind = "supplied"
    /\ TwoAttempts(Observed[c].trials)

\* The attempts of a capture are listed by index, or every task ends the same way
\* twice.
RowsAgree(c) ==
    \/ Observed[c].order = <<0, 1>>
    \/ \A id \in TaskIds(Observed[c].trials) :
          Passed(Observed[c].trials, id, 0) = Passed(Observed[c].trials, id, 1)

\* The verdict on a capture that one admission takes whole and consistent does not
\* depend on what earlier admissions left in the directory, only on its rows: the
\* evaluation report keeps them as they are listed, the audit sorts them, and the
\* verifier compares both by position, so that it refuses an honest capture whose
\* attempts of a flaky task are listed in completion order.
HonestCaptureVerdict ==
    \A c \in Captures :
        report.plan # NoRun /\ Honest(report.plan, c) => (report.verified <=> RowsAgree(c))

=============================================================================
