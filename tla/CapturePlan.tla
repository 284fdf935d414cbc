----------------------------- MODULE CapturePlan -----------------------------
(***************************************************************************)
(* The plan of a capture (capture_manifest.py, capture_manifest_build.py), *)
(* its rehearsal (capture_rehearsal.py) and its comparison with the bundle *)
(* that an admission made (capture_manifest_diff.py), beside the admission *)
(* commands.  A planned artefact is a template the operator gives, here an *)
(* artefact of some capture, or a stub the builder makes up.               *)
(***************************************************************************)
EXTENDS CaptureAdmission

CONSTANTS Stub,        \* what stubs are filled with, a member of DOMAIN Observed
          Orders,      \* plan command lines: [run, labels, custody, controls, given]
          NoPlan, NoKey,
          MaxPlanning,
          MaxMixed     \* admissions and other commands in a history with plans

ASSUME PlanAssumption == MaxPlanning \in Nat /\ MaxMixed \in Nat /\ NoKey \notin Keys

VARIABLES
    plan,        \* capture-manifest.json
    planSig,     \* its sidecar
    rehearsal,   \* the report of a rehearsal of the plan
    diff,        \* the report of a diff of the plan and the bundle
    planning

planVars == <<plan, planSig, rehearsal, diff, planning>>
allVars == <<vars, planVars>>

PlanInit ==
    /\ Init
    /\ plan = NoPlan /\ planSig = NoSignature
    /\ rehearsal = [done |-> FALSE, ok |-> FALSE, ready |-> FALSE]
    /\ diff = [done |-> FALSE, ok |-> FALSE, faithful |-> FALSE]
    /\ planning = 0

Decisions == {"accepted", "merged", "superseded", "rejected", "invalid"}

-----------------------------------------------------------------------------
\* A class without a template gets a stub of the planned run. The stubs of the
\* evidence are bound to the stub of the protocol, whatever template it has.
PlannedStub(class, order) ==
    LET stub == Supplied(class, Stub, order.run) IN
    IF class = "network_resource_controls_attestation"
    THEN [stub EXCEPT !.body.controls = order.controls]
    ELSE stub

PlannedArtifact(class, order) ==
    IF class \in DOMAIN order.given
    THEN Supplied(class, order.given[class], order.given[class])
    ELSE PlannedStub(class, order)

\* The verifier of a plan looks at the shape of each planned artefact and at the
\* plan's signature, under the key the sidecar embeds.
VerifyManifest(p, sig, required) ==
    /\ p # NoPlan
    /\ SignatureChecks(p, sig, Keys, required)
    /\ \A class \in Classes : ArtifactShape(class, p.entries[class])

FixedProtocolFindings(p, actual) ==
    p.entries["fixed_protocol_config"].body = actual["fixed_protocol_config"].body

\* What a diff compares of the contexts of the rounds: by cluster, the category
\* and the evidence of its failures, and how many tasks are in several clusters.
ContextSummary(context) ==
    LET members == UNION {{<<p.cluster, task>> : task \in p.tasks} : p \in context.patterns}
    IN [rounds |-> context.rounds,
        categories |-> {<<p.cluster, p.category>> : p \in context.patterns},
        evidence |-> {<<p.cluster, p.evidence>> : p \in context.patterns},
        overlap |-> Cardinality(members) - Cardinality({m[2] : m \in members})]
CategoryDrift(planned, realized) ==
    planned.rounds # realized.rounds \/ planned.categories # realized.categories
EvidenceDrift(planned, realized) ==
    planned.evidence # realized.evidence \/ planned.overlap # realized.overlap

\* Mutants: the tasks are left out, or are those of the whole split.
ContextFindingsOfPatterns(p, actual) ==
    LET planned == ContextSummary(p.entries["proposer_context_manifest"].body)
        realized == ContextSummary(actual["proposer_context_manifest"].body)
    IN ~CategoryDrift(planned, realized) /\ ~EvidenceDrift(planned, realized)
ContextFindingsOfSplit(p, actual) ==
    ContextTaskIds(actual["proposer_context_manifest"].body)
        = SplitTasks(p.entries["live_terminal_bench_split_manifest"])
ContextFindings(p, actual) ==
    LET context == actual["proposer_context_manifest"].body
        planned == ContextSummary(p.entries["proposer_context_manifest"].body)
        realized == ContextSummary(context)
    IN /\ ContextTaskIds(context) = p.entries["live_terminal_bench_split_manifest"].body.heldIn
       /\ ~CategoryDrift(planned, realized) /\ ~EvidenceDrift(planned, realized)

\* A digest of outcomes does not tell in which order they are listed.
OutcomesDigest(rows) ==
    [row \in {rows[i] : i \in DOMAIN rows} |-> Cardinality({i \in DOMAIN rows : rows[i] = row})]

\* What a diff compares of the rounds of a validation: the decisions by number,
\* what each candidate changed, which of them were committed, the proposer's
\* traffic, and how many candidates list outcomes.
ValidationSummary(validation) ==
    LET candidates == DOMAIN validation.proposals
        decided(d) == {id \in candidates : validation.proposals[id].decision = d}
    IN [rounds |-> validation.rounds, committed |-> validation.committed,
        traffic |-> validation.traffic,
        decisions |-> [d \in Decisions |-> Cardinality(decided(d))],
        surfaces |-> [id \in candidates |-> validation.proposals[id].surface],
        accepted |-> decided("accepted") \cup decided("merged"),
        judged |-> Cardinality({id \in candidates : validation.proposals[id].outcomes # <<>>})]

\* Outcomes that only the plan or only the bundle lists are not compared.
OutcomeDrift(planned, realized) ==
    \E id \in DOMAIN planned \cap DOMAIN realized :
        /\ <<>> \notin {planned[id].outcomes, realized[id].outcomes}
        /\ OutcomesDigest(planned[id].outcomes) # OutcomesDigest(realized[id].outcomes)

ValidationFindings(p, actual) ==
    LET planned == p.entries["proposal_validation_manifest"].body
        realized == actual["proposal_validation_manifest"].body
    IN /\ ValidationSummary(planned) = ValidationSummary(realized)
       /\ ~OutcomeDrift(planned.proposals, realized.proposals)

AuditImageFindings(p, actual) ==
    /\ p.entries["live_harbor_audit"].body.digests = actual["live_harbor_audit"].body.digests
    /\ AuditImageBinding(actual)

NetworkControlFindings(p, actual) ==
    actual["network_resource_controls_attestation"].body.controls = p.controls

\* Mutant: the artefacts share a run, whichever it is.
CaptureRunIdShared(p, actual) == CaptureRunIdBinding(actual)
CaptureRunIdFindings(p, actual) == \A class \in Primary : actual[class].run = p.run

\* A bundle without a signature is a custody drift, required or not.
CustodyFindings(p, sig) == sig # NoSignature /\ sig.key = p.custody

\* The bundle id, the operator, and the provider and operator of the sources.
BindingFindings(p, b) == b.labels.bundle = p.labels.bundle
SourceFindings(p, b) == b.labels.sources = p.labels.sources

DiffOk(p, psig, prequired, b, actual, sig, required) ==
    /\ VerifyManifest(p, psig, prequired)
    /\ VerifyBundle(b, actual, sig, Keys, required)
    /\ BindingFindings(p, b) /\ SourceFindings(p, b)
    /\ CaptureRunIdFindings(p, actual) /\ FixedProtocolFindings(p, actual)
    /\ ContextFindings(p, actual) /\ ValidationFindings(p, actual)
    /\ AuditImageFindings(p, actual) /\ NetworkControlFindings(p, actual)
    /\ CustodyFindings(p, sig)

-----------------------------------------------------------------------------
\* A bound: a rehearsal and a diff write only their reports, and end a history.
Reported == rehearsal.done \/ diff.done

Planning ==
    /\ ~Reported /\ run = NoRun /\ admissions <= MaxMixed /\ commands <= MaxMixed
    /\ planning < MaxPlanning /\ planning' = planning + 1
    /\ UNCHANGED vars

\* A bound: the plan is made before the first admission. None of these commands
\* reads the other's files, so a later one would find the same.
BeforeCapture == admissions = 0 /\ commands = 0

\* A manifest written again keeps the sidecar of the one before.
BuildManifest ==
    /\ Planning /\ BeforeCapture
    /\ \E order \in Orders :
          LET entries == [class \in Classes |-> PlannedArtifact(class, order)] IN
          /\ \A class \in Classes : ArtifactShape(class, entries[class])
          /\ plan' = [run |-> order.run, labels |-> order.labels, custody |-> order.custody,
                      controls |-> order.controls, entries |-> entries]
    /\ UNCHANGED <<planSig, rehearsal, diff>>

SignManifest ==
    /\ Planning /\ BeforeCapture /\ plan # NoPlan
    /\ \E key \in Keys : planSig' = [manifest |-> plan, key |-> key]
    /\ UNCHANGED <<plan, rehearsal, diff>>

\* The planned artefacts are written out, bundled under the rehearsal's own
\* operator label, signed if there is a signer, and put through the verifier,
\* the diff and the readiness evaluation; readiness does not decide.
Rehearse ==
    /\ Planning /\ BeforeCapture /\ plan # NoPlan
    /\ \E required, provisioned \in BOOLEAN, labels \in Labels, key \in Keys \cup {NoKey} :
          LET valid == VerifyManifest(plan, planSig, required)
              b == BuildBundle(plan.entries, labels)
              sig == IF key = NoKey THEN NoSignature ELSE [manifest |-> b, key |-> key]
          IN rehearsal' =
                [done |-> TRUE,
                 ok |-> /\ valid
                        /\ VerifyBundle(b, plan.entries, sig, Keys, required)
                        /\ DiffOk(plan, planSig, required, b, plan.entries, sig, required),
                 ready |-> valid /\ EvaluateReadiness(plan.entries, provisioned)]
    /\ UNCHANGED <<plan, planSig, diff>>

\* Everything the plan fixes is what the bundle has.
AsPlanned(required) ==
    /\ VerifyBundle(bundle, files, sidecar, Keys, TRUE)
    /\ bundle.labels = plan.labels /\ sidecar.key = plan.custody
    /\ \A class \in Classes : plan.entries[class].body = files[class].body
    /\ \A class \in Primary : files[class].run = plan.run
    /\ files["network_resource_controls_attestation"].body.controls = plan.controls
    /\ VerifyManifest(plan, planSig, required)

\* A diff without a plan or a bundle only fails.
Diff ==
    /\ Planning /\ plan # NoPlan /\ bundle \notin {NoBundle, Torn}
    /\ \E required \in BOOLEAN :
          diff' = [done |-> TRUE, faithful |-> AsPlanned(required),
                   ok |-> DiffOk(plan, planSig, required, bundle, files, sidecar, required)]
    /\ UNCHANGED <<plan, planSig, rehearsal>>

Admitting ==
    /\ ~Reported /\ Next
    /\ planning > 0 => admissions' <= MaxMixed /\ commands' <= MaxMixed
    /\ UNCHANGED planVars

PlanNext == Admitting \/ BuildManifest \/ SignManifest \/ Rehearse \/ Diff

PlanSpec == PlanInit /\ [][PlanNext]_allVars

-----------------------------------------------------------------------------
\* The split, the protocol and the run are compared with the plan through one
\* artefact each. In a bundle that diffs clean they govern all of the evidence:
\* the tasks that were split, evaluated and audited hold the planned held-in
\* tasks, the evaluation and the audit ran under the planned protocol, and every
\* raw output that states its run comes from the planned one.
CleanDiffIsThePlannedRun ==
    diff.ok =>
        LET planned(class) == plan.entries[class].body
            actual(class) == files[class].body
            heldIn == planned("live_terminal_bench_split_manifest").heldIn
        IN /\ actual("live_terminal_bench_split_manifest").heldIn = heldIn
           /\ heldIn \subseteq DOMAIN actual("live_two_repeat_evaluation_report").attempts
           /\ heldIn \subseteq DOMAIN actual("live_harbor_audit").trials
           /\ \A class \in NeedsProtocol :
                 actual(class).proto.body = planned("fixed_protocol_config")
           /\ \A class \in Primary :
                 Recorded(class, files[class].from) => files[class].from = plan.run

\* A template of another run, protocol, split or network policy among the stubs
\* of a plan passes its verifier, and the rehearsal finds it.
RehearsedPlanIsCoherent ==
    rehearsal.ok =>
        LET planned(class) == plan.entries[class].body IN
        /\ \A class \in Primary : plan.entries[class].run = plan.run
        /\ \A class \in NeedsProtocol :
              planned(class).proto.body = planned("fixed_protocol_config")
        /\ ContextTaskIds(planned("proposer_context_manifest"))
               = planned("live_terminal_bench_split_manifest").heldIn
        /\ planned("network_resource_controls_attestation").controls = plan.controls

\* The diff reports a drift only where there is one.
AsPlannedDiffsClean == diff.faithful => diff.ok

=============================================================================
