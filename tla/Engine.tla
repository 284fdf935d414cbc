------------------------------- MODULE Engine -------------------------------
(* SelfHarnessEngine.run of src/self_harness/engine.py: a fixed number of    *)
(* rounds, each of which measures the harness, asks a proposer for bounded   *)
(* edits, measures every edit on its own, merges those that passed, measures *)
(* the merged edit again, commits at most one patch and writes what happened *)
(* to the round's directory and to the lineage.                              *)
(*                                                                           *)
(* An evaluation is the number of passing attempts of every task; solving is *)
(* stochastic, so each evaluation of the same harness may come out another   *)
(* way.                                                                      *)
EXTENDS HarnessLayers, Integers, FiniteSets

CONSTANTS
    HeldIn,         \* the tasks whose failures the proposer may see
    HeldOut,        \* the tasks kept back as the regression gate
    Repeats,        \* attempts per task and evaluation
    Rounds,         \* bound: rounds of the run
    MaxProposals,   \* bound: proposals per round
    Pool,           \* what proposals may be: id, patch, priority, grounded (names
                    \* a pattern of the round), leaks (names a held-out one)
    Setups,         \* engines to build: proposer, target_profile, layers
    CrossTargets,   \* other profiles an LLM proposer may name as target
    Findings,       \* memory sources the research radar may inject
    SmokeConfigured \* whether the engine has smoke tasks

ASSUME SplitPartition ==
    HeldIn \cap HeldOut = {} /\ HeldOut # {} /\ IsFiniteSet(HeldIn \cup HeldOut)
ASSUME Targets ==
    /\ \A s \in Setups : s.target \in Profiles \cup {NoProfile}
    /\ CrossTargets \subseteq Profiles
ASSUME ProposerKinds == \A s \in Setups : s.proposer \in {"heuristic", "llm"}
\* The operations that occur in proposals.
PoolOps == UNION {{p.patch[i] : i \in DOMAIN p.patch} : p \in Pool}

ASSUME PoolOfProposals ==
    \A p \in Pool : /\ p.id \in Nat /\ p.priority \in Int /\ p.patch \in Seq(PoolOps)
                    /\ p.leaks => ~p.grounded
ASSUME SetupLayers == \A s \in Setups : IsLayers(s.layers)
ASSUME EngineBounds == Repeats \in Nat \ {0} /\ Rounds \in Nat

Tasks == HeldIn \cup HeldOut
Results == [Tasks -> 0..Repeats]

VARIABLES
    pc,         \* where run() is in the round
    round,      \* rounds completed
    proposer,   \* self.proposer
    target,     \* self.target_profile
    layers,     \* self.layers
    harness,    \* self.harness
    baseline,   \* the round's evaluation of the harness
    queue,      \* the proposals not yet considered
    considered, \* proposal_rows of the invalid ones and candidate_results
    commit,     \* what the round decided to commit, and the evidence for it
    artifacts,  \* the snapshots in the round directories
    lineage     \* lineage.json

setup == <<proposer, target>>

vars == <<pc, round, setup, layers, harness, baseline, queue, considered,
          commit, artifacts, lineage>>

-----------------------------------------------------------------------------
(* The acceptance gate and the ranking.  A split's score is the one of the   *)
(* "sum" aggregation; module Evaluation has the other, too.                  *)
Passed(result, split) == MapThenSumSet(LAMBDA t : result[t], split)

\* acceptance_rule: better on one split and worse on none.
Gate(base, cand) ==
    /\ Passed(cand, HeldIn) >= Passed(base, HeldIn)
    /\ Passed(cand, HeldOut) >= Passed(base, HeldOut)
    /\ \/ Passed(cand, HeldIn) > Passed(base, HeldIn)
       \/ Passed(cand, HeldOut) > Passed(base, HeldOut)

\* _tasks_fixed_by_candidate: a failing attempt before, a passing one now.
Fixed(base, cand) == {t \in HeldIn : base[t] < Repeats /\ cand[t] > 0}

\* Verdicts _certify_smoke may return: there is no certificate without a
\* profile or without smoke tasks.
SmokeVerdicts(profile) ==
    IF SmokeConfigured /\ profile # NoProfile THEN {"pass", "fail"}
    ELSE {"none"}

EvalProfile(t) == IF t = NoProfile THEN target ELSE t

\* The evaluation an edit is compared with: the round's baseline, or a new
\* one of the profile the edit is for.
BaselinesFor(t) == IF EvalProfile(t) = target THEN {baseline} ELSE Results

\* pairwise_preference: most fixed tasks first, then priority, then id.
Before(i, j) ==
    LET fixed(k) == Cardinality(Fixed(baseline, considered[k].eval))
        p(k) == considered[k].proposal
    IN  \/ fixed(i) > fixed(j)
        \/ /\ fixed(i) = fixed(j)
           /\ \/ p(i).priority > p(j).priority
              \/ /\ p(i).priority = p(j).priority
                 /\ <<p(i).id, i>> # <<p(j).id, j>>
                 /\ p(i).id <= p(j).id
                 /\ p(i).id = p(j).id => i < j

AcceptedIndices == {i \in DOMAIN considered : considered[i].status = "accepted"}

\* sorted(): the accepted ones in that order.
Ranking ==
    CHOOSE order \in SetToSeqs(AcceptedIndices) :
        \A m, n \in DOMAIN order : m < n => Before(order[m], order[n])
Ranked == [n \in DOMAIN Ranking |-> considered[Ranking[n]]]

\* _build_merge_group: down the ranking, every proposal for the same target
\* that is mergeable with all those already in the group.
JoinsDisjoint(r, group) ==   \* a slip: no two edits of one surface
    \A i \in DOMAIN group :
        \A j \in DOMAIN r.proposal.patch :
            ~Touches(group[i].proposal.patch, r.proposal.patch[j].surface)

Joins(r, group) ==
    \A i \in DOMAIN group :
        /\ r.proposal.target = group[i].proposal.target
        /\ Mergeable(r.proposal.patch, group[i].proposal.patch)

MergeGroup ==
    FoldLeft(LAMBDA g, r : IF Joins(r, g) THEN Append(g, r) ELSE g,
             <<>>, Ranked)

Ids(group) == [i \in DOMAIN group |-> group[i].proposal.id]

\* candidate_layers_by_id, baseline_by_id, certification_by_id: a later result
\* with the same id overwrites.
LastById(id) ==
    LET same == {i \in DOMAIN considered : /\ considered[i].proposal.id = id
                                           /\ considered[i].status # "invalid"}
    IN  considered[Max(same)]

NoCommit(h, l, b) ==
    [via |-> "none", ids |-> <<>>, patch |-> <<>>, reverse |-> <<>>,
     spec |-> h, layers |-> l, target |-> NoProfile, cert |-> "none",
     base |-> b, eval |-> b]

NoResult == [t \in Tasks |-> 0]

-----------------------------------------------------------------------------
Init ==
    /\ \E s \in Setups :
          /\ proposer = s.proposer
          /\ target = s.target
          /\ layers = IF s.target = NoProfile THEN s.layers
                      ELSE RegisterProfile(s.layers, s.target)
    /\ pc = "start"
    /\ round = 0
    /\ harness = Effective(layers, target)
    /\ baseline = NoResult
    /\ queue = <<>>
    /\ considered = <<>>
    /\ commit = NoCommit(harness, layers, NoResult)
    /\ artifacts = <<>>
    /\ lineage = <<>>

\* The round directory and its first harness_before.json.
BeginRound ==
    /\ pc = "start" /\ round < Rounds
    /\ pc' = "baseline"
    /\ harness' = Effective(layers, target)
    /\ artifacts' = Append(artifacts, [before |-> harness', after |-> <<>>])
    /\ baseline' = NoResult
    /\ considered' = <<>>
    /\ commit' = NoCommit(harness', layers, NoResult)
    /\ UNCHANGED <<round, setup, layers, queue, lineage>>

RunBaseline ==
    /\ pc = "baseline"
    /\ baseline' \in Results
    /\ pc' = "research"
    /\ UNCHANGED <<round, setup, layers, harness, queue, considered, commit,
                   artifacts, lineage>>

\* The research radar found nothing, or injects a memory source into the base
\* and rewrites harness_before.json.
NoFindings ==
    /\ pc = "research"
    /\ pc' = "propose"
    /\ UNCHANGED <<round, setup, layers, harness, baseline, queue, considered,
                   commit, artifacts, lineage>>

IntegrateFindings ==
    /\ pc = "research"
    /\ \E source \in Findings :
          layers' = [layers EXCEPT !.base["memory_sources"] = Append(@, source)]
    /\ harness' = Effective(layers', target)
    /\ artifacts' = [artifacts EXCEPT ![Len(artifacts)].before = harness']
    /\ pc' = "propose with findings"
    /\ UNCHANGED <<round, setup, baseline, queue, considered, commit, lineage>>

\* What a proposal may be for.  The heuristic proposer leaves the target
\* open, which the engine reads as: edit the base, measure with its own
\* profile.  An LLM proposer fills in the engine's own target unless the model
\* names another.
NamedTargets ==
    IF proposer = "heuristic" THEN {NoProfile} ELSE {target} \cup CrossTargets

\* Failures mined from the held-in tasks, or patterns of the findings: without
\* any there is nothing to propose for.
HasPatterns ==
    pc = "propose with findings" \/ \E t \in HeldIn : baseline[t] < Repeats

\* Proposals come sorted by priority and id, at most as many as the budget.
Earlier(p, q) ==
    \/ p.priority > q.priority
    \/ p.priority = q.priority /\ p.id < q.id

Sent(p, t) ==
    [id |-> p.id, patch |-> p.patch, priority |-> p.priority,
     grounded |-> p.grounded, leaks |-> p.leaks, target |-> t]

Propose ==
    /\ pc \in {"propose", "propose with findings"}
    /\ \E chosen \in SUBSET Pool :
          /\ IsFiniteSet(chosen) /\ Cardinality(chosen) <= MaxProposals
          /\ HasPatterns \/ chosen = {}
          /\ \E order \in SetToSeqs(chosen), named \in [chosen -> NamedTargets] :
                /\ \A m, n \in DOMAIN order : m < n => ~Earlier(order[n], order[m])
                /\ queue' = [n \in DOMAIN order |-> Sent(order[n], named[order[n]])]
    /\ pc' = "consider"
    /\ UNCHANGED <<round, setup, layers, harness, baseline, considered, commit,
                   artifacts, lineage>>

\* invalid_reason, no operations, or apply_patch raises: an invalid row.
Refusable(p) == ~p.grounded \/ p.patch = <<>> \/ ~ValidPatch(p.patch)

InvalidRow(p) == [proposal |-> p, status |-> "invalid"]

ConsiderInvalid ==
    /\ pc = "consider" /\ queue # <<>> /\ Refusable(Head(queue))
    /\ considered' = Append(considered, InvalidRow(Head(queue)))
    /\ queue' = Tail(queue)
    /\ UNCHANGED <<pc, round, setup, layers, harness, baseline, commit,
                   artifacts, lineage>>

\* The runner raises while the edit or its baseline is measured.
ConsiderUnmeasured ==
    /\ pc = "consider" /\ queue # <<>> /\ ~Refusable(Head(queue))
    /\ considered' = Append(considered, InvalidRow(Head(queue)))
    /\ queue' = Tail(queue)
    /\ UNCHANGED <<pc, round, setup, layers, harness, baseline, commit,
                   artifacts, lineage>>

Considered(p, status, base, cand, cert) ==
    LET candidate == ApplyPatchToLayers(layers, p.patch, p.target)
    IN  [proposal |-> p, status |-> status, layers |-> candidate.layers,
         reverse |-> candidate.reverse, spec |-> candidate.spec,
         base |-> base, eval |-> cand, cert |-> cert]

ConsiderUncertified ==   \* a slip: a failed certificate is only recorded
    /\ pc = "consider" /\ queue # <<>> /\ ~Refusable(Head(queue))
    /\ LET p == Head(queue)
       IN  \E base \in BaselinesFor(p.target), cand \in Results :
           \E cert \in IF Gate(base, cand)
                       THEN SmokeVerdicts(EvalProfile(p.target)) ELSE {"none"} :
              considered' = Append(considered,
                  Considered(p, IF Gate(base, cand) THEN "accepted"
                                ELSE "rejected", base, cand, cert))
    /\ queue' = Tail(queue)
    /\ UNCHANGED <<pc, round, setup, layers, harness, baseline, commit,
                   artifacts, lineage>>

\* Measure the edit on its own; only an edit that passes the gate is put to
\* the smoke tasks, and a failed certificate rejects it.
ConsiderMeasured ==
    /\ pc = "consider" /\ queue # <<>> /\ ~Refusable(Head(queue))
    /\ LET p == Head(queue)
       IN  \E base \in BaselinesFor(p.target), cand \in Results :
           \E cert \in IF Gate(base, cand)
                       THEN SmokeVerdicts(EvalProfile(p.target)) ELSE {"none"} :
              considered' = Append(considered,
                  Considered(p, IF Gate(base, cand) /\ cert # "fail"
                                THEN "accepted" ELSE "rejected", base, cand, cert))
    /\ queue' = Tail(queue)
    /\ UNCHANGED <<pc, round, setup, layers, harness, baseline, commit,
                   artifacts, lineage>>

NothingAccepted ==
    /\ pc = "consider" /\ queue = <<>> /\ AcceptedIndices = {}
    /\ commit' = NoCommit(harness, layers, baseline)
    /\ pc' = "record"
    /\ UNCHANGED <<round, setup, layers, harness, baseline, queue, considered,
                   artifacts, lineage>>

\* The merged patch of the group, applied and measured afresh, even when the
\* group is one proposal.
MergedCommit(group, base, cand, cert) ==
    LET patch == MergePatches([i \in DOMAIN group |-> group[i].proposal.patch])
        t == group[1].proposal.target
        merged == ApplyPatchToLayers(layers, patch, t)
    IN  [via |-> "merge", ids |-> Ids(group), patch |-> patch,
         reverse |-> merged.reverse, spec |-> merged.spec,
         layers |-> merged.layers, target |-> t, cert |-> cert,
         base |-> base, eval |-> cand]

FallbackUnadopted(best) ==   \* a slip: after_layers keeps its default
    [via |-> "fallback", ids |-> <<best.proposal.id>>,
     patch |-> best.proposal.patch, reverse |-> best.reverse,
     spec |-> best.spec, layers |-> layers,
     target |-> best.proposal.target, cert |-> LastById(best.proposal.id).cert,
     base |-> best.base, eval |-> best.eval]

\* The merged edit failed: the best proposal on its own, with the evidence
\* from when it was considered; its layers and certificate are looked up by id.
FallbackCommit(best) ==
    [via |-> "fallback", ids |-> <<best.proposal.id>>,
     patch |-> best.proposal.patch, reverse |-> best.reverse,
     spec |-> best.spec, layers |-> LastById(best.proposal.id).layers,
     target |-> best.proposal.target, cert |-> LastById(best.proposal.id).cert,
     base |-> best.base, eval |-> best.eval]

SelectCommit ==
    /\ pc = "consider" /\ queue = <<>> /\ AcceptedIndices # {}
    /\ LET group == MergeGroup
           profile == EvalProfile(group[1].proposal.target)
       IN  \E base \in BaselinesFor(group[1].proposal.target), cand \in Results :
           \E cert \in IF Gate(base, cand)
                       THEN SmokeVerdicts(profile) ELSE {"none"} :
              commit' = IF Gate(base, cand) /\ cert # "fail"
                        THEN MergedCommit(group, base, cand, cert)
                        ELSE FallbackCommit(Ranked[1])
    /\ pc' = "record"
    /\ UNCHANGED <<round, setup, layers, harness, baseline, queue, considered,
                   artifacts, lineage>>

RowStatusOfGate(r) ==   \* a slip: what passed on its own counts as accepted
    IF commit.via = "merge" /\ r.status = "accepted" THEN "merged" ELSE r.status

\* The rows' final status, the certificate, and the round's files.
RowStatus(r) ==
    IF r.status # "accepted" THEN r.status
    ELSE IF r.proposal.id \notin ToSet(commit.ids) THEN "superseded"
    ELSE IF commit.via = "merge" /\ Len(commit.ids) > 1 THEN "merged"
    ELSE "accepted"

WriteCertifyingAll ==   \* a slip: certify without asking what was committed
    /\ pc = "record"
    /\ considered' = [i \in DOMAIN considered |->
          [considered[i] EXCEPT !.status = RowStatus(considered[i])]]
    /\ commit' = IF EvalProfile(commit.target) = NoProfile THEN commit
                 ELSE [commit EXCEPT !.layers =
                     MarkProfileCertified(@, EvalProfile(commit.target), commit.cert)]
    /\ artifacts' = [artifacts EXCEPT ![Len(artifacts)].after = <<commit.spec>>]
    /\ pc' = "lineage"
    /\ UNCHANGED <<round, setup, layers, harness, baseline, queue, lineage>>

WriteArtifacts ==
    /\ pc = "record"
    /\ considered' = [i \in DOMAIN considered |->
          [considered[i] EXCEPT !.status = RowStatus(considered[i])]]
    /\ commit' = IF commit.via = "none" \/ commit.target = NoProfile THEN commit
                 ELSE [commit EXCEPT !.layers =
                         MarkProfileCertified(@, commit.target, commit.cert)]
    /\ artifacts' = [artifacts EXCEPT ![Len(artifacts)].after = <<commit.spec>>]
    /\ pc' = "lineage"
    /\ UNCHANGED <<round, setup, layers, harness, baseline, queue, lineage>>

LineageRecord ==
    [before |-> harness, after |-> commit.spec, ops |-> commit.patch,
     reverse |-> commit.reverse, ids |-> commit.ids, target |-> commit.target,
     cert |-> commit.cert]

WriteLineage ==
    /\ pc = "lineage"
    /\ lineage' = Append(lineage, LineageRecord)
    /\ layers' = commit.layers
    /\ harness' = commit.spec
    /\ round' = round + 1
    /\ pc' = "start"
    /\ UNCHANGED <<setup, baseline, queue, considered, commit, artifacts>>

Finish ==
    /\ pc = "start" /\ round = Rounds
    /\ pc' = "done"
    /\ UNCHANGED <<round, setup, layers, harness, baseline, queue, considered,
                   commit, artifacts, lineage>>

\* An exception run() does not catch, or the process dies: the round
\* directory stays as it is.
Abort ==
    /\ pc \in {"baseline", "research", "propose", "propose with findings",
               "consider", "record", "lineage"}
    /\ pc' = "aborted"
    /\ UNCHANGED <<round, setup, layers, harness, baseline, queue, considered,
                   commit, artifacts, lineage>>

Next ==
    \/ BeginRound \/ RunBaseline \/ NoFindings \/ IntegrateFindings \/ Propose
    \/ ConsiderInvalid \/ ConsiderUnmeasured \/ ConsiderMeasured
    \/ NothingAccepted \/ SelectCommit \/ WriteArtifacts \/ WriteLineage
    \/ Finish \/ Abort

Spec == Init /\ [][Next]_vars

-----------------------------------------------------------------------------
Decided == pc \in {"record", "lineage"}
Committed == Decided /\ commit.via # "none"

(* Nothing is committed without evidence: whichever way the round went, also *)
(* when the merged edit failed and the best proposal is committed instead,   *)
(* what is committed beat an evaluation of the round's harness (for the own  *)
(* profile, the baseline, which is measured before findings are injected) on *)
(* one split, lost on none, and holds a smoke certificate where one is due.  *)
GatedCommit ==
    Committed =>
        /\ Gate(commit.base, commit.eval)
        /\ commit.cert \in SmokeVerdicts(EvalProfile(commit.target)) \ {"fail"}
        /\ EvalProfile(commit.target) = target => commit.base = baseline

(* The gate is never wasted: if a proposal passed on its own, the round      *)
(* commits the best ranked one, and a proposal that passed and is left out   *)
(* of a merged commit could not have been merged with those that are in it.  *)
BestCommittedGroupMaximal ==
    pc = "record" /\ AcceptedIndices # {} =>
        /\ commit.ids # <<>> /\ commit.ids[1] = Ranked[1].proposal.id
        /\ commit.via = "merge" =>
             \A i \in AcceptedIndices :
                \/ considered[i].proposal.id \in ToSet(commit.ids)
                \/ \E j \in AcceptedIndices :
                     /\ considered[j].proposal.id \in ToSet(commit.ids)
                     /\ \/ considered[i].proposal.target #
                             considered[j].proposal.target
                        \/ ~Mergeable(considered[i].proposal.patch,
                                      considered[j].proposal.patch)

(* A record explains its round in both directions: its operations take       *)
(* harness_before to harness_after, its reverse operations take it back.     *)
LineageReplays ==
    \A i \in DOMAIN lineage :
        /\ ApplyPatch(lineage[i].before, lineage[i].ops) = lineage[i].after
        /\ ApplyPatch(lineage[i].after, lineage[i].reverse) = lineage[i].before

(* A profile counts as certified only on the strength of a passed smoke      *)
(* evaluation, when the engine has smoke tasks, and only if it was the       *)
(* target of a commit.                                                       *)
CertifiedOnlyAfterPass ==
    [][\A p \in layers'.certified \ layers.certified :
          /\ commit.via # "none" /\ commit.target = p
          /\ commit.cert \in SmokeVerdicts(p) \ {"fail"}]_layers

\* A run whose proposals keep to the engine's own target, and into which no
\* findings are injected.  A heuristic proposer edits the base, so its profile
\* must have no operations of its own.
OwnTargetsOnly ==
    /\ CrossTargets = {} /\ Findings = {}
    /\ \A s \in Setups : s.proposer = "heuristic" /\ s.target # NoProfile =>
          /\ OverlayOps(s.layers.models, s.target) = <<>>
          /\ OverlayOps(s.layers.providers, ProviderOf[s.target]) = <<>>

\* No two proposals share an id.
UniqueIds == \A p, q \in Pool : p.id = q.id => p = q

(* A run that keeps to OwnTargetsOnly is a ledger: between two records the   *)
(* harness does not change, and it changes only by a commit.                 *)
L == INSTANCE Ledger WITH current <- harness, ledger <- lineage
ImplementsLedger == L!Spec
=============================================================================
