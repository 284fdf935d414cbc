----------------------------- MODULE AuditVerify -----------------------------
(* What a run of the engine leaves on disk, and the readers of it: the       *)
(* loader, the verifier, the trajectory and the migrator of                  *)
(* src/self_harness/audit.py, audit_verify.py and audit_migration.py.        *)
(*                                                                           *)
(* The rows are those of the round recorded last, whose results the engine's *)
(* state still holds; every round is the last one once.                      *)
EXTENDS Engine

CONSTANT ConfigSchemas  \* the schemas a run may be configured with

SchemaOrder == <<"1.0", "1.1", "1.2", "1.3", "1.4">>
Schemas == ToSet(SchemaOrder)
ASSUME ConfigSchemasSupported == ConfigSchemas \subseteq Schemas

Position(v) == CHOOSE i \in DOMAIN SchemaOrder : SchemaOrder[i] = v

Splits == {"held_in", "held_out"}
SplitTasks(split) == IF split = "held_in" THEN HeldIn ELSE HeldOut

\* The files of a round are written, those of the next are not begun.
Recorded == round > 0 /\ pc = "start"

-----------------------------------------------------------------------------
(* The rows of a round.  v is the schema the run was configured with.        *)
BaselineId == 0     \* "__baseline__": sorts before every proposal's id
MergeId == -1       \* "__merge__"

Totals(result) == [s \in Splits |-> Passed(result, SplitTasks(s))]

\* An invalid proposal is reported with the baseline's score on both sides.
ProposalRow(r, v) ==
    [id |-> r.proposal.id, schema |-> v, status |-> r.status,
     leaks |-> r.proposal.leaks,
     baseline |-> Totals(IF r.status = "invalid" THEN baseline
                         ELSE LastById(r.proposal.id).base),
     passed |-> Totals(IF r.status = "invalid" THEN baseline ELSE r.eval)]

ProposalRows(v) == [i \in DOMAIN considered |-> ProposalRow(considered[i], v)]

\* The "__split_total__" rows of one arm of a proposal.
ResultRows(id, arm, result, v) ==
    {[proposal |-> id, arm |-> arm, split |-> s, schema |-> v,
      pass |-> Totals(result)[s]] : s \in Splits}

EvaluationRowsOf(id, base, cand, v) ==
    ResultRows(id, "baseline", base, v) \cup ResultRows(id, "candidate", cand, v)

MeasuredIndices == {i \in DOMAIN considered : considered[i].status # "invalid"}

\* A merged edit that failed leaves rows as well, which nothing selects.
EvaluationRows(v) ==
    ResultRows(BaselineId, "baseline", baseline, v)
    \cup (UNION {EvaluationRowsOf(considered[i].proposal.id, considered[i].base,
                                  considered[i].eval, v) : i \in MeasuredIndices})
    \cup (IF commit.via = "merge"
          THEN EvaluationRowsOf(MergeId, commit.base, commit.eval, v) ELSE {})

\* A lineage row has fields only schema 1.3 knows.
LineageSchema(v) == IF v \in {"1.0", "1.1", "1.2"} THEN "1.3" ELSE v

NoProvenance == [target |-> "none", class |-> "none", path |-> <<>>]

\* cluster_failures: what patterns.json holds, here one pattern per task.
SplitOf(t) == IF t \in HeldIn THEN "held_in" ELSE "held_out"

ClusterAllFailures(result, split) ==   \* a slip: of every split
    {[split |-> SplitOf(t), task |-> t] : t \in {u \in Tasks : result[u] < Repeats}}

ClusterFailures(result, split) ==
    {[split |-> SplitOf(t), task |-> t] :
        t \in {u \in Tasks : result[u] < Repeats /\ SplitOf(u) = split}}

\* The directory: the manifest, the lineage, and the files of the rounds.
\* What load_audit_run reads is there and whole ("loads"), or it raises; the
\* verifier reads patterns.json on its own.
AuditRun(v) ==
    [loads |-> TRUE, manifest |-> v, provenance |-> NoProvenance,
     lineage |-> [i \in DOMAIN lineage |->
                    [schema |-> LineageSchema(v), before |-> lineage[i].before,
                     after |-> lineage[i].after, ids |-> lineage[i].ids]],
     snapshots |-> artifacts,
     proposals |-> ProposalRows(v), evaluations |-> EvaluationRows(v),
     patternsFile |-> "whole", patterns |-> ClusterFailures(baseline, "held_in")]

-----------------------------------------------------------------------------
(* verify_audit_run.                                                         *)
RoundsMatchLineage(audit) == DOMAIN audit.snapshots = DOMAIN audit.lineage

MigrationProvenanceHolds(audit) ==
    \/ audit.provenance = NoProvenance
    \/ /\ audit.provenance.target = audit.manifest
       /\ audit.provenance.class \in {"lossless", "lossy", "unsupported"}

\* A lineage row may be newer than its manifest, every other row may not.
LineageSchemaHolds(audit, i) ==
    Position(audit.lineage[i].schema) >= Position(audit.manifest)

SnapshotsHold(audit, i) ==
    /\ audit.snapshots[i].before = audit.lineage[i].before
    /\ audit.snapshots[i].after = <<audit.lineage[i].after>>
    /\ i > 1 => <<audit.snapshots[i].before>> = audit.snapshots[i - 1].after

IdsWithStatus(audit, statuses) ==
    {audit.proposals[i].id : i \in
        {k \in DOMAIN audit.proposals : audit.proposals[k].status \in statuses}}

ProposalsHold(audit) ==
    /\ \A i, j \in DOMAIN audit.proposals :
          audit.proposals[i].id = audit.proposals[j].id => i = j
    /\ IdsWithStatus(audit, {"accepted", "merged"}) = ToSet(Last(audit.lineage).ids)
    /\ \A i \in DOMAIN audit.proposals :
          /\ audit.proposals[i].schema = audit.manifest
          /\ ~audit.proposals[i].leaks      \* _proposal_leaks_held_out

CommittedSelectorOfAccepted(audit) ==   \* a slip: merged rows are overlooked
    LET accepted == IdsWithStatus(audit, {"accepted"})
    IN  IF accepted # {} THEN <<Min(accepted), "candidate">>
        ELSE <<BaselineId, "baseline">>

\* _committed_eval_selector: whose evaluation is the one after the round.
CommittedSelector(audit) ==
    LET accepted == IdsWithStatus(audit, {"accepted"})
    IN  IF IdsWithStatus(audit, {"merged"}) # {} THEN <<MergeId, "candidate">>
        ELSE IF accepted # {} THEN <<Min(accepted), "candidate">>
        ELSE <<BaselineId, "baseline">>

TotalsFor(audit, selector, split) ==
    {row.pass : row \in {e \in audit.evaluations :
        e.proposal = selector[1] /\ e.arm = selector[2] /\ e.split = split}}

EvaluationsHold(audit) ==
    LET committed == CommittedSelector(audit)
    IN  /\ \A row \in audit.evaluations : row.schema = audit.manifest
        /\ \A s \in Splits :
              /\ TotalsFor(audit, <<BaselineId, "baseline">>, s) # {}
              /\ TotalsFor(audit, committed, s) # {}

\* Audits from before there was a patterns.json have none.
PatternsHold(audit) ==
    \/ audit.patternsFile = "missing"
    \/ /\ audit.patternsFile = "whole"
       /\ \A pattern \in audit.patterns : pattern.split = "held_in"

VerifyAuditRun(audit) ==
    /\ audit.loads
    /\ RoundsMatchLineage(audit)
    /\ MigrationProvenanceHolds(audit)
    /\ \A i \in DOMAIN audit.lineage :
          LineageSchemaHolds(audit, i) /\ SnapshotsHold(audit, i)
    /\ ProposalsHold(audit)
    /\ EvaluationsHold(audit)
    /\ PatternsHold(audit)

-----------------------------------------------------------------------------
(* migrate_audit_tree: the source is copied file by file, then transform    *)
(* after transform rewrites the copy file by file, and the provenance comes  *)
(* last.  The built-in transforms go one version up each.  A command that    *)
(* dies leaves its destination as it is; the next one refuses it, because it *)
(* exists, and nobody else writes there.                                     *)
UpgradePath(from, to) == SubSeq(SchemaOrder, Position(from) + 1, Position(to))

\* copytree has not come to every file, or died in one of them.
Copied(audit, loads, patternsFile) ==
    [audit EXCEPT !.loads = loads, !.patternsFile = patternsFile]

\* _migrate_metadata_only, up to the n-th of its files: the manifest, the
\* lineage, and the rows of the round.
MigrateFiles(audit, v, n) ==
    [audit EXCEPT
        !.manifest = IF n >= 1 THEN v ELSE @,
        !.lineage = IF n >= 2 THEN [i \in DOMAIN @ |-> [@[i] EXCEPT !.schema = v]]
                    ELSE @,
        !.proposals = IF n >= 3 THEN [i \in DOMAIN @ |-> [@[i] EXCEPT !.schema = v]]
                      ELSE @,
        !.evaluations = IF n >= 4 THEN {[row EXCEPT !.schema = v] : row \in @} ELSE @]

MigrateMetadata(audit, v) == MigrateFiles(audit, v, 4)

\* It died in the transform after the k-th, when n of its files were written.
DeadMigration(audit, path, k, n) ==
    MigrateFiles(FoldLeft(MigrateMetadata, audit, SubSeq(path, 1, k)), path[k + 1], n)

\* Upgrades only; a run that is at the target already is refused.
MigrationAllowed(audit, v) == Position(v) > Position(audit.manifest)

MigrateAuditTree(audit, v) ==
    LET path == UpgradePath(audit.manifest, v)
    IN  [FoldLeft(MigrateMetadata, audit, path)
            EXCEPT !.provenance = [target |-> v, class |-> "lossless", path |-> path]]

-----------------------------------------------------------------------------
(* The readers: a row of the trajectory, whose "after" is the summary's score. *)
TrajectoryRow(audit) ==
    LET committed == CommittedSelector(audit)
        passed(selector) == [s \in Splits |-> Max(TotalsFor(audit, selector, s))]
    IN  [baseline |-> passed(<<BaselineId, "baseline">>),
         after |-> passed(committed)]

-----------------------------------------------------------------------------
\* A model named a pattern of the held-out tasks: the row is invalid, and says so.
NamesHeldOut == \E i \in DOMAIN considered : considered[i].proposal.leaks

\* The run's directory, and its migration to any later schema.
Verified(audit) ==
    /\ VerifyAuditRun(audit)
    /\ \A w \in Schemas :
          MigrationAllowed(audit, w) => VerifyAuditRun(MigrateAuditTree(audit, w))

\* Of what a migration that died leaves, the verifier accepts what cannot be
\* told from a run of one schema: a copy that misses no file but patterns.json,
\* or the result of a transform.  (The way to the latest schema leads past all
\* others.)
TellsDeadMigrations(audit) ==
    /\ \A loads \in BOOLEAN, patternsFile \in {"missing", "torn", "whole"} :
          VerifyAuditRun(Copied(audit, loads, patternsFile)) =>
              loads /\ patternsFile # "torn"
    /\ LET path == UpgradePath(audit.manifest, "1.4")
       IN  \A k \in 0..Len(path) - 1, n \in 1..4 :
              VerifyAuditRun(DeadMigration(audit, path, k, n)) <=>
                  VerifyAuditRun(audit) /\ n = 4

(* What the engine writes, its own verifier accepts: of a run for its own    *)
(* profile without findings, after any round, and after a migration to any   *)
(* later schema, unless a model named a held-out pattern, which the verifier *)
(* refuses.  A migration that died in the middle of a transform is never     *)
(* accepted; between two of them it is, without a trace of its origin.       *)
AuditVerifies ==
    Recorded =>
        \A v \in ConfigSchemas :
            LET audit == AuditRun(v)
            IN  /\ IF NamesHeldOut THEN ~VerifyAuditRun(audit) ELSE Verified(audit)
                /\ TellsDeadMigrations(audit)

(* The trajectory tells of the round what the gate decided: after it, no     *)
(* split is worse than the baseline, and one is better exactly if something  *)
(* was committed.  The rows are picked by status, not by what was committed. *)
TrajectoryImproves ==
    Recorded =>
        LET row == TrajectoryRow(AuditRun("1.4"))
        IN  /\ \A s \in Splits : row.after[s] >= row.baseline[s]
            /\ lineage[round].ids # <<>>
                 <=> \E s \in Splits : row.after[s] > row.baseline[s]
=============================================================================
