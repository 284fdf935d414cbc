-------------------------- MODULE ProposalEvidence --------------------------
(* The evidence of a self-harness run that a reproduction bundle carries and *)
(* verify_reproduction_bundle (src/self_harness/reproduction_bundle.py) binds *)
(* together: the proposer's request log, the context each round's proposals  *)
(* were asked from, and the outcomes each of them was judged by.  The checks *)
(* loop over the rounds; here a round is verified at a time, context first,  *)
(* and what later rounds are compared with is remembered.  Evidence is       *)
(* supplied as finished artefacts, or derived by capture_extract.py from the *)
(* audit of an engine run.                                                   *)
(* Hashes stand for what they hash.  Titles, categories, presentation order  *)
(* and token counts are left out, and so are rows whose counts do not add up.*)
EXTENDS Naturals, FiniteSets

CONSTANTS
    HeldIn,       \* held-in tasks of the split manifest
    HeldOut,      \* number of its held-out tasks
    Mechanisms,   \* failure mechanisms
    Surfaces,     \* editable surfaces
    Harnesses,    \* harness states, by their hash
    Rounds,       \* self_harness_rounds of the fixed protocol
    Width,        \* its proposal_width
    Attempts,     \* attempts_per_task of the evaluation report
    Stated        \* the outcomes supplied artefacts may state

Outcomes == [in: Nat, inTotal: Nat, out: Nat, outTotal: Nat, repeats: Nat]

ASSUME EvidenceBounds ==
    /\ IsFiniteSet(HeldIn) /\ HeldOut \in Nat
    /\ Rounds \in Nat \ {0} /\ Width \in Nat \ {0} /\ Attempts \in Nat \ {0}
    /\ Stated \subseteq Outcomes

NoSurface == "no surface"
NoOutcome == [in |-> 0, inTotal |-> 0, out |-> 0, outTotal |-> 0, repeats |-> 0]
NoHarness == "no hash"

Decisions == {"accepted", "merged", "superseded", "rejected", "invalid"}
Committing == {"accepted", "merged"}
Reportable == {"accepted", "rejected", "invalid"}

Edits ==
    [round: 0..(Rounds - 1), mech: Mechanisms, surface: Surfaces \cup {NoSurface},
     decision: Decisions]

VARIABLES
    k,         \* rounds whose evidence is verified
    phase,     \* "context", or "validation" once the context of round k is
    base,      \* the baseline outcome of the round whose context is verified
    context,   \* per round, the mechanisms and the surfaces of its context
    attempts,  \* the candidates of the rounds so far, as edits to refer to
    first,     \* the baseline outcome of round 0
    expected,  \* what the next baseline must be; NoOutcome if anything
    harness,   \* what the next harness_before must be; NoHarness if undeclared
    commits,   \* committed proposals so far
    merges,    \* a round so far committed several
    refused    \* a context derived from an audit was refused

vars == <<k, phase, base, context, attempts, first, expected, harness,
          commits, merges, refused>>

\* Baseline rows: per held-in task, whether each observation of it passed.
Failing(results) == {t \in HeldIn : \E i \in DOMAIN results[t] : ~results[t][i]}
Passing(results) == {t \in HeldIn : \E i \in DOMAIN results[t] : results[t][i]}

Observations(results) == {o \in HeldIn \X (1..Attempts) : o[2] \in DOMAIN results[o[1]]}

\* The counts of a baseline reconcile with its rows, which cover the held-in
\* tasks: a count of observations, not of tasks.
Reconciled(outcome, results) ==
    /\ outcome.inTotal = Cardinality(Observations(results))
    /\ outcome.in = Cardinality({o \in Observations(results) : results[o[1]][o[2]]})

OutcomeShape(outcome) ==
    outcome.in <= outcome.inTotal /\ outcome.out <= outcome.outTotal

CandidateShape(c) ==
    /\ OutcomeShape(c.outcome)
    /\ c.surface = NoSurface => c.decision = "invalid"

-----------------------------------------------------------------------------
\* What binds the context of round k.

\* The log has a round of Width attempts; a round with attempts needs a
\* surface, a failure pattern, a passing summary and, but for the first, an
\* earlier edit.
EmptyIngredient(clusters, surfaces, passing, edits) ==
    {} \in {surfaces, clusters, passing} \/ (k > 0 /\ edits = {})
ContextBinding(clusters, surfaces, passing, edits) ==
    ~EmptyIngredient(clusters, surfaces, passing, edits)

PatternsShape(clusters) ==
    /\ \A c \in clusters : c.tasks # {}
    /\ \A c, d \in clusters : c # d => c.mech # d.mech /\ c.tasks \cap d.tasks = {}

EditsShape(edits) ==
    /\ \A e \in edits : e.decision \in Reportable
    /\ \A e, f \in edits :
          e # f => <<e.round, e.mech, e.surface>> # <<f.round, f.mech, f.surface>>

KnownSurface(e) == e.surface \in context[e.round].surfaces
PreviousEdits(edits) ==
    /\ EditsShape(edits)
    /\ \A e \in edits :
          /\ e.round < k
          /\ e.mech \in context[e.round].mechs
          /\ KnownSurface(e)

\* Each is what the validation manifest says of a candidate of its round.
EditsOfCandidates(edits) == edits \subseteq attempts

\* The failure patterns hold every held-in task that failed and no other, and
\* the summaries every task that passed: of a task that did both, each tells.
FailureEvidence(clusters, results) == UNION {c.tasks : c \in clusters} = Failing(results)
PassingEvidence(passing, results) == passing = Passing(results)
ContextEvidence(clusters, passing, results) ==
    FailureEvidence(clusters, results) /\ PassingEvidence(passing, results)

\* Split totals are the task counts of the split manifest.
SplitTotals(outcome) ==
    outcome.inTotal = Cardinality(HeldIn) /\ outcome.outTotal = HeldOut

Repeats(outcome) == outcome.repeats = Attempts

\* Algorithm 1: a baseline is the outcome the round before was left with.
LineageContinuity(outcome) == expected = NoOutcome \/ outcome = expected

ContextVerifies(outcome, results, clusters, surfaces, passing, edits) ==
    /\ PatternsShape(clusters)
    /\ OutcomeShape(outcome) /\ Reconciled(outcome, results)
    /\ ContextBinding(clusters, surfaces, passing, edits)
    /\ PreviousEdits(edits) /\ EditsOfCandidates(edits)
    /\ ContextEvidence(clusters, passing, results)
    /\ SplitTotals(outcome)
    /\ LineageContinuity(outcome)

-----------------------------------------------------------------------------
\* What binds the validation of round k.  A round with no hashes has NoHarness
\* twice; before, after and the merged hash are declared together.

Commits(cands) == {c \in cands : c.decision \in Committing}

CandidateCounts(cands, log) ==
    /\ log.attempted = Width
    /\ Cardinality(cands) = log.attempted
    /\ Cardinality(Commits(cands)) = log.committed

Grounded(c) ==
    /\ c.mech \in context[k].mechs
    /\ c.surface # NoSurface => c.surface \in context[k].surfaces

AcceptanceOfHeldIn(c) ==   \* a slip: held-out results are not looked at
    c.decision \in Committing => c.outcome.in > base.in

AcceptanceRule(c) ==
    c.decision \in Committing =>
        /\ c.outcome.in >= base.in /\ c.outcome.out >= base.out
        /\ c.outcome.in # base.in \/ c.outcome.out # base.out

Distinct(cands) ==
    \A c, d \in cands : c # d => <<c.mech, c.surface>> # <<d.mech, d.surface>>

MergeSurfaces(cands) ==
    \A c, d \in Commits(cands) : c # d => c.surface # d.surface

\* A merged outcome is stated by exactly the rounds that commit several and
\* declare their hashes; a merged hash repeats the hash after.
MergedOutcome(cands, after, merged) ==
    /\ (merged # NoOutcome) <=>
          (Cardinality(Commits(cands)) >= 2 /\ after # NoHarness)
    /\ merged # NoOutcome => OutcomeShape(merged) /\ merged.repeats = base.repeats

\* Once a round declares hashes all of them do, and they follow each other.
HarnessContinuity(before, after) ==
    /\ (before = NoHarness) <=> (after = NoHarness)
    /\ k > 0 => before = harness

\* Repeats agree within a round and with the evaluation report; only those of
\* the candidates are compared with the report.
CandidateVerifies(c) ==
    /\ CandidateShape(c)
    /\ SplitTotals(c.outcome) /\ Repeats(c.outcome)
    /\ c.outcome.repeats = base.repeats
    /\ Grounded(c)
    /\ AcceptanceRule(c)

ValidationVerifies(cands, log, before, after, merged) ==
    /\ \A c \in cands : CandidateVerifies(c)
    /\ Distinct(cands) /\ MergeSurfaces(cands)
    /\ CandidateCounts(cands, log)
    /\ HarnessContinuity(before, after)
    /\ MergedOutcome(cands, after, merged)

\* The state a round leaves: with no commit the one it began with, with one the
\* candidate's, with several the merged one, if it is stated.
LeftWith(cands, merged) ==
    IF Commits(cands) = {} THEN base
    ELSE IF Cardinality(Commits(cands)) = 1
    THEN (CHOOSE c \in Commits(cands) : TRUE).outcome
    ELSE merged

LeftHarness(cands, before, after) == IF Commits(cands) = {} THEN before ELSE after

AttemptsOf(cands) ==
    {[round |-> k, mech |-> c.mech, surface |-> c.surface, decision |-> c.decision]
        : c \in cands}

-----------------------------------------------------------------------------
Init ==
    /\ k = 0 /\ phase = "context"
    /\ base = NoOutcome /\ first = NoOutcome /\ expected = NoOutcome
    /\ harness = NoHarness
    /\ context = [r \in {} |-> 0] /\ attempts = {}
    /\ commits = 0 /\ merges = FALSE
    /\ refused = FALSE

AcceptContext(outcome, clusters, surfaces) ==
    /\ phase' = "validation"
    /\ base' = outcome
    /\ first' = IF k = 0 THEN outcome ELSE first
    /\ context' = [r \in DOMAIN context \cup {k} |->
          IF r = k THEN [mechs |-> {c.mech : c \in clusters}, surfaces |-> surfaces]
          ELSE context[r]]
    /\ UNCHANGED <<k, attempts, expected, harness, commits, merges, refused>>

AcceptValidation(cands, before, after, merged) ==
    /\ phase' = "context" /\ k' = k + 1
    /\ attempts' = attempts \cup AttemptsOf(cands)
    /\ expected' = LeftWith(cands, merged)
    /\ harness' = LeftHarness(cands, before, after)
    /\ commits' = commits + Cardinality(Commits(cands))
    /\ merges' = (merges \/ Cardinality(Commits(cands)) > 1)
    /\ base' = NoOutcome
    /\ UNCHANGED <<context, first, refused>>

\* Clusterings of some of the held-in tasks, one cluster per mechanism.
Clusterings ==
    {{[mech |-> m, tasks |-> {t \in HeldIn : of[t] = m}]
        : m \in {of[t] : t \in HeldIn} \cap Mechanisms}
        : of \in [HeldIn -> Mechanisms \cup {NoSurface}]}

\* A context artefact with the baseline it was mined from.
SupplyContext ==
    /\ k < Rounds /\ phase = "context"
    /\ \E edits \in {{}} \cup {{e} : e \in Edits} :
       \E results \in [HeldIn -> [{1} -> BOOLEAN]], outcome \in Stated,
          clusters \in Clusterings, surfaces \in SUBSET Surfaces :
          /\ ContextVerifies(outcome, results, clusters, surfaces,
                             Passing(results), edits)
          /\ AcceptContext(outcome, clusters, surfaces)

\* The Width candidates of a validation artefact, its log and the hashes it
\* declares.
SupplyValidation ==
    /\ k < Rounds /\ phase = "validation"
    /\ LET stated == {c \in [mech: Mechanisms, surface: Surfaces \cup {NoSurface},
                             decision: Decisions, outcome: Stated] : CandidateVerifies(c)}
       IN \E slot \in [1..Width -> stated] :
          LET cands == {slot[i] : i \in 1..Width}
          IN  /\ Cardinality(cands) = Width /\ Distinct(cands) /\ MergeSurfaces(cands)
              /\ \E before, after \in Harnesses \cup {NoHarness},
                    committed \in 0..Width, merged \in Stated \cup {NoOutcome} :
                    /\ ValidationVerifies(cands,
                                          [attempted |-> Width, committed |-> committed],
                                          before, after, merged)
                    /\ AcceptValidation(cands, before, after, merged)

\* What extraction makes of an audited baseline: the engine ran every task
\* Attempts times and its split totals count attempts.
AuditedOutcome(results, passedOut) ==
    [in |-> Cardinality({o \in HeldIn \X (1..Attempts) : results[o[1]][o[2]]}),
     inTotal |-> Attempts * Cardinality(HeldIn),
     out |-> passedOut, outTotal |-> Attempts * HeldOut, repeats |-> Attempts]

DeriveContext ==
    /\ k = 0 /\ phase = "context" /\ ~refused
    /\ \E results \in [HeldIn -> [1..Attempts -> BOOLEAN]],
          passedOut \in 0..(Attempts * HeldOut), clusters \in Clusterings :
          /\ PatternsShape(clusters)
          /\ ContextBinding(clusters, Surfaces, Passing(results), {})
          /\ ContextEvidence(clusters, Passing(results), results)
          /\ IF ContextVerifies(AuditedOutcome(results, passedOut), results,
                                clusters, Surfaces, Passing(results), {})
             THEN AcceptContext(AuditedOutcome(results, passedOut), clusters, Surfaces)
             ELSE /\ refused' = TRUE
                  /\ UNCHANGED <<k, phase, base, context, attempts, first, expected,
                                 harness, commits, merges>>

Next == SupplyContext \/ SupplyValidation \/ DeriveContext

Spec == Init /\ [][Next]_vars

-----------------------------------------------------------------------------
TypeOK ==
    /\ k \in 0..Rounds /\ phase \in {"context", "validation"}
    /\ base \in Outcomes /\ first \in Outcomes /\ expected \in Outcomes
    /\ commits \in Nat /\ merges \in BOOLEAN
    /\ refused \in BOOLEAN

\* Evidence that verifies, with no round that commits several proposals, shows
\* a harness that got no worse on either split from the first baseline on, and
\* better by at least one pass for each committed proposal.
VerifiedGains ==
    k > 0 /\ ~merges =>
        /\ expected.in >= first.in /\ expected.out >= first.out
        /\ expected.in + expected.out >= first.in + first.out + commits

=============================================================================
