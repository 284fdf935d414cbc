----------------------- MODULE ProposalEvidence_proofs -----------------------
(* Evidence that verifies shows a harness that did not get worse, for every  *)
(* split, protocol and supplied outcome.                                     *)
EXTENDS ProposalEvidence, FiniteSetTheorems, TLAPS

\* Outcome o is at least the first baseline on both splits, and better by one
\* pass for each of n committed proposals.
AtLeastFirst(o, n) ==
    /\ o.in >= first.in /\ o.out >= first.out
    /\ o.in + o.out >= first.in + first.out + n

\* The inductive invariant: the baseline under validation and the state the
\* last round left are at least the first baseline; a state that was left has
\* been measured, so that the next baseline must equal it.
Gains ==
    /\ TypeOK
    /\ phase = "context" /\ k = 0 => commits = 0
    /\ phase = "validation" /\ ~merges => AtLeastFirst(base, commits)
    /\ k > 0 /\ ~merges =>
          AtLeastFirst(expected, commits) /\ expected.repeats = Attempts

LEMMA CommitCount ==
    ASSUME NEW cands, IsFiniteSet(cands)
    PROVE  /\ Cardinality(Commits(cands)) \in Nat
           /\ Commits(cands) = {} => Cardinality(Commits(cands)) = 0
           /\ Cardinality(Commits(cands)) = 0 => Commits(cands) = {}
           /\ Cardinality(Commits(cands)) = 1 =>
                 \E e \in cands : e.decision \in Committing /\ Commits(cands) = {e}
<1> DEFINE S == Commits(cands)
<1>1. S \subseteq cands /\ \A e \in S : e.decision \in Committing
  BY DEF Commits
<1>3. IsFiniteSet(S)
  BY <1>1, FS_Subset
<1>4. Cardinality(S) \in Nat
  BY <1>3, FS_CardinalityType
<1>5. S = {} => Cardinality(S) = 0
  BY FS_EmptySet
<1>6. Cardinality(S) = 0 => S = {}
  BY <1>3, FS_EmptySet
<1>7. ASSUME Cardinality(S) = 1
      PROVE  \E e \in cands : e.decision \in Committing /\ S = {e}
  <2>1. \E x : S = {x}
    BY <1>3, <1>7, FS_Singleton
  <2> QED
    BY <1>1, <2>1
<1> QED
  BY <1>4, <1>5, <1>6, <1>7

\* What a round leaves behind when it commits at most one proposal.
LEMMA RoundGains ==
    ASSUME NEW cands, IsFiniteSet(cands), cands # {}, NEW merged, base \in Outcomes,
           \A c \in cands : c.outcome \in Outcomes /\ CandidateVerifies(c),
           ~(Cardinality(Commits(cands)) > 1)
    PROVE  LET left == LeftWith(cands, merged)
           IN  /\ left.in >= base.in /\ left.out >= base.out
               /\ left.in + left.out >=
                     base.in + base.out + Cardinality(Commits(cands))
               /\ left.repeats = Attempts
               /\ left \in Outcomes
<1> DEFINE n == Cardinality(Commits(cands))
<1>1. n \in Nat /\ (n = 0 \/ n = 1)
  BY CommitCount
<1>2. base.in \in Nat /\ base.out \in Nat /\ base.repeats = Attempts
  BY DEF Outcomes, CandidateVerifies, Repeats
<1>3. CASE n = 0
  <2>1. LeftWith(cands, merged) = base
    BY <1>3, CommitCount DEF LeftWith
  <2> QED
    BY <1>2, <1>3, <2>1
<1>4. CASE n = 1
  <2>1. PICK e \in cands : e.decision \in Committing /\ Commits(cands) = {e}
    BY <1>4, CommitCount
  <2>2. LeftWith(cands, merged) = e.outcome
    BY <1>4, <2>1 DEF LeftWith
  <2>3. e.outcome \in Outcomes /\ CandidateVerifies(e)
    BY <2>1
  <2>4. /\ e.outcome.in \in Nat /\ e.outcome.out \in Nat
        /\ e.outcome.repeats = Attempts
    BY <2>3 DEF Outcomes, CandidateVerifies, Repeats
  <2>5. /\ e.outcome.in >= base.in /\ e.outcome.out >= base.out
        /\ e.outcome.in # base.in \/ e.outcome.out # base.out
    BY <2>1, <2>3 DEF CandidateVerifies, AcceptanceRule
  <2> QED
    BY <1>2, <1>4, <2>2, <2>3, <2>4, <2>5
<1> QED
  BY <1>1, <1>3, <1>4

LEMMA NoOutcomeType == NoOutcome \in Outcomes /\ NoOutcome.repeats = 0
BY DEF NoOutcome, Outcomes

LEMMA GainsInit == Init => Gains
<1> SUFFICES ASSUME Init PROVE Gains
  OBVIOUS
<1>1. /\ k = 0 /\ phase = "context" /\ commits = 0 /\ merges = FALSE
      /\ refused = FALSE /\ base = NoOutcome /\ first = NoOutcome
      /\ expected = NoOutcome
  BY DEF Init
<1>2. 0 \in 0..Rounds
  BY EvidenceBounds
<1>3. TypeOK
  BY <1>1, <1>2, NoOutcomeType DEF TypeOK
<1> QED
  BY <1>1, <1>3 DEF Gains

LEMMA AuditedType ==
    ASSUME NEW results, NEW p \in 0..(Attempts * HeldOut)
    PROVE  AuditedOutcome(results, p) \in Outcomes
<1> DEFINE T == {o \in HeldIn \X (1..Attempts) : results[o[1]][o[2]]}
<1>1. IsFiniteSet(1..Attempts)
  BY EvidenceBounds, FS_Interval
<1>2. IsFiniteSet(HeldIn \X (1..Attempts))
  BY <1>1, EvidenceBounds, FS_Product
<1>3. Cardinality(T) \in Nat
  BY <1>2, FS_Subset, FS_CardinalityType
<1>4. Cardinality(HeldIn) \in Nat
  BY EvidenceBounds, FS_CardinalityType
<1>5. /\ Attempts * Cardinality(HeldIn) \in Nat /\ Attempts * HeldOut \in Nat
      /\ p \in Nat /\ Attempts \in Nat
  BY <1>4, EvidenceBounds
<1> QED
  BY <1>3, <1>5 DEF AuditedOutcome, Outcomes

\* A context is accepted only with the baseline its predecessor left.
LEMMA ContextGains ==
    ASSUME Gains, phase = "context", k < Rounds,
           NEW o \in Outcomes, NEW clusters, NEW surfaces,
           LineageContinuity(o), AcceptContext(o, clusters, surfaces)
    PROVE  Gains'
<1> USE EvidenceBounds
<1>1. TypeOK'
  BY DEF Gains, TypeOK, AcceptContext
<1>2. CASE k = 0
  <2>1. commits' = 0 /\ first' = o /\ base' = o /\ k' = 0
    BY <1>2 DEF Gains, AcceptContext
  <2>2. AtLeastFirst(base, commits)'
    BY <2>1 DEF AtLeastFirst, Outcomes
  <2> QED
    BY <1>1, <2>1, <2>2 DEF Gains, AcceptContext
<1>3. CASE k > 0
  <2>1. /\ first' = first /\ base' = o /\ k' = k /\ expected' = expected
        /\ commits' = commits /\ merges' = merges
    BY <1>3 DEF AcceptContext, Gains, TypeOK
  <2>2. ~merges => AtLeastFirst(expected, commits) /\ expected.repeats = Attempts
    BY <1>3 DEF Gains
  <2>3. ~merges => o = expected
    BY <2>2, NoOutcomeType DEF LineageContinuity
  <2> QED
    BY <1>1, <2>1, <2>2, <2>3 DEF Gains, AcceptContext, AtLeastFirst
<1> QED
  BY <1>2, <1>3 DEF Gains, TypeOK

LEMMA ValidationGains ==
    ASSUME Gains, phase = "validation", k < Rounds,
           NEW cands, IsFiniteSet(cands), cands # {},
           \A c \in cands : c.outcome \in Outcomes /\ CandidateVerifies(c),
           NEW before, NEW after, NEW merged \in Outcomes,
           AcceptValidation(cands, before, after, merged)
    PROVE  Gains'
<1> DEFINE n == Cardinality(Commits(cands))
<1>0. n \in Nat /\ base \in Outcomes /\ k \in Nat /\ commits \in Nat
  BY CommitCount, EvidenceBounds DEF Gains, TypeOK
<1>1. /\ k' = k + 1 /\ phase' = "context" /\ first' = first
      /\ base' = NoOutcome /\ refused' = refused
      /\ commits' = commits + n /\ merges' = (merges \/ n > 1)
      /\ expected' = LeftWith(cands, merged)
  BY DEF AcceptValidation
<1>2. LeftWith(cands, merged) \in Outcomes
  <2>1. CASE n > 1
    BY <2>1, CommitCount, <1>0 DEF LeftWith
  <2>2. CASE ~(n > 1)
    BY <2>2, <1>0, RoundGains
  <2> QED
    BY <2>1, <2>2
<1>3. TypeOK'
  BY <1>0, <1>1, <1>2, NoOutcomeType, EvidenceBounds DEF Gains, TypeOK
<1>4. ~merges' => AtLeastFirst(expected, commits)' /\ expected'.repeats = Attempts
  <2> SUFFICES ASSUME ~merges'
               PROVE  AtLeastFirst(expected, commits)' /\ expected'.repeats = Attempts
    OBVIOUS
  <2>1. ~merges /\ ~(n > 1)
    BY <1>1
  <2>2. AtLeastFirst(base, commits)
    BY <2>1 DEF Gains
  <2>3. /\ expected'.in >= base.in /\ expected'.out >= base.out
        /\ expected'.in + expected'.out >= base.in + base.out + n
        /\ expected'.repeats = Attempts /\ expected' \in Outcomes
    BY <1>0, <1>1, <2>1, RoundGains
  <2>4. /\ base.in \in Nat /\ base.out \in Nat /\ first.in \in Nat /\ first.out \in Nat
        /\ expected'.in \in Nat /\ expected'.out \in Nat
    BY <2>3 DEF Gains, TypeOK, Outcomes
  <2> QED
    BY <1>0, <1>1, <2>2, <2>3, <2>4 DEF AtLeastFirst
<1> QED
  BY <1>0, <1>1, <1>3, <1>4 DEF Gains

LEMMA GainsStep == Gains /\ [Next]_vars => Gains'
<1> SUFFICES ASSUME Gains, [Next]_vars
             PROVE  Gains'
  OBVIOUS
<1>1. CASE SupplyContext
  <2>1. PICK edits \in {{}} \cup {{e} : e \in Edits} :
          \E results \in [HeldIn -> [{1} -> BOOLEAN]], outcome \in Stated,
             clusters \in Clusterings, surfaces \in SUBSET Surfaces :
             /\ ContextVerifies(outcome, results, clusters, surfaces,
                                Passing(results), edits)
             /\ AcceptContext(outcome, clusters, surfaces)
    BY <1>1 DEF SupplyContext
  <2>2. PICK results \in [HeldIn -> [{1} -> BOOLEAN]], outcome \in Stated,
             clusters \in Clusterings, surfaces \in SUBSET Surfaces :
          /\ ContextVerifies(outcome, results, clusters, surfaces,
                             Passing(results), edits)
          /\ AcceptContext(outcome, clusters, surfaces)
    BY <2>1
  <2> QED
    BY <1>1, <2>2, ContextGains, EvidenceBounds DEF SupplyContext, ContextVerifies
<1>2. CASE SupplyValidation
  <2> DEFINE All == [mech: Mechanisms, surface: Surfaces \cup {NoSurface},
                     decision: Decisions, outcome: Stated]
  <2>1. PICK slot \in [1..Width -> {x \in All : CandidateVerifies(x)}] :
          \E before, after \in Harnesses \cup {NoHarness},
             committed \in 0..Width, merged \in Stated \cup {NoOutcome} :
             AcceptValidation({slot[i] : i \in 1..Width}, before, after, merged)
    BY <1>2 DEF SupplyValidation
  <2> DEFINE cands == {slot[i] : i \in 1..Width}
  <2>2. PICK before \in Harnesses \cup {NoHarness}, after \in Harnesses \cup {NoHarness},
             committed \in 0..Width, merged \in Stated \cup {NoOutcome} :
          AcceptValidation(cands, before, after, merged)
    BY <2>1
  <2>3. IsFiniteSet(cands)
    <3>1. slot \in [1..Width -> cands]
      OBVIOUS
    <3>2. slot \in Surjection(1..Width, cands)
      BY <3>1 DEF Surjection
    <3>3. Width \in Nat
      BY EvidenceBounds
    <3> QED
      BY <3>2, <3>3, FS_NatSurjection DEF ExistsSurjection
  <2>4. cands # {}
    <3>1. 1 \in 1..Width
      BY EvidenceBounds
    <3>2. slot[1] \in cands
      BY <3>1
    <3> QED BY <3>2
  <2>5. \A c \in cands : c.outcome \in Outcomes /\ CandidateVerifies(c)
    BY <2>1, EvidenceBounds
  <2>6. merged \in Outcomes
    BY <2>2, EvidenceBounds, NoOutcomeType
  <2>7. phase = "validation" /\ k < Rounds
    BY <1>2 DEF SupplyValidation
  <2> HIDE DEF cands
  <2> QED
    BY <2>2, <2>3, <2>4, <2>5, <2>6, <2>7, ValidationGains
<1>3. CASE DeriveContext
  <2>1. PICK results \in [HeldIn -> [1..Attempts -> BOOLEAN]],
             p \in 0..(Attempts * HeldOut), clusters \in Clusterings :
          IF ContextVerifies(AuditedOutcome(results, p), results,
                             clusters, Surfaces, Passing(results), {})
          THEN AcceptContext(AuditedOutcome(results, p), clusters, Surfaces)
          ELSE /\ refused' = TRUE
               /\ UNCHANGED <<k, phase, base, context, attempts, first, expected,
                              harness, commits, merges>>
    BY <1>3 DEF DeriveContext
  <2>2. AuditedOutcome(results, p) \in Outcomes
    BY AuditedType
  <2>3. CASE ContextVerifies(AuditedOutcome(results, p), results,
                             clusters, Surfaces, Passing(results), {})
    <3>1. k < Rounds /\ phase = "context"
      BY <1>3, EvidenceBounds DEF DeriveContext
    <3> QED
      BY <2>1, <2>2, <2>3, <3>1, ContextGains DEF ContextVerifies
  <2>4. CASE ~ContextVerifies(AuditedOutcome(results, p), results,
                              clusters, Surfaces, Passing(results), {})
    BY <2>1, <2>4 DEF Gains, TypeOK, AtLeastFirst
  <2> QED
    BY <2>3, <2>4
<1>4. CASE UNCHANGED vars
  BY <1>4 DEF vars, Gains, TypeOK, AtLeastFirst
<1> QED
  BY <1>1, <1>2, <1>3, <1>4 DEF Next

\* What the verifier accepts never shows a regression, whatever it was given:
\* the lineage and the acceptance rule of _cross_artifact_proposal_validation_binding
\* together bound every later baseline by the first.
THEOREM EvidenceInvariant == Spec => []Gains
<1> QED
  BY GainsInit, GainsStep, PTL DEF Spec

\* Type correctness of the evidence, for every split and every protocol.
THEOREM EvidenceTypeOK == Spec => []TypeOK
<1>1. Gains => TypeOK
  BY DEF Gains
<1> QED
  BY <1>1, EvidenceInvariant, PTL

\* Verified evidence without multi-commit rounds shows no regression and a gain
\* for every commit.
THEOREM VerifiedEvidenceGains == Spec => []VerifiedGains
<1>1. Gains => VerifiedGains
  BY DEF Gains, VerifiedGains, AtLeastFirst
<1> QED
  BY <1>1, EvidenceInvariant, PTL
=============================================================================
