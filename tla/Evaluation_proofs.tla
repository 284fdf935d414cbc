------------------------- MODULE Evaluation_proofs -------------------------
(* That stopping a task early never changes its verdict, for any number of   *)
(* repeats, odd or even, any corpus and whatever the runner answers.  What   *)
(* carries it: the votes not yet cast are fewer than what is missing to the  *)
(* threshold once the opposite side has reached it.                          *)
EXTENDS Evaluation, FiniteSetTheorems, TLAPS

\* A task whose attempts are over: under "majority" the last one was needed.
Done(a, t) ==
    IF aggregation = "sum" THEN ran[a][t] = Repeats
    ELSE LET n == ran[a][t]
         IN  /\ n > 0 /\ ~Locked(Votes(a, t, n - 1), n - 1)
             /\ n = Repeats \/ Locked(Votes(a, t, n), n)

\* How far the two loops have come with the tasks of an arm.
Position(a) ==
    IF aggregation = "sum"
    THEN /\ task <= Len(Tasks)
         /\ attempt = Repeats => task = 1
         /\ \A i \in DOMAIN Tasks :
               ran[a][Tasks[i]] = IF i < task THEN attempt + 1 ELSE attempt
    ELSE /\ attempt < Repeats
         /\ \A i \in DOMAIN Tasks :
               /\ i < task => Done(a, Tasks[i])
               /\ i = task => /\ ran[a][Tasks[i]] = attempt
                              /\ ~Locked(passes[a][Tasks[i]], attempt)
               /\ i > task => ran[a][Tasks[i]] = 0

Counted ==
    \A a \in Arms, t \in TaskSet : passes[a][t] = Votes(a, t, ran[a][t])

EvalInv ==
    /\ TypeOK
    /\ Counted
    /\ arm \in Arms => Position(arm)
    /\ arm = "baseline" => \A t \in TaskSet : ran["candidate"][t] = 0
    /\ \A a \in Arms : Measured(a) => \A t \in TaskSet : Done(a, t)
    /\ DecisionMatchesFullVote

-----------------------------------------------------------------------------
(* A strict majority: two of them do not fit into the repeats.               *)
LEMMA Majority ==
    Threshold \in Nat /\ Threshold > 0 /\ 2 * Threshold > Repeats
  BY RepeatsPositive DEF Threshold

(* The votes of the first n attempts are at most n, ...                      *)
LEMMA VotesBound ==
    ASSUME NEW a, NEW t, NEW n \in 0..Repeats
    PROVE  /\ IsFiniteSet({k \in Attempts : k < n /\ answer[a][t][k]})
           /\ Votes(a, t, n) \in 0..n
  <1> DEFINE V == {k \in Attempts : k < n /\ answer[a][t][k]}
  <1>1. n \in Nat /\ V \subseteq 0..n - 1
    BY RepeatsPositive DEF Attempts
  <1>2. IsFiniteSet(0..n - 1) /\ Cardinality(0..n - 1) = n
    BY <1>1, FS_Interval
  <1>3. IsFiniteSet(V) /\ Cardinality(V) <= n
    BY <1>1, <1>2, FS_Subset
  <1>4. Cardinality(V) \in Nat
    BY <1>3, FS_CardinalityType
  <1> QED
    BY <1>1, <1>3, <1>4 DEF Votes

(* ... one more attempt adds its own vote, ...                               *)
LEMMA OneMoreVote ==
    ASSUME NEW a, NEW t, NEW n \in Attempts
    PROVE  Votes(a, t, n + 1) =
               IF answer[a][t][n] THEN Votes(a, t, n) + 1 ELSE Votes(a, t, n)
  <1> DEFINE V(m) == {k \in Attempts : k < m /\ answer[a][t][k]}
  <1>1. n \in Nat /\ n \in 0..Repeats
    BY RepeatsPositive DEF Attempts
  <1>2. IsFiniteSet(V(n))
    BY <1>1, VotesBound
  <1>3. CASE answer[a][t][n]
    <2>1. V(n + 1) = V(n) \cup {n} /\ n \notin V(n)
      BY <1>1, <1>3, RepeatsPositive DEF Attempts
    <2> HIDE DEF V
    <2>2. Cardinality(V(n) \cup {n}) = Cardinality(V(n)) + 1
      BY <1>2, <2>1, FS_AddElement
    <2> QED
      BY <1>3, <2>1, <2>2 DEF Votes, V
  <1>4. CASE ~answer[a][t][n]
    <2>1. V(n + 1) = V(n)
      BY <1>1, <1>4, RepeatsPositive DEF Attempts
    <2> QED
      BY <1>4, <2>1 DEF Votes
  <1> QED
    BY <1>3, <1>4

(* ... and the votes still to come are at most the attempts still to come.   *)
LEMMA VotesToCome ==
    ASSUME NEW a, NEW t, NEW n \in 0..Repeats
    PROVE  /\ Votes(a, t, n) <= Votes(a, t, Repeats)
           /\ Votes(a, t, Repeats) <= Votes(a, t, n) + (Repeats - n)
  <1> DEFINE V == {k \in Attempts : k < n /\ answer[a][t][k]}
             W == {k \in Attempts : k < Repeats /\ answer[a][t][k]}
             Rest == {k \in n..Repeats - 1 : answer[a][t][k]}
  <1>1. n \in Nat /\ Repeats \in Nat /\ n <= Repeats /\ Repeats \in 0..Repeats
    BY RepeatsPositive
  <1>2. W = V \cup Rest /\ V \subseteq W /\ V \cap Rest = {}
        /\ Rest \subseteq n..Repeats - 1
    BY <1>1 DEF Attempts
  <1>3. IsFiniteSet(V) /\ IsFiniteSet(W)
    BY <1>1, VotesBound
  <1>4. IsFiniteSet(n..Repeats - 1) /\ Cardinality(n..Repeats - 1) = Repeats - n
    <2>1. n \in Int /\ Repeats - 1 \in Int
      BY <1>1
    <2>2. /\ IsFiniteSet(n..Repeats - 1)
          /\ Cardinality(n..Repeats - 1) =
               IF n > Repeats - 1 THEN 0 ELSE (Repeats - 1) - n + 1
      BY <2>1, FS_Interval
    <2> QED
      BY <1>1, <2>2
  <1>5. IsFiniteSet(Rest) /\ Cardinality(Rest) <= Repeats - n
    <2>1. Rest \in SUBSET (n..Repeats - 1)
      BY <1>2
    <2> HIDE DEF Rest
    <2>2. IsFiniteSet(Rest) /\ Cardinality(Rest) <= Cardinality(n..Repeats - 1)
      BY <1>4, <2>1, FS_Subset
    <2> QED
      BY <1>4, <2>2
  <1>6. /\ Cardinality(V) \in Nat /\ Cardinality(W) \in Nat
        /\ Cardinality(Rest) \in Nat
    BY <1>3, <1>5, FS_CardinalityType
  <1>7. Cardinality(V) <= Cardinality(W)
    BY <1>2, <1>3, FS_Subset
  <1>8. Cardinality(W) = Cardinality(V) + Cardinality(Rest)
    <2>1. V \cap Rest = {} /\ Cardinality({}) = 0 /\ W = V \cup Rest
      BY <1>2, FS_EmptySet
    <2> HIDE DEF V, W, Rest
    <2>2. Cardinality(V \cup Rest) =
            Cardinality(V) + Cardinality(Rest) - Cardinality(V \cap Rest)
      BY <1>3, <1>5, FS_Union
    <2>3. Cardinality(V \cap Rest) = 0
      BY <2>1
    <2> QED
      BY <1>6, <2>1, <2>2, <2>3
  <1> QED
    BY <1>1, <1>5, <1>6, <1>7, <1>8 DEF Votes

(* So once a verdict is locked, all of the votes confirm it.                 *)
LEMMA LockedVerdict ==
    ASSUME NEW a, NEW t, NEW n \in 0..Repeats,
           n = Repeats \/ Locked(Votes(a, t, n), n)
    PROVE  Votes(a, t, n) >= Threshold <=> Votes(a, t, Repeats) >= Threshold
  <1>1. Repeats \in Nat /\ Repeats \in 0..Repeats /\ n \in Nat
    BY RepeatsPositive
  <1>2. Votes(a, t, n) \in 0..n
    BY VotesBound
  <1>3. Votes(a, t, Repeats) \in 0..Repeats
    BY <1>1, VotesBound
  <1>4. /\ Votes(a, t, n) <= Votes(a, t, Repeats)
        /\ Votes(a, t, Repeats) <= Votes(a, t, n) + (Repeats - n)
    BY VotesToCome
  <1> QED
    BY <1>1, <1>2, <1>3, <1>4, Majority DEF Locked

-----------------------------------------------------------------------------
(* No vote is cast before the first attempt.                                 *)
LEMMA NoVotes ==
    ASSUME NEW a, NEW t
    PROVE  Votes(a, t, 0) = 0 /\ ~Locked(0, 0)
  <1>0. 0 \in 0..Repeats
    BY RepeatsPositive
  <1>1. Votes(a, t, 0) \in 0..0
    BY <1>0, VotesBound
  <1> QED
    BY <1>1, Majority DEF Locked

(* At first nothing has been run.                                            *)
LEMMA InitEval == Init => EvalInv
  <1> SUFFICES ASSUME Init PROVE EvalInv
    OBVIOUS
  <1>1. Len(Tasks) \in Nat \ {0} /\ DOMAIN Tasks = 1..Len(Tasks)
        /\ \A i \in DOMAIN Tasks : Tasks[i] \in TaskSet
    BY TasksDistinct, HeldInTasks DEF TaskSet
  <1>2. TypeOK
    <2>1. task \in 1..Len(Tasks) + 1 /\ attempt \in 0..Repeats /\ 0 \in 0..Repeats
      BY <1>1, RepeatsPositive DEF Init
    <2>2. /\ ran \in [Arms -> [TaskSet -> 0..Repeats]]
          /\ passes \in [Arms -> [TaskSet -> 0..Repeats]]
      BY <2>1 DEF Init
    <2> QED
      BY <2>1, <2>2 DEF Init, TypeOK, Arms
  <1>3. \A a \in Arms, t \in TaskSet : ran[a][t] = 0 /\ passes[a][t] = 0
    BY DEF Init
  <1>4. Counted
    BY <1>3, NoVotes DEF Counted
  <1>5. arm = "baseline" /\ task = 1 /\ attempt = 0
    BY DEF Init
  <1>6. Position("baseline")
    BY <1>1, <1>3, <1>5, NoVotes, RepeatsPositive DEF Position, Arms
  <1>7. \A a \in Arms : ~Measured(a)
    BY <1>5 DEF Measured
  <1> QED
    BY <1>2, <1>3, <1>4, <1>5, <1>6, <1>7
    DEF EvalInv, Arms, DecisionMatchesFullVote

(* One attempt: its task has run one more, its votes are counted, and every  *)
(* other task stays as it was.                                               *)
LEMMA AttemptCounted ==
    ASSUME EvalInv, RunAttempt, answer' = answer
    PROVE  /\ Tasks[task] \in TaskSet
           /\ ran[arm][Tasks[task]] = attempt
           /\ ran'[arm][Tasks[task]] = attempt + 1
           /\ \A a \in Arms, u \in TaskSet :
                 a # arm \/ u # Tasks[task] =>
                    ran'[a][u] = ran[a][u] /\ passes'[a][u] = passes[a][u]
           /\ ran' \in [Arms -> [TaskSet -> 0..Repeats]]
           /\ passes' \in [Arms -> [TaskSet -> 0..Repeats]]
           /\ \A a \in Arms, u \in TaskSet :
                 passes'[a][u] = Votes(a, u, ran'[a][u])
           /\ Counted'
  <1> DEFINE t == Tasks[task]
  <1>1. /\ arm \in Arms /\ task \in DOMAIN Tasks /\ attempt \in Attempts
        /\ t \in TaskSet /\ attempt \in Nat /\ attempt < Repeats
        /\ Repeats \in Nat
    BY RepeatsPositive DEF EvalInv, TypeOK, RunAttempt, TaskSet, Attempts
  <1>2. ran[arm][t] = attempt
    <2>1. Position(arm)
      BY <1>1 DEF EvalInv
    <2>2. task \in Int /\ ~(task < task) /\ ~(task > task)
      BY DEF EvalInv, TypeOK
    <2> QED
      BY <1>1, <2>1, <2>2 DEF Position
  <1>3. /\ ran \in [Arms -> [TaskSet -> 0..Repeats]]
        /\ passes \in [Arms -> [TaskSet -> 0..Repeats]]
        /\ Counted
    BY DEF EvalInv, TypeOK
  <1>4. /\ ran' = [ran EXCEPT ![arm][t] = @ + 1]
        /\ passes' = [passes EXCEPT ![arm][t] =
                         IF answer[arm][t][attempt] THEN @ + 1 ELSE @]
    BY DEF RunAttempt
  <1> HIDE DEF t
  <1>5. ran'[arm][t] = attempt + 1
    BY <1>1, <1>2, <1>3, <1>4
  <1>6. passes'[arm][t] = Votes(arm, t, attempt + 1)
    <2>1. passes[arm][t] = Votes(arm, t, attempt)
      BY <1>1, <1>2, <1>3 DEF Counted
    <2>2. Votes(arm, t, attempt + 1) =
            IF answer[arm][t][attempt] THEN Votes(arm, t, attempt) + 1
            ELSE Votes(arm, t, attempt)
      BY <1>1, OneMoreVote
    <2> QED
      BY <1>1, <1>3, <1>4, <2>1, <2>2
  <1>7. \A a \in Arms, u \in TaskSet :
           a # arm \/ u # t =>
              ran'[a][u] = ran[a][u] /\ passes'[a][u] = passes[a][u]
    BY <1>1, <1>3, <1>4
  <1>8. attempt + 1 \in 0..Repeats /\ Votes(arm, t, attempt + 1) \in 0..Repeats
    <2>1. attempt + 1 \in 0..Repeats
      BY <1>1
    <2>2. Votes(arm, t, attempt + 1) \in 0..attempt + 1
      BY <2>1, VotesBound
    <2> QED
      BY <1>1, <2>1, <2>2
  <1>9. /\ ran' \in [Arms -> [TaskSet -> 0..Repeats]]
        /\ passes' \in [Arms -> [TaskSet -> 0..Repeats]]
    <2>1. /\ ran' = [ran EXCEPT ![arm] = [@ EXCEPT ![t] = attempt + 1]]
          /\ passes' = [passes EXCEPT ![arm] =
                           [@ EXCEPT ![t] = Votes(arm, t, attempt + 1)]]
      BY <1>1, <1>2, <1>3, <1>4, <1>5, <1>6
    <2> QED
      BY <1>1, <1>3, <1>8, <2>1
  <1>10. \A a \in Arms, u \in TaskSet :
            passes'[a][u] = Votes(a, u, ran'[a][u])
    BY <1>3, <1>5, <1>6, <1>7 DEF Counted
  <1>11. Counted'
    BY <1>10 DEF Counted, Votes
  <1> QED
    BY <1>1, <1>2, <1>5, <1>7, <1>9, <1>10, <1>11 DEF t

(* The attempts of "sum": round after round over the tasks.                  *)
LEMMA SumKeeps == EvalInv /\ SumAttempt => EvalInv'
  <1> SUFFICES ASSUME EvalInv, SumAttempt PROVE EvalInv'
    OBVIOUS
  <1>1. /\ RunAttempt /\ aggregation = "sum"
        /\ UNCHANGED <<aggregation, answer, arm, accepted>>
    BY DEF SumAttempt
  <1>2. /\ arm \in Arms /\ task \in DOMAIN Tasks /\ task \in 1..Len(Tasks)
        /\ attempt \in Nat /\ attempt < Repeats /\ Repeats \in Nat
        /\ Len(Tasks) \in Nat /\ DOMAIN Tasks = 1..Len(Tasks)
    BY <1>1, RepeatsPositive, TasksDistinct DEF EvalInv, TypeOK, RunAttempt
  <1>3. TypeOK /\ Position(arm)
    BY <1>2 DEF EvalInv
  <1>4. /\ Tasks[task] \in TaskSet
        /\ ran[arm][Tasks[task]] = attempt
        /\ ran'[arm][Tasks[task]] = attempt + 1
        /\ \A a \in Arms, u \in TaskSet :
              a # arm \/ u # Tasks[task] => ran'[a][u] = ran[a][u]
        /\ ran' \in [Arms -> [TaskSet -> 0..Repeats]]
        /\ passes' \in [Arms -> [TaskSet -> 0..Repeats]]
        /\ Counted'
    BY <1>1, AttemptCounted
  <1>5. TypeOK'
    BY <1>1, <1>2, <1>3, <1>4 DEF TypeOK, SumAttempt
  <1>6. Position(arm)'
    <2>1. \A i \in DOMAIN Tasks :
             ran'[arm][Tasks[i]] =
               IF i < task \/ i = task THEN attempt + 1 ELSE attempt
      <3> SUFFICES ASSUME NEW i \in DOMAIN Tasks
                   PROVE  ran'[arm][Tasks[i]] =
                            IF i < task \/ i = task THEN attempt + 1 ELSE attempt
        OBVIOUS
      <3>1. CASE i = task
        BY <1>4, <3>1
      <3>2. CASE i # task
        <4>1. Tasks[i] \in TaskSet /\ Tasks[i] # Tasks[task]
          BY <1>2, <3>2, TasksDistinct DEF TaskSet
        <4>2. ran'[arm][Tasks[i]] = ran[arm][Tasks[i]]
          BY <1>2, <1>4, <4>1
        <4> QED
          BY <1>1, <1>3, <3>2, <4>2 DEF Position
      <3> QED
        BY <3>1, <3>2
    <2>2. CASE task < Len(Tasks)
      <3>1. task' = task + 1 /\ attempt' = attempt
        BY <2>2 DEF SumAttempt
      <3>2. \A i \in DOMAIN Tasks : i < task' <=> i < task \/ i = task
        BY <1>2, <3>1
      <3> QED
        BY <1>1, <1>2, <2>1, <2>2, <3>1, <3>2 DEF Position
    <2>3. CASE task = Len(Tasks)
      <3>1. task' = 1 /\ attempt' = attempt + 1
        BY <1>2, <2>3 DEF SumAttempt
      <3>2. \A i \in DOMAIN Tasks : ~(i < task') /\ (i < task \/ i = task)
        BY <1>2, <2>3, <3>1
      <3> QED
        BY <1>1, <1>2, <2>1, <3>1, <3>2 DEF Position
    <2> QED
      BY <1>2, <2>2, <2>3
  <1>7. arm' = "baseline" => \A t \in TaskSet : ran'["candidate"][t] = 0
    BY <1>1, <1>4 DEF EvalInv, Arms
  <1>8. \A a \in Arms : Measured(a)' => \A t \in TaskSet : Done(a, t)'
    BY <1>1, <1>2, <1>4 DEF EvalInv, Arms, Measured, Done
  <1>9. DecisionMatchesFullVote'
    BY <1>1, <1>2 DEF Arms, DecisionMatchesFullVote
  <1> QED
    BY <1>1, <1>4, <1>5, <1>6, <1>7, <1>8, <1>9 DEF EvalInv

(* The attempts of "majority": task after task, each until it is locked.     *)
LEMMA MajorityKeeps == EvalInv /\ MajorityAttempt => EvalInv'
  <1> SUFFICES ASSUME EvalInv, MajorityAttempt PROVE EvalInv'
    OBVIOUS
  <1>1. /\ RunAttempt /\ aggregation = "majority"
        /\ UNCHANGED <<aggregation, answer, arm, accepted>>
    BY DEF MajorityAttempt
  <1>2. /\ arm \in Arms /\ task \in DOMAIN Tasks /\ task \in 1..Len(Tasks)
        /\ attempt \in Nat /\ attempt < Repeats /\ Repeats \in Nat
        /\ Len(Tasks) \in Nat /\ DOMAIN Tasks = 1..Len(Tasks)
    BY <1>1, RepeatsPositive, TasksDistinct DEF EvalInv, TypeOK, RunAttempt
  <1>3. TypeOK /\ Position(arm)
    BY <1>2 DEF EvalInv
  <1>4. /\ Tasks[task] \in TaskSet
        /\ ran[arm][Tasks[task]] = attempt
        /\ ran'[arm][Tasks[task]] = attempt + 1
        /\ \A a \in Arms, u \in TaskSet :
              a # arm \/ u # Tasks[task] =>
                 ran'[a][u] = ran[a][u] /\ passes'[a][u] = passes[a][u]
        /\ ran' \in [Arms -> [TaskSet -> 0..Repeats]]
        /\ passes' \in [Arms -> [TaskSet -> 0..Repeats]]
        /\ \A a \in Arms, u \in TaskSet :
              passes'[a][u] = Votes(a, u, ran'[a][u])
        /\ Counted'
    BY <1>1, AttemptCounted
  <1>0. PICK t \in TaskSet : t = Tasks[task]
    BY <1>4
  <1> DEFINE Last == \/ Locked(passes'[arm][t], ran'[arm][t])
                     \/ attempt + 1 = Repeats
  <1>5. /\ Last => task' = task + 1 /\ attempt' = 0
        /\ ~Last => task' = task /\ attempt' = attempt + 1
    BY <1>0 DEF MajorityAttempt
  <1>6. TypeOK'
    <2>1. task' \in 1..Len(Tasks) + 1 /\ attempt' \in 0..Repeats
      BY <1>2, <1>5
    <2> QED
      BY <1>1, <1>3, <1>4, <2>1 DEF TypeOK
  <1>7. /\ passes[arm][t] = Votes(arm, t, attempt)
        /\ passes'[arm][t] = Votes(arm, t, attempt + 1)
        /\ ~Locked(passes[arm][t], attempt)
    <2>1. ~Locked(passes[arm][t], attempt)
      BY <1>0, <1>1, <1>2, <1>3 DEF Position
    <2>2. passes[arm][t] = Votes(arm, t, attempt)
      BY <1>0, <1>2, <1>4 DEF EvalInv, Counted
    <2> QED
      BY <1>0, <1>2, <1>4, <2>1, <2>2
  <1>8. \A a \in Arms, u \in TaskSet :
           a # arm \/ u # t => (Done(a, u)' <=> Done(a, u))
    BY <1>0, <1>1, <1>4 DEF Done, Votes
  <1>9. Last => Done(arm, t)'
    <2> SUFFICES ASSUME Last PROVE Done(arm, t)'
      OBVIOUS
    <2>1. /\ attempt + 1 > 0 /\ (attempt + 1) - 1 = attempt
          /\ ~Locked(Votes(arm, t, attempt), attempt)
          /\ \/ attempt + 1 = Repeats
             \/ Locked(Votes(arm, t, attempt + 1), attempt + 1)
      BY <1>0, <1>2, <1>4, <1>7
    <2> DEFINE n == ran'[arm][t]
    <2>2. /\ n > 0 /\ ~Locked(Votes(arm, t, n - 1), n - 1)
          /\ n = Repeats \/ Locked(Votes(arm, t, n), n)
      BY <1>0, <1>4, <2>1
    <2> QED
      BY <1>1, <2>2 DEF Done, Votes
  <1>10. Position(arm)'
    <2>1. attempt' < Repeats
      BY <1>2, <1>5
    <2>2. ASSUME NEW i \in DOMAIN Tasks
          PROVE  /\ i < task' => Done(arm, Tasks[i])'
                 /\ i = task' => /\ ran'[arm][Tasks[i]] = attempt'
                                 /\ ~Locked(passes'[arm][Tasks[i]], attempt')
                 /\ i > task' => ran'[arm][Tasks[i]] = 0
      <3>1. i \in Nat /\ Tasks[i] \in TaskSet /\ (Tasks[i] = t => i = task)
        BY <1>0, <1>2, TasksDistinct DEF TaskSet
      <3>2. /\ i < task => Done(arm, Tasks[i])
            /\ i > task => ran[arm][Tasks[i]] = 0
        BY <1>1, <1>3 DEF Position
      <3>3. CASE i = task /\ Last
        BY <1>0, <1>2, <1>5, <1>9, <3>3
      <3>4. CASE i = task /\ ~Last
        BY <1>0, <1>2, <1>4, <1>5, <3>4
      <3>5. CASE i < task
        <4>1. Done(arm, Tasks[i]) /\ Tasks[i] # t
          BY <1>2, <3>1, <3>2, <3>5
        <4>2. ran'[arm][Tasks[i]] = ran[arm][Tasks[i]]
          BY <1>0, <1>2, <1>4, <3>1, <4>1
        <4>3. Done(arm, Tasks[i])'
          BY <1>1, <4>1, <4>2 DEF Done, Votes
        <4>4. i < task' /\ (i = task' => FALSE) /\ (i > task' => FALSE)
          BY <1>2, <1>5, <3>1, <3>5
        <4> QED
          BY <4>3, <4>4
      <3>6. CASE i > task
        <4>1. ran'[arm][Tasks[i]] = 0
          BY <1>0, <1>2, <1>4, <3>1, <3>2, <3>6
        <4>2. passes'[arm][Tasks[i]] = 0 /\ ~Locked(0, 0)
          BY <1>2, <1>4, <3>1, <4>1, NoVotes
        <4>3. i < task' => FALSE
          BY <1>2, <1>5, <3>1, <3>6
        <4>4. i = task' => attempt' = 0
          BY <1>2, <1>5, <3>1, <3>6
        <4> QED
          BY <4>1, <4>2, <4>3, <4>4
      <3> QED
        BY <1>2, <3>1, <3>3, <3>4, <3>5, <3>6
    <2> QED
      BY <1>1, <2>1, <2>2 DEF Position
  <1>11. arm' = "baseline" => \A u \in TaskSet : ran'["candidate"][u] = 0
    BY <1>1, <1>4 DEF EvalInv, Arms
  <1>12. \A a \in Arms : Measured(a)' => \A u \in TaskSet : Done(a, u)'
    <2>1. \A a \in Arms : Measured(a)' => Measured(a) /\ a # arm
      BY <1>1, <1>2 DEF Measured, Arms
    <2> QED
      BY <1>8, <2>1 DEF EvalInv
  <1>13. DecisionMatchesFullVote'
    BY <1>1, <1>2 DEF Arms, DecisionMatchesFullVote
  <1> QED
    BY <1>1, <1>4, <1>6, <1>10, <1>11, <1>12, <1>13 DEF EvalInv

(* An arm whose loops are over has every task measured.                      *)
LEMMA AllRunDone ==
    ASSUME EvalInv, arm \in Arms, AllRun
    PROVE  \A t \in TaskSet : Done(arm, t)
  <1>1. /\ Len(Tasks) \in Nat /\ DOMAIN Tasks = 1..Len(Tasks)
        /\ task \in 1..Len(Tasks) + 1 /\ Position(arm) /\ attempt \in Nat
    BY TasksDistinct DEF EvalInv, TypeOK
  <1> SUFFICES ASSUME NEW i \in DOMAIN Tasks PROVE Done(arm, Tasks[i])
    BY DEF TaskSet
  <1>2. CASE aggregation = "sum"
    <2>1. attempt = Repeats /\ task = 1 /\ ~(i < task)
      BY <1>1, <1>2 DEF AllRun, Position
    <2> QED
      BY <1>1, <1>2, <2>1 DEF Position, Done
  <1>3. CASE aggregation # "sum"
    <2>1. i < task
      BY <1>1, <1>3 DEF AllRun
    <2> QED
      BY <1>1, <1>3, <2>1 DEF Position
  <1> QED
    BY <1>2, <1>3

(* On to the candidate, of which nothing has been run.                       *)
LEMMA MeasureKeeps == EvalInv /\ MeasureCandidate => EvalInv'
  <1> SUFFICES ASSUME EvalInv, MeasureCandidate PROVE EvalInv'
    OBVIOUS
  <1>1. /\ arm = "baseline" /\ AllRun /\ arm' = "candidate"
        /\ task' = 1 /\ attempt' = 0
        /\ UNCHANGED <<aggregation, answer, ran, passes, accepted>>
    BY DEF MeasureCandidate
  <1>2. Len(Tasks) \in Nat \ {0} /\ DOMAIN Tasks = 1..Len(Tasks)
        /\ \A i \in DOMAIN Tasks : Tasks[i] \in TaskSet
    BY TasksDistinct, HeldInTasks DEF TaskSet
  <1>3. TypeOK'
    <2>1. 1 \in 1..Len(Tasks) + 1 /\ 0 \in 0..Repeats
      BY <1>2, RepeatsPositive
    <2> QED
      BY <1>1, <2>1 DEF EvalInv, TypeOK, Arms
  <1>4. Counted'
    BY <1>1 DEF EvalInv, Counted, Votes
  <1>5. \A t \in TaskSet : ran["candidate"][t] = 0 /\ passes["candidate"][t] = 0
    BY <1>1, NoVotes DEF EvalInv, Counted, Arms
  <1>6. Position("candidate")'
    BY <1>1, <1>2, <1>5, NoVotes, RepeatsPositive DEF Position
  <1>7. \A t \in TaskSet : Done("baseline", t)
    BY <1>1, AllRunDone DEF Arms
  <1>8. \A t \in TaskSet : Done("baseline", t)'
    BY <1>1, <1>7 DEF Done, Votes
  <1>9. \A a \in Arms : Measured(a)' => a = "baseline"
    BY <1>1 DEF Measured
  <1> QED
    BY <1>1, <1>3, <1>4, <1>6, <1>8, <1>9
    DEF EvalInv, DecisionMatchesFullVote

(* A measured task has the verdict of its full vote.                         *)
LEMMA DoneVerdict ==
    ASSUME EvalInv, NEW a \in Arms, NEW t \in TaskSet, Done(a, t)
    PROVE  /\ aggregation = "majority" =>
                (passes[a][t] >= Threshold <=> FullVote(a)[t] >= Threshold)
           /\ aggregation = "sum" => passes[a][t] = FullVote(a)[t]
  <1>1. passes[a][t] = Votes(a, t, ran[a][t]) /\ ran[a][t] \in 0..Repeats
    BY DEF EvalInv, TypeOK, Counted
  <1>2. FullVote(a)[t] = Votes(a, t, Repeats)
    BY DEF FullVote
  <1>3. CASE aggregation = "sum"
    BY <1>1, <1>2, <1>3 DEF Done
  <1>4. CASE aggregation # "sum"
    <2>1. ran[a][t] = Repeats \/ Locked(Votes(a, t, ran[a][t]), ran[a][t])
      BY <1>4 DEF Done
    <2> QED
      BY <1>1, <1>2, <1>4, <2>1, LockedVerdict
  <1> QED
    BY <1>3, <1>4

(* A split scores alike on the votes counted and on the full vote.           *)
LEMMA SameScore ==
    ASSUME EvalInv, NEW a \in Arms, \A t \in TaskSet : Done(a, t),
           NEW split, split \subseteq TaskSet
    PROVE  SplitPassed(passes[a], split) = SplitPassed(FullVote(a), split)
  <1>1. CASE aggregation = "sum"
    <2>1. \A t \in TaskSet : passes[a][t] = FullVote(a)[t]
      BY <1>1, DoneVerdict
    <2>2. passes[a] = FullVote(a)
      BY <2>1 DEF EvalInv, TypeOK, FullVote
    <2> QED
      BY <2>2
  <1>2. CASE aggregation # "sum"
    <2>1. aggregation = "majority"
      BY <1>2 DEF EvalInv, TypeOK
    <2>2. \A t \in split :
             passes[a][t] >= Threshold <=> FullVote(a)[t] >= Threshold
      BY <2>1, DoneVerdict
    <2>3. {t \in split : passes[a][t] >= Threshold} =
          {t \in split : FullVote(a)[t] >= Threshold}
      BY <2>2
    <2> QED
      BY <1>2, <2>3 DEF SplitPassed
  <1> QED
    BY <1>1, <1>2

(* The full vote, and what the rule makes of it, is fixed from the start.    *)
LEMMA FullVoteFixed ==
    ASSUME UNCHANGED <<aggregation, answer>>
    PROVE  AcceptanceRule(FullVote("baseline"), FullVote("candidate"))' =
           AcceptanceRule(FullVote("baseline"), FullVote("candidate"))
  <1>1. \A a : FullVote(a)' = FullVote(a)
    BY DEF FullVote, Votes
  <1> QED
    BY <1>1 DEF AcceptanceRule, SplitPassed

(* The decision, and with it the end.                                        *)
LEMMA DecideKeeps == EvalInv /\ Decide => EvalInv'
  <1> SUFFICES ASSUME EvalInv, Decide PROVE EvalInv'
    OBVIOUS
  <1>1. /\ arm = "candidate" /\ AllRun /\ arm' = "decided"
        /\ accepted' = AcceptanceRule(passes["baseline"], passes["candidate"])
        /\ UNCHANGED <<aggregation, answer, task, attempt, ran, passes>>
    BY DEF Decide
  <1>2. \A a \in Arms : \A t \in TaskSet : Done(a, t)
    <2>1. \A t \in TaskSet : Done("candidate", t)
      BY <1>1, AllRunDone DEF Arms
    <2>2. \A t \in TaskSet : Done("baseline", t)
      BY <1>1 DEF EvalInv, Measured, Arms
    <2> QED
      BY <2>1, <2>2 DEF Arms
  <1>3. HeldIn \subseteq TaskSet /\ HeldOut \subseteq TaskSet
    BY HeldInTasks DEF HeldOut
  <1>4. \A a \in Arms :
           /\ SplitPassed(passes[a], HeldIn) = SplitPassed(FullVote(a), HeldIn)
           /\ SplitPassed(passes[a], HeldOut) = SplitPassed(FullVote(a), HeldOut)
    BY <1>2, <1>3, SameScore
  <1>5. accepted' = AcceptanceRule(FullVote("baseline"), FullVote("candidate"))
    BY <1>1, <1>4 DEF AcceptanceRule, Arms
  <1>6. DecisionMatchesFullVote'
    BY <1>1, <1>5, FullVoteFixed DEF DecisionMatchesFullVote
  <1>7. TypeOK'
    BY <1>1 DEF EvalInv, TypeOK, AcceptanceRule
  <1>8. Counted'
    BY <1>1 DEF EvalInv, Counted, Votes
  <1>9. \A a \in Arms : \A t \in TaskSet : Done(a, t)'
    BY <1>1, <1>2 DEF Done, Votes
  <1> QED
    BY <1>1, <1>6, <1>7, <1>8, <1>9 DEF EvalInv, Arms

(* Every step keeps the invariant.                                           *)
LEMMA NextEval == EvalInv /\ [Next]_vars => EvalInv'
  <1> SUFFICES ASSUME EvalInv, [Next]_vars PROVE EvalInv'
    OBVIOUS
  <1>1. CASE UNCHANGED vars
    <2>1. UNCHANGED <<aggregation, answer, arm, task, attempt, ran, passes,
                      accepted>>
      BY <1>1 DEF vars
    <2>2. TypeOK' /\ Counted'
      BY <2>1 DEF EvalInv, TypeOK, Counted, Votes
    <2>3. \A a, t : Done(a, t)' <=> Done(a, t)
      BY <2>1 DEF Done, Votes
    <2>4. Position(arm)' <=> Position(arm)
      BY <2>1, <2>3 DEF Position
    <2>5. \A a : Measured(a)' <=> Measured(a)
      BY <2>1 DEF Measured
    <2>6. DecisionMatchesFullVote'
      BY <2>1, FullVoteFixed DEF EvalInv, DecisionMatchesFullVote
    <2> QED
      BY <2>1, <2>2, <2>3, <2>4, <2>5, <2>6 DEF EvalInv
  <1> QED
    BY <1>1, SumKeeps, MajorityKeeps, MeasureKeeps, DecideKeeps DEF Next

-----------------------------------------------------------------------------
(* The inductive invariant: the votes counted are those of the attempts run, *)
(* the tasks behind the loop variables are done, those ahead are untouched.  *)
THEOREM EvaluationInvariant == Spec => []EvalInv
  <1> QED
    BY InitEval, NextEval, PTL DEF Spec

(* The loop variables stay within the tasks and the repeats, and every score *)
(* within the budget, for any corpus and any number of repeats.              *)
THEOREM EvaluationTypeOK == Spec => []TypeOK
  <1>1. EvalInv => TypeOK
    BY DEF EvalInv
  <1> QED
    BY <1>1, EvaluationInvariant, PTL

(* Breaking off a task never changes whether it is won: with any number of   *)
(* repeats, and whatever the attempts that were not run would have said.     *)
THEOREM EarlyStopSound == Spec => []EarlyStopKeepsVerdict
  <1>1. EvalInv => EarlyStopKeepsVerdict
    BY DoneVerdict DEF EvalInv, EarlyStopKeepsVerdict
  <1> QED
    BY <1>1, EvaluationInvariant, PTL

(* The candidate is accepted exactly if it would have been with every        *)
(* attempt run: early stopping favours neither arm.                          *)
THEOREM DecisionSound == Spec => []DecisionMatchesFullVote
  <1>1. EvalInv => DecisionMatchesFullVote
    BY DEF EvalInv
  <1> QED
    BY <1>1, EvaluationInvariant, PTL

(* No attempt is run that could not have changed the verdict, and none is    *)
(* left out that could.                                                      *)
THEOREM EarlyStopTight == Spec => []NoUselessAttempt
  <1>1. EvalInv => NoUselessAttempt
    BY DEF EvalInv, NoUselessAttempt, Done
  <1> QED
    BY <1>1, EvaluationInvariant, PTL
=============================================================================
