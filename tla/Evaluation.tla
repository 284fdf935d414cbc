----------------------------- MODULE Evaluation -----------------------------
(* evaluate and acceptance_rule of src/self_harness/evaluation.py: the       *)
(* harness in force and a candidate are each measured on every task, with    *)
(* repeated attempts, and the candidate is accepted if it is better on one   *)
(* split and worse on none.  "sum" runs every attempt and counts passing     *)
(* attempts; "majority" counts the tasks won by a strict majority and stops  *)
(* a task as soon as its verdict is locked in.                               *)
(*                                                                           *)
(* What the runner would answer at every attempt, were it asked, is fixed in *)
(* advance: the properties compare what evaluate concludes from the attempts *)
(* it ran with what all of them would have said.                             *)
EXTENDS Naturals, Sequences, FiniteSets, FiniteSetsExt

CONSTANTS
    Tasks,      \* the tasks, in corpus order
    HeldIn,     \* those of the held-in split; the others are held out
    Repeats     \* evaluation_repeats

TaskSet == {Tasks[i] : i \in DOMAIN Tasks}
HeldOut == TaskSet \ HeldIn

ASSUME RepeatsPositive == Repeats \in Nat \ {0}
ASSUME TasksDistinct ==
    /\ Tasks \in Seq(TaskSet)
    /\ \A i, j \in DOMAIN Tasks : Tasks[i] = Tasks[j] => i = j
ASSUME HeldInTasks == HeldIn \subseteq TaskSet /\ Tasks # <<>>

Arms == {"baseline", "candidate"}
Attempts == 0..Repeats - 1

VARIABLES
    aggregation,    \* "sum" or "majority"
    answer,         \* answer[arm][task][attempt]: does the attempt pass?
    arm,            \* the arm being measured, or "decided"
    task, attempt,  \* the loop variables: index in Tasks, attempt_index
    ran, passes,    \* per arm and task: attempts run, attempts passed
    accepted        \* the decision

vars == <<aggregation, answer, arm, task, attempt, ran, passes, accepted>>

-----------------------------------------------------------------------------
(* Strict majority of the full repeat budget.                                *)
Threshold == Repeats \div 2 + 1

\* The split's "passed", from the number of passes of every task.
Total(votes, split) == MapThenSumSet(LAMBDA t : votes[t], split)

SplitPassed(votes, split) ==
    IF aggregation = "sum" THEN Total(votes, split)
    ELSE Cardinality({t \in split : votes[t] >= Threshold})

AcceptanceRule(base, cand) ==
    LET improves(s) == SplitPassed(cand, s) > SplitPassed(base, s)
        degrades(s) == SplitPassed(cand, s) < SplitPassed(base, s)
    IN  /\ improves(HeldIn) \/ improves(HeldOut)
        /\ ~(degrades(HeldIn) \/ degrades(HeldOut))

\* The loop breaks off a task: neither the passes nor the fails can be caught.
LockedByRuns(p, r) == r >= Threshold   \* a slip: count runs, not votes

Locked(p, r) == p >= Threshold \/ r - p >= Threshold

-----------------------------------------------------------------------------
Init ==
    /\ aggregation \in {"sum", "majority"}
    /\ answer \in [Arms -> [TaskSet -> [Attempts -> BOOLEAN]]]
    /\ arm = "baseline"
    /\ task = 1
    /\ attempt = 0
    /\ ran = [a \in Arms |-> [t \in TaskSet |-> 0]]
    /\ passes = [a \in Arms |-> [t \in TaskSet |-> 0]]
    /\ accepted = FALSE

\* runner.run on one task, and its record.
RunAttempt ==
    LET t == Tasks[task]
    IN  /\ arm \in Arms
        /\ task \in DOMAIN Tasks /\ attempt < Repeats
        /\ ran' = [ran EXCEPT ![arm][t] = @ + 1]
        /\ passes' = [passes EXCEPT ![arm][t] =
                        IF answer[arm][t][attempt] THEN @ + 1 ELSE @]

\* "sum": attempts are the outer loop, tasks the inner one.
SumAttempt ==
    /\ aggregation = "sum"
    /\ RunAttempt
    /\ IF task < Len(Tasks) THEN task' = task + 1 /\ attempt' = attempt
                            ELSE task' = 1 /\ attempt' = attempt + 1
    /\ UNCHANGED <<aggregation, answer, arm, accepted>>

\* "majority": tasks are the outer loop, and a locked verdict ends the task.
MajorityNoReset ==   \* a slip: the next task goes on at the same attempt
    /\ aggregation = "majority"
    /\ RunAttempt
    /\ LET t == Tasks[task]
       IN  IF Locked(passes'[arm][t], ran'[arm][t]) \/ attempt + 1 = Repeats
           THEN task' = task + 1 /\ attempt' = attempt + 1
           ELSE task' = task /\ attempt' = attempt + 1
    /\ UNCHANGED <<aggregation, answer, arm, accepted>>

MajorityAttempt ==
    /\ aggregation = "majority"
    /\ RunAttempt
    /\ LET t == Tasks[task]
       IN  IF Locked(passes'[arm][t], ran'[arm][t]) \/ attempt + 1 = Repeats
           THEN task' = task + 1 /\ attempt' = 0
           ELSE task' = task /\ attempt' = attempt + 1
    /\ UNCHANGED <<aggregation, answer, arm, accepted>>

AllRun ==
    IF aggregation = "sum" THEN attempt = Repeats ELSE task > Len(Tasks)

MeasureCandidate ==
    /\ arm = "baseline" /\ AllRun
    /\ arm' = "candidate"
    /\ task' = 1 /\ attempt' = 0
    /\ UNCHANGED <<aggregation, answer, ran, passes, accepted>>

DecideSwapped ==   \* a slip: the arms change places
    /\ arm = "candidate" /\ AllRun
    /\ arm' = "decided"
    /\ accepted' = AcceptanceRule(passes["candidate"], passes["baseline"])
    /\ UNCHANGED <<aggregation, answer, task, attempt, ran, passes>>

Decide ==
    /\ arm = "candidate" /\ AllRun
    /\ arm' = "decided"
    /\ accepted' = AcceptanceRule(passes["baseline"], passes["candidate"])
    /\ UNCHANGED <<aggregation, answer, task, attempt, ran, passes>>

Next == SumAttempt \/ MajorityAttempt \/ MeasureCandidate \/ Decide

Spec == Init /\ [][Next]_vars /\ WF_vars(Next)

-----------------------------------------------------------------------------
TypeOK ==
    /\ aggregation \in {"sum", "majority"}
    /\ answer \in [Arms -> [TaskSet -> [Attempts -> BOOLEAN]]]
    /\ arm \in Arms \cup {"decided"}
    /\ task \in 1..Len(Tasks) + 1
    /\ attempt \in 0..Repeats
    /\ ran \in [Arms -> [TaskSet -> 0..Repeats]]
    /\ passes \in [Arms -> [TaskSet -> 0..Repeats]]
    /\ accepted \in BOOLEAN

\* The passing attempts among the first n.
Votes(a, t, n) == Cardinality({k \in Attempts : k < n /\ answer[a][t][k]})

\* The vote of every attempt, run or not.
FullVote(a) == [t \in TaskSet |-> Votes(a, t, Repeats)]

\* The arms whose measurement is over.
Measured(a) == arm = "decided" \/ (a = "baseline" /\ arm = "candidate")

(* Stopping early never changes a verdict: a task is won on the attempts     *)
(* that were run exactly if it would have been won on all of them, for an    *)
(* even number of repeats too, where a tie is a loss.                        *)
EarlyStopKeepsVerdict ==
    \A a \in Arms : Measured(a) =>
        \A t \in TaskSet :
            /\ aggregation = "majority" =>
                 (passes[a][t] >= Threshold <=> FullVote(a)[t] >= Threshold)
            /\ aggregation = "sum" => passes[a][t] = FullVote(a)[t]

(* So the decision is the one the full vote calls for, and early stopping    *)
(* biases it towards neither arm.                                            *)
DecisionMatchesFullVote ==
    arm = "decided" =>
        (accepted <=> AcceptanceRule(FullVote("baseline"), FullVote("candidate")))

(* A majority evaluation runs no attempt that cannot change the verdict, and *)
(* leaves no task without a verdict.                                         *)
NoUselessAttempt ==
    \A a \in Arms : Measured(a) /\ aggregation = "majority" =>
        \A t \in TaskSet :
            LET n == ran[a][t]
            IN  /\ n > 0 /\ ~Locked(Votes(a, t, n - 1), n - 1)
                /\ n = Repeats \/ Locked(Votes(a, t, n), n)

(* The measurement of both arms comes to an end.                             *)
Decides == <>(arm = "decided")
=============================================================================
