-------------------------- MODULE AutoLoop_proofs --------------------------
(* Three invariants of the improvement loop, for any number of starts,       *)
(* stops, runs, bundles, submitting processes and crashes.                   *)
(*                                                                           *)
(* Control: there is never more than one controller thread, and a stop       *)
(* request is not lost.  Both rest on what start_autoloop does under the     *)
(* lock: it refuses while "active" is set, and "active" is set exactly as    *)
(* long as a thread is alive, so that it never clears the signal under a     *)
(* thread that should see it.                                                *)
(* Inbox: what the loop learned from is what it moved to processed/.  The    *)
(* one living thread drains a listing of distinct names that nobody else     *)
(* touches, and what it moved stays in its buffer until it is saved.         *)
(* Lineage: an edit that was persisted stays.  Runs of the loop are made     *)
(* inline, one after the other, so none reads the state before another's     *)
(* edit is written.                                                          *)
EXTENDS AutoLoop, FiniteSetTheorems, TLAPS

PCs == {"unborn", "check", "drain", "bundle", "save", "saving", "generate",
        "add", "adding", "make", "run", "closing", "dead"}

Counters ==
    [active : BOOLEAN, runs : Nat, edits : Nat,
     outcome : {"none", "failed", "promoted edit", "no change"},
     error : {"none", "bundle", "corpus"}]

ControlType ==
    /\ pc \in [Loops -> PCs]
    /\ auto \in Counters
    /\ stop \in BOOLEAN
    /\ stopping \in BOOLEAN
    /\ asked \subseteq {g \in Loops : pc[g] # "unborn"}

\* A loop that was asked to stop has been born, so no start brings it to life
\* and clears the signal it was sent.
ControlInv == ControlType /\ OneLoop /\ StopNotLost

-----------------------------------------------------------------------------
(* At first nobody is alive and nobody was asked.                            *)
LEMMA InitControl == Init => ControlInv
  <1> SUFFICES ASSUME Init PROVE ControlInv
    OBVIOUS
  <1>1. /\ pc = [g \in Loops |-> "unborn"] /\ asked = {}
        /\ stop = FALSE /\ stopping = FALSE /\ auto = Stopped
    BY DEF Init
  <1>2. Stopped \in Counters /\ Stopped.active = FALSE
    BY DEF Stopped, Counters
  <1>3. \A g \in Loops : pc[g] = "unborn" /\ ~Alive(g)
    BY <1>1 DEF Alive
  <1>4. ControlType
    BY <1>1, <1>2 DEF ControlType, PCs
  <1>5. OneLoop /\ StopNotLost
    BY <1>1, <1>2, <1>3 DEF OneLoop, StopNotLost
  <1> QED
    BY <1>4, <1>5 DEF ControlInv

\* A step within an iteration: the thread is alive before and after, and the
\* step touches neither "active" nor the signal.
Within(g) ==
    /\ Alive(g)
    /\ pc' = [pc EXCEPT ![g] = pc'[g]]
    /\ pc'[g] \in PCs \ {"unborn", "dead"}
    /\ auto' \in Counters /\ auto'.active = auto.active
    /\ UNCHANGED <<stop, stopping, asked>>

(* Such a step keeps the invariant: the same threads are alive.              *)
LEMMA WithinIteration ==
    ASSUME ControlInv, NEW g \in Loops, Within(g)
    PROVE  ControlInv'
  <1>1. \A h \in Loops : Alive(h)' <=> Alive(h)
    BY DEF ControlInv, ControlType, Alive, Within
  <1>2. ControlType'
    BY DEF ControlInv, ControlType, Alive, Within
  <1>3. OneLoop'
    BY <1>1 DEF ControlInv, OneLoop, Within
  <1>4. StopNotLost'
    BY <1>1 DEF ControlInv, ControlType, StopNotLost, Within
  <1> QED
    BY <1>2, <1>3, <1>4 DEF ControlInv

(* The steps that do not touch the control at all.                           *)
LEMMA ControlStutter ==
    ASSUME ControlInv, UNCHANGED <<pc, auto, stop, stopping, asked>>
    PROVE  ControlInv'
  BY DEF ControlInv, ControlType, OneLoop, StopNotLost, Alive

(* start_autoloop: nobody is alive, and the newborn was not asked to stop.    *)
LEMMA StartControl ==
    ASSUME ControlInv, NEW g \in Loops, StartLoop(g)
    PROVE  ControlInv'
  <1>1. \A h \in Loops : ~Alive(h)
    BY DEF ControlInv, ControlType, OneLoop, StartLoop
  <1>2. pc' = [pc EXCEPT ![g] = "check"] /\ pc[g] = "unborn" /\ auto'.active = TRUE
    BY DEF StartLoop, Stopped
  <1>3. \A h \in Loops : Alive(h)' <=> h = g
    BY <1>1, <1>2 DEF ControlInv, ControlType, Alive
  <1>4. ControlType'
    <2>1. auto' \in Counters
      BY DEF StartLoop, Stopped, Counters
    <2>2. stop' = FALSE /\ stopping' = stopping /\ asked' = asked
      BY DEF StartLoop, history
    <2>3. pc' \in [Loops -> PCs] /\ \A h \in asked : pc'[h] # "unborn"
      BY <1>2 DEF ControlInv, ControlType, PCs
    <2> QED
      BY <2>1, <2>2, <2>3 DEF ControlInv, ControlType
  <1>5. OneLoop'
    BY <1>2, <1>3 DEF OneLoop
  <1>6. StopNotLost'
    <2>1. g \notin asked /\ asked' = asked
      BY <1>2 DEF ControlInv, ControlType, StartLoop, history
    <2> QED
      BY <1>3, <2>1 DEF ControlInv, ControlType, StopNotLost
  <1> QED
    BY <1>4, <1>5, <1>6 DEF ControlInv

(* The end of the thread: nobody is left.                                    *)
LEMMA CloseControl ==
    ASSUME ControlInv, NEW g \in Loops, Close(g)
    PROVE  ControlInv'
  <1>1. Alive(g) /\ pc' = [pc EXCEPT ![g] = "dead"] /\ auto'.active = FALSE
    BY DEF ControlInv, ControlType, Close, Alive
  <1>2. \A h \in Loops : ~Alive(h)'
    BY <1>1 DEF ControlInv, ControlType, OneLoop, Alive
  <1>3. ControlType'
    <2>1. auto' \in Counters
      BY DEF ControlInv, ControlType, Close, Counters
    <2>2. pc' \in [Loops -> PCs] /\ \A h \in asked : pc'[h] # "unborn"
      BY <1>1 DEF ControlInv, ControlType, PCs
    <2> QED
      BY <2>1, <2>2 DEF ControlInv, ControlType, Close, history
  <1>4. OneLoop' /\ StopNotLost'
    BY <1>1, <1>2, <1>3 DEF ControlType, OneLoop, StopNotLost
  <1> QED
    BY <1>3, <1>4 DEF ControlInv

(* stop_autoloop under the lock: only threads that are alive are asked.      *)
LEMMA LookControl ==
    ASSUME ControlInv, LookAtActive
    PROVE  ControlInv'
  <1>1. \A h \in Loops : Alive(h)' <=> Alive(h)
    BY DEF LookAtActive, threads, Alive
  <1>2. ControlType'
    BY DEF ControlInv, ControlType, LookAtActive, threads, Alive
  <1>3. OneLoop'
    BY <1>1 DEF ControlInv, OneLoop, LookAtActive
  <1>4. StopNotLost'
    BY DEF StopNotLost, LookAtActive
  <1> QED
    BY <1>2, <1>3, <1>4 DEF ControlInv

(* ... and its signal, which stands from here on.                            *)
LEMMA SignalControl ==
    ASSUME ControlInv, SignalStop
    PROVE  ControlInv'
  BY DEF ControlInv, ControlType, OneLoop, StopNotLost, Alive, SignalStop,
         threads, history

(* A crash leaves no thread alive.                                           *)
LEMMA CrashControl ==
    ASSUME ControlInv, Crash
    PROVE  ControlInv'
  <1>1. pc' = [g \in Loops |-> IF Alive(g) THEN "dead" ELSE pc[g]]
    BY DEF Crash
  <1>2. \A h \in Loops : ~Alive(h)' /\ (pc'[h] = "unborn" => pc[h] = "unborn")
    BY <1>1 DEF ControlInv, ControlType, Alive
  <1>3. ControlType'
    <2>1. auto' \in Counters
      BY DEF Crash, Stopped, Counters
    <2>2. stop' = FALSE /\ stopping' = FALSE /\ asked' = asked
      BY DEF Crash
    <2>3. pc' \in [Loops -> PCs] /\ \A h \in asked : pc'[h] # "unborn"
      BY <1>1, <1>2 DEF ControlInv, ControlType, PCs
    <2> QED
      BY <2>1, <2>2, <2>3 DEF ControlInv, ControlType
  <1>4. OneLoop'
    BY <1>2 DEF OneLoop, Crash, Stopped
  <1>5. StopNotLost'
    BY <1>2, <1>3 DEF ControlType, StopNotLost
  <1> QED
    BY <1>3, <1>4, <1>5 DEF ControlInv

(* Every step of a thread but the last is within an iteration.               *)
LEMMA LoopStepControl ==
    ASSUME ControlInv, NEW g \in Loops, LoopStep(g)
    PROVE  ControlInv'
  <1> USE DEF ControlInv, ControlType, Within, PCs, Alive, control, history
  <1>1. CASE CheckStop(g)
    <2>1. Within(g)
      BY <1>1 DEF CheckStop
    <2> QED
      BY <2>1, WithinIteration
  <1>2. CASE ListInbox(g)
    <2>1. Within(g)
      BY <1>2 DEF ListInbox
    <2> QED
      BY <2>1, WithinIteration
  <1>3. CASE Ingest(g) \/ RejectBundle(g)
    BY <1>3, ControlStutter DEF Ingest, RejectBundle
  <1>4. CASE ChokeOnBundle(g)
    <2>1. auto' = [auto EXCEPT !.error = "bundle"]
      BY <1>4 DEF ChokeOnBundle
    <2>2. auto' \in Counters /\ auto'.active = auto.active
      BY <2>1 DEF Counters
    <2>3. Within(g)
      BY <1>4, <2>2 DEF ChokeOnBundle
    <2> QED
      BY <2>3, WithinIteration
  <1>5. CASE EndDrain(g)
    <2>1. Within(g)
      BY <1>5 DEF EndDrain
    <2> QED
      BY <2>1, WithinIteration
  <1>6. CASE BeginSave(g) \/ EndSave(g)
    <2>1. Within(g)
      BY <1>6 DEF BeginSave, EndSave
    <2> QED
      BY <2>1, WithinIteration
  <1>7. CASE Generate(g)
    <2>1. Within(g)
      BY <1>7 DEF Generate
    <2> QED
      BY <2>1, WithinIteration
  <1>8. CASE MakeJob(g)
    <2>1. Within(g)
      BY <1>8 DEF MakeJob
    <2> QED
      BY <2>1, WithinIteration
  <1>9. CASE NoCorpus(g)
    <2>1. auto' = [auto EXCEPT !.error = "corpus"]
      BY <1>9 DEF NoCorpus
    <2>2. auto' \in Counters /\ auto'.active = auto.active
      BY <2>1 DEF Counters
    <2>3. Within(g)
      BY <1>9, <2>2 DEF NoCorpus
    <2> QED
      BY <2>3, WithinIteration
  <1>10. CASE Count(g)
    <2> DEFINE job == jobs[local[g].job]
               edit == job.status = "completed" /\ job.result = "promoted"
               edits == IF edit THEN auto.edits + 1 ELSE auto.edits
               outcome == IF job.status = "failed" THEN "failed"
                          ELSE IF edit THEN "promoted edit" ELSE "no change"
    <2>1. auto' = [auto EXCEPT !.runs = auto.runs + 1, !.edits = edits,
                               !.outcome = outcome]
      BY <1>10 DEF Count
    <2>2. /\ auto.runs + 1 \in Nat /\ edits \in Nat
          /\ outcome \in {"failed", "promoted edit", "no change"}
      <3>1. auto.runs \in Nat /\ auto.edits \in Nat
        BY DEF Counters
      <3>2. auto.runs + 1 \in Nat /\ auto.edits + 1 \in Nat
        BY <3>1
      <3>3. edits \in Nat
        BY <3>1, <3>2
      <3>4. outcome \in {"failed", "promoted edit", "no change"}
        BY Zenon
      <3> QED
        BY <3>2, <3>3, <3>4
    <2>3. auto' \in Counters /\ auto'.active = auto.active
      <3> HIDE DEF edits, outcome
      <3> QED
        BY <2>1, <2>2 DEF Counters
    <2>4. Within(g)
      BY <1>10, <2>3 DEF Count
    <2> QED
      BY <2>4, WithinIteration
  <1>11. CASE Close(g)
    BY <1>11, CloseControl
  <1> QED
    BY <1>1, <1>2, <1>3, <1>4, <1>5, <1>6, <1>7, <1>8, <1>9, <1>10, <1>11
       DEF LoopStep

(* Every step of the system keeps the invariant; those of the producers and  *)
(* of the jobs do not touch the control.                                     *)
LEMMA NextControl == ControlInv /\ [Next]_vars => ControlInv'
  <1> SUFFICES ASSUME ControlInv, [Next]_vars PROVE ControlInv'
    OBVIOUS
  <1>1. CASE \E b \in Bundles : BeginSubmit(b) \/ EndSubmit(b)
    BY <1>1, ControlStutter DEF BeginSubmit, EndSubmit, threads, control, history
  <1>2. CASE \E g \in Loops : StartLoop(g) \/ LoopStep(g)
    BY <1>2, StartControl, LoopStepControl
  <1>3. CASE LookAtActive \/ SignalStop
    BY <1>3, LookControl, SignalControl
  <1>4. CASE \E j \in Jobs : StartRun(j) \/ JobStep(j)
    BY <1>4, ControlStutter
       DEF StartRun, JobStep, Load, BeginRegister, EndRegister, EngineReturns,
           EngineFails, RecordFailure, BeginPersist, EndPersist, Report,
           threads, control, history
  <1>5. CASE Crash
    BY <1>5, CrashControl
  <1>6. CASE UNCHANGED vars
    BY <1>6, ControlStutter DEF vars
  <1> QED
    BY <1>1, <1>2, <1>3, <1>4, <1>5, <1>6 DEF Next

-----------------------------------------------------------------------------
(* The invariant holds throughout every run of the system.                   *)
THEOREM Control == Spec => []ControlInv
  <1> QED
    BY InitControl, NextControl, PTL DEF Spec

(* At most one controller thread at any time, and "active" tells whether     *)
(* there is one (start_autoloop, stop_autoloop, _autoloop_run).              *)
THEOREM AtMostOneLoop == Spec => []OneLoop
  <1>1. ControlInv => OneLoop
    BY DEF ControlInv
  <1> QED
    BY <1>1, Control, PTL

(* A stop request answered with "autoloop stopping" is never lost.           *)
THEOREM StopsAreKept == Spec => []StopNotLost
  <1>1. ControlInv => StopNotLost
    BY DEF ControlInv
  <1> QED
    BY <1>1, Control, PTL

-----------------------------------------------------------------------------
(* The inbox and the learned tasks.  A drain collects in its buffer; up to   *)
(* the save the buffer, not the file, has what was processed.                *)
Places == {"none", "inbox", "processed", "rejected"}
Thread ==
    [todo : Seq(Bundles), buffer : SUBSET (Bundles \cup Generated),
     ingested : Nat, job : Jobs \cup {"none"}]

InboxType ==
    /\ bundle \in [Bundles -> [place : Places, holds : Kinds \cup {"torn", "watchdog"}]]
    /\ local \in [Loops -> Thread]
    /\ learned \subseteq Bundles \cup Generated

\* What a drain has still to do is in the inbox, and listed once.
Draining ==
    \A g \in Loops : pc[g] = "bundle" =>
        /\ \A i \in 1..Len(local[g].todo) : bundle[local[g].todo[i]].place = "inbox"
        /\ \A i, j \in 1..Len(local[g].todo) :
              i # j => local[g].todo[i] # local[g].todo[j]

Holding == {"bundle", "save", "saving", "add", "adding"}

Buffered ==
    \A g \in Loops : pc[g] \in Holding =>
        \A b \in Bundles :
            /\ b \in local[g].buffer => bundle[b].place = "processed"
            /\ "tasks" \notin harm /\ bundle[b].place = "processed" =>
                   b \in local[g].buffer

InboxInv ==
    InboxType /\ Draining /\ Buffered /\ LearnedOnlyIfProcessed /\ ProcessedAreLearned

(* sorted() lists every name once: a name's place in the listing is the      *)
(* number of names up to it.                                                 *)
LEMMA ListingIsSorted ==
    ASSUME NEW S, S \subseteq Bundles
    PROVE  /\ Listing(S) \in Seq(S)
           /\ \A i, j \in 1..Len(Listing(S)) : i # j => Listing(S)[i] # Listing(S)[j]
  <1> DEFINE n == Cardinality(S)
             UpTo(x) == {y \in S : y <= x}
             rank == [x \in S |-> Cardinality(UpTo(x))]
             Sorted(s) == \A i, j \in DOMAIN s : i < j => s[i] < s[j]
  <1>1. /\ S \subseteq Nat /\ IsFiniteSet(S) /\ n \in Nat
        /\ IsFiniteSet(1..n) /\ Cardinality(1..n) = n
        /\ \A x, y \in S : x < y \/ y < x \/ x = y
    <2>1. S \subseteq Nat /\ IsFiniteSet(S) /\ n \in Nat
      BY BundleNames, FS_Subset, FS_CardinalityType
    <2>2. IsFiniteSet(1..n) /\ Cardinality(1..n) = n
      BY <2>1, FS_Interval
    <2> QED
      BY <2>1, <2>2
  <1>2. ASSUME NEW x \in S
        PROVE  /\ IsFiniteSet(UpTo(x)) /\ Cardinality(UpTo(x)) \in 1..n
               /\ rank[x] = Cardinality(UpTo(x))
    <2>1. UpTo(x) \subseteq S /\ x \in UpTo(x)
      BY <1>1
    <2> HIDE DEF UpTo
    <2>2. IsFiniteSet(UpTo(x)) /\ Cardinality(UpTo(x)) <= n
      BY <1>1, <2>1, FS_Subset
    <2>3. Cardinality(UpTo(x)) \in Nat /\ Cardinality(UpTo(x)) # 0
      BY <2>1, <2>2, FS_CardinalityType, FS_EmptySet
    <2> QED
      BY <1>1, <2>2, <2>3
  <1>3. ASSUME NEW x \in S, NEW y \in S, x < y
        PROVE  rank[x] < rank[y]
    <2>1. x \in Nat /\ y \in Nat /\ \A z \in S : z \in Nat
      BY <1>1
    <2>2. y <= y /\ ~(y <= x) /\ \A z \in S : z <= x => z <= y
      BY <1>3, <2>1
    <2>3. UpTo(x) \subseteq UpTo(y) /\ y \in UpTo(y) /\ y \notin UpTo(x)
      BY <2>2
    <2> HIDE DEF UpTo
    <2>4. /\ Cardinality(UpTo(x)) <= Cardinality(UpTo(y))
          /\ Cardinality(UpTo(x)) = Cardinality(UpTo(y)) => UpTo(x) = UpTo(y)
      BY <1>2, <2>3, FS_Subset
    <2> QED
      BY <1>1, <1>2, <2>3, <2>4
  <1> HIDE DEF UpTo
  <1>4. \A x \in S : rank[x] \in 1..n
    BY <1>2
  <1>5. rank \in Surjection(S, 1..n)
    <2>1. rank \in [S -> 1..n]
      BY <1>4
    <2> HIDE DEF rank
    <2>2. \A x, y \in S : rank[x] = rank[y] => x = y
      BY <1>1, <1>3, <1>4
    <2>3. rank \in Injection(S, 1..n)
      BY <2>1, <2>2 DEF Injection, IsInjective
    <2> HIDE DEF n
    <2> QED
      BY <1>1, <2>3, FS_Injection DEF n
  <1> DEFINE s == [i \in 1..n |-> CHOOSE x \in S : rank[x] = i]
  <1> HIDE DEF rank
  <1>6. \A i \in 1..n : s[i] \in S /\ rank[s[i]] = i
    BY <1>5 DEF Surjection
  <1>7. s \in [1..n -> S]
    BY <1>6
  <1> HIDE DEF s
  <1>8. ASSUME NEW i \in 1..n, NEW j \in 1..n, i < j PROVE s[i] < s[j]
    <2>1. s[i] \in S /\ s[j] \in S /\ rank[s[i]] = i /\ rank[s[j]] = j /\ ~(j < i) /\ i # j
      BY <1>1, <1>6, <1>8
    <2>2. s[i] # s[j] /\ ~(s[j] < s[i])
      BY <1>3, <2>1
    <2> QED
      BY <1>1, <2>1, <2>2
  <1>9. s \in SetToSeqs(S) /\ Sorted(s)
    <2>1. \A i, j \in 1..n : i # j => s[i] # s[j]
      BY <1>6
    <2>2. Sorted(s)
      BY <1>7, <1>8
    <2> QED
      BY <1>7, <2>1, <2>2 DEF SetToSeqs
  <1>10. Listing(S) \in SetToSeqs(S)
    BY <1>9 DEF Listing
  <1> QED
    BY <1>1, <1>10 DEF SetToSeqs

LEMMA InitInbox == Init => InboxInv
  <1> SUFFICES ASSUME Init PROVE InboxInv
    OBVIOUS
  <1>1. InboxType
    BY DEF Init, InboxType, Idle, Thread, Places, Kinds
  <1> QED
    BY <1>1 DEF Init, InboxInv, Draining, Buffered, Holding, LearnedOnlyIfProcessed,
                ProcessedAreLearned

\* While one loop is at work no other is.
Alone(g) == \A h \in Loops : h # g => pc[h] \in {"unborn", "dead"}

LEMMA OneIsAlone ==
    ASSUME ControlInv, NEW g \in Loops, Alive(g)
    PROVE  Alone(g)
  BY DEF ControlInv, OneLoop, Alive, Alone

(* Producers and the watchdog only put new bundles in the inbox.             *)
LEMMA SubmitInbox ==
    ASSUME InboxInv,
           bundle' \in [Bundles -> [place : Places, holds : Kinds \cup {"torn", "watchdog"}]],
           \A b \in Bundles : \/ bundle'[b].place = bundle[b].place
                              \/ bundle[b].place = "none" /\ bundle'[b].place = "inbox",
           UNCHANGED <<pc, local, learned, harm>>
    PROVE  InboxInv'
  <1>1. \A b \in Bundles : /\ bundle[b].place = "inbox" => bundle'[b].place = "inbox"
                           /\ bundle'[b].place = "processed" <=> bundle[b].place = "processed"
    OBVIOUS
  <1>2. InboxType'
    BY DEF InboxInv, InboxType
  <1>3. Draining'
    BY <1>1 DEF InboxInv, InboxType, Thread, Draining
  <1>4. Buffered'
    BY <1>1 DEF InboxInv, Buffered
  <1>5. LearnedOnlyIfProcessed' /\ ProcessedAreLearned'
    BY <1>1 DEF InboxInv, LearnedOnlyIfProcessed, ProcessedAreLearned, Unsaved
  <1> QED
    BY <1>2, <1>3, <1>4, <1>5 DEF InboxInv

\* A loop that keeps its buffer, or has none before and after.
Keeps(h) ==
    \/ /\ pc'[h] = pc[h]
       /\ local'[h].todo = local[h].todo
       /\ local'[h].buffer = local[h].buffer
       /\ local'[h].ingested = local[h].ingested
    \/ ~Unsaved(h) /\ pc'[h] \notin Holding

(* Steps that neither touch a file nor a buffer.                             *)
LEMMA ElsewhereInbox ==
    ASSUME InboxInv, local' \in [Loops -> Thread],
           UNCHANGED <<bundle, learned, harm>>,
           \A h \in Loops : Keeps(h)
    PROVE  InboxInv'
  <1>1. InboxType'
    BY DEF InboxInv, InboxType
  <1>2. Draining'
    BY DEF InboxInv, Draining, Keeps, Holding
  <1>3. Buffered'
    BY DEF InboxInv, Buffered, Keeps, Holding
  <1>4. LearnedOnlyIfProcessed'
    BY DEF InboxInv, LearnedOnlyIfProcessed
  <1>5. \A h \in Loops : Unsaved(h) => Unsaved(h)'
    BY DEF Keeps, Unsaved, Holding
  <1>6. ProcessedAreLearned'
    BY <1>5 DEF InboxInv, ProcessedAreLearned
  <1> QED
    BY <1>1, <1>2, <1>3, <1>4, <1>6 DEF InboxInv

(* The steps of the drain.                                                   *)
LEMMA ListInboxInbox ==
    ASSUME InboxInv, ControlInv, NEW g \in Loops, ListInbox(g)
    PROVE  InboxInv'
  <1> DEFINE next == [local[g] EXCEPT !.todo = Listing(InInbox), !.buffer = learned,
                                      !.ingested = 0]
  <1>1. pc[g] = "drain" /\ local' = [local EXCEPT ![g] = next]
        /\ UNCHANGED <<bundle, learned, harm>>
    BY DEF ListInbox, files, history
  <1>2. Alone(g)
    BY <1>1, OneIsAlone DEF Alive
  <1>3. InInbox \subseteq Bundles
    BY DEF InInbox
  <1>4. Listing(InInbox) \in Seq(InInbox)
        /\ \A i, j \in 1..Len(Listing(InInbox)) :
              i # j => Listing(InInbox)[i] # Listing(InInbox)[j]
    BY <1>3, ListingIsSorted
  <1>5. Listing(InInbox) \in Seq(Bundles)
    BY <1>3, <1>4
  <1>6. next \in Thread /\ next.todo = Listing(InInbox) /\ next.buffer = learned
        /\ next.ingested = 0
    BY <1>5 DEF InboxInv, InboxType, Thread
  <1> HIDE DEF next
  <1>7. InboxType'
    BY <1>1, <1>6 DEF InboxInv, InboxType
  <1>8. local'[g] = next /\ \A h \in Loops : h # g => local'[h] = local[h]
    BY <1>1 DEF InboxInv, InboxType
  <1>9. /\ pc' \in [Loops -> PCs] /\ pc'[g] \in {"bundle", "generate"}
        /\ \A h \in Loops : h # g => pc'[h] \in {"unborn", "dead"}
    BY <1>2 DEF ListInbox, Alone, ControlInv, ControlType, PCs
  <1>10. Draining'
    <2>1. \A i \in 1..Len(Listing(InInbox)) : Listing(InInbox)[i] \in InInbox
      BY <1>4
    <2>2. \A i \in 1..Len(Listing(InInbox)) : bundle[Listing(InInbox)[i]].place = "inbox"
      BY <2>1 DEF InInbox
    <2> QED
      BY <1>1, <1>4, <1>6, <1>8, <1>9, <2>2 DEF Draining
  <1>11. "tasks" \notin harm => \A b \in Bundles : bundle[b].place = "processed" => b \in learned
    <2>1. \A h \in Loops : ~Unsaved(h)
      BY <1>1, <1>2 DEF Unsaved, Alone
    <2> QED
      BY <2>1 DEF InboxInv, ProcessedAreLearned
  <1>12. Buffered'
    BY <1>1, <1>6, <1>8, <1>9, <1>11 DEF InboxInv, LearnedOnlyIfProcessed, Buffered, Holding
  <1>13. LearnedOnlyIfProcessed' /\ ProcessedAreLearned'
    BY <1>1, <1>11 DEF InboxInv, LearnedOnlyIfProcessed, ProcessedAreLearned
  <1> QED
    BY <1>7, <1>10, <1>12, <1>13 DEF InboxInv

\* The drain takes the next bundle out of the inbox, to some place; a bundle
\* that is processed is also buffered.
Takes(g, b, place) ==
    /\ place \in {"processed", "rejected"}
    /\ bundle' = [bundle EXCEPT ![b] = Moved(place)]
    /\ local'[g].todo = Tail(local[g].todo)
    /\ local'[g].buffer \cap Bundles =
          IF place = "processed" THEN (local[g].buffer \cup {b}) \cap Bundles
          ELSE local[g].buffer \cap Bundles
    /\ local'[g].ingested =
          IF place = "processed" THEN local[g].ingested + 1 ELSE local[g].ingested

LEMMA TakeInbox ==
    ASSUME InboxInv, ControlInv, NEW g \in Loops, NEW place,
           pc[g] = "bundle", local[g].todo # <<>>,
           Takes(g, Head(local[g].todo), place),
           local' \in [Loops -> Thread],
           UNCHANGED <<pc, learned, harm>>
    PROVE  InboxInv'
  <1> DEFINE b == Head(local[g].todo)
             todo == local[g].todo
  <1>1. Alone(g)
    BY OneIsAlone DEF Alive
  <1>2. /\ todo \in Seq(Bundles) /\ Len(todo) \in Nat \ {0} /\ b = todo[1] /\ b \in Bundles
        /\ Tail(todo) \in Seq(Bundles) /\ Len(Tail(todo)) = Len(todo) - 1
        /\ \A i \in 1..Len(todo) - 1 : Tail(todo)[i] = todo[i + 1]
    BY DEF InboxInv, InboxType, Thread
  <1>3. bundle[b].place = "inbox"
    BY <1>2 DEF InboxInv, Draining
  <1>4. Moved(place) \in [place : Places, holds : Kinds \cup {"torn", "watchdog"}]
        /\ Moved(place).place = place
    BY DEF Moved, Takes, Places
  <1>5. /\ bundle' \in [Bundles -> [place : Places, holds : Kinds \cup {"torn", "watchdog"}]]
        /\ bundle'[b].place = place
        /\ \A c \in Bundles : c # b => bundle'[c] = bundle[c]
    BY <1>2, <1>4 DEF Takes, InboxInv, InboxType
  <1> HIDE DEF b
  <1>6. InboxType'
    BY <1>5 DEF InboxInv, InboxType
  <1>7. Draining'
    <2>1. ASSUME NEW i \in 1..Len(Tail(todo))
          PROVE  bundle'[Tail(todo)[i]].place = "inbox"
      <3>1. i + 1 \in 1..Len(todo) /\ Tail(todo)[i] = todo[i + 1] /\ todo[i + 1] # todo[1]
        BY <1>2 DEF InboxInv, Draining
      <3>2. todo[i + 1] \in Bundles /\ bundle[todo[i + 1]].place = "inbox"
        BY <1>2, <3>1 DEF InboxInv, Draining
      <3> QED
        BY <1>2, <1>5, <3>1, <3>2
    <2>2. ASSUME NEW i \in 1..Len(Tail(todo)), NEW j \in 1..Len(Tail(todo)), i # j
          PROVE  Tail(todo)[i] # Tail(todo)[j]
      <3>1. i + 1 \in 1..Len(todo) /\ j + 1 \in 1..Len(todo) /\ i + 1 # j + 1
        BY <1>2, <2>2
      <3> QED
        BY <1>2, <3>1, <2>2 DEF InboxInv, Draining
    <2>3. local'[g].todo = Tail(todo)
      BY DEF Takes
    <2> HIDE DEF todo
    <2> QED
      BY <1>1, <2>1, <2>2, <2>3 DEF Draining, Alone
  <1>8. Buffered'
    <2> SUFFICES ASSUME NEW c \in Bundles
                 PROVE  /\ c \in local'[g].buffer => bundle'[c].place = "processed"
                        /\ "tasks" \notin harm /\ bundle'[c].place = "processed" =>
                              c \in local'[g].buffer
      BY <1>1 DEF Buffered, Alone, Holding
    <2>1. /\ c \in local[g].buffer => bundle[c].place = "processed"
          /\ "tasks" \notin harm /\ bundle[c].place = "processed" => c \in local[g].buffer
      BY DEF InboxInv, Buffered, Holding
    <2>2. c \in local'[g].buffer <=>
             c \in local[g].buffer \/ (place = "processed" /\ c = b)
      BY DEF Takes, b
    <2>3. place \in {"processed", "rejected"}
      BY DEF Takes
    <2> QED
      BY <1>3, <1>5, <2>1, <2>2, <2>3
  <1>9. LearnedOnlyIfProcessed'
    BY <1>2, <1>3, <1>5 DEF InboxInv, LearnedOnlyIfProcessed
  <1>10. ProcessedAreLearned'
    <2>1. CASE place = "processed"
      <3>1. local[g].ingested \in Nat /\ local'[g].ingested = local[g].ingested + 1
        BY <2>1 DEF Takes, InboxInv, InboxType, Thread
      <3>2. Unsaved(g)'
        BY <3>1 DEF Unsaved
      <3> QED
        BY <3>2 DEF ProcessedAreLearned
    <2>2. CASE place = "rejected"
      <3>1. \A h \in Loops : Unsaved(h)' <=> Unsaved(h)
        BY <1>1, <2>2 DEF Unsaved, Takes, Alone
      <3>2. \A c \in Bundles : bundle'[c].place = "processed" => bundle[c].place = "processed"
        BY <1>5, <2>2
      <3> QED
        BY <3>1, <3>2 DEF InboxInv, ProcessedAreLearned
    <2> QED
      BY <2>1, <2>2 DEF Takes
  <1> QED
    BY <1>6, <1>7, <1>8, <1>9, <1>10 DEF InboxInv

LEMMA ThreadTakes ==
    ASSUME NEW t \in Thread, NEW todo \in Seq(Bundles),
           NEW buffer \in SUBSET (Bundles \cup Generated), NEW n \in Nat
    PROVE  [t EXCEPT !.todo = todo, !.buffer = buffer, !.ingested = n] \in Thread
  BY DEF Thread

LEMMA IngestInbox ==
    ASSUME InboxInv, ControlInv, NEW g \in Loops, Ingest(g) \/ RejectBundle(g)
    PROVE  InboxInv'
  <1>1. local[g] \in Thread /\ local[g].todo # <<>> /\ pc[g] = "bundle"
        /\ UNCHANGED <<pc, learned, harm>>
    BY DEF InboxInv, InboxType, Ingest, RejectBundle, history
  <1>2. Head(local[g].todo) \in Bundles /\ Tail(local[g].todo) \in Seq(Bundles)
    BY <1>1 DEF Thread
  <1>3. CASE Ingest(g)
    <2> DEFINE next == [local[g] EXCEPT !.todo = Tail(local[g].todo),
                                        !.buffer = local[g].buffer \cup {Head(local[g].todo)},
                                        !.ingested = local[g].ingested + 1]
    <2>1. local' = [local EXCEPT ![g] = next]
      BY <1>1, <1>3 DEF Ingest, InboxInv, InboxType, Thread
    <2>2. next \in Thread
      <3>1. local[g].buffer \cup {Head(local[g].todo)} \in SUBSET (Bundles \cup Generated)
            /\ local[g].ingested + 1 \in Nat
        BY <1>1, <1>2 DEF Thread
      <3> QED
        BY <1>1, <1>2, <3>1, ThreadTakes
    <2>3. local' \in [Loops -> Thread] /\ local'[g] = next
      BY <2>1, <2>2 DEF InboxInv, InboxType
    <2>4. Takes(g, Head(local[g].todo), "processed")
      BY <1>1, <1>3, <2>3 DEF Takes, Ingest, Thread
    <2> QED
      BY <1>1, <2>3, <2>4, TakeInbox
  <1>4. CASE RejectBundle(g)
    <2> DEFINE next == [local[g] EXCEPT !.todo = Tail(local[g].todo)]
    <2>1. local' = [local EXCEPT ![g] = next]
      BY <1>4 DEF RejectBundle, InboxInv, InboxType, Thread
    <2>2. next \in Thread
      BY <1>1, <1>2 DEF Thread
    <2>3. local' \in [Loops -> Thread] /\ local'[g] = next
      BY <2>1, <2>2 DEF InboxInv, InboxType
    <2>4. Takes(g, Head(local[g].todo), "rejected")
      BY <1>1, <1>4, <2>3 DEF Takes, RejectBundle, Thread
    <2> QED
      BY <1>1, <2>3, <2>4, TakeInbox
  <1> QED
    BY <1>3, <1>4

LEMMA EndDrainInbox ==
    ASSUME InboxInv, ControlInv, NEW g \in Loops, ChokeOnBundle(g) \/ EndDrain(g)
    PROVE  InboxInv'
  <1>1. pc[g] = "bundle" /\ pc' = [pc EXCEPT ![g] = pc'[g]]
        /\ UNCHANGED <<bundle, learned, local>>
    BY DEF ControlInv, ControlType, ChokeOnBundle, EndDrain, files
  <1>2. Alone(g)
    BY <1>1, OneIsAlone DEF Alive
  <1>3. local[g].ingested \in Nat /\ pc \in [Loops -> PCs]
    BY DEF InboxInv, InboxType, Thread, ControlInv, ControlType
  <1>4. CASE ChokeOnBundle(g)
    <2>1. \/ harm' = harm \cup {"tasks"}
          \/ local[g].ingested = 0 /\ harm' = harm
      <3>1. harm' = IF local[g].ingested > 0 THEN harm \cup {"tasks"} ELSE harm
        BY <1>4 DEF ChokeOnBundle
      <3>2. \A n \in Nat : ~(n > 0) => n = 0
        OBVIOUS
      <3> QED
        BY <1>3, <3>1, <3>2, Zenon
    <2>2. pc' = [pc EXCEPT ![g] = "closing"]
      BY <1>4 DEF ChokeOnBundle
    <2>3. InboxType' /\ LearnedOnlyIfProcessed'
      BY <1>1 DEF InboxInv, InboxType, LearnedOnlyIfProcessed
    <2>4. Draining' /\ Buffered'
      BY <1>1, <1>2, <1>3, <2>2 DEF Draining, Buffered, Holding, Alone
    <2>5. ProcessedAreLearned'
      <3>1. CASE harm' = harm \cup {"tasks"}
        BY <3>1 DEF ProcessedAreLearned
      <3>2. CASE local[g].ingested = 0 /\ harm' = harm
        <4>1. \A h \in Loops : ~Unsaved(h)
          BY <1>1, <1>2, <3>2 DEF Unsaved, Alone
        <4> QED
          BY <1>1, <3>2, <4>1 DEF InboxInv, ProcessedAreLearned
      <3> QED
        BY <2>1, <3>1, <3>2
    <2> QED
      BY <2>3, <2>4, <2>5 DEF InboxInv
  <1>5. CASE EndDrain(g)
    <2>1. /\ pc' = [pc EXCEPT ![g] = IF local[g].ingested > 0 THEN "save" ELSE "generate"]
          /\ harm' = harm
      BY <1>5 DEF EndDrain, history
    <2>2. InboxType' /\ LearnedOnlyIfProcessed'
      BY <1>1 DEF InboxInv, InboxType, LearnedOnlyIfProcessed
    <2>3. Draining' /\ Buffered'
      BY <1>1, <1>2, <1>3, <2>1 DEF InboxInv, Draining, Buffered, Holding, Alone
    <2>4. Unsaved(g) => Unsaved(g)'
      BY <1>1, <1>3, <2>1 DEF Unsaved
    <2>5. \A h \in Loops : h # g => ~Unsaved(h)
      BY <1>2 DEF Unsaved, Alone
    <2>6. ProcessedAreLearned'
      BY <1>1, <2>1, <2>4, <2>5 DEF InboxInv, ProcessedAreLearned
    <2> QED
      BY <2>2, <2>3, <2>6 DEF InboxInv
  <1> QED
    BY <1>4, <1>5

(* _save_learned_tasks.                                                      *)
LEMMA SaveInbox ==
    ASSUME InboxInv, ControlInv, NEW g \in Loops, BeginSave(g) \/ EndSave(g)
    PROVE  InboxInv'
  <1>1. /\ pc[g] \in {"save", "add", "saving", "adding"}
        /\ pc' = [pc EXCEPT ![g] = pc'[g]] /\ pc'[g] \in {"saving", "adding", "generate", "make"}
        /\ UNCHANGED <<bundle, local, harm>>
    BY DEF ControlInv, ControlType, BeginSave, EndSave, history
  <1>2. Alone(g)
    BY <1>1, OneIsAlone DEF Alive
  <1>3. pc \in [Loops -> PCs] /\ local[g] \in Thread
    BY DEF InboxInv, InboxType, ControlInv, ControlType
  <1>4. /\ \A b \in local[g].buffer \cap Bundles : bundle[b].place = "processed"
        /\ "tasks" \notin harm =>
              {b \in Bundles : bundle[b].place = "processed"} \subseteq local[g].buffer
    BY <1>1 DEF InboxInv, Buffered, Holding
  <1>5. Draining' /\ Buffered'
    BY <1>1, <1>2, <1>3 DEF InboxInv, Draining, Buffered, Holding, Alone
  <1>6. CASE BeginSave(g)
    <2>1. learned' = {} /\ pc'[g] \in {"saving", "adding"}
      BY <1>3, <1>6 DEF BeginSave
    <2>2. InboxType' /\ LearnedOnlyIfProcessed'
      BY <1>1, <2>1 DEF InboxInv, InboxType, LearnedOnlyIfProcessed
    <2>3. ProcessedAreLearned'
      BY <2>1 DEF ProcessedAreLearned, Unsaved
    <2> QED
      BY <1>5, <2>2, <2>3 DEF InboxInv
  <1>7. CASE EndSave(g)
    <2>1. learned' = local[g].buffer
      BY <1>7 DEF EndSave
    <2>2. InboxType'
      BY <1>1, <1>3, <2>1 DEF InboxInv, InboxType, Thread
    <2>3. LearnedOnlyIfProcessed' /\ ProcessedAreLearned'
      BY <1>1, <1>4, <2>1 DEF LearnedOnlyIfProcessed, ProcessedAreLearned
    <2> QED
      BY <1>5, <2>2, <2>3 DEF InboxInv
  <1> QED
    BY <1>6, <1>7

(* The generator's tasks are told apart from the bundles' by their names.    *)
LEMMA GenerateInbox ==
    ASSUME InboxInv, ControlInv, NEW g \in Loops, Generate(g)
    PROVE  InboxInv'
  <1>1. /\ pc[g] = "generate" /\ pc' = [pc EXCEPT ![g] = "add"]
        /\ UNCHANGED <<bundle, learned, harm>>
    BY DEF Generate, files, history
  <1>2. PICK t \in Generated : local' = [local EXCEPT ![g].buffer = learned \cup {t}]
    BY DEF Generate
  <1>3. pc \in [Loops -> PCs] /\ local \in [Loops -> Thread]
    BY DEF InboxInv, InboxType, ControlInv, ControlType
  <1> DEFINE next == [local[g] EXCEPT !.buffer = learned \cup {t}]
  <1>4. local' = [local EXCEPT ![g] = next] /\ next.buffer = learned \cup {t}
    BY <1>2, <1>3 DEF Thread
  <1>5. next \in Thread
    BY <1>3 DEF Thread, InboxInv, InboxType
  <1> HIDE DEF next
  <1>6. local' \in [Loops -> Thread] /\ local'[g].buffer = learned \cup {t}
    BY <1>3, <1>4, <1>5
  <1>7. Alone(g)
    BY <1>1, OneIsAlone DEF Alive
  <1>8. "tasks" \notin harm => {b \in Bundles : bundle[b].place = "processed"} \subseteq learned
    <2>1. \A h \in Loops : ~Unsaved(h)
      BY <1>1, <1>7 DEF Unsaved, Alone
    <2> QED
      BY <2>1 DEF InboxInv, ProcessedAreLearned
  <1>9. t \notin Bundles
    BY GeneratedNamespaced
  <1>10. Draining'
    BY <1>1, <1>3, <1>7 DEF Draining, Alone
  <1>11. Buffered'
    BY <1>1, <1>3, <1>6, <1>7, <1>8, <1>9
    DEF InboxInv, LearnedOnlyIfProcessed, Buffered, Holding, Alone
  <1>12. InboxType' /\ LearnedOnlyIfProcessed' /\ ProcessedAreLearned'
    BY <1>1, <1>6, <1>8 DEF InboxInv, InboxType, LearnedOnlyIfProcessed, ProcessedAreLearned
  <1> QED
    BY <1>10, <1>11, <1>12 DEF InboxInv

(* A crash leaves the files, and is remembered when it tore the tasks.       *)
LEMMA CrashInbox ==
    ASSUME InboxInv, ControlInv, Crash
    PROVE  InboxInv'
  <1>1. /\ UNCHANGED <<bundle, learned>>
        /\ local' = [g \in Loops |-> Idle] /\ harm' = harm \cup AtRisk
        /\ \A g \in Loops : pc'[g] \in {"unborn", "dead"}
    BY DEF Crash, files, Alive
  <1>2. Idle \in Thread
    BY DEF Idle, Thread
  <1>3. InboxType' /\ LearnedOnlyIfProcessed'
    BY <1>1, <1>2 DEF InboxInv, InboxType, LearnedOnlyIfProcessed
  <1>4. Draining' /\ Buffered'
    BY <1>1 DEF Draining, Buffered, Holding
  <1>5. (\E g \in Loops : Unsaved(g)) => "tasks" \in AtRisk
    BY DEF AtRisk
  <1>6. ProcessedAreLearned'
    BY <1>1, <1>5 DEF InboxInv, ProcessedAreLearned
  <1> QED
    BY <1>3, <1>4, <1>6 DEF InboxInv

\* The steps of a loop that change the loop's job, or no local variable.
LEMMA OtherStepsInbox ==
    ASSUME InboxInv, ControlInv, NEW g \in Loops,
           \/ CheckStop(g) \/ MakeJob(g) \/ NoCorpus(g) \/ Count(g) \/ Close(g)
           \/ StartLoop(g)
    PROVE  InboxInv'
  <1>1. /\ pc[g] \in {"unborn", "check", "generate", "make", "run", "closing"}
        /\ pc' = [pc EXCEPT ![g] = pc'[g]] /\ pc'[g] \in PCs \ Holding
        /\ UNCHANGED <<bundle, learned, harm>>
    BY DEF ControlInv, ControlType, CheckStop, MakeJob, NoCorpus, Count, Close,
           StartLoop, PCs, Holding, files, history
  <1>2. /\ local' \in [Loops -> Thread]
        /\ \A h \in Loops : /\ local'[h].todo = local[h].todo
                            /\ local'[h].buffer = local[h].buffer
                            /\ local'[h].ingested = local[h].ingested
    <2>1. local \in [Loops -> Thread]
      BY DEF InboxInv, InboxType
    <2>2. ASSUME NEW j \in Jobs \cup {"none"}, local' = [local EXCEPT ![g].job = j]
          PROVE  /\ local' \in [Loops -> Thread]
                 /\ \A h \in Loops : /\ local'[h].todo = local[h].todo
                                     /\ local'[h].buffer = local[h].buffer
                                     /\ local'[h].ingested = local[h].ingested
      <3> DEFINE next == [local[g] EXCEPT !.job = j]
      <3>1. local' = [local EXCEPT ![g] = next]
        BY <2>1, <2>2 DEF Thread
      <3>2. next \in Thread /\ next.todo = local[g].todo /\ next.buffer = local[g].buffer
            /\ next.ingested = local[g].ingested
        BY <2>1 DEF Thread
      <3> HIDE DEF next
      <3> QED
        BY <2>1, <3>1, <3>2
    <2>3. CASE MakeJob(g)
      <3>1. PICK j \in Jobs : local' = [local EXCEPT ![g].job = j]
        BY <2>3 DEF MakeJob, FreeJobs, Jobs
      <3> QED
        BY <2>2, <3>1
    <2>4. CASE Count(g)
      <3>1. local' = [local EXCEPT ![g].job = "none"]
        BY <2>4 DEF Count
      <3> QED
        BY <2>2, <3>1
    <2>5. CASE CheckStop(g) \/ NoCorpus(g) \/ Close(g) \/ StartLoop(g)
      BY <2>1, <2>5 DEF CheckStop, NoCorpus, Close, StartLoop
    <2> QED
      BY <2>3, <2>4, <2>5
  <1>3. ~Unsaved(g) /\ pc \in [Loops -> PCs]
    BY <1>1 DEF Unsaved, ControlInv, ControlType
  <1>4. \A h \in Loops : Keeps(h)
    BY <1>1, <1>2, <1>3 DEF Keeps
  <1> QED
    BY <1>1, <1>2, <1>4, ElsewhereInbox

(* The other steps touch the inbox at most by adding a bundle.               *)
LEMMA SubmissionsInbox ==
    ASSUME InboxInv, NEW b \in Bundles, BeginSubmit(b) \/ EndSubmit(b)
    PROVE  InboxInv'
  <1> DEFINE Files == [place : Places, holds : Kinds \cup {"torn", "watchdog"}]
  <1>1. bundle \in [Bundles -> Files] /\ UNCHANGED <<pc, local, learned, harm>>
    BY DEF InboxInv, InboxType, BeginSubmit, EndSubmit, threads, history
  <1>2. CASE BeginSubmit(b)
    <2> DEFINE next == [bundle[b] EXCEPT !.place = "inbox"]
    <2>1. bundle' = [bundle EXCEPT ![b] = next] /\ bundle[b].place = "none"
      BY <1>1, <1>2 DEF BeginSubmit
    <2>2. next \in Files /\ next.place = "inbox"
      BY <1>1 DEF Places
    <2> HIDE DEF next
    <2>3. /\ bundle' \in [Bundles -> Files]
          /\ \A c \in Bundles : \/ bundle'[c].place = bundle[c].place
                                \/ bundle[c].place = "none" /\ bundle'[c].place = "inbox"
      <3> HIDE DEF Files
      <3> QED
        BY <1>1, <2>1, <2>2
    <2> QED
      BY <1>1, <2>3, SubmitInbox
  <1>3. CASE EndSubmit(b)
    <2>1. PICK k \in Kinds : bundle' = [bundle EXCEPT ![b].holds = k]
      BY <1>3, BundleNames DEF EndSubmit
    <2> DEFINE next == [bundle[b] EXCEPT !.holds = k]
    <2>2. bundle' = [bundle EXCEPT ![b] = next]
      BY <1>1, <2>1
    <2>3. next \in Files /\ next.place = bundle[b].place
      BY <1>1
    <2> HIDE DEF next
    <2>4. /\ bundle' \in [Bundles -> Files]
          /\ \A c \in Bundles : bundle'[c].place = bundle[c].place
      <3> HIDE DEF Files
      <3> QED
        BY <1>1, <2>2, <2>3
    <2> QED
      BY <1>1, <2>4, SubmitInbox
  <1> QED
    BY <1>2, <1>3

LEMMA JobsInbox ==
    ASSUME InboxInv, NEW j \in Jobs, StartRun(j) \/ JobStep(j)
    PROVE  InboxInv'
  <1>1. CASE RecordFailure(j)
    <2> DEFINE Files == [place : Places, holds : Kinds \cup {"torn", "watchdog"}]
               new == [place |-> "inbox", holds |-> "watchdog"]
    <2>1. bundle \in [Bundles -> Files] /\ UNCHANGED <<pc, local, learned, harm>>
      BY <1>1 DEF InboxInv, InboxType, RecordFailure, threads, history
    <2>2. new \in Files /\ new.place = "inbox"
      BY DEF Places
    <2>3. \/ \E b \in Bundles : bundle[b].place = "none" /\ bundle' = [bundle EXCEPT ![b] = new]
          \/ bundle' = bundle
      BY <1>1 DEF RecordFailure
    <2>4. /\ bundle' \in [Bundles -> Files]
          /\ \A c \in Bundles : \/ bundle'[c].place = bundle[c].place
                                \/ bundle[c].place = "none" /\ bundle'[c].place = "inbox"
      <3> HIDE DEF Files, new
      <3> QED
        BY <2>1, <2>2, <2>3
    <2> QED
      BY <2>1, <2>4, SubmitInbox
  <1>2. CASE ~RecordFailure(j)
    <2>1. UNCHANGED <<pc, local, bundle, learned, harm>>
      BY <1>2 DEF StartRun, JobStep, Load, BeginRegister, EndRegister, EngineReturns,
           EngineFails, BeginPersist, EndPersist, Report, files, threads, history
    <2> QED
      BY <2>1, ElsewhereInbox DEF Keeps, InboxInv, InboxType
  <1> QED
    BY <1>1, <1>2

LEMMA NextInbox == InboxInv /\ ControlInv /\ [Next]_vars => InboxInv'
  <1> SUFFICES ASSUME InboxInv, ControlInv, [Next]_vars PROVE InboxInv'
    OBVIOUS
  <1>1. CASE \E b \in Bundles : BeginSubmit(b) \/ EndSubmit(b)
    BY <1>1, SubmissionsInbox
  <1>2. CASE \E g \in Loops : StartLoop(g) \/ LoopStep(g)
    BY <1>2, OtherStepsInbox, ListInboxInbox, IngestInbox, EndDrainInbox, SaveInbox,
       GenerateInbox
    DEF LoopStep
  <1>3. CASE LookAtActive \/ SignalStop \/ UNCHANGED vars
    <2>1. UNCHANGED <<pc, local, bundle, learned, harm>>
      BY <1>3 DEF LookAtActive, SignalStop, vars, files, threads, history
    <2> QED
      BY <2>1, ElsewhereInbox DEF Keeps, InboxInv, InboxType
  <1>4. CASE \E j \in Jobs : StartRun(j) \/ JobStep(j)
    BY <1>4, JobsInbox
  <1>5. CASE Crash
    BY <1>5, CrashInbox
  <1> QED
    BY <1>1, <1>2, <1>3, <1>4, <1>5 DEF Next

(* The invariant of the inbox and of the learned tasks, for any bundles,     *)
(* loops and crashes.                                                        *)
THEOREM InboxInvariant == Spec => []InboxInv
  <1> QED
    BY InitInbox, NextInbox, Control, PTL DEF Spec

(* No bundle is learned before it is out of the inbox, or after it was       *)
(* rejected.                                                                 *)
THEOREM OnlyProcessedAreLearned == Spec => []LearnedOnlyIfProcessed
  <1>1. InboxInv => LearnedOnlyIfProcessed
    BY DEF InboxInv
  <1> QED
    BY <1>1, InboxInvariant, PTL

(* A processed bundle stays a learned task unless a crash or an unexpected   *)
(* exception came between its renaming and the save.                         *)
THEOREM NoTaskIsLost == Spec => []ProcessedAreLearned
  <1>1. InboxInv => ProcessedAreLearned
    BY DEF InboxInv
  <1> QED
    BY <1>1, InboxInvariant, PTL

-----------------------------------------------------------------------------
(* The harness state.  The loop runs its jobs inline, one after the other,   *)
(* and each takes up what the one before persisted; that the runs users      *)
(* start do not evolve is the condition, for nothing keeps such a run and    *)
(* the loop's from overwriting each other.                                   *)
OwnRunsOnly == UserJobs \cap Evolving = {}

Statuses == {"none", "running", "queued", "completed", "failed", "lost"}
Job ==
    [step : Steps, status : Statuses, layers : SUBSET Jobs,
     result : {"none", "promoted", "unchanged"}, loop : Nat]

LineageType ==
    /\ jobs \in [Jobs -> Job]
    /\ state \in [loads : BOOLEAN, edits : SUBSET Jobs, registered : BOOLEAN]
    /\ promoted \subseteq Jobs

Busy(j) == jobs[j].step \notin {"idle", "returned", "abandoned"}
Inline == \A j \in LoopJobs : Busy(j) => \E g \in Loops : pc[g] = "run" /\ local[g].job = j

UsersDoNotEvolve ==
    \A j \in UserJobs : jobs[j].step \in {"idle", "engine", "alarm", "report", "returned"}

OwnEdit ==
    \A j \in Evolving : jobs[j].step \in {"persist", "persisting"} => j \in jobs[j].layers

LineageInv == LineageType /\ Inline /\ UsersDoNotEvolve /\ OwnEdit /\ LineageKept

LEMMA InitLineage == ASSUME Init PROVE LineageInv
  <1>1. Unused \in Job /\ Unused.step = "idle"
    BY DEF Unused, Job, Steps, Statuses
  <1>2. LineageType
    <2>1. state = NoState \/ state = TornState
      BY DEF Init, InitialState
    <2>2. state \in [loads : BOOLEAN, edits : SUBSET Jobs, registered : BOOLEAN]
      <3>1. NoState \in [loads : BOOLEAN, edits : SUBSET Jobs, registered : BOOLEAN]
        BY DEF NoState
      <3>2. TornState \in [loads : BOOLEAN, edits : SUBSET Jobs, registered : BOOLEAN]
        BY DEF TornState
      <3> QED
        BY <2>1, <3>1, <3>2
    <2> QED
      BY <1>1, <2>2 DEF Init, LineageType
  <1>3. \A j \in Jobs : jobs[j].step = "idle"
    BY <1>1 DEF Init
  <1>4. Inline /\ UsersDoNotEvolve /\ OwnEdit
    BY <1>3, JobKinds DEF Inline, UsersDoNotEvolve, OwnEdit, Busy, Jobs
  <1>5. LineageKept
    BY DEF Init, LineageKept
  <1> QED
    BY <1>2, <1>4, <1>5 DEF LineageInv

(* At most one evolving job is under way.                                    *)
LEMMA OneEvolves ==
    ASSUME OwnRunsOnly, LineageInv, ControlInv,
           NEW i \in Evolving, NEW j \in Evolving, Busy(i), Busy(j)
    PROVE  i = j
  <1>1. i \in LoopJobs /\ j \in LoopJobs
    BY JobKinds DEF OwnRunsOnly, Jobs
  <1>2. PICK g \in Loops : pc[g] = "run" /\ local[g].job = i
    BY <1>1 DEF LineageInv, Inline
  <1>3. PICK h \in Loops : pc[h] = "run" /\ local[h].job = j
    BY <1>1 DEF LineageInv, Inline
  <1>4. g = h
    BY <1>2, <1>3 DEF ControlInv, OneLoop, Alive
  <1> QED
    BY <1>2, <1>3, <1>4

\* Only evolving jobs write the harness state.
LEMMA WritersEvolve ==
    ASSUME LineageInv, NEW j \in Jobs,
           Writing(j) \/ jobs[j].step \in {"load", "register", "persist"}
    PROVE  j \in LoopJobs /\ j \in Evolving /\ Busy(j)
  BY JobKinds DEF LineageInv, UsersDoNotEvolve, Writing, Busy, Jobs

(* A step of one job j: it comes to step with layers and leaves the state    *)
(* with some edits.                                                          *)
LEMMA JobMoves ==
    ASSUME OwnRunsOnly, LineageInv, ControlInv, NEW j \in Jobs, Busy(j), NEW r \in Job,
           jobs' = [jobs EXCEPT ![j] = r],
           state' \in [loads : BOOLEAN, edits : SUBSET Jobs, registered : BOOLEAN],
           UNCHANGED <<pc, local>>,
           harm' = harm,
           r.step \notin {"idle", "abandoned"},
           j \in UserJobs => r.step \in {"alarm", "report", "returned"},
           r.step \in {"persist", "persisting"} => j \in r.layers,
           \/ promoted' = promoted
           \/ j \in Evolving /\ r.step = "report" /\ promoted' = promoted \cup {j},
           "state" \notin harm =>
              /\ ~Writing(j)' /\ (\A i \in Jobs : i # j => ~Writing(i)) =>
                     promoted' \subseteq state'.edits
              /\ r.step \in {"register", "registering", "engine", "persist", "persisting"}
                     /\ j \in Evolving => promoted' \subseteq r.layers
    PROVE  LineageInv'
  <1>1. jobs' \in [Jobs -> Job] /\ jobs'[j] = r
        /\ \A i \in Jobs : i # j => jobs'[i] = jobs[i]
    BY DEF LineageInv, LineageType
  <1>2. LineageType'
    BY <1>1 DEF LineageInv, LineageType
  <1>3. \A i \in Jobs : Busy(i)' => Busy(i)
    BY <1>1 DEF Busy
  <1>4. Inline'
    BY <1>3 DEF LineageInv, Inline, Jobs
  <1>5. UsersDoNotEvolve'
    BY <1>1 DEF LineageInv, UsersDoNotEvolve, Jobs
  <1>6. OwnEdit'
    BY <1>1, JobKinds DEF LineageInv, OwnEdit
  <1>7. LineageKept'
    <2> SUFFICES ASSUME "state" \notin harm
                 PROVE  /\ (\A i \in Jobs : ~Writing(i)') => promoted' \subseteq state'.edits
                        /\ \A i \in Evolving :
                              jobs'[i].step \in {"register", "registering", "engine",
                                                 "persist", "persisting"} =>
                                  promoted' \subseteq jobs'[i].layers
      BY DEF LineageKept
    <2>1. (\A i \in Jobs : ~Writing(i)') => promoted' \subseteq state'.edits
      BY <1>1 DEF Writing
    <2>2. ASSUME NEW i \in Evolving,
                 jobs'[i].step \in {"register", "registering", "engine",
                                    "persist", "persisting"}
          PROVE  promoted' \subseteq jobs'[i].layers
      <3>1. CASE i = j
        BY <1>1, <2>2, <3>1
      <3>2. CASE i # j
        <4>1. i \in Jobs /\ jobs'[i] = jobs[i] /\ Busy(i)
          BY <1>1, <2>2, <3>2, JobKinds DEF Busy
        <4>2. promoted' = promoted
          BY <3>2, <4>1, OneEvolves
        <4> QED
          BY <2>2, <4>1, <4>2 DEF LineageInv, LineageKept
      <3> QED
        BY <3>1, <3>2
    <2> QED
      BY <2>1, <2>2
  <1> QED
    BY <1>2, <1>4, <1>5, <1>6, <1>7 DEF LineageInv

\* What _run_job does to the record of its job.
LEMMA JobRecords ==
    ASSUME NEW r \in Job, NEW step \in Steps, NEW layers \in SUBSET Jobs,
           NEW status \in Statuses, NEW result \in {"none", "promoted", "unchanged"}
    PROVE  [r EXCEPT !.step = step, !.layers = layers, !.status = status,
                     !.result = result] \in Job
  BY DEF Job

LEMMA JobStepLineage ==
    ASSUME OwnRunsOnly, LineageInv, ControlInv, NEW j \in Jobs, JobStep(j)
    PROVE  LineageInv'
  <1> DEFINE Becomes(step, layers, status, result) ==
                [jobs[j] EXCEPT !.step = step, !.layers = layers, !.status = status,
                                !.result = result]
             Files == [loads : BOOLEAN, edits : SUBSET Jobs, registered : BOOLEAN]
  <1>1. /\ jobs \in [Jobs -> Job] /\ jobs[j] \in Job /\ state \in Files
        /\ promoted \subseteq Jobs
    BY DEF LineageInv, LineageType
  <1>2. /\ jobs[j].step \in Steps /\ jobs[j].layers \in SUBSET Jobs
        /\ jobs[j].status \in Statuses /\ jobs[j].result \in {"none", "promoted", "unchanged"}
    BY <1>1 DEF Job
  <1>3. ASSUME NEW step \in Steps, NEW layers \in SUBSET Jobs, NEW status \in Statuses,
               NEW result \in {"none", "promoted", "unchanged"}
        PROVE  /\ Becomes(step, layers, status, result) \in Job
               /\ Becomes(step, layers, status, result).step = step
               /\ Becomes(step, layers, status, result).layers = layers
    <2>1. Becomes(step, layers, status, result) \in Job
      BY <1>1, JobRecords
    <2> QED
      BY <1>1, <2>1 DEF Job
  <1>4. UNCHANGED <<pc, local, harm>> /\ Busy(j)
    BY DEF JobStep, Load, BeginRegister, EndRegister, EngineReturns, EngineFails,
           RecordFailure, BeginPersist, EndPersist, Report, threads, history, Busy
  <1>5. ASSUME NEW edits \in SUBSET Jobs
        PROVE  State(edits) \in Files /\ State(edits).edits = edits
    BY DEF State
  <1>6. TornState \in Files
    BY DEF TornState
  <1>7. CASE Load(j)
    <2> DEFINE step == IF state.loads /\ ~state.registered THEN "register" ELSE "engine"
               r == Becomes(step, state.edits, jobs[j].status, jobs[j].result)
    <2>1. jobs[j].step = "load" /\ jobs' = [jobs EXCEPT ![j] = r]
          /\ UNCHANGED <<state, promoted>>
      BY <1>1, <1>2, <1>7 DEF Load, files, history, Job
    <2>2. step \in Steps /\ state.edits \in SUBSET Jobs
      BY <1>1 DEF Steps
    <2>3. r \in Job /\ r.step = step /\ r.layers = state.edits
      <3> HIDE DEF Becomes
      <3> QED
        BY <1>2, <1>3, <2>2
    <2>4. j \notin UserJobs /\ j \in Evolving /\ j \in LoopJobs /\ Busy(j)
      BY <2>1, WritersEvolve, JobKinds
    <2>5. \A i \in Jobs : ~Writing(i)
      <3> SUFFICES ASSUME NEW i \in Jobs, Writing(i) PROVE FALSE
        OBVIOUS
      <3>1. i = j
        BY <2>4, WritersEvolve, OneEvolves
      <3> QED
        BY <2>1, <3>1 DEF Writing
    <2>6. "state" \notin harm => promoted \subseteq state.edits
      BY <2>5 DEF LineageInv, LineageKept
    <2> HIDE DEF r
    <2> QED
      BY <1>1, <1>4, <2>1, <2>3, <2>4, <2>6, JobMoves
  <1>8. CASE BeginRegister(j) \/ BeginPersist(j)
    <2> DEFINE step == IF jobs[j].step = "register" THEN "registering" ELSE "persisting"
               r == Becomes(step, jobs[j].layers, jobs[j].status, jobs[j].result)
    <2>1. /\ jobs[j].step \in {"register", "persist"} /\ jobs' = [jobs EXCEPT ![j] = r]
          /\ state' = TornState /\ promoted' = promoted
      BY <1>1, <1>2, <1>8 DEF BeginRegister, BeginPersist, files, history, Job
    <2>2. step \in Steps
      BY DEF Steps
    <2>3. r \in Job /\ r.step = step /\ r.layers = jobs[j].layers
      <3> HIDE DEF Becomes
      <3> QED
        BY <1>2, <1>3, <2>2
    <2>4. j \notin UserJobs /\ j \in Evolving
      BY <2>1, WritersEvolve, JobKinds
    <2>5. step = "persisting" => j \in r.layers
      BY <2>1, <2>3, <2>4 DEF LineageInv, OwnEdit
    <2>6. "state" \notin harm => promoted \subseteq r.layers
      BY <2>1, <2>3, <2>4 DEF LineageInv, LineageKept
    <2>7. Writing(j)'
      <3> HIDE DEF r
      <3> QED
        BY <1>1, <2>1, <2>3 DEF Writing
    <2> HIDE DEF r
    <2> QED
      BY <1>4, <1>6, <2>1, <2>3, <2>4, <2>5, <2>6, <2>7, JobMoves
  <1>9. CASE EndRegister(j) \/ EndPersist(j)
    <2> DEFINE step == IF jobs[j].step = "registering" THEN "engine" ELSE "report"
               r == Becomes(step, jobs[j].layers, jobs[j].status, jobs[j].result)
    <2>1. /\ jobs[j].step \in {"registering", "persisting"}
          /\ jobs' = [jobs EXCEPT ![j] = r]
          /\ state' = State(jobs[j].layers)
          /\ promoted' = IF step = "report" THEN promoted \cup {j} ELSE promoted
      BY <1>1, <1>2, <1>9 DEF EndRegister, EndPersist, files, history, Job
    <2>2. step \in Steps
      BY DEF Steps
    <2>3. r \in Job /\ r.step = step /\ r.layers = jobs[j].layers
      <3> HIDE DEF Becomes
      <3> QED
        BY <1>2, <1>3, <2>2
    <2>4. j \notin UserJobs /\ j \in Evolving
      BY <2>1, WritersEvolve, JobKinds DEF Writing
    <2>5. step = "report" => j \in r.layers
      BY <2>1, <2>3, <2>4 DEF LineageInv, OwnEdit
    <2>6. "state" \notin harm => promoted' \subseteq r.layers
      BY <2>1, <2>3, <2>4, <2>5 DEF LineageInv, LineageKept
    <2>7. state' \in Files /\ state'.edits = r.layers
      BY <1>2, <1>5, <2>1, <2>3
    <2> HIDE DEF r
    <2> QED
      BY <1>4, <2>1, <2>3, <2>4, <2>6, <2>7, JobMoves
  <1>10. CASE EngineReturns(j)
    <2>1. PICK e \in {"promoted", "unchanged"} :
             jobs' = [jobs EXCEPT
                ![j].result = e,
                ![j].layers = IF e = "promoted" THEN @ \cup {j} ELSE @,
                ![j].step = IF e = "promoted" /\ j \in Evolving THEN "persist" ELSE "report"]
      BY <1>10 DEF EngineReturns
    <2> DEFINE step == IF e = "promoted" /\ j \in Evolving THEN "persist" ELSE "report"
               layers == IF e = "promoted" THEN jobs[j].layers \cup {j} ELSE jobs[j].layers
               r == Becomes(step, layers, jobs[j].status, e)
    <2>2. jobs' = [jobs EXCEPT ![j] = r]
      BY <1>1, <2>1 DEF Job
    <2>3. /\ jobs[j].step = "engine" /\ state' = state /\ promoted' = promoted
      BY <1>10 DEF EngineReturns, files, history
    <2>4. step \in Steps /\ layers \in SUBSET Jobs
      BY <1>2 DEF Steps
    <2>5. r \in Job /\ r.step = step /\ r.layers = layers
      <3> HIDE DEF Becomes
      <3> QED
        BY <1>2, <1>3, <2>4
    <2>6. j \in UserJobs => step = "report"
      BY DEF OwnRunsOnly
    <2>7. "state" \notin harm => (j \in Evolving => promoted \subseteq layers)
      BY <2>3 DEF LineageInv, LineageKept
    <2>8. ~Writing(j) /\ "state" \notin harm =>
             ((\A i \in Jobs : i # j => ~Writing(i)) => promoted \subseteq state.edits)
      BY DEF LineageInv, LineageKept
    <2>9. ~Writing(j)
      BY <2>3 DEF Writing
    <2>10. step = "persist" => j \in layers
      OBVIOUS
    <2> HIDE DEF r, layers
    <2> QED
      BY <1>1, <1>4, <2>2, <2>3, <2>5, <2>6, <2>7, <2>8, <2>9, <2>10, JobMoves
  <1>11. CASE EngineFails(j) \/ RecordFailure(j) \/ Report(j)
    <2>1. PICK s \in Statuses :
             /\ jobs[j].step \in {"engine", "alarm", "report"}
             /\ jobs' = [jobs EXCEPT ![j] =
                   Becomes(IF jobs[j].step = "engine" THEN "alarm" ELSE "returned",
                           IF jobs[j].step = "alarm" THEN jobs[j].layers ELSE {},
                           s, jobs[j].result)]
             /\ state' = state /\ promoted' = promoted
      <3>1. CASE EngineFails(j)
        <4>1. jobs' = [jobs EXCEPT ![j] = Becomes("alarm", {}, "failed", jobs[j].result)]
          BY <1>1, <3>1 DEF EngineFails, Job
        <4> QED
          BY <3>1, <4>1 DEF EngineFails, files, history, Statuses
      <3>2. CASE RecordFailure(j)
        <4>1. jobs' = [jobs EXCEPT ![j] = Becomes("returned", jobs[j].layers,
                                                  jobs[j].status, jobs[j].result)]
          BY <1>1, <3>2 DEF RecordFailure, Job
        <4> QED
          BY <1>2, <3>2, <4>1 DEF RecordFailure, history
      <3>3. CASE Report(j)
        <4>1. PICK s \in {"completed", "failed"} :
                 jobs' = [jobs EXCEPT ![j].status = s, ![j].step = "returned",
                                      ![j].layers = {}]
          BY <3>3 DEF Report
        <4>2. jobs' = [jobs EXCEPT ![j] = Becomes("returned", {}, s, jobs[j].result)]
          BY <1>1, <4>1 DEF Job
        <4> QED
          BY <3>3, <4>2 DEF Report, files, history, Statuses
      <3> QED
        BY <1>11, <3>1, <3>2, <3>3
    <2> DEFINE step == IF jobs[j].step = "engine" THEN "alarm" ELSE "returned"
               layers == IF jobs[j].step = "alarm" THEN jobs[j].layers ELSE {}
               r == Becomes(step, layers, s, jobs[j].result)
    <2>2. step \in Steps /\ layers \in SUBSET Jobs
      BY <1>2 DEF Steps
    <2>3. r \in Job /\ r.step = step
      <3> HIDE DEF Becomes
      <3> QED
        BY <1>2, <1>3, <2>2
    <2>4. "state" \notin harm =>
             ((\A i \in Jobs : i # j => ~Writing(i)) => promoted \subseteq state.edits)
      BY <2>1 DEF LineageInv, LineageKept, Writing
    <2>5. jobs' = [jobs EXCEPT ![j] = r]
      BY <2>1
    <2>6. r.step \in {"alarm", "returned"}
      BY <2>3
    <2>7. UNCHANGED <<state, promoted, pc, local, harm>>
      BY <1>4, <2>1
    <2> HIDE DEF r, Becomes
    <2> QED
      BY <1>1, <1>4, <2>3, <2>4, <2>5, <2>6, <2>7, JobMoves
  <1> QED
    BY <1>7, <1>8, <1>9, <1>10, <1>11 DEF JobStep

(* Steps that create a job, begin or end one without writing, or none.       *)
LEMMA QuietLineage ==
    ASSUME LineageInv, jobs' \in [Jobs -> Job], UNCHANGED <<state, promoted>>,
           "state" \in harm => "state" \in harm',
           \A i \in Jobs :
              \/ jobs'[i] = jobs[i]
              \/ /\ jobs'[i].step \in {"load", "abandoned", "returned"}
                 /\ i \notin UserJobs \/ jobs'[i].step = "returned"
                 /\ Writing(i) => "state" \in harm'
              \/ i \notin Evolving /\ ~Writing(i) /\ jobs'[i].step = "engine",
           Inline'
    PROVE  LineageInv'
  <1>1. LineageType'
    BY DEF LineageInv, LineageType
  <1>2. UsersDoNotEvolve'
    BY DEF LineageInv, UsersDoNotEvolve, Jobs
  <1>3. OwnEdit'
    BY JobKinds DEF LineageInv, OwnEdit
  <1>4. LineageKept'
    <2> SUFFICES ASSUME "state" \notin harm'
                 PROVE  /\ (\A i \in Jobs : ~Writing(i)') => promoted \subseteq state.edits
                        /\ \A i \in Evolving :
                              jobs'[i].step \in {"register", "registering", "engine",
                                                 "persist", "persisting"} =>
                                  promoted \subseteq jobs'[i].layers
      BY DEF LineageKept
    <2>1. \A i \in Jobs : Writing(i) => Writing(i)'
      BY DEF Writing
    <2>2. \A i \in Evolving :
             jobs'[i].step \in {"register", "registering", "engine", "persist", "persisting"}
                => jobs'[i] = jobs[i]
      BY JobKinds
    <2> QED
      BY <2>1, <2>2 DEF LineageInv, LineageKept
  <1> QED
    BY <1>1, <1>2, <1>3, <1>4 DEF LineageInv

(* A loop that is not in a run has no job under way.                         *)
LEMMA BetweenRuns ==
    ASSUME LineageInv, ControlInv, NEW g \in Loops, Alive(g), pc[g] # "run"
    PROVE  \A i \in LoopJobs : ~Busy(i)
  BY DEF LineageInv, Inline, ControlInv, OneLoop, Alive

LEMMA MakeJobLineage ==
    ASSUME LineageInv, ControlInv, NEW g \in Loops, MakeJob(g) \/ NoCorpus(g),
           local \in [Loops -> Thread]
    PROVE  LineageInv'
  <1>1. Alive(g) /\ pc[g] # "run"
    BY DEF MakeJob, NoCorpus, Alive
  <1>2. \A i \in LoopJobs : ~Busy(i)
    BY <1>1, BetweenRuns
  <1>3. /\ jobs \in [Jobs -> Job] /\ pc \in [Loops -> PCs]
        /\ UNCHANGED <<state, promoted, harm>>
    BY DEF LineageInv, LineageType, ControlInv, ControlType, MakeJob, NoCorpus, files, history
  <1>4. CASE MakeJob(g)
    <2>1. PICK j \in FreeJobs :
             /\ jobs' = [jobs EXCEPT ![j] = [Called(j) EXCEPT !.loop = g]]
             /\ local' = [local EXCEPT ![g].job = j]
             /\ pc' = [pc EXCEPT ![g] = "run"]
      BY <1>4 DEF MakeJob
    <2> DEFINE r == [Called(j) EXCEPT !.loop = g]
    <2>2. j \in LoopJobs /\ j \in Jobs /\ j \in Evolving /\ jobs[j].step = "idle"
      BY JobKinds DEF FreeJobs, Jobs
    <2>3. r \in Job /\ r.step = "load"
      <3>1. g \in Nat
        BY LoopBounds DEF Loops
      <3> QED
        BY <2>2, <3>1 DEF Called, Unused, Job, Steps, Statuses
    <2> HIDE DEF r
    <2>4. jobs' \in [Jobs -> Job] /\ \A i \in Jobs : jobs'[i] = IF i = j THEN r ELSE jobs[i]
      BY <1>3, <2>1, <2>2, <2>3 DEF r
    <2>5. Inline'
      <3>1. pc'[g] = "run" /\ local'[g].job = j
        BY <1>3, <2>1 DEF Thread
      <3>2. \A i \in LoopJobs : Busy(i)' => i = j
        BY <1>2, <2>4 DEF Busy, Jobs
      <3> QED
        BY <3>1, <3>2 DEF Inline
    <2>6. j \notin UserJobs /\ ~Writing(j)
      BY <2>2, JobKinds DEF Writing
    <2> QED
      BY <1>3, <2>3, <2>4, <2>5, <2>6, QuietLineage
  <1>5. CASE NoCorpus(g)
    <2> DEFINE r == [Unused EXCEPT !.step = "abandoned", !.status = "queued", !.loop = g]
    <2>1. PICK j \in FreeJobs : jobs' = [jobs EXCEPT ![j] = r]
      BY <1>5 DEF NoCorpus
    <2>2. j \in LoopJobs /\ j \in Jobs /\ jobs[j].step = "idle"
      BY DEF FreeJobs, Jobs
    <2>3. r \in Job /\ r.step = "abandoned"
      <3>1. g \in Nat
        BY LoopBounds DEF Loops
      <3> QED
        BY <3>1 DEF Unused, Job, Steps, Statuses
    <2> HIDE DEF r
    <2>4. jobs' \in [Jobs -> Job] /\ \A i \in Jobs : jobs'[i] = IF i = j THEN r ELSE jobs[i]
      BY <1>3, <2>1, <2>2, <2>3
    <2>5. Inline'
      <3>1. \A i \in LoopJobs : ~Busy(i)'
        BY <1>2, <2>3, <2>4 DEF Busy, Jobs
      <3> QED
        BY <3>1 DEF Inline
    <2>6. j \notin UserJobs /\ ~Writing(j)
      BY <2>2, JobKinds DEF Writing
    <2> QED
      BY <1>3, <2>3, <2>4, <2>5, <2>6, QuietLineage
  <1> QED
    BY <1>4, <1>5

(* The other steps of a loop, and its start.                                 *)
LEMMA LoopStepLineage ==
    ASSUME LineageInv, ControlInv, local \in [Loops -> Thread],
           NEW g \in Loops, StartLoop(g) \/ LoopStep(g)
    PROVE  LineageInv'
  <1>1. CASE MakeJob(g) \/ NoCorpus(g)
    BY <1>1, MakeJobLineage
  <1>2. CASE ~(MakeJob(g) \/ NoCorpus(g))
    <2>1. /\ UNCHANGED <<jobs, state, promoted>> /\ ("state" \in harm => "state" \in harm')
      BY <1>2 DEF StartLoop, LoopStep, CheckStop, ListInbox, Ingest, RejectBundle,
           ChokeOnBundle, EndDrain, BeginSave, EndSave, Generate, Count, Close,
           files, history
    <2>2. \A i \in LoopJobs : ~Busy(i)
      <3>1. CASE StartLoop(g)
        <4>1. \A h \in Loops : ~Alive(h)
          BY <3>1 DEF StartLoop, ControlInv, OneLoop
        <4> QED
          BY <4>1 DEF LineageInv, Inline, Alive
      <3>2. CASE Count(g)
        <4>1. pc[g] = "run" /\ jobs[local[g].job].step = "returned"
          BY <3>2 DEF Count
        <4>2. ASSUME NEW i \in LoopJobs, Busy(i) PROVE FALSE
          <5>1. PICK h \in Loops : pc[h] = "run" /\ local[h].job = i
            BY <4>2 DEF LineageInv, Inline
          <5>2. h = g
            BY <4>1, <5>1 DEF ControlInv, OneLoop, Alive
          <5> QED
            BY <4>1, <4>2, <5>1, <5>2 DEF Busy
        <4> QED
          BY <4>2
      <3>3. CASE ~(StartLoop(g) \/ Count(g))
        <4>1. Alive(g) /\ pc[g] # "run"
          BY <1>2, <3>3 DEF LoopStep, CheckStop, ListInbox, Ingest, RejectBundle,
             ChokeOnBundle, EndDrain, BeginSave, EndSave, Generate, Close, Alive
        <4> QED
          BY <4>1, BetweenRuns
      <3> QED
        BY <3>1, <3>2, <3>3
    <2>3. Inline'
      BY <2>1, <2>2 DEF Inline, Busy
    <2> QED
      BY <2>1, <2>3, QuietLineage DEF LineageInv, LineageType
  <1> QED
    BY <1>1, <1>2

LEMMA StartRunLineage ==
    ASSUME OwnRunsOnly, LineageInv, NEW j \in Jobs, StartRun(j)
    PROVE  LineageInv'
  <1>1. /\ j \in UserJobs /\ jobs[j].step = "idle" /\ jobs' = [jobs EXCEPT ![j] = Called(j)]
        /\ UNCHANGED <<state, promoted, harm, pc, local>>
    BY DEF StartRun, files, threads, history
  <1>2. Called(j) \in Job /\ Called(j).step = "engine"
    BY <1>1 DEF OwnRunsOnly, Called, Unused, Job, Steps, Statuses
  <1>3. /\ jobs' \in [Jobs -> Job]
        /\ \A i \in Jobs : jobs'[i] = IF i = j THEN Called(j) ELSE jobs[i]
    BY <1>1, <1>2 DEF LineageInv, LineageType
  <1>4. j \notin Evolving /\ j \notin LoopJobs /\ ~Writing(j)
    BY <1>1, JobKinds DEF OwnRunsOnly, Writing
  <1>5. Inline'
    BY <1>1, <1>3, <1>4 DEF LineageInv, Inline, Busy, Jobs
  <1> QED
    BY <1>1, <1>2, <1>3, <1>4, <1>5, QuietLineage

(* A crash ends all jobs, and is remembered when it tore the harness state.  *)
LEMMA CrashLineage ==
    ASSUME LineageInv, Crash
    PROVE  LineageInv'
  <1>1. /\ UNCHANGED <<state, promoted>> /\ harm' = harm \cup AtRisk
        /\ jobs' = [j \in Jobs |->
              IF jobs[j].step \in {"idle", "abandoned", "returned"} THEN jobs[j]
              ELSE [jobs[j] EXCEPT !.step = "returned", !.status = "lost", !.layers = {}]]
    BY DEF Crash, files
  <1> DEFINE Lost(r) == [r EXCEPT !.step = "returned", !.status = "lost", !.layers = {}]
             After(r) == IF r.step \in {"idle", "abandoned", "returned"} THEN r ELSE Lost(r)
  <1> jobs \in [Jobs -> Job]
    BY DEF LineageInv, LineageType
  <1>2. ASSUME NEW r \in Job
        PROVE  /\ After(r) \in Job
               /\ After(r) = r \/ After(r).step = "returned"
               /\ After(r).step \in {"idle", "abandoned", "returned"}
    BY DEF Job, Steps, Statuses
  <1>a. jobs' = [j \in Jobs |-> After(jobs[j])]
    BY <1>1
  <1> HIDE DEF After
  <1>3. /\ jobs' \in [Jobs -> Job]
        /\ \A j \in Jobs : /\ jobs'[j] = jobs[j] \/ jobs'[j].step = "returned"
                           /\ jobs'[j].step \in {"idle", "abandoned", "returned"}
    BY <1>a, <1>2
  <1>4. \A j \in Jobs : Writing(j) => "state" \in harm'
    BY <1>1 DEF AtRisk
  <1>5. Inline'
    BY <1>3 DEF Inline, Busy, Jobs
  <1> QED
    BY <1>1, <1>3, <1>4, <1>5, QuietLineage

LEMMA NextLineage ==
    ASSUME OwnRunsOnly, LineageInv, ControlInv, InboxInv, [Next]_vars
    PROVE  LineageInv'
  <1> local \in [Loops -> Thread]
    BY DEF InboxInv, InboxType
  <1>1. CASE \/ \E b \in Bundles : BeginSubmit(b) \/ EndSubmit(b)
             \/ LookAtActive \/ SignalStop \/ UNCHANGED vars
    <2>1. UNCHANGED <<jobs, state, promoted, harm, pc, local>>
      BY <1>1 DEF BeginSubmit, EndSubmit, LookAtActive, SignalStop, vars, files, threads,
           history
    <2>2. Inline'
      BY <2>1 DEF LineageInv, Inline, Busy
    <2> QED
      BY <2>1, <2>2, QuietLineage DEF LineageInv, LineageType
  <1>2. CASE \E g \in Loops : StartLoop(g) \/ LoopStep(g)
    BY <1>2, LoopStepLineage
  <1>3. CASE \E j \in Jobs : StartRun(j) \/ JobStep(j)
    BY <1>3, StartRunLineage, JobStepLineage
  <1>4. CASE Crash
    BY <1>4, CrashLineage
  <1> QED
    BY <1>1, <1>2, <1>3, <1>4 DEF Next

(* The invariant of the evolving harness, when the loop's are the only       *)
(* evolving runs.                                                            *)
THEOREM LineageInvariant == ASSUME OwnRunsOnly PROVE Spec => []LineageInv
  <1>1. LineageInv /\ ControlInv /\ InboxInv /\ [Next]_vars => LineageInv'
    BY NextLineage
  <1> QED
    BY <1>1, InitLineage, Control, InboxInvariant, PTL DEF Spec

(* The lineage only grows: what was persisted stays in the harness state and *)
(* in the layers of every later run, for any number of runs, failures and    *)
(* starts, unless a crash tore the file.                                     *)
THEOREM LineageGrows == ASSUME OwnRunsOnly PROVE Spec => []LineageKept
  <1>1. LineageInv => LineageKept
    BY DEF LineageInv
  <1> QED
    BY <1>1, LineageInvariant, PTL
============================================================================
