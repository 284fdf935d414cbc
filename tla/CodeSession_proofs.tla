-------------------------- MODULE CodeSession_proofs --------------------------
(* The threads of the coding agent, for any number of threads, messages,     *)
(* commands, interrupts and crashes.  What a thread holds, in its file and   *)
(* in memory, is sound: messages and turns of that thread only, none of them *)
(* open, each ended with a message its outcome accounts for.  What the       *)
(* running turn adds is sound as far as it got.                              *)
EXTENDS CodeSession, SequenceTheorems, TLAPS

Messages == [kind : Kinds, turn : Nat]
Stops == {"end_turn", "max_tokens", "max_steps", "model_error"}
Outcomes == Stops \cup {"open", "interrupted", "cleared"}
Entry == [thread : Threads, outcome : Outcomes, kept : BOOLEAN]
Waiting == {"prompt", "saving", "continue", "new", "switch", "pick"}
Ended == {"returned", "judging", "recording"}
Working == {"request", "tools", "headless"} \cup Ended

-----------------------------------------------------------------------------
(* What there is to say of a conversation h, given what came of the messages *)
(* sent so far.                                                              *)

\* A turn that ended like this may end with this message.
Closed(m, outcome) == m.kind \in LastKinds(outcome)

Follows(all, m, next) ==
    IF next.turn = m.turn
    THEN m.kind = "call" <=> next.kind = "result"
    ELSE Closed(m, all[m.turn].outcome)

Formed(all, h) == \A i \in 1..(Len(h) - 1) : Follows(all, h[i], h[i + 1])

Of(all, h, t) ==
    /\ h \in Seq(Messages)
    /\ \A n \in Turns(h) : n \in DOMAIN all /\ all[n].thread = t

\* A conversation of thread t that is as far as it goes at an end.
Sound(all, h, t) ==
    /\ Of(all, h, t)
    /\ Formed(all, h)
    /\ \A n \in Turns(h) : all[n].outcome # "open"
    /\ h # <<>> => Closed(h[Len(h)], all[h[Len(h)].turn].outcome)

\* Turns recorded for thread t.
Done(all, turns, t) ==
    /\ turns \in Seq(Nat)
    /\ \A n \in Range(turns) :
          n \in DOMAIN all /\ all[n].thread = t /\ all[n].outcome \notin {"open", "interrupted"}

\* The messages of t that must not be lost.
Due(all, t) ==
    {n \in DOMAIN all : all[n].outcome \in Recorded /\ all[n].kept /\ all[n].thread = t}

-----------------------------------------------------------------------------
IsLoop(l) ==
    l = [turn |-> l.turn, step |-> l.step, attempt |-> l.attempt, left |-> l.left,
         stop |-> l.stop]

IsRecord(r) ==
    r = [id |-> r.id, turns |-> r.turns, history |-> r.history, harvested |-> r.harvested]

SessionType ==
    /\ pc \in Waiting \cup Working \cup {"down"}
    /\ sent \in Seq(Entry)
    /\ IsLoop(loop) /\ IsRecord(record)
    /\ pc # "down" => record.id \in Threads
    /\ goal = [do |-> goal.do, thread |-> goal.thread]
    /\ DOMAIN disk = Threads

\* The list of threads is of those that can be read, each once; what is asked
\* for is in it, or will be when the save under way ends.
Files ==
    /\ recency \in Seq(Threads)
    /\ \A i, j \in DOMAIN recency : recency[i] = recency[j] => i = j
    /\ \A i \in DOMAIN recency : Readable(recency[i])
    /\ pc = "saving" =>
          /\ disk[record.id] = TornFile
          /\ goal.do \in {"prompt", "continue", "new", "switch", "pick", "exit"}
          /\ goal.do = "switch" => goal.thread \in ToSet(recency) \cup {record.id}
          /\ goal.do = "pick" => goal.thread \in 1..(Len(recency) + 1)
    /\ pc = "switch" => goal.thread \in ToSet(recency)
    /\ pc = "pick" => goal.thread \in DOMAIN recency

\* Every file, and the record that will be the next, holds what is sound and
\* nothing less than what is due.
FileKept(t) ==
    /\ disk[t] \in {NoFile, TornFile} \/ disk[t].state = "saved"
    /\ Readable(t) => /\ Sound(sent, disk[t].history, t)
                      /\ Done(sent, disk[t].turns, t)
                      /\ Due(sent, t) \subseteq Turns(disk[t].history)
    /\ disk[t] = NoFile => Due(sent, t) = {}

Kept ==
    /\ \A t \in Threads : FileKept(t)
    /\ pc # "down" => /\ Sound(sent, record.history, record.id)
                      /\ Done(sent, record.turns, record.id)
    /\ pc = "saving" => Due(sent, record.id) \subseteq Turns(record.history)

\* The conversation between turns, and what it holds in any case.
AtRest ==
    pc \in Waiting => Sound(sent, history, record.id)

AllDue ==
    pc \in Waiting \cup Working => Due(sent, record.id) \subseteq Turns(history)

\* The conversation of a turn that runs: only that turn is open.
InTurn ==
    pc \in Working =>
        /\ sent # <<>> /\ loop.turn = Len(sent)
        /\ sent[loop.turn].thread = record.id /\ sent[loop.turn].outcome = "open"
        /\ Of(sent, history, record.id)
        /\ Formed(sent, history)
        /\ \A n \in Turns(history) : n # loop.turn => sent[n].outcome # "open"

\* How far it is.
LastWord ==
    LET m == history[Len(history)]
    IN  /\ pc = "request" =>
              history # <<>> /\ m.turn = loop.turn /\ m.kind \in {"user", "result"}
        /\ pc = "tools" =>
              history # <<>> /\ m.turn = loop.turn /\ m.kind = "call"
        /\ pc = "headless" => Sound(sent, history, record.id)
        /\ pc \in Ended =>
              /\ loop.stop \in Stops
              /\ loop.stop \in Recorded => loop.turn \in Turns(history)
              /\ history # <<>> =>
                    Closed(m, IF m.turn = loop.turn THEN loop.stop ELSE sent[m.turn].outcome)

Talking == AtRest /\ AllDue /\ InTurn /\ LastWord

SessionInv == SessionType /\ Files /\ Kept /\ Talking

-----------------------------------------------------------------------------
(* What becomes of the messages leaves what thread t has concluded as it is. *)
Keeps(all, new, t) ==
    \A n \in DOMAIN all :
        /\ n \in DOMAIN new /\ new[n].thread = all[n].thread
        /\ all[n].thread = t /\ all[n].outcome # "open" => new[n].outcome = all[n].outcome

LEMMA ConversationEntries ==
    ASSUME NEW h, h \in Seq(Messages)
    PROVE  /\ Len(h) \in Nat /\ DOMAIN h = 1..Len(h)
           /\ \A i \in 1..Len(h) : h[i] \in Messages /\ h[i].turn \in Turns(h)
           /\ \A n \in Turns(h) : \E i \in 1..Len(h) : h[i].turn = n
           /\ h # <<>> <=> Len(h) # 0
  BY DEF Turns

(* A conversation with a turn still open stays formed: what follows an open  *)
(* turn's message is of the same turn.                                       *)
LEMMA FormedStays ==
    ASSUME NEW all, NEW new, NEW h, NEW t, Of(all, h, t), Formed(all, h), Keeps(all, new, t)
    PROVE  Of(new, h, t) /\ Formed(new, h)
  <1>1. h \in Seq(Messages)
    BY DEF Of
  <1>2. Of(new, h, t)
    BY DEF Of, Keeps
  <1>3. ASSUME NEW i \in 1..(Len(h) - 1)
        PROVE  Follows(new, h[i], h[i + 1])
    <2>1. h[i].turn \in Turns(h)
      BY <1>1, ConversationEntries
    <2>2. Follows(all, h[i], h[i + 1])
      BY DEF Formed
    <2>3. /\ h[i].turn \in DOMAIN all
          /\ all[h[i].turn].outcome # "open"
             => new[h[i].turn].outcome = all[h[i].turn].outcome
      BY <2>1 DEF Of, Keeps
    <2> QED
      BY <2>2, <2>3 DEF Follows, Closed, LastKinds
  <1> QED
    BY <1>2, <1>3 DEF Formed

LEMMA SoundStays ==
    ASSUME NEW all, NEW new, NEW h, NEW t, Sound(all, h, t), Keeps(all, new, t)
    PROVE  Sound(new, h, t)
  <1>1. Of(all, h, t) /\ Formed(all, h) /\ h \in Seq(Messages)
    BY DEF Sound, Of
  <1>2. Of(new, h, t) /\ Formed(new, h)
    BY <1>1, FormedStays
  <1>3. \A n \in Turns(h) : new[n].outcome = all[n].outcome
    BY <1>1 DEF Sound, Of, Keeps
  <1>4. h # <<>> => h[Len(h)].turn \in Turns(h)
    BY <1>1, ConversationEntries
  <1> QED
    BY <1>2, <1>3, <1>4 DEF Sound

LEMMA DoneStays ==
    ASSUME NEW all, NEW new, NEW turns, NEW t, Done(all, turns, t), Keeps(all, new, t)
    PROVE  Done(new, turns, t)
  BY DEF Done, Keeps

LEMMA NothingIsSound == ASSUME NEW all, NEW t PROVE Sound(all, <<>>, t) /\ Done(all, <<>>, t)
  <1>1. Turns(<<>>) = {} /\ Range(<<>>) = {} /\ <<>> \in Seq(Messages) /\ <<>> \in Seq(Nat)
    BY DEF Turns, Range
  <1>2. Formed(all, <<>>)
    BY DEF Formed
  <1> QED
    BY <1>1, <1>2 DEF Sound, Of, Done

\* The message m of thread t may be added to h, and g is what this gives.
MayAdd(all, h, t, m) ==
    /\ Of(all, h, t) /\ Formed(all, h)
    /\ m \in Messages /\ m.turn \in DOMAIN all /\ all[m.turn].thread = t
    /\ h # <<>> => Follows(all, h[Len(h)], m)

Adds(all, h, t, m, g) ==
    /\ Of(all, g, t) /\ Formed(all, g) /\ Turns(g) = Turns(h) \cup {m.turn}
    /\ g # <<>> /\ g[Len(g)] = m

LEMMA AppendForms ==
    ASSUME NEW all, NEW h, NEW t, NEW m, MayAdd(all, h, t, m)
    PROVE  Adds(all, h, t, m, Append(h, m))
  <1> DEFINE g == Append(h, m)
  <1>1. /\ h \in Seq(Messages) /\ m \in Messages /\ m.turn \in DOMAIN all
        /\ all[m.turn].thread = t /\ Of(all, h, t) /\ Formed(all, h)
        /\ h # <<>> => Follows(all, h[Len(h)], m)
    BY DEF MayAdd, Of
  <1>2. /\ g \in Seq(Messages) /\ Len(g) = Len(h) + 1 /\ g[Len(g)] = m
        /\ \A i \in 1..Len(h) : g[i] = h[i]
        /\ Len(h) \in Nat /\ DOMAIN g = 1..Len(h) + 1 /\ DOMAIN h = 1..Len(h)
    BY <1>1
  <1> HIDE DEF g
  <1>3. Turns(g) = Turns(h) \cup {m.turn}
    <2>1. Turns(g) \subseteq Turns(h) \cup {m.turn}
      <3> SUFFICES ASSUME NEW i \in 1..Len(h) + 1 PROVE g[i].turn \in Turns(h) \cup {m.turn}
        BY <1>2 DEF Turns
      <3>1. i \in 1..Len(h) \/ i = Len(g)
        BY <1>2
      <3> QED
        BY <1>2, <3>1 DEF Turns
    <2>2. Turns(h) \subseteq Turns(g)
      <3> SUFFICES ASSUME NEW i \in 1..Len(h) PROVE h[i].turn \in Turns(g)
        BY <1>2 DEF Turns
      <3>1. i \in 1..Len(h) + 1 /\ g[i].turn = h[i].turn
        BY <1>2
      <3> QED
        BY <1>2, <3>1 DEF Turns
    <2>3. m.turn \in Turns(g)
      <3>1. Len(g) \in DOMAIN g
        BY <1>2
      <3> QED
        BY <1>2, <3>1 DEF Turns
    <2> QED
      BY <2>1, <2>2, <2>3
  <1>4. Of(all, g, t)
    BY <1>1, <1>2, <1>3 DEF Of
  <1>5. Formed(all, g)
    <2> SUFFICES ASSUME NEW i \in 1..(Len(g) - 1) PROVE Follows(all, g[i], g[i + 1])
      BY DEF Formed
    <2>1. i \in 1..Len(h) /\ g[i] = h[i]
      BY <1>2
    <2>2. CASE i = Len(h)
      <3>1. h # <<>> /\ g[i + 1] = m
        BY <1>1, <1>2, <2>1, <2>2
      <3> QED
        BY <1>1, <2>1, <2>2, <3>1
    <2>3. CASE i # Len(h)
      <3> DEFINE k == Len(h)
      <3>0. k \in Nat /\ i \in 1..k /\ i # k
        BY <1>2, <2>1, <2>3
      <3> HIDE DEF k
      <3>1. i \in 1..(k - 1) /\ i + 1 \in 1..k
        BY <3>0
      <3> USE DEF k
      <3>2. g[i + 1] = h[i + 1]
        BY <1>2, <3>1
      <3> QED
        BY <1>1, <2>1, <3>1, <3>2 DEF Formed
    <2> QED
      BY <2>2, <2>3
  <1>6. g # <<>>
    BY <1>2, ConversationEntries
  <1> QED
    BY <1>2, <1>3, <1>4, <1>5, <1>6 DEF Adds, g

-----------------------------------------------------------------------------
(* Taking a thread out of a list that names every thread once.               *)
OnceEach(q) == \A i, j \in DOMAIN q : q[i] = q[j] => i = j

LEMMA ListWithout ==
    ASSUME NEW S, NEW q \in Seq(S), OnceEach(q), NEW e
    PROVE  LET r == RemoveFirst(q, e)
           IN  /\ r \in Seq(S) /\ OnceEach(r)
               /\ ToSet(r) = ToSet(q) \ {e}
               /\ Len(r) \in Nat /\ Len(q) <= Len(r) + 1
  <1> DEFINE r == RemoveFirst(q, e)
             n == Len(q)
  <1>1. n \in Nat /\ DOMAIN q = 1..n /\ \A i \in 1..n : q[i] \in S
    OBVIOUS
  <1>2. CASE ~\E i \in 1..n : q[i] = e
    <2>1. r = q
      BY <1>2 DEF RemoveFirst
    <2>2. e \notin ToSet(q)
      BY <1>1, <1>2 DEF ToSet
    <2> QED
      BY <1>1, <2>1, <2>2
  <1>3. CASE \E i \in 1..n : q[i] = e
    <2>1. PICK k \in 1..n : q[k] = e
      BY <1>3
    <2>2. {i \in 1..n : q[i] = e} = {k}
      BY <1>1, <2>1 DEF OnceEach
    <2>3. Min({k}) = k
      BY <2>1 DEF Min
    <2>4. SelectInSeq(q, LAMBDA v : v = e) = k
      BY <2>2, <2>3 DEF SelectInSeq
    <2> DEFINE a == SubSeq(q, 1, k - 1)
               b == SubSeq(q, k + 1, n)
    <2>5. r = a \o b
      BY <2>1, <2>4 DEF RemoveFirst, RemoveAt
    <2> HIDE DEF r
    <2>6. /\ a \in Seq(S) /\ Len(a) = k - 1 /\ \A i \in 1..(k - 1) : a[i] = q[i]
          /\ b \in Seq(S) /\ Len(b) = n - k /\ \A i \in 1..(n - k) : b[i] = q[k + i]
      <3>1. a \in Seq(S) /\ Len(a) = k - 1 /\ \A i \in 1..(k - 1) : a[i] = q[i]
        BY <1>1, <2>1
      <3>2. b \in Seq(S) /\ Len(b) = n - k /\ \A i \in 1..(n - k) : b[i] = q[k + i]
        <4> DEFINE m == k + 1
        <4> HIDE DEF n
        <4>1. /\ m \in Int /\ n \in Int
              /\ n - m + 1 = n - k /\ (~(m <= n) => n - k = 0)
              /\ \A i \in 1..(n - k) : m + i - 1 = k + i
          BY <1>1, <2>1
        <4>2. \A i \in m..n : q[i] \in S
          BY <1>1, <2>1
        <4>3. b = SubSeq(q, m, n)
          BY DEF n
        <4> HIDE DEF m, n, b
        <4> QED
          BY <4>1, <4>2, <4>3, SubSeqProperties
      <3> QED
        BY <3>1, <3>2
    <2> HIDE DEF a, b, n
    <2>7. /\ r \in Seq(S) /\ Len(r) = n - 1 /\ DOMAIN r = 1..(n - 1)
          /\ \A i \in 1..(n - 1) : r[i] = IF i < k THEN q[i] ELSE q[i + 1]
      <3>1. /\ r \in Seq(S) /\ Len(r) = n - 1 /\ DOMAIN r = 1..(n - 1)
            /\ \A i \in 1..(n - 1) : r[i] = IF i <= k - 1 THEN a[i] ELSE b[i - (k - 1)]
        BY <1>1, <2>1, <2>5, <2>6
      <3>2. ASSUME NEW i \in 1..(n - 1)
            PROVE  r[i] = IF i < k THEN q[i] ELSE q[i + 1]
        <4>1. CASE i < k
          BY <2>1, <2>6, <3>1, <4>1
        <4>2. CASE ~(i < k)
          <5> DEFINE j == i - (k - 1)
          <5>1. j \in 1..(n - k) /\ k + j = i + 1 /\ ~(i <= k - 1)
            BY <1>1, <2>1, <4>2
          <5>2. r[i] = b[j]
            BY <3>1, <5>1
          <5> HIDE DEF j
          <5>3. b[j] = q[k + j]
            BY <2>6, <5>1
          <5> QED
            BY <4>2, <5>1, <5>2, <5>3
        <4> QED
          BY <4>1, <4>2
      <3> QED
        BY <3>1, <3>2
    <2>8. OnceEach(r)
      <3> SUFFICES ASSUME NEW i \in 1..(n - 1), NEW j \in 1..(n - 1), r[i] = r[j]
                   PROVE  i = j
        BY <2>7 DEF OnceEach
      <3>1. i \in 1..n /\ i + 1 \in 1..n /\ j \in 1..n /\ j + 1 \in 1..n
        BY <1>1
      <3> QED
        BY <1>1, <2>1, <2>7, <3>1 DEF OnceEach
    <2>9. ToSet(r) = ToSet(q) \ {e}
      <3>1. ASSUME NEW i \in 1..(n - 1) PROVE r[i] \in ToSet(q) \ {e}
        <4>1. i \in 1..n /\ i + 1 \in 1..n
          BY <1>1
        <4>2. PICK j \in 1..n : j # k /\ r[i] = q[j]
          BY <1>1, <2>1, <2>7, <4>1
        <4>3. q[j] # e
          BY <1>1, <2>1, <4>2 DEF OnceEach
        <4> QED
          BY <1>1, <4>2, <4>3 DEF ToSet
      <3>2. ASSUME NEW j \in 1..n, q[j] # e PROVE q[j] \in ToSet(r)
        <4>1. CASE j < k
          <5>1. j \in 1..(n - 1) /\ r[j] = q[j]
            BY <1>1, <2>1, <2>7, <4>1
          <5> QED
            BY <2>7, <5>1 DEF ToSet
        <4>2. CASE ~(j < k)
          <5>1. j # k
            BY <2>1, <3>2
          <5>2. j - 1 \in 1..(n - 1) /\ ~(j - 1 < k) /\ (j - 1) + 1 = j
            BY <1>1, <2>1, <4>2, <5>1
          <5>3. r[j - 1] = q[j]
            BY <2>7, <5>2
          <5> QED
            BY <2>7, <5>2, <5>3 DEF ToSet
        <4> QED
          BY <4>1, <4>2
      <3> QED
        BY <1>1, <2>7, <3>1, <3>2 DEF ToSet
    <2> QED
      BY <1>1, <2>7, <2>8, <2>9 DEF n, r
  <1> QED
    BY <1>1, <1>2, <1>3

-----------------------------------------------------------------------------
(* The two ways in which a step treats what is saved.                        *)

\* More is said, and nothing more is due from thread t.
Grows(all, new, t) == Keeps(all, new, t) /\ Due(new, t) \subseteq Due(all, t)

(* A step that saves nothing leaves every thread as it was.                  *)
LEMMA FilesStay ==
    ASSUME Files, Kept, pc' \in Working \cup {"prompt", "down"}, pc # "down" \/ pc' = "down",
           disk' = disk, recency' = recency, record'.id = record.id \/ pc' = "down",
           \A t \in Threads : Grows(sent, sent', t),
           pc' # "down" => /\ record'.turns = record.turns
                           /\ record'.history = record.history
                           /\ record.id \in Threads
    PROVE  Files' /\ Kept'
  <1>1. Files'
    BY DEF Files, Readable, Working, Ended
  <1>2. ASSUME NEW t \in Threads
        PROVE  FileKept(t)'
    <2>1. Keeps(sent, sent', t) /\ Due(sent', t) \subseteq Due(sent, t)
      BY DEF Grows
    <2>2. CASE Readable(t)
      <3>1. /\ Sound(sent, disk[t].history, t) /\ Done(sent, disk[t].turns, t)
            /\ Due(sent, t) \subseteq Turns(disk[t].history)
        BY <2>2 DEF Kept, FileKept
      <3>2. Sound(sent', disk[t].history, t) /\ Done(sent', disk[t].turns, t)
        BY <2>1, <3>1, SoundStays, DoneStays
      <3>3. disk[t] # NoFile /\ Due(sent', t) \subseteq Turns(disk[t].history)
        BY <2>1, <2>2, <3>1 DEF Readable, NoFile
      <3> QED
        BY <2>2, <3>2, <3>3 DEF FileKept, Readable
    <2>3. CASE ~Readable(t)
      <3>1. disk[t] \in {NoFile, TornFile} /\ (disk[t] = NoFile => Due(sent', t) = {})
        BY <2>1, <2>3 DEF Kept, FileKept, Readable
      <3> QED
        BY <2>3, <3>1 DEF FileKept, Readable
    <2> QED
      BY <2>2, <2>3
  <1>3. CASE pc' = "down"
    BY <1>1, <1>2, <1>3 DEF Kept
  <1>4. CASE pc' # "down"
    <2>1. /\ Sound(sent, record.history, record.id) /\ Done(sent, record.turns, record.id)
          /\ Keeps(sent, sent', record.id)
      BY <1>4 DEF Kept, Grows
    <2>2. /\ Sound(sent', record'.history, record'.id)
          /\ Done(sent', record'.turns, record'.id)
      BY <1>4, <2>1, SoundStays, DoneStays
    <2>3. pc' # "saving"
      BY DEF Working, Ended
    <2> QED
      BY <1>1, <1>2, <2>2, <2>3 DEF Kept
  <1> QED
    BY <1>1, <1>3, <1>4

(* A save begins with a record that is sound and holds what is due; the      *)
(* other threads stay as they were.                                          *)
LEMMA SaveBegins ==
    ASSUME SessionType, Files, Kept, pc \notin {"down", "saving"},
           NEW r, IsRecord(r), r.id \in Threads,
           NEW do \in {"prompt", "continue", "new", "switch", "pick", "exit"}, NEW to,
           SaveAs(r, do, to),
           do = "switch" => to \in ToSet(recency),
           do = "pick" => to \in DOMAIN recency,
           Sound(sent', r.history, r.id), Done(sent', r.turns, r.id),
           Due(sent', r.id) \subseteq Turns(r.history),
           \A t \in Threads \ {r.id} : Grows(sent, sent', t)
    PROVE  /\ Files' /\ Kept'
           /\ pc' = "saving" /\ record' = r
           /\ goal' = [do |-> do, thread |-> to] /\ DOMAIN disk' = Threads
  <1>1. /\ record' = r /\ pc' = "saving" /\ goal' = [do |-> do, thread |-> to]
        /\ recency' = RemoveFirst(recency, r.id)
        /\ DOMAIN disk = Threads
        /\ DOMAIN disk' = Threads /\ disk'[r.id] = TornFile
        /\ \A t \in Threads : t # r.id => disk'[t] = disk[t]
    BY DEF SaveAs, SessionType
  <1>2. /\ recency \in Seq(Threads) /\ OnceEach(recency)
        /\ DOMAIN recency = 1..Len(recency) /\ Len(recency) \in Nat
    BY DEF Files, OnceEach
  <1>3. /\ recency' \in Seq(Threads) /\ OnceEach(recency')
        /\ ToSet(recency') = ToSet(recency) \ {r.id}
        /\ Len(recency') \in Nat /\ Len(recency) <= Len(recency') + 1
    BY <1>1, <1>2, ListWithout
  <1>4. Files'
    <2>1. ASSUME NEW i \in DOMAIN recency'
          PROVE  disk'[recency'[i]].state = "saved"
      <3>1. recency'[i] \in ToSet(recency) \ {r.id}
        BY <1>3 DEF ToSet
      <3>2. PICK j \in DOMAIN recency : recency[j] = recency'[i]
        BY <3>1 DEF ToSet
      <3>3. recency[j] \in Threads
        BY <1>2
      <3> QED
        BY <1>1, <3>1, <3>2, <3>3 DEF Files, Readable
    <2>2. do = "switch" => to \in ToSet(recency') \cup {r.id}
      BY <1>3
    <2>3. do = "pick" => to \in 1..(Len(recency') + 1)
      BY <1>2, <1>3
    <2>4. goal'.do = do /\ goal'.thread = to
      BY <1>1
    <2> QED
      BY <1>1, <1>3, <2>1, <2>2, <2>3, <2>4 DEF Files, OnceEach, Readable
  <1>5. ASSUME NEW t \in Threads
        PROVE  FileKept(t)'
    <2>1. CASE t = r.id
      BY <1>1, <2>1 DEF FileKept, NoFile, TornFile, Readable
    <2>2. CASE t # r.id
      <3>1. disk'[t] = disk[t]
        BY <1>1, <2>2
      <3>2. Keeps(sent, sent', t) /\ Due(sent', t) \subseteq Due(sent, t)
        BY <2>2 DEF Grows
      <3>3. CASE Readable(t)
        <4>1. /\ Sound(sent, disk[t].history, t) /\ Done(sent, disk[t].turns, t)
              /\ Due(sent, t) \subseteq Turns(disk[t].history)
          BY <3>3 DEF Kept, FileKept
        <4>2. Sound(sent', disk[t].history, t) /\ Done(sent', disk[t].turns, t)
          BY <3>2, <4>1, SoundStays, DoneStays
        <4>3. disk[t] # NoFile /\ Due(sent', t) \subseteq Turns(disk[t].history)
          BY <3>2, <3>3, <4>1 DEF Readable, NoFile
        <4> QED
          BY <3>1, <3>3, <4>2, <4>3 DEF FileKept, Readable
      <3>4. CASE ~Readable(t)
        <4>1. disk[t] \in {NoFile, TornFile} /\ (disk[t] = NoFile => Due(sent', t) = {})
          BY <3>2, <3>4 DEF Kept, FileKept, Readable
        <4> QED
          BY <3>1, <3>4, <4>1 DEF FileKept, Readable
      <3> QED
        BY <3>3, <3>4
    <2> QED
      BY <2>1, <2>2
  <1>6. Kept'
    BY <1>1, <1>5 DEF Kept
  <1> QED
    BY <1>1, <1>4, <1>6

-----------------------------------------------------------------------------
(* The ways in which what came of the messages changes.                      *)

\* This comes of message n, and new is what this gives.
WithOutcome(all, n, what) == [all EXCEPT ![n].outcome = what]

Settles(all, n, what, new) ==
    /\ new \in Seq(Entry) /\ Len(new) = Len(all)
    /\ new[n].outcome = what /\ new[n].thread = all[n].thread
    /\ \A m \in DOMAIN all : m # n => new[m] = all[m]
    /\ \A t : Keeps(all, new, t)
    /\ \A t : Due(new, t) \subseteq
         Due(all, t) \cup (IF what \in Recorded /\ all[n].thread = t THEN {n} ELSE {})

(* The open turn ends: only it may become due.                               *)
LEMMA OneOutcome ==
    ASSUME NEW all \in Seq(Entry), NEW n \in DOMAIN all, all[n].outcome = "open",
           NEW what \in Outcomes \ {"open"}
    PROVE  Settles(all, n, what, WithOutcome(all, n, what))
  <1> DEFINE new == WithOutcome(all, n, what)
  <1>1. all[n] \in Entry /\ DOMAIN all = 1..Len(all) /\ Len(all) \in Nat
    OBVIOUS
  <1> DEFINE e == [all[n] EXCEPT !.outcome = what]
  <1>2. e \in Entry /\ e.outcome = what /\ e.thread = all[n].thread
    BY <1>1 DEF Entry
  <1>3. /\ new = [all EXCEPT ![n] = e]
    BY DEF WithOutcome
  <1> HIDE DEF e, new
  <1>4. /\ new \in Seq(Entry) /\ Len(new) = Len(all) /\ DOMAIN new = DOMAIN all
        /\ new[n] = e /\ \A m \in DOMAIN all : m # n => new[m] = all[m]
    BY <1>1, <1>2, <1>3
  <1>5. ASSUME NEW t PROVE Keeps(all, new, t)
    BY <1>2, <1>4 DEF Keeps
  <1>6. ASSUME NEW t, NEW m \in Due(new, t), m # n \/ ~(what \in Recorded /\ all[n].thread = t)
        PROVE  m \in Due(all, t)
    <2>1. /\ m \in DOMAIN all /\ new[m].outcome \in Recorded /\ new[m].kept
          /\ new[m].thread = t
      BY <1>4 DEF Due
    <2>2. m # n
      BY <1>2, <1>4, <1>6, <2>1
    <2> QED
      BY <1>4, <2>1, <2>2 DEF Due
  <1> QED
    BY <1>2, <1>4, <1>5, <1>6 DEF Settles, new

\* One more message is sent, with entry e.
SentOneMore(all, e, new) ==
    /\ new \in Seq(Entry) /\ new # <<>> /\ Len(new) = Len(all) + 1 /\ new[Len(new)] = e
    /\ Len(all) \in Nat /\ DOMAIN all = 1..Len(all) /\ DOMAIN new = 1..(Len(all) + 1)
    /\ \A t : Keeps(all, new, t)
    /\ \A t : Due(new, t) \subseteq
         Due(all, t) \cup (IF e.outcome \in Recorded /\ e.thread = t THEN {Len(new)} ELSE {})

LEMMA OneMore ==
    ASSUME NEW all \in Seq(Entry), NEW e \in Entry
    PROVE  SentOneMore(all, e, Append(all, e))
  <1> DEFINE new == Append(all, e)
  <1>1. /\ new \in Seq(Entry) /\ new # <<>> /\ Len(new) = Len(all) + 1 /\ new[Len(new)] = e
        /\ Len(all) \in Nat /\ DOMAIN all = 1..Len(all) /\ DOMAIN new = 1..(Len(all) + 1)
        /\ \A m \in DOMAIN all : new[m] = all[m] /\ m \in DOMAIN new
    OBVIOUS
  <1> HIDE DEF new
  <1>2. ASSUME NEW t PROVE Keeps(all, new, t)
    BY <1>1 DEF Keeps
  <1>3. ASSUME NEW t, NEW m \in Due(new, t),
               m # Len(new) \/ ~(e.outcome \in Recorded /\ e.thread = t)
        PROVE  m \in Due(all, t)
    <2>1. m \in DOMAIN new /\ new[m].outcome \in Recorded /\ new[m].kept /\ new[m].thread = t
      BY DEF Due
    <2>2. m # Len(new)
      BY <1>1, <1>3, <2>1
    <2>3. m \in DOMAIN all /\ new[m] = all[m]
      BY <1>1, <2>1, <2>2
    <2> QED
      BY <2>1, <2>3 DEF Due
  <1> QED
    BY <1>1, <1>2, <1>3 DEF SentOneMore, new

(* Entry by entry, what is not of thread t or open stays, and nothing more   *)
(* becomes due.                                                              *)
LEMMA EachEntry ==
    ASSUME NEW all \in Seq(Entry), NEW new, new = [n \in DOMAIN all |-> new[n]],
           \A n \in DOMAIN all : /\ new[n] \in Entry /\ new[n].thread = all[n].thread
                                 /\ new[n].kept => all[n].kept
                                 /\ new[n].outcome \in Recorded => new[n].outcome = all[n].outcome
    PROVE  /\ new \in Seq(Entry) /\ Len(new) = Len(all)
           /\ \A t : Due(new, t) \subseteq Due(all, t)
  <1>1. Len(all) \in Nat /\ DOMAIN all = 1..Len(all)
    OBVIOUS
  <1>2. ASSUME NEW t, NEW n \in Due(new, t) PROVE n \in Due(all, t)
    BY DEF Due
  <1>3. new \in [1..Len(all) -> Entry]
    BY <1>1
  <1>4. new \in Seq(Entry) /\ Len(new) = Len(all)
    BY <1>1, <1>3
  <1> QED
    BY <1>2, <1>4

-----------------------------------------------------------------------------
(* What the steps of a kind have in common.                                  *)
LEMMA NothingSent == \A t : Grows(sent, sent, t)
  BY DEF Grows, Keeps

(* The process ends: only the files are left.                                *)
LEMMA Dying ==
    ASSUME SessionInv, Died, UNCHANGED <<disk, recency>>, sent' \in Seq(Entry),
           \A t \in Threads : Grows(sent, sent', t)
    PROVE  SessionInv'
  <1>1. pc' = "down" /\ record' = Empty(NoThread) /\ loop' = NoTurn /\ goal' = NoGoal
    BY DEF Died
  <1>2. Files' /\ Kept'
    <2>1. pc' \in Working \cup {"prompt", "down"} /\ (pc # "down" \/ pc' = "down")
      BY <1>1
    <2> QED
      BY <1>1, <2>1, FilesStay DEF SessionInv
  <1>3. SessionType'
    BY <1>1 DEF SessionInv, SessionType, IsLoop, IsRecord, Empty, NoTurn, NoGoal
  <1>4. Talking'
    BY <1>1 DEF Talking, AtRest, AllDue, InTurn, LastWord, Waiting, Working, Ended
  <1> QED
    BY <1>2, <1>3, <1>4 DEF SessionInv

(* The turn goes on: messages of the turn may be added, nothing is saved.    *)
LEMMA TurnGoesOn ==
    ASSUME SessionInv, pc \in Working, pc' \in Working, IsLoop(loop'), loop'.turn = loop.turn,
           UNCHANGED <<record, goal, disk, recency, sent>>,
           Of(sent, history', record.id), Formed(sent, history'),
           Turns(history) \subseteq Turns(history'),
           Turns(history') \subseteq Turns(history) \cup {loop.turn}
    PROVE  SessionType' /\ Files' /\ Kept' /\ AtRest' /\ AllDue' /\ InTurn'
  <1>1. pc # "down" /\ pc' # "down" /\ pc' \notin Waiting
    BY DEF Working, Ended, Waiting
  <1>2. Files' /\ Kept'
    <2>1. \A t \in Threads : Grows(sent, sent', t)
      BY NothingSent
    <2> QED
      BY <1>1, <2>1, FilesStay DEF SessionInv, SessionType
  <1>3. SessionType'
    BY <1>1 DEF SessionInv, SessionType
  <1>4. AtRest' /\ AllDue'
    BY <1>1 DEF SessionInv, Talking, AtRest, AllDue
  <1>5. InTurn'
    BY DEF SessionInv, Talking, InTurn
  <1> QED
    BY <1>2, <1>3, <1>4, <1>5

(* The message that the agent loop adds may follow the last one.             *)
LEMMA ReplyForms ==
    ASSUME SessionInv, pc \in {"request", "tools"}, NEW kind \in Kinds, Reply(kind),
           pc = "request" => kind \in {"text", "call"},
           pc = "tools" => kind = "result"
    PROVE  /\ Of(sent, history', record.id) /\ Formed(sent, history')
           /\ Turns(history') = Turns(history) \cup {loop.turn}
           /\ history' # <<>> /\ history'[Len(history')] = Message(kind, loop.turn)
  <1> DEFINE m == Message(kind, loop.turn)
             last == history[Len(history)]
  <1>1. /\ Of(sent, history, record.id) /\ Formed(sent, history)
        /\ sent \in Seq(Entry) /\ sent # <<>> /\ loop.turn = Len(sent)
        /\ sent[loop.turn].thread = record.id
    BY DEF SessionInv, SessionType, Talking, InTurn, Working
  <1>2. loop.turn \in DOMAIN sent /\ loop.turn \in Nat
    BY <1>1
  <1>3. m \in Messages /\ m.turn = loop.turn /\ m.kind = kind
    BY <1>2 DEF Messages, Message
  <1>4. Follows(sent, last, m)
    BY <1>3 DEF SessionInv, Talking, LastWord, Follows
  <1>5. history' = Append(history, m)
    BY DEF Reply
  <1> HIDE DEF m, last
  <1>6. MayAdd(sent, history, record.id, m)
    BY <1>1, <1>2, <1>3, <1>4 DEF MayAdd, last
  <1>7. Adds(sent, history, record.id, m, history')
    BY <1>5, <1>6, AppendForms
  <1> QED
    BY <1>3, <1>7 DEF Adds, m

-----------------------------------------------------------------------------
(* The actions of a turn.                                                    *)

(* The last message of a turn that ended is closed by how it ended.          *)
LEMMA EndedWith ==
    ASSUME pc' \in Ended, loop'.stop \in Stops, loop'.stop \in Recorded => loop'.turn \in Turns(history'),
           history' # <<>> =>
             LET m == history'[Len(history')]
             IN  Closed(m, IF m.turn = loop'.turn THEN loop'.stop ELSE sent'[m.turn].outcome)
    PROVE  LastWord'
  BY DEF LastWord, Ended

LEMMA AnswerStep ==
    ASSUME SessionInv, Answer \/ AnswerCut,
           UNCHANGED <<session, record, autos, goal, files, sent, events>>
    PROVE  SessionInv'
  <1>1. PICK kind \in {"text", "call"}, reason \in {"end_turn", "max_tokens"} :
            /\ pc = "request" /\ Reply(kind) /\ Stop(reason)
            /\ \/ kind = "text" /\ reason = "end_turn"
               \/ kind = "call" /\ reason = "max_tokens"
    BY DEF Answer, AnswerCut
  <1>2. /\ pc' = "returned" /\ loop'.stop = reason /\ loop'.turn = loop.turn /\ IsLoop(loop')
    BY <1>1 DEF Stop, SessionInv, SessionType, IsLoop
  <1>3. /\ Of(sent, history', record.id) /\ Formed(sent, history')
        /\ Turns(history') = Turns(history) \cup {loop.turn}
        /\ history' # <<>> /\ history'[Len(history')] = Message(kind, loop.turn)
    BY <1>1, ReplyForms DEF Kinds
  <1>4. /\ pc \in Working /\ pc' \in Working
        /\ UNCHANGED <<record, goal, disk, recency, sent>>
    BY <1>1, <1>2 DEF Working, Ended, files
  <1>5. SessionType' /\ Files' /\ Kept' /\ AtRest' /\ AllDue' /\ InTurn'
    BY <1>2, <1>3, <1>4, TurnGoesOn
  <1>6. LastWord'
    BY <1>1, <1>2, <1>3, EndedWith DEF Ended, Stops, Closed, LastKinds, Message
  <1> QED
    BY <1>5, <1>6 DEF SessionInv, Talking

LEMMA CallStep ==
    ASSUME SessionInv, CallTools,
           UNCHANGED <<session, record, autos, goal, files, sent, events>>
    PROVE  SessionInv'
  <1>1. pc = "request" /\ Reply("call") /\ pc' = "tools"
    BY DEF CallTools
  <1>2. loop'.turn = loop.turn /\ IsLoop(loop')
    BY DEF CallTools, SessionInv, SessionType, IsLoop
  <1>3. /\ Of(sent, history', record.id) /\ Formed(sent, history')
        /\ Turns(history') = Turns(history) \cup {loop.turn}
        /\ history' # <<>> /\ history'[Len(history')] = Message("call", loop.turn)
    BY <1>1, ReplyForms DEF Kinds
  <1>4. /\ pc \in Working /\ pc' \in Working
        /\ UNCHANGED <<record, goal, disk, recency, sent>>
    BY <1>1 DEF Working, Ended, files
  <1>5. SessionType' /\ Files' /\ Kept' /\ AtRest' /\ AllDue' /\ InTurn'
    BY <1>2, <1>3, <1>4, TurnGoesOn
  <1>6. LastWord'
    BY <1>1, <1>2, <1>3 DEF LastWord, Ended, Message
  <1> QED
    BY <1>5, <1>6 DEF SessionInv, Talking

\* The conversation does not change.
LEMMA SameTalk ==
    ASSUME SessionInv, pc \in Working, history' = history
    PROVE  /\ Of(sent, history', record.id) /\ Formed(sent, history')
           /\ Turns(history) \subseteq Turns(history')
           /\ Turns(history') \subseteq Turns(history) \cup {loop.turn}
  BY DEF SessionInv, Talking, InTurn

LEMMA RateLimitStep ==
    ASSUME SessionInv, RateLimited \/ Refused,
           UNCHANGED <<session, record, autos, goal, files, sent, events>>
    PROVE  SessionInv'
  <1>1. /\ pc = "request" /\ history' = history /\ loop'.turn = loop.turn /\ IsLoop(loop')
        /\ pc' = "request" \/ (pc' = "returned" /\ loop'.stop = "model_error")
    BY DEF RateLimited, Refused, Stop, SessionInv, SessionType, IsLoop
  <1>2. /\ pc \in Working /\ pc' \in Working
        /\ UNCHANGED <<record, goal, disk, recency, sent>>
    BY <1>1 DEF Working, Ended, files
  <1>3. SessionType' /\ Files' /\ Kept' /\ AtRest' /\ AllDue' /\ InTurn'
    BY <1>1, <1>2, SameTalk, TurnGoesOn
  <1>4. /\ history # <<>> /\ history[Len(history)].turn = loop.turn
        /\ history[Len(history)].kind \in {"user", "result"}
    BY <1>1 DEF SessionInv, Talking, LastWord
  <1>5. LastWord'
    BY <1>1, <1>4 DEF LastWord, Ended, Stops, Recorded, Closed, LastKinds
  <1> QED
    BY <1>3, <1>5 DEF SessionInv, Talking

LEMMA ToolStep == ASSUME SessionInv, UseTool PROVE SessionInv'
  <1>1. /\ pc = "tools" /\ RunTool
        /\ UNCHANGED <<record, goal, disk, recency, sent>>
    BY DEF UseTool, RunTool, files
  <1>2. pc \in Working
    BY <1>1 DEF Working
  <1>3. CASE loop.left > 1
    <2>1. /\ pc' = "tools" /\ history' = history /\ loop'.turn = loop.turn /\ IsLoop(loop')
      BY <1>1, <1>3 DEF RunTool, SessionInv, SessionType, IsLoop
    <2>2. pc' \in Working
      BY <2>1 DEF Working
    <2>3. SessionType' /\ Files' /\ Kept' /\ AtRest' /\ AllDue' /\ InTurn'
      BY <1>1, <1>2, <2>1, <2>2, SameTalk, TurnGoesOn
    <2>4. LastWord'
      BY <1>1, <2>1 DEF LastWord, SessionInv, Talking, Ended
    <2> QED
      BY <2>3, <2>4 DEF SessionInv, Talking
  <1>4. CASE ~(loop.left > 1)
    <2>1. /\ Reply("result") /\ loop'.turn = loop.turn /\ IsLoop(loop')
          /\ pc' = "request" \/ (pc' = "returned" /\ loop'.stop = "max_steps")
      BY <1>1, <1>4 DEF RunTool, SessionInv, SessionType, IsLoop
    <2>2. pc' \in Working
      BY <2>1 DEF Working, Ended
    <2>3. /\ Of(sent, history', record.id) /\ Formed(sent, history')
          /\ Turns(history') = Turns(history) \cup {loop.turn}
          /\ history' # <<>> /\ history'[Len(history')] = Message("result", loop.turn)
      BY <1>1, <2>1, ReplyForms DEF Kinds
    <2>4. SessionType' /\ Files' /\ Kept' /\ AtRest' /\ AllDue' /\ InTurn'
      BY <1>1, <1>2, <2>1, <2>2, <2>3, TurnGoesOn
    <2>5. LastWord'
      BY <2>1, <2>3 DEF LastWord, Ended, Stops, Recorded, Closed, LastKinds, Message
    <2> QED
      BY <2>4, <2>5 DEF SessionInv, Talking
  <1> QED
    BY <1>3, <1>4

\* A question and its answer are added.
WithExchange(h, n) == h \o <<Message("user", n), Message("text", n)>>

(* A question and its answer may follow a conversation that is at an end.    *)
LEMMA ExchangeForms ==
    ASSUME NEW all, NEW h, NEW t, Sound(all, h, t), NEW n \in Nat, n \in DOMAIN all,
           all[n].thread = t, n \notin Turns(h)
    PROVE  /\ Adds(all, h, t, Message("text", n), WithExchange(h, n))
           /\ Message("text", n).turn = n /\ Message("text", n).kind = "text"
  <1> DEFINE g == WithExchange(h, n)
             q == Message("user", n)
             a == Message("text", n)
             f == Append(h, q)
  <1>1. q \in Messages /\ q.turn = n /\ q.kind = "user" /\ a \in Messages /\ a.turn = n /\ a.kind = "text"
    BY DEF Message, Messages, Kinds
  <1>2. h \in Seq(Messages) /\ Of(all, h, t) /\ Formed(all, h)
    BY DEF Sound, Of
  <1>3. h # <<>> => Follows(all, h[Len(h)], q)
    <2> SUFFICES ASSUME h # <<>> PROVE Follows(all, h[Len(h)], q)
      OBVIOUS
    <2> DEFINE m == h[Len(h)]
    <2>1. m.turn \in Turns(h) /\ Closed(m, all[m.turn].outcome)
      BY <1>2, ConversationEntries DEF Sound
    <2> HIDE DEF m, q
    <2>2. m.turn # q.turn
      BY <1>1, <2>1
    <2> QED
      BY <2>1, <2>2 DEF Follows, m
  <1>4. g = Append(f, a)
    BY <1>1, <1>2 DEF WithExchange
  <1> HIDE DEF q, a, g
  <1>5. /\ Of(all, f, t) /\ Formed(all, f) /\ Turns(f) = Turns(h) \cup {n}
        /\ f # <<>> /\ f[Len(f)] = q
    <2>1. MayAdd(all, h, t, q)
      BY <1>1, <1>2, <1>3 DEF MayAdd
    <2>2. Adds(all, h, t, q, f)
      BY <2>1, AppendForms
    <2> QED
      BY <1>1, <2>2 DEF Adds
  <1> HIDE DEF f
  <1>6. Follows(all, f[Len(f)], a)
    BY <1>1, <1>5 DEF Follows
  <1>7. /\ Of(all, g, t) /\ Formed(all, g) /\ Turns(g) = Turns(f) \cup {n}
        /\ g # <<>> /\ g[Len(g)] = a
    <2>1. MayAdd(all, f, t, a)
      BY <1>1, <1>5, <1>6 DEF MayAdd
    <2>2. Adds(all, f, t, a, g)
      BY <1>4, <2>1, AppendForms
    <2> QED
      BY <1>1, <2>2 DEF Adds
  <1> QED
    BY <1>1, <1>5, <1>7 DEF Adds, a, g

\* While the headless agent works, the last message is of an earlier turn.
LEMMA BeforeTurn ==
    ASSUME SessionInv, pc = "headless", history # <<>>
    PROVE  LET m == history[Len(history)]
           IN  m.turn # loop.turn /\ Closed(m, sent[m.turn].outcome)
  <1>1. Sound(sent, history, record.id) /\ sent[loop.turn].outcome = "open"
    BY DEF SessionInv, Talking, InTurn, LastWord, Working
  <1>2. history[Len(history)].turn \in Turns(history)
    BY <1>1, ConversationEntries DEF Sound, Of
  <1> QED
    BY <1>1, <1>2 DEF Sound

(* The open turn ends as its last message allows.                            *)
LEMMA TurnSettles ==
    ASSUME SessionInv, pc \in Working, NEW what \in Outcomes \ {"open"},
           Outcome(loop.turn, what),
           history # <<>> =>
             LET m == history[Len(history)]
             IN  Closed(m, IF m.turn = loop.turn THEN what ELSE sent[m.turn].outcome)
    PROVE  /\ Sound(sent', history, record.id)
           /\ sent' \in Seq(Entry)
           /\ loop.turn \in DOMAIN sent' /\ loop.turn \in Nat
           /\ sent'[loop.turn].thread = record.id /\ sent'[loop.turn].outcome = what
           /\ \A t : Keeps(sent, sent', t)
           /\ \A t : Due(sent', t) \subseteq
                Due(sent, t) \cup (IF what \in Recorded /\ record.id = t THEN {loop.turn} ELSE {})
  <1> DEFINE n == loop.turn
  <1>1. /\ Of(sent, history, record.id) /\ Formed(sent, history)
        /\ sent \in Seq(Entry) /\ sent # <<>> /\ n = Len(sent)
        /\ sent[n].thread = record.id /\ sent[n].outcome = "open"
        /\ \A k \in Turns(history) : k # n => sent[k].outcome # "open"
    BY DEF SessionInv, SessionType, Talking, InTurn, Working
  <1>2. n \in DOMAIN sent /\ n \in Nat /\ DOMAIN sent = 1..Len(sent)
    BY <1>1
  <1>3. sent' = [sent EXCEPT ![n].outcome = what]
    BY DEF Outcome
  <1> HIDE DEF n
  <1>4. /\ sent' \in Seq(Entry) /\ Len(sent') = Len(sent)
        /\ sent'[n].outcome = what /\ sent'[n].thread = record.id
        /\ \A m \in DOMAIN sent : m # n => sent'[m] = sent[m]
        /\ \A t : Keeps(sent, sent', t)
        /\ \A t : Due(sent', t) \subseteq
             Due(sent, t) \cup (IF what \in Recorded /\ record.id = t THEN {n} ELSE {})
    <2>1. Settles(sent, n, what, sent')
      BY <1>1, <1>2, <1>3, OneOutcome DEF WithOutcome
    <2> QED
      BY <1>1, <2>1 DEF Settles
  <1>5. Of(sent', history, record.id) /\ Formed(sent', history)
    BY <1>1, <1>4, FormedStays
  <1>6. \A k \in Turns(history) : k # n => k \in DOMAIN sent /\ sent'[k] = sent[k]
    BY <1>1, <1>4 DEF Of
  <1>7. \A k \in Turns(history) : sent'[k].outcome # "open"
    BY <1>1, <1>4, <1>6
  <1>8. ASSUME history # <<>>
        PROVE  Closed(history[Len(history)], sent'[history[Len(history)].turn].outcome)
    <2>1. history[Len(history)].turn \in Turns(history)
      BY <1>1, <1>8, ConversationEntries DEF Of
    <2> QED
      BY <1>4, <1>6, <1>8, <2>1 DEF n
  <1>9. n \in DOMAIN sent'
    BY <1>2, <1>4
  <1> QED
    BY <1>2, <1>4, <1>5, <1>7, <1>8, <1>9 DEF Sound, n

LEMMA InterruptStep == ASSUME SessionInv, Interrupt PROVE SessionInv'
  <1>1. /\ pc \in {"request", "tools", "headless"} /\ pc' = "prompt" /\ history' = history
        /\ loop' = NoTurn /\ Outcome(loop.turn, "interrupted")
        /\ UNCHANGED <<record, goal, disk, recency>>
    BY DEF Interrupt, Leave, session, files
  <1>2. pc \in Working /\ pc # "down"
    BY <1>1 DEF Working
  <1>3. ASSUME history # <<>>
        PROVE  LET m == history[Len(history)]
               IN  Closed(m, IF m.turn = loop.turn THEN "interrupted" ELSE sent[m.turn].outcome)
    <2>1. CASE pc = "headless"
      BY <1>3, <2>1, BeforeTurn
    <2>2. CASE pc # "headless"
      BY <1>1, <2>2 DEF SessionInv, Talking, LastWord, Closed, LastKinds
    <2> QED
      BY <2>1, <2>2
  <1>4. "interrupted" \in Outcomes \ {"open"} /\ "interrupted" \notin Recorded
    BY DEF Outcomes, Recorded
  <1>5. /\ Sound(sent', history, record.id) /\ sent' \in Seq(Entry)
        /\ \A t : Keeps(sent, sent', t)
        /\ \A t : Due(sent', t) \subseteq Due(sent, t)
    <2> HIDE DEF SessionInv
    <2> QED
      BY <1>1, <1>2, <1>3, <1>4, TurnSettles
  <1>6. Files' /\ Kept'
    BY <1>1, <1>2, <1>5, FilesStay DEF SessionInv, SessionType, Grows
  <1>7. SessionType'
    BY <1>1, <1>2, <1>5 DEF SessionInv, SessionType, IsLoop, NoTurn, Waiting
  <1>8. Due(sent', record.id) \subseteq Turns(history)
    BY <1>2, <1>5 DEF SessionInv, Talking, AllDue
  <1>9. Talking'
    BY <1>1, <1>5, <1>8 DEF Talking, AtRest, AllDue, InTurn, LastWord, Waiting, Working, Ended
  <1> QED
    BY <1>6, <1>7, <1>9 DEF SessionInv

LEMMA HeadlessFails == ASSUME SessionInv, HeadlessUnavailable PROVE SessionInv'
  <1>1. /\ pc = "headless" /\ pc' = "judging" /\ history' = history
        /\ loop'.turn = loop.turn /\ loop'.stop = "model_error" /\ IsLoop(loop')
        /\ UNCHANGED <<record, goal, disk, recency, sent>>
    BY DEF HeadlessUnavailable, SessionInv, SessionType, IsLoop, session, files
  <1>2. pc \in Working /\ pc' \in Working /\ pc' \in Ended
    BY <1>1 DEF Working, Ended
  <1>3. SessionType' /\ Files' /\ Kept' /\ AtRest' /\ AllDue' /\ InTurn'
    BY <1>1, <1>2, SameTalk, TurnGoesOn
  <1>4. LastWord'
    <2>1. history # <<>> => LET m == history[Len(history)]
                            IN  m.turn # loop.turn /\ Closed(m, sent[m.turn].outcome)
      BY <1>1, BeforeTurn
    <2> QED
      BY <1>1, <1>2, <2>1, EndedWith DEF Stops, Recorded
  <1> QED
    BY <1>3, <1>4 DEF SessionInv, Talking

LEMMA HeadlessStep == ASSUME SessionInv, HeadlessAnswers PROVE SessionInv'
  <1>1. /\ pc = "headless" /\ pc' = "returned"
        /\ loop'.turn = loop.turn /\ loop'.stop \in {"end_turn", "model_error"} /\ IsLoop(loop')
        /\ history' = IF loop'.stop = "model_error" THEN history
                      ELSE history \o <<Message("user", loop.turn), Message("text", loop.turn)>>
        /\ UNCHANGED <<record, goal, disk, recency, sent>>
    BY DEF HeadlessAnswers, SessionInv, SessionType, IsLoop, files
  <1>2. pc \in Working /\ pc' \in Working /\ pc' \in Ended
    BY <1>1 DEF Working, Ended
  <1>3. Sound(sent, history, record.id)
    BY <1>1 DEF SessionInv, Talking, LastWord
  <1>4. CASE loop'.stop = "model_error"
    <2>1. SessionType' /\ Files' /\ Kept' /\ AtRest' /\ AllDue' /\ InTurn'
      BY <1>1, <1>2, <1>4, SameTalk, TurnGoesOn
    <2>2. LastWord'
      <3>1. history # <<>> => LET m == history[Len(history)]
                              IN  m.turn # loop.turn /\ Closed(m, sent[m.turn].outcome)
        BY <1>1, BeforeTurn
      <3> QED
        BY <1>1, <1>2, <1>4, <3>1, EndedWith DEF Stops, Recorded
    <2> QED
      BY <2>1, <2>2 DEF SessionInv, Talking
  <1>5. CASE loop'.stop = "end_turn"
    <2>1. /\ loop.turn \in DOMAIN sent /\ loop.turn \in Nat
          /\ sent[loop.turn].thread = record.id /\ loop.turn \notin Turns(history)
      <3>1. /\ sent \in Seq(Entry) /\ sent # <<>> /\ loop.turn = Len(sent)
            /\ sent[loop.turn].thread = record.id /\ sent[loop.turn].outcome = "open"
        BY <1>2 DEF SessionInv, SessionType, Talking, InTurn
      <3> QED
        BY <1>3, <3>1 DEF Sound
    <2>2. /\ Of(sent, history', record.id) /\ Formed(sent, history')
          /\ Turns(history') = Turns(history) \cup {loop.turn}
          /\ history' # <<>> /\ history'[Len(history')] = Message("text", loop.turn)
      <3>1. history' = WithExchange(history, loop.turn)
        BY <1>1, <1>5 DEF WithExchange
      <3>2. /\ Adds(sent, history, record.id, Message("text", loop.turn),
                    WithExchange(history, loop.turn))
            /\ Message("text", loop.turn).turn = loop.turn
        BY <1>3, <2>1, ExchangeForms
      <3> QED
        BY <3>1, <3>2 DEF Adds
    <2>3. SessionType' /\ Files' /\ Kept' /\ AtRest' /\ AllDue' /\ InTurn'
      <3>1. /\ Turns(history) \subseteq Turns(history')
            /\ Turns(history') \subseteq Turns(history) \cup {loop.turn}
        BY <2>2
      <3>2. IsLoop(loop') /\ loop'.turn = loop.turn
            /\ UNCHANGED <<record, goal, disk, recency, sent>>
        BY <1>1
      <3> QED
        BY <1>2, <2>2, <3>1, <3>2, TurnGoesOn
    <2>4. LastWord'
      <3> DEFINE m == history'[Len(history')]
      <3>1. loop'.turn = loop.turn
        BY <1>1
      <3>2. m.kind = "text" /\ loop'.turn \in Turns(history')
        BY <2>2, <3>1 DEF Message
      <3>3. pc' = "returned" /\ loop'.stop \in Stops
        BY <1>1, <1>5 DEF Stops
      <3>4. m.turn = loop'.turn /\ Closed(m, loop'.stop)
        BY <1>5, <2>2, <3>1 DEF Closed, LastKinds, Message
      <3> QED
        BY <3>2, <3>3, <3>4 DEF LastWord
    <2> QED
      BY <2>3, <2>4 DEF SessionInv, Talking
  <1> QED
    BY <1>1, <1>4, <1>5

\* The commands and the judges at work: the conversation does not change.
LEMMA AfterTurn == ASSUME SessionInv, Flush \/ Judge PROVE SessionInv'
  <1>1. /\ pc \in Ended /\ pc' \in Ended /\ history' = history /\ loop' = loop
        /\ UNCHANGED <<record, goal, disk, recency, sent>>
    BY DEF Flush, Judge, Ended
  <1>2. pc \in Working /\ pc' \in Working /\ IsLoop(loop') /\ loop'.turn = loop.turn
    BY <1>1 DEF Working, SessionInv, SessionType
  <1>3. SessionType' /\ Files' /\ Kept' /\ AtRest' /\ AllDue' /\ InTurn'
    BY <1>1, <1>2, SameTalk, TurnGoesOn
  <1>4. LastWord'
    BY <1>1, EndedWith DEF SessionInv, Talking, LastWord
  <1> QED
    BY <1>3, <1>4 DEF SessionInv, Talking

LEMMA NothingGrows == ASSUME \A t : Keeps(sent, sent', t), \A t : Due(sent', t) \subseteq Due(sent, t)
                      PROVE  \A t \in Threads : Grows(sent, sent', t)
  BY DEF Grows

LEMMA JudgeInterrupted == ASSUME SessionInv, InterruptJudge PROVE SessionInv'
  <1>1. /\ pc \in Working /\ Died /\ UNCHANGED <<disk, recency>>
        /\ Outcome(loop.turn, "interrupted")
    BY DEF InterruptJudge, files, Working, Ended
  <1>2. /\ sent \in Seq(Entry) /\ sent # <<>> /\ loop.turn = Len(sent)
        /\ sent[loop.turn].outcome = "open"
    BY <1>1 DEF SessionInv, SessionType, Talking, InTurn
  <1>3. /\ loop.turn \in DOMAIN sent /\ "interrupted" \in Outcomes \ {"open"}
        /\ "interrupted" \notin Recorded
    BY <1>2 DEF Outcomes, Recorded
  <1>4. Settles(sent, loop.turn, "interrupted", sent')
    <2>1. sent' = WithOutcome(sent, loop.turn, "interrupted")
      BY <1>1 DEF Outcome, WithOutcome
    <2> QED
      BY <1>2, <1>3, <2>1, OneOutcome
  <1>5. sent' \in Seq(Entry) /\ \A t \in Threads : Grows(sent, sent', t)
    BY <1>3, <1>4 DEF Settles, Grows
  <1> QED
    BY <1>1, <1>5, Dying

LEMMA CrashStep == ASSUME SessionInv, Crash PROVE SessionInv'
  <1> DEFINE New(i) == IF sent[i].outcome = "open"
                       THEN [sent[i] EXCEPT !.outcome = "interrupted"] ELSE sent[i]
  <1>1. /\ Died /\ UNCHANGED <<disk, recency>>
        /\ sent' = [i \in DOMAIN sent |-> New(i)]
    BY DEF Crash, files
  <1>2. sent \in Seq(Entry)
    BY DEF SessionInv, SessionType
  <1>3. ASSUME NEW i \in DOMAIN sent
        PROVE  /\ New(i) \in Entry /\ New(i).thread = sent[i].thread
               /\ New(i).kept => sent[i].kept
               /\ New(i).outcome \in Recorded => New(i).outcome = sent[i].outcome
               /\ sent[i].outcome # "open" => New(i).outcome = sent[i].outcome
    <2>1. sent[i] \in Entry
      BY <1>2
    <2> QED
      BY <2>1 DEF Entry, Outcomes, Recorded
  <1> HIDE DEF New
  <1>4. /\ sent' = [i \in DOMAIN sent |-> sent'[i]]
        /\ \A i \in DOMAIN sent : sent'[i] = New(i) /\ i \in DOMAIN sent'
    BY <1>1
  <1>5. /\ sent' \in Seq(Entry)
        /\ \A t : Due(sent', t) \subseteq Due(sent, t)
    <2>1. \A i \in DOMAIN sent :
              /\ sent'[i] \in Entry /\ sent'[i].thread = sent[i].thread
              /\ sent'[i].kept => sent[i].kept
              /\ sent'[i].outcome \in Recorded => sent'[i].outcome = sent[i].outcome
      BY <1>3, <1>4
    <2> QED
      BY <1>2, <1>4, <2>1, EachEntry
  <1>6. \A t : Keeps(sent, sent', t)
    BY <1>3, <1>4 DEF Keeps
  <1> QED
    BY <1>1, <1>5, <1>6, NothingGrows, Dying

-----------------------------------------------------------------------------
(* The actions that save.                                                    *)

\* The record r may be saved as things are then.
MaySave(r) ==
    /\ IsRecord(r) /\ r.id \in Threads
    /\ Sound(sent', r.history, r.id) /\ Done(sent', r.turns, r.id)
    /\ Due(sent', r.id) \subseteq Turns(r.history)
    /\ sent' \in Seq(Entry) /\ \A t \in Threads \ {r.id} : Grows(sent, sent', t)
    /\ Sound(sent', history', r.id) /\ Due(sent', r.id) \subseteq Turns(history')
    /\ IsLoop(loop')

LEMMA Saving ==
    ASSUME SessionInv, pc \notin {"down", "saving"}, NEW r, MaySave(r),
           NEW do \in {"prompt", "continue", "new", "switch", "pick", "exit"}, NEW to,
           SaveAs(r, do, to),
           do = "switch" => to \in ToSet(recency),
           do = "pick" => to \in DOMAIN recency
    PROVE  SessionInv'
  <1>1. /\ Files' /\ Kept'
        /\ pc' = "saving" /\ record' = r
        /\ goal' = [do |-> do, thread |-> to] /\ DOMAIN disk' = Threads
    <2>1. SessionType /\ Files /\ Kept
      BY DEF SessionInv
    <2> QED
      BY <2>1, SaveBegins DEF MaySave
  <1>2. SessionType'
    BY <1>1 DEF MaySave, SessionType, Waiting
  <1>3. Talking'
    BY <1>1 DEF MaySave, Talking, AtRest, AllDue, InTurn, LastWord, Waiting, Working, Ended
  <1> QED
    BY <1>1, <1>2, <1>3 DEF SessionInv

LEMMA RecordParts ==
    ASSUME IsRecord(record), NEW n, NEW ids
    PROVE  /\ IsRecord(WithHistory) /\ WithHistory.id = record.id
           /\ WithHistory.turns = record.turns /\ WithHistory.history = history
           /\ IsRecord(WithTurn(n, ids)) /\ WithTurn(n, ids).id = record.id
           /\ WithTurn(n, ids).turns = Append(record.turns, n)
           /\ WithTurn(n, ids).history = history
  <1>1. /\ IsRecord(WithHistory) /\ WithHistory.id = record.id
        /\ WithHistory.turns = record.turns /\ WithHistory.history = history
    BY DEF IsRecord, WithHistory
  <1> DEFINE w == WithHistory
             r == WithTurn(n, ids)
  <1>2. /\ w = [id |-> w.id, turns |-> w.turns, history |-> w.history, harvested |-> w.harvested]
        /\ r = [w EXCEPT !.turns = Append(@, n), !.harvested = @ \cup ids]
    BY <1>1 DEF IsRecord, WithTurn
  <1> HIDE DEF w, r
  <1>3. r = [id |-> w.id, turns |-> Append(w.turns, n), history |-> w.history,
             harvested |-> w.harvested \cup ids]
    BY <1>2
  <1>4. IsRecord(r) /\ r.id = w.id /\ r.turns = Append(w.turns, n) /\ r.history = w.history
    BY <1>3 DEF IsRecord
  <1> QED
    BY <1>1, <1>4 DEF w, r

LEMMA DoneMore ==
    ASSUME NEW all, NEW turns, NEW t, Done(all, turns, t), NEW n \in Nat,
           n \in DOMAIN all, all[n].thread = t, all[n].outcome \notin {"open", "interrupted"}
    PROVE  Done(all, Append(turns, n), t)
  <1> DEFINE more == Append(turns, n)
  <1>1. turns \in Seq(Nat)
    BY DEF Done
  <1>2. /\ more \in Seq(Nat) /\ DOMAIN more = 1..(Len(turns) + 1) /\ Len(turns) \in Nat
        /\ DOMAIN turns = 1..Len(turns)
        /\ \A i \in 1..Len(turns) : more[i] = turns[i]
        /\ more[Len(turns) + 1] = n
    BY <1>1
  <1> HIDE DEF more
  <1>3. ASSUME NEW i \in DOMAIN more
        PROVE  more[i] = n \/ more[i] \in Range(turns)
    <2>1. i \in 1..Len(turns) \/ i = Len(turns) + 1
      BY <1>2
    <2> QED
      BY <1>2, <2>1 DEF Range
  <1>4. Range(more) \subseteq Range(turns) \cup {n}
    BY <1>3 DEF Range
  <1> QED
    BY <1>2, <1>4 DEF Done, more

LEMMA RecordStep == ASSUME SessionInv, RecordTurn PROVE SessionInv'
  <1> DEFINE n == loop.turn
             r == WithTurn(n, flushed)
             do == IF loop.stop = "max_steps" /\ autos < MaxAutoContinue
                   THEN "continue" ELSE "prompt"
  <1>1. /\ pc = "recording" /\ Outcome(n, loop.stop) /\ history' = history /\ loop' = loop
        /\ SaveAs(r, do, NoThread)
    BY DEF RecordTurn
  <1>2. /\ pc \in Working /\ pc \in Ended
    BY <1>1 DEF Working, Ended
  <1>3. /\ loop.stop \in Outcomes \ {"open"} /\ loop.stop # "interrupted"
        /\ loop.stop \in Recorded => n \in Turns(history)
        /\ history # <<>> =>
             LET m == history[Len(history)]
             IN  Closed(m, IF m.turn = n THEN loop.stop ELSE sent[m.turn].outcome)
    BY <1>2 DEF SessionInv, Talking, LastWord, Stops, Outcomes
  <1>4. /\ Sound(sent', history, record.id) /\ sent' \in Seq(Entry)
        /\ n \in DOMAIN sent' /\ n \in Nat
        /\ sent'[n].thread = record.id /\ sent'[n].outcome = loop.stop
        /\ \A t : Keeps(sent, sent', t)
        /\ \A t : Due(sent', t) \subseteq
             Due(sent, t) \cup (IF loop.stop \in Recorded /\ record.id = t THEN {n} ELSE {})
    BY <1>1, <1>2, <1>3, TurnSettles
  <1>5. /\ IsRecord(record) /\ record.id \in Threads /\ IsLoop(loop)
        /\ Done(sent, record.turns, record.id)
        /\ Due(sent, record.id) \subseteq Turns(history)
    BY <1>1, <1>2 DEF SessionInv, SessionType, Kept, Talking, AllDue
  <1>6. /\ IsRecord(r) /\ r.id = record.id /\ r.history = history
        /\ r.turns = Append(record.turns, n)
    BY <1>5, RecordParts
  <1>7. Done(sent', r.turns, record.id)
    <2>1. Done(sent', record.turns, record.id)
      BY <1>4, <1>5, DoneStays
    <2>2. sent'[n].outcome \notin {"open", "interrupted"}
      BY <1>3, <1>4
    <2> HIDE DEF n, r
    <2>3. Done(sent', Append(record.turns, n), record.id)
      BY <1>4, <2>1, <2>2, DoneMore
    <2> QED
      BY <1>6, <2>3
  <1>8. do \in {"prompt", "continue", "new", "switch", "pick", "exit"} /\ do \notin {"switch", "pick"}
    OBVIOUS
  <1> HIDE DEF n, r, do
  <1>9. \A t \in Threads \ {r.id} : Grows(sent, sent', t)
    BY <1>4, <1>6 DEF Grows
  <1>10. Due(sent', record.id) \subseteq Turns(history)
    BY <1>3, <1>4, <1>5
  <1>11. MaySave(r)
    BY <1>1, <1>4, <1>5, <1>6, <1>7, <1>9, <1>10 DEF MaySave
  <1> QED
    BY <1>1, <1>8, <1>11, Saving

\* Between turns the record with the conversation may be saved.
LEMMA RestMaySave ==
    ASSUME SessionInv, pc \in Waiting \ {"saving"}, sent' = sent, history' = history,
           loop' = loop
    PROVE  MaySave(WithHistory)
  <1>1. pc # "down"
    BY DEF Waiting
  <1>2. /\ IsRecord(record) /\ record.id \in Threads /\ IsLoop(loop) /\ sent \in Seq(Entry)
        /\ Done(sent, record.turns, record.id)
        /\ Due(sent, record.id) \subseteq Turns(history)
        /\ Sound(sent, history, record.id)
    BY <1>1 DEF SessionInv, SessionType, Kept, Talking, AllDue, AtRest
  <1>3. /\ IsRecord(WithHistory) /\ WithHistory.id = record.id
        /\ WithHistory.turns = record.turns /\ WithHistory.history = history
    BY <1>2, RecordParts
  <1>4. \A t : Grows(sent, sent', t)
    BY NothingSent
  <1> QED
    BY <1>2, <1>3, <1>4 DEF MaySave

LEMMA SaveSteps == ASSUME SessionInv, Save \/ AskThread \/ Exit PROVE SessionInv'
  <1>1. /\ pc = "prompt" /\ sent' = sent /\ history' = history /\ loop' = loop
    BY DEF Save, AskThread, Exit, Command, Prompting
  <1>2. pc \in Waiting \ {"saving"} /\ pc \notin {"down", "saving"}
    BY <1>1 DEF Waiting
  <1>3. MaySave(WithHistory)
    BY <1>1, <1>2, RestMaySave
  <1>4. PICK do \in {"prompt", "continue", "new", "switch", "pick", "exit"} : \E to :
            /\ SaveAs(WithHistory, do, to)
            /\ do = "switch" => to \in ToSet(recency)
            /\ do = "pick" => to \in DOMAIN recency
    <2>1. CASE Save
      BY <2>1 DEF Save
    <2>2. CASE Exit
      BY <2>2 DEF Exit
    <2>3. CASE AskThread
      BY <2>3 DEF AskThread
    <2> QED
      BY <2>1, <2>2, <2>3
  <1> QED
    BY <1>2, <1>3, <1>4, Saving

\* A thread that nobody used yet.
LEMMA UnusedIsEmpty ==
    ASSUME SessionInv, NEW t \in Unused
    PROVE  t \in Threads /\ t # record.id /\ disk[t] = NoFile /\ Due(sent, t) = {}
  BY DEF SessionInv, Kept, FileKept, Unused, NoFile, TornFile

LEMMA NewThreadStep == ASSUME SessionInv, NewThread PROVE SessionInv'
  <1>1. PICK t \in Unused : SaveAs(Empty(t), "prompt", NoThread)
    BY DEF NewThread
  <1>2. /\ pc = "new" /\ history' = <<>> /\ loop' = loop /\ sent' = sent
    BY DEF NewThread
  <1>3. t \in Threads /\ Due(sent, t) = {}
    BY UnusedIsEmpty
  <1>4. /\ IsRecord(Empty(t)) /\ Empty(t).id = t /\ Empty(t).turns = <<>>
        /\ Empty(t).history = <<>>
    BY DEF IsRecord, Empty
  <1>5. Sound(sent, <<>>, t) /\ Done(sent, <<>>, t)
    BY NothingIsSound
  <1>6. sent \in Seq(Entry) /\ IsLoop(loop) /\ \A u : Grows(sent, sent', u)
    BY <1>2, NothingSent DEF SessionInv, SessionType
  <1>7. MaySave(Empty(t))
    BY <1>2, <1>3, <1>4, <1>5, <1>6 DEF MaySave
  <1> QED
    BY <1>1, <1>2, <1>7, Saving

LEMMA ResetStep == ASSUME SessionInv, Reset PROVE SessionInv'
  <1> DEFINE New(i) == IF sent[i].thread = record.id
                       THEN [sent[i] EXCEPT !.outcome = "cleared"] ELSE sent[i]
  <1>1. /\ pc = "prompt" /\ history' = <<>> /\ loop' = loop
        /\ sent' = [i \in DOMAIN sent |-> New(i)]
    BY DEF Reset, Command, Prompting
  <1>2. PICK r : /\ r = [record EXCEPT !.turns = <<>>, !.history = <<>>]
                 /\ SaveAs(r, "prompt", NoThread)
    BY DEF Reset
  <1>3. sent \in Seq(Entry) /\ IsRecord(record) /\ record.id \in Threads /\ IsLoop(loop)
    BY <1>1 DEF SessionInv, SessionType
  <1>4. IsRecord(r) /\ r.id = record.id /\ r.turns = <<>> /\ r.history = <<>>
    BY <1>2, <1>3 DEF IsRecord
  <1>5. ASSUME NEW i \in DOMAIN sent
        PROVE  /\ New(i) \in Entry /\ New(i).thread = sent[i].thread
               /\ New(i).kept => sent[i].kept
               /\ New(i).outcome \in Recorded => New(i).outcome = sent[i].outcome
               /\ sent[i].thread # record.id => New(i) = sent[i]
               /\ sent[i].thread = record.id => New(i).outcome \notin Recorded
    <2>1. sent[i] \in Entry
      BY <1>3
    <2> QED
      BY <2>1 DEF Entry, Outcomes, Recorded
  <1> HIDE DEF New
  <1>6. /\ sent' = [i \in DOMAIN sent |-> sent'[i]]
        /\ \A i \in DOMAIN sent : sent'[i] = New(i) /\ i \in DOMAIN sent'
        /\ DOMAIN sent' = DOMAIN sent
    BY <1>1
  <1>7. sent' \in Seq(Entry) /\ \A t : Due(sent', t) \subseteq Due(sent, t)
    <2>1. \A i \in DOMAIN sent :
              /\ sent'[i] \in Entry /\ sent'[i].thread = sent[i].thread
              /\ sent'[i].kept => sent[i].kept
              /\ sent'[i].outcome \in Recorded => sent'[i].outcome = sent[i].outcome
      BY <1>5, <1>6
    <2> QED
      BY <1>3, <1>6, <2>1, EachEntry
  <1>8. \A t \in Threads \ {r.id} : Grows(sent, sent', t)
    BY <1>4, <1>5, <1>6, <1>7 DEF Grows, Keeps
  <1>9. Due(sent', record.id) = {}
    BY <1>5, <1>6 DEF Due
  <1>10. Sound(sent', <<>>, record.id) /\ Done(sent', <<>>, record.id)
    BY NothingIsSound
  <1>11. MaySave(r)
    BY <1>1, <1>3, <1>4, <1>7, <1>8, <1>9, <1>10 DEF MaySave
  <1> QED
    BY <1>1, <1>2, <1>11, Saving

LEMMA DelegateStep == ASSUME SessionInv, Delegate PROVE SessionInv'
  <1> DEFINE n == Len(sent) + 1
             g == WithExchange(history, n)
             w == WithTurn(n, {})
  <1>1. /\ pc = "prompt" /\ loop' = loop /\ history' = g
    BY DEF Delegate, Command, Prompting, WithExchange
  <1>2. PICK outcome \in {"end_turn", "model_error"} :
            sent' = Append(sent, [thread |-> record.id, outcome |-> outcome, kept |-> TRUE])
    BY DEF Delegate
  <1>3. PICK r : /\ r = [w EXCEPT !.history = g]
                 /\ SaveAs(r, "prompt", NoThread)
    BY DEF Delegate, WithExchange
  <1>4. /\ sent \in Seq(Entry) /\ IsRecord(record) /\ record.id \in Threads /\ IsLoop(loop)
        /\ Done(sent, record.turns, record.id)
        /\ Due(sent, record.id) \subseteq Turns(history)
        /\ Sound(sent, history, record.id)
    BY <1>1 DEF SessionInv, SessionType, Kept, Talking, AllDue, AtRest, Waiting
  <1> DEFINE e == [thread |-> record.id, outcome |-> outcome, kept |-> TRUE]
  <1>5. e \in Entry /\ e.thread = record.id /\ e.outcome = outcome
        /\ outcome \notin {"open", "interrupted"}
    BY <1>4 DEF Entry, Outcomes, Stops
  <1> HIDE DEF e
  <1>6. /\ sent' \in Seq(Entry) /\ Len(sent') = n /\ sent'[n] = e
        /\ n \in Nat /\ n \in DOMAIN sent' /\ n \notin DOMAIN sent
        /\ \A t : Keeps(sent, sent', t)
        /\ \A t : Due(sent', t) \subseteq
             Due(sent, t) \cup (IF e.outcome \in Recorded /\ e.thread = t THEN {n} ELSE {})
    <2>1. sent' = Append(sent, e)
      BY <1>2 DEF e
    <2>2. SentOneMore(sent, e, sent')
      BY <1>4, <1>5, <2>1, OneMore
    <2> QED
      BY <2>2 DEF SentOneMore
  <1>7. /\ IsRecord(w) /\ w.id = record.id /\ w.turns = Append(record.turns, n)
    BY <1>4, RecordParts
  <1> HIDE DEF n, g, w
  <1>8. IsRecord(r) /\ r.id = record.id /\ r.turns = Append(record.turns, n) /\ r.history = g
    BY <1>3, <1>7 DEF IsRecord
  <1>9. Sound(sent', history, record.id) /\ Done(sent', record.turns, record.id)
    BY <1>4, <1>6, SoundStays, DoneStays
  <1>10. n \notin Turns(history)
    BY <1>4, <1>6 DEF Sound, Of
  <1>11. sent'[n].thread = record.id /\ sent'[n].outcome = outcome
    BY <1>5, <1>6
  <1>12. /\ Adds(sent', history, record.id, Message("text", n), g)
         /\ Message("text", n).turn = n /\ Message("text", n).kind = "text"
    BY <1>6, <1>9, <1>10, <1>11, ExchangeForms DEF g
  <1>13. Sound(sent', g, record.id) /\ Turns(g) = Turns(history) \cup {n}
    <2>1. \A k \in Turns(history) : sent'[k].outcome # "open"
      BY <1>9 DEF Sound
    <2> QED
      BY <1>5, <1>11, <1>12, <2>1 DEF Adds, Sound, Closed, LastKinds
  <1>14. Done(sent', r.turns, record.id)
    <2>1. Done(sent', Append(record.turns, n), record.id)
      BY <1>5, <1>6, <1>9, <1>11, DoneMore
    <2> QED
      BY <1>8, <2>1
  <1>15. Due(sent', record.id) \subseteq Turns(g)
    BY <1>4, <1>6, <1>13
  <1>16. \A t \in Threads \ {r.id} : Grows(sent, sent', t)
    BY <1>5, <1>6, <1>8 DEF Grows
  <1>17. MaySave(r)
    BY <1>1, <1>4, <1>6, <1>8, <1>13, <1>14, <1>15, <1>16 DEF MaySave
  <1> QED
    BY <1>1, <1>3, <1>17, Saving

LEMMA ReportStep == ASSUME SessionInv, Report PROVE SessionInv'
  <1> DEFINE Forgets(i) == ~(sent[i].thread = record.id /\ i \in Completed
                             => i \in Turns(record.history))
             New(i) == [sent[i] EXCEPT !.kept =
                          @ /\ (sent[i].thread = record.id /\ i \in Completed
                                => i \in Turns(record.history))]
  <1>1. /\ pc = "prompt" /\ history' = history /\ loop' = loop
        /\ sent' = [i \in DOMAIN sent |-> New(i)]
    BY DEF Report, Command, Prompting
  <1>2. PICK id, r : /\ r = [record EXCEPT !.harvested = @ \cup {id}]
                     /\ SaveAs(r, "prompt", NoThread)
    BY DEF Report
  <1>3. /\ sent \in Seq(Entry) /\ IsRecord(record) /\ record.id \in Threads /\ IsLoop(loop)
        /\ Sound(sent, record.history, record.id) /\ Done(sent, record.turns, record.id)
        /\ Due(sent, record.id) \subseteq Turns(history)
        /\ Sound(sent, history, record.id)
    BY <1>1 DEF SessionInv, SessionType, Kept, Talking, AllDue, AtRest, Waiting
  <1>4. /\ IsRecord(r) /\ r.id = record.id /\ r.turns = record.turns
        /\ r.history = record.history
    BY <1>2, <1>3 DEF IsRecord
  <1>5. ASSUME NEW i \in DOMAIN sent
        PROVE  /\ New(i) \in Entry /\ New(i).thread = sent[i].thread
               /\ New(i).outcome = sent[i].outcome
               /\ New(i).kept => sent[i].kept
               /\ New(i).kept => ~Forgets(i)
    <2> DEFINE k == sent[i].kept /\ (sent[i].thread = record.id /\ i \in Completed
                                     => i \in Turns(record.history))
    <2>1. sent[i] \in Entry /\ k \in BOOLEAN
      BY <1>3
    <2>2. New(i) = [sent[i] EXCEPT !.kept = k]
      OBVIOUS
    <2> HIDE DEF k, New
    <2>3. New(i) \in Entry /\ New(i).thread = sent[i].thread /\ New(i).outcome = sent[i].outcome
          /\ New(i).kept = k
      BY <2>1, <2>2 DEF Entry
    <2>4. k => sent[i].kept /\ ~Forgets(i)
      BY DEF k
    <2> HIDE DEF Forgets
    <2> QED
      BY <2>3, <2>4
  <1> HIDE DEF New
  <1>6. /\ sent' = [i \in DOMAIN sent |-> sent'[i]]
        /\ \A i \in DOMAIN sent : sent'[i] = New(i) /\ i \in DOMAIN sent'
        /\ DOMAIN sent' = DOMAIN sent
    BY <1>1
  <1>7. sent' \in Seq(Entry) /\ \A t : Due(sent', t) \subseteq Due(sent, t)
    <2>1. \A i \in DOMAIN sent :
              /\ sent'[i] \in Entry /\ sent'[i].thread = sent[i].thread
              /\ sent'[i].kept => sent[i].kept
              /\ sent'[i].outcome \in Recorded => sent'[i].outcome = sent[i].outcome
      BY <1>5, <1>6
    <2> QED
      BY <1>3, <1>6, <2>1, EachEntry
  <1>8. \A t : Keeps(sent, sent', t)
    BY <1>5, <1>6 DEF Keeps
  <1>9. Due(sent', record.id) \subseteq Turns(record.history)
    <2> SUFFICES ASSUME NEW i \in Due(sent', record.id) PROVE i \in Turns(record.history)
      OBVIOUS
    <2>1. i \in DOMAIN sent /\ sent'[i].kept /\ sent'[i].outcome \in Recorded /\ sent'[i].thread = record.id
      BY <1>6 DEF Due
    <2>2. sent[i].outcome \in Recorded /\ sent[i].thread = record.id /\ ~Forgets(i)
      BY <1>5, <1>6, <2>1
    <2>3. i \in Completed
      BY <2>1, <2>2 DEF Completed
    <2> QED
      BY <2>2, <2>3
  <1>10. /\ Sound(sent', record.history, record.id) /\ Done(sent', record.turns, record.id)
         /\ Sound(sent', history, record.id)
    BY <1>3, <1>8, SoundStays, DoneStays
  <1>11. Due(sent', record.id) \subseteq Turns(history)
    BY <1>3, <1>7
  <1>12. \A t : Grows(sent, sent', t)
    BY <1>7, <1>8 DEF Grows
  <1> HIDE DEF Forgets
  <1>13. MaySave(r)
    BY <1>1, <1>3, <1>4, <1>7, <1>9, <1>10, <1>11, <1>12 DEF MaySave
  <1> QED
    BY <1>1, <1>2, <1>13, Saving

-----------------------------------------------------------------------------
(* The start, the end of a save, and the commands that save nothing.         *)
LEMMA StartStep == ASSUME SessionInv, Start PROVE SessionInv'
  <1>1. PICK t \in Unused \cup ToSet(recency) :
            /\ record' = Empty(t)
            /\ history' = IF t \notin Unused THEN disk[t].history ELSE <<>>
    BY DEF Start
  <1>2. /\ pc = "down" /\ pc' = "prompt"
        /\ UNCHANGED <<loop, goal, disk, recency, sent>>
    BY DEF Start, files
  <1>3. /\ t \in Threads /\ Sound(sent, history', t)
        /\ Due(sent, t) \subseteq Turns(history')
    <2>1. CASE t \in Unused
      BY <1>1, <2>1, UnusedIsEmpty, NothingIsSound
    <2>2. CASE t \notin Unused
      <3>1. PICK i \in DOMAIN recency : t = recency[i]
        BY <1>1, <2>2 DEF ToSet
      <3>2. t \in Threads /\ Readable(t)
        BY <3>1 DEF SessionInv, Files
      <3> QED
        BY <1>1, <2>2, <3>2 DEF SessionInv, Kept, FileKept
    <2> QED
      BY <2>1, <2>2
  <1>4. /\ record'.id = t /\ record'.turns = <<>> /\ record'.history = <<>> /\ IsRecord(record')
    BY <1>1 DEF Empty, IsRecord
  <1>5. SessionType'
    BY <1>2, <1>3, <1>4 DEF SessionInv, SessionType, Waiting
  <1>6. Files'
    BY <1>2 DEF SessionInv, Files, Readable
  <1>7. Kept'
    <2>1. ASSUME NEW u \in Threads PROVE FileKept(u)'
      BY <1>2 DEF SessionInv, Kept, FileKept, Readable
    <2>2. Sound(sent, <<>>, t) /\ Done(sent, <<>>, t)
      BY NothingIsSound
    <2> QED
      BY <1>2, <1>4, <2>1, <2>2 DEF Kept
  <1>8. Talking'
    BY <1>2, <1>3, <1>4 DEF Talking, AtRest, AllDue, InTurn, LastWord, Waiting, Working, Ended
  <1> QED
    BY <1>5, <1>6, <1>7, <1>8 DEF SessionInv

\* The save ends: the file is what the record was.
LEMMA EndSaveStep == ASSUME SessionInv, EndSave PROVE SessionInv'
  <1> DEFINE t == record.id
  <1>1. /\ pc = "saving" /\ sent' = sent
        /\ disk' = [disk EXCEPT ![t] = Content(record)]
        /\ recency' = <<t>> \o recency
    BY DEF EndSave
  <1>2. /\ t \in Threads /\ DOMAIN disk = Threads /\ IsRecord(record) /\ IsLoop(loop)
        /\ sent \in Seq(Entry) /\ goal = [do |-> goal.do, thread |-> goal.thread]
    BY <1>1 DEF SessionInv, SessionType
  <1>3. /\ Sound(sent, record.history, t) /\ Done(sent, record.turns, t)
        /\ Due(sent, t) \subseteq Turns(record.history)
        /\ \A u \in Threads : FileKept(u)
    BY <1>1 DEF SessionInv, Kept
  <1>4. /\ recency \in Seq(Threads) /\ OnceEach(recency)
        /\ \A i \in DOMAIN recency : Readable(recency[i])
        /\ disk[t] = TornFile
        /\ goal.do \in {"prompt", "continue", "new", "switch", "pick", "exit"}
        /\ goal.do = "switch" => goal.thread \in ToSet(recency) \cup {t}
        /\ goal.do = "pick" => goal.thread \in 1..(Len(recency) + 1)
    BY <1>1 DEF SessionInv, Files, OnceEach
  <1>5. /\ Sound(sent, history, t) /\ Due(sent, t) \subseteq Turns(history)
    BY <1>1 DEF SessionInv, Talking, AtRest, AllDue, Waiting
  <1>6. /\ disk'[t] = Content(record) /\ DOMAIN disk' = Threads
        /\ \A u \in Threads : u # t => disk'[u] = disk[u]
    BY <1>1, <1>2
  <1>7. \/ /\ goal.do = "exit" /\ Died
        \/ /\ goal.do # "exit" /\ pc' = goal.do /\ loop' = NoTurn
           /\ goal' = IF goal.do = "prompt" THEN NoGoal ELSE goal
           /\ UNCHANGED <<history, record>>
    BY DEF EndSave
  <1> HIDE DEF t
  <1>8. ASSUME NEW u \in Threads PROVE FileKept(u)'
    <2>1. CASE u = t
      <3>1. /\ disk'[u].state = "saved" /\ disk'[u].history = record.history
            /\ disk'[u].turns = record.turns /\ disk'[u] # NoFile
        BY <1>6, <2>1 DEF Content, NoFile
      <3> QED
        BY <1>1, <1>3, <2>1, <3>1 DEF FileKept, Readable
    <2>2. CASE u # t
      BY <1>1, <1>3, <1>6, <2>2 DEF FileKept, Readable
    <2> QED
      BY <2>1, <2>2
  <1>9. /\ recency' \in Seq(Threads) /\ OnceEach(recency')
        /\ \A i \in DOMAIN recency' : disk'[recency'[i]].state = "saved"
        /\ ToSet(recency') = ToSet(recency) \cup {t}
        /\ DOMAIN recency' = 1..(Len(recency) + 1)
    <2>1. /\ recency' \in Seq(Threads) /\ Len(recency) \in Nat /\ DOMAIN recency = 1..Len(recency)
          /\ DOMAIN recency' = 1..(Len(recency) + 1) /\ recency'[1] = t
          /\ \A i \in 1..Len(recency) : recency'[i + 1] = recency[i]
      BY <1>1, <1>2, <1>4 DEF t
    <2>2. ASSUME NEW i \in 1..(Len(recency) + 1)
          PROVE  (i = 1 /\ recency'[i] = t)
                 \/ (\E j \in 1..Len(recency) : i = j + 1 /\ recency'[i] = recency[j])
      <3>1. CASE i = 1
        BY <2>1, <3>1
      <3>2. CASE i # 1
        <4>1. i - 1 \in 1..Len(recency) /\ i = (i - 1) + 1
          BY <2>1, <3>2
        <4> QED
          BY <2>1, <4>1
      <3> QED
        BY <3>1, <3>2
    <2>3. \A j \in 1..Len(recency) : recency[j] # t /\ recency[j] \in Threads
      BY <1>4, <2>1 DEF Readable, TornFile
    <2>4. OnceEach(recency')
      <3> SUFFICES ASSUME NEW i \in 1..(Len(recency) + 1), NEW j \in 1..(Len(recency) + 1),
                          recency'[i] = recency'[j]
                   PROVE  i = j
        BY <2>1 DEF OnceEach
      <3>1. CASE i = 1
        <4>1. ~\E k \in 1..Len(recency) : recency'[j] = recency[k]
          BY <2>1, <2>3, <3>1
        <4> QED
          BY <2>2, <3>1, <4>1
      <3>2. CASE i # 1
        <4>1. PICK k \in 1..Len(recency) : i = k + 1 /\ recency'[i] = recency[k]
          BY <2>2, <3>2
        <4>2. PICK l \in 1..Len(recency) : j = l + 1 /\ recency'[j] = recency[l]
          BY <2>2, <2>3, <4>1
        <4>3. k = l
          BY <1>4, <2>1, <4>1, <4>2 DEF OnceEach
        <4> QED
          BY <4>1, <4>2, <4>3
      <3> QED
        BY <3>1, <3>2
    <2>5. ASSUME NEW i \in 1..(Len(recency) + 1) PROVE disk'[recency'[i]].state = "saved"
      <3>1. CASE recency'[i] = t
        BY <1>6, <3>1 DEF Content
      <3>2. CASE recency'[i] # t
        <4>1. PICK j \in 1..Len(recency) : recency'[i] = recency[j]
          BY <2>2, <3>2
        <4>2. disk[recency[j]].state = "saved" /\ disk'[recency[j]] = disk[recency[j]]
          BY <1>4, <1>6, <2>1, <2>3 DEF Readable
        <4> QED
          BY <4>1, <4>2
      <3> QED
        BY <3>1, <3>2
    <2>6. ToSet(recency') = ToSet(recency) \cup {t}
      <3>1. \A i \in 1..(Len(recency) + 1) : recency'[i] \in ToSet(recency) \cup {t}
        BY <2>1, <2>2 DEF ToSet
      <3>2. \A j \in 1..Len(recency) : recency[j] \in ToSet(recency')
        <4> SUFFICES ASSUME NEW j \in 1..Len(recency) PROVE recency[j] \in ToSet(recency')
          OBVIOUS
        <4>1. j + 1 \in DOMAIN recency'
          BY <2>1
        <4> QED
          BY <2>1, <4>1 DEF ToSet
      <3>3. t \in ToSet(recency')
        <4>1. 1 \in DOMAIN recency'
          BY <2>1
        <4> QED
          BY <2>1, <4>1 DEF ToSet
      <3> QED
        BY <2>1, <3>1, <3>2, <3>3 DEF ToSet
    <2> QED
      BY <2>1, <2>4, <2>5, <2>6
  <1>10. CASE goal.do = "exit"
    <2>1. /\ pc' = "down" /\ record' = Empty(NoThread) /\ loop' = NoTurn /\ goal' = NoGoal
      BY <1>7, <1>10 DEF Died
    <2>2. SessionType'
      BY <1>1, <1>2, <1>6, <2>1 DEF SessionType, IsLoop, IsRecord, Empty, NoTurn, NoGoal
    <2>3. Files'
      BY <1>9, <2>1 DEF Files, OnceEach, Readable
    <2>4. Kept'
      BY <1>8, <2>1 DEF Kept
    <2>5. Talking'
      BY <2>1 DEF Talking, AtRest, AllDue, InTurn, LastWord, Waiting, Working, Ended
    <2> QED
      BY <2>2, <2>3, <2>4, <2>5 DEF SessionInv
  <1>11. CASE goal.do # "exit"
    <2>1. /\ pc' = goal.do /\ loop' = NoTurn
          /\ goal' = IF goal.do = "prompt" THEN NoGoal ELSE goal
          /\ history' = history /\ record' = record
          /\ pc' \in {"prompt", "continue", "new", "switch", "pick"}
      BY <1>4, <1>7, <1>11
    <2>2. SessionType'
      <3>1. IsLoop(loop') /\ goal' = [do |-> goal'.do, thread |-> goal'.thread]
        BY <1>2, <2>1 DEF IsLoop, NoTurn, NoGoal
      <3> QED
        BY <1>1, <1>2, <1>6, <2>1, <3>1 DEF SessionType, Waiting, t
    <2>3. Files'
      <3>1. (pc' = "switch" \/ pc' = "pick") => goal' = goal
        BY <2>1
      <3>2. pc' = "switch" => goal'.thread \in ToSet(recency')
        BY <1>4, <1>9, <2>1, <3>1
      <3>3. pc' = "pick" => goal'.thread \in DOMAIN recency'
        BY <1>4, <1>9, <2>1, <3>1
      <3> QED
        BY <1>9, <2>1, <3>2, <3>3 DEF Files, OnceEach, Readable
    <2>4. Kept'
      BY <1>1, <1>3, <1>8, <2>1 DEF Kept, t
    <2>5. Talking'
      BY <1>1, <1>5, <2>1 DEF Talking, AtRest, AllDue, InTurn, LastWord, Waiting, Working, Ended, t
    <2> QED
      BY <2>2, <2>3, <2>4, <2>5 DEF SessionInv
  <1> QED
    BY <1>10, <1>11

(* A message is sent: its turn is the only one open.                         *)
LEMMA SendStep ==
    ASSUME SessionInv, pc \in {"prompt", "continue"}, SendTo PROVE SessionInv'
  <1> DEFINE e == [thread |-> record.id, outcome |-> "open", kept |-> TRUE]
             n == Len(sent) + 1
             m == Message("user", n)
  <1>1. /\ sent' = Append(sent, e) /\ UNCHANGED <<record, disk, recency>> /\ goal' = NoGoal
    BY DEF SendTo, files
  <1>2. \/ BeginLoop(n)
        \/ /\ pc' = "headless" /\ loop' = [loop EXCEPT !.turn = n, !.stop = "none"]
           /\ history' = history
    BY DEF SendTo
  <1>3. /\ sent \in Seq(Entry) /\ record.id \in Threads /\ IsLoop(loop) /\ pc # "down"
        /\ Sound(sent, history, record.id)
        /\ Due(sent, record.id) \subseteq Turns(history)
    BY DEF SessionInv, SessionType, Talking, AtRest, AllDue, Waiting
  <1>4. e \in Entry /\ e.outcome = "open" /\ e.thread = record.id
    BY <1>3 DEF Entry, Outcomes
  <1> HIDE DEF e
  <1>5. SentOneMore(sent, e, sent')
    BY <1>1, <1>3, <1>4, OneMore
  <1> HIDE DEF m
  <1>6. /\ sent' \in Seq(Entry) /\ sent' # <<>> /\ n = Len(sent') /\ sent'[n] = e
        /\ n \in Nat /\ n \in DOMAIN sent' /\ n \notin DOMAIN sent
    BY <1>5 DEF SentOneMore
  <1>7. \A t : Keeps(sent, sent', t) /\ Due(sent', t) \subseteq Due(sent, t)
    BY <1>4, <1>5 DEF SentOneMore, Recorded
  <1> HIDE DEF n
  <1>8. /\ Sound(sent', history, record.id) /\ n \notin Turns(history)
        /\ Due(sent', record.id) \subseteq Turns(history)
    <2>1. Sound(sent', history, record.id)
      BY <1>3, <1>7, SoundStays
    <2>2. n \notin Turns(history)
      BY <1>3, <1>6 DEF Sound, Of
    <2>3. Due(sent', record.id) \subseteq Due(sent, record.id)
      BY <1>7
    <2> QED
      BY <1>3, <2>1, <2>2, <2>3
  <1>9. /\ pc' \in {"request", "headless"} /\ IsLoop(loop') /\ loop'.turn = n
    <2>1. CASE BeginLoop(n)
      BY <2>1 DEF BeginLoop, IsLoop
    <2>2. CASE pc' = "headless" /\ loop' = [loop EXCEPT !.turn = n, !.stop = "none"]
      BY <1>3, <2>2 DEF IsLoop
    <2> QED
      BY <1>2, <2>1, <2>2
  <1>10. Files' /\ Kept'
    <2>1. \A t \in Threads : Grows(sent, sent', t)
      BY <1>7 DEF Grows
    <2> QED
      BY <1>1, <1>3, <1>9, <2>1, FilesStay DEF SessionInv, Working
  <1>11. SessionType'
    BY <1>1, <1>6, <1>9 DEF SessionInv, SessionType, Working, NoGoal
  <1>12. CASE pc' = "headless"
    <2>1. history' = history
      BY <1>2, <1>12 DEF BeginLoop
    <2>2. AtRest' /\ AllDue'
      BY <1>1, <1>8, <1>12, <2>1 DEF AtRest, AllDue, Waiting
    <2>3. InTurn'
      BY <1>1, <1>4, <1>6, <1>8, <1>9, <2>1 DEF InTurn, Sound
    <2>4. LastWord'
      BY <1>1, <1>8, <1>12, <2>1 DEF LastWord, Ended
    <2> QED
      BY <1>10, <1>11, <2>2, <2>3, <2>4 DEF SessionInv, Talking
  <1>13. CASE pc' = "request"
    <2>1. history' = Append(history, m)
      BY <1>2, <1>13 DEF BeginLoop, m
    <2>2. m \in Messages /\ m.turn = n /\ m.kind = "user"
      BY <1>6 DEF m, Message, Messages, Kinds
    <2>3. history # <<>> => Follows(sent', history[Len(history)], m)
      <3>1. history # <<>> => history[Len(history)].turn \in Turns(history)
        BY <1>8, ConversationEntries DEF Sound, Of
      <3> QED
        BY <1>8, <2>2, <3>1 DEF Sound, Follows
    <2>4. MayAdd(sent', history, record.id, m)
      BY <1>4, <1>6, <1>8, <2>2, <2>3 DEF MayAdd, Sound
    <2>5. Adds(sent', history, record.id, m, history')
      BY <2>1, <2>4, AppendForms
    <2>6. AtRest' /\ AllDue'
      BY <1>1, <1>8, <1>13, <2>5 DEF AtRest, AllDue, Waiting, Adds
    <2>7. InTurn'
      BY <1>1, <1>4, <1>6, <1>8, <1>9, <2>2, <2>5 DEF InTurn, Sound, Adds
    <2>8. LastWord'
      BY <1>9, <1>13, <2>2, <2>5 DEF LastWord, Adds, Ended
    <2> QED
      BY <1>10, <1>11, <2>6, <2>7, <2>8 DEF SessionInv, Talking
  <1> QED
    BY <1>9, <1>12, <1>13

(* Nothing is said or saved between turns.                                   *)
LEMMA StaysAtRest ==
    ASSUME SessionInv, pc \in Waiting, pc' = "prompt",
           UNCHANGED <<history, loop, disk, recency, sent>>,
           goal' = [do |-> goal'.do, thread |-> goal'.thread],
           IsRecord(record'), record'.id = record.id, record'.turns = record.turns,
           record'.history \in {record.history, history}
    PROVE  SessionInv'
  <1>1. /\ pc # "down" /\ record.id \in Threads
        /\ Sound(sent, history, record.id)
        /\ Due(sent, record.id) \subseteq Turns(history)
        /\ Sound(sent, record.history, record.id) /\ Done(sent, record.turns, record.id)
    BY DEF SessionInv, SessionType, Talking, AtRest, AllDue, Kept, Waiting
  <1>2. SessionType'
    BY <1>1 DEF SessionInv, SessionType, Waiting
  <1>3. Files'
    BY DEF SessionInv, Files, Readable
  <1>4. Kept'
    <2>1. \A t \in Threads : FileKept(t)'
      BY DEF SessionInv, Kept, FileKept, Readable
    <2> QED
      BY <1>1, <2>1 DEF Kept
  <1>5. Talking'
    BY <1>1 DEF Talking, AtRest, AllDue, InTurn, LastWord, Waiting, Working, Ended
  <1> QED
    BY <1>2, <1>3, <1>4, <1>5 DEF SessionInv

LEMMA PromptSteps ==
    ASSUME SessionInv, NoMoreSends \/ SwitchProvider \/ ToggleHarvest PROVE SessionInv'
  <1>1. IsRecord(record) /\ goal = [do |-> goal.do, thread |-> goal.thread]
    BY DEF SessionInv, SessionType
  <1>2. /\ pc \in Waiting /\ pc' = "prompt" /\ UNCHANGED <<history, loop, disk, recency, sent>>
        /\ goal' \in {goal, NoGoal}
        /\ record' = record \/ record' = WithHistory
    BY DEF NoMoreSends, SwitchProvider, ToggleHarvest, Command, Prompting, Waiting, files
  <1>3. goal' = [do |-> goal'.do, thread |-> goal'.thread]
    BY <1>1, <1>2 DEF NoGoal
  <1>4. /\ IsRecord(record') /\ record'.id = record.id /\ record'.turns = record.turns
        /\ record'.history \in {record.history, history}
    <2>1. CASE record' = record
      BY <1>1, <2>1
    <2>2. CASE record' = WithHistory
      BY <1>1, <2>2, RecordParts
    <2> QED
      BY <1>2, <2>1, <2>2
  <1> QED
    BY <1>2, <1>3, <1>4, StaysAtRest

(* The thread chosen can be read, and replaces the one in use.               *)
LEMMA SwitchStep == ASSUME SessionInv, SwitchThread PROVE SessionInv'
  <1> DEFINE t == IF pc = "pick" THEN recency[goal.thread] ELSE goal.thread
  <1>1. /\ pc \in {"switch", "pick"} /\ pc' = "prompt" /\ goal' = NoGoal
        /\ UNCHANGED <<loop, disk, recency, sent>>
        /\ record' = [id |-> t, turns |-> disk[t].turns, history |-> disk[t].history,
                      harvested |-> disk[t].harvested]
        /\ history' = disk[t].history
    BY DEF SwitchThread, files
  <1>2. t \in Threads /\ Readable(t)
    <2>1. \A i \in DOMAIN recency : recency[i] \in Threads /\ Readable(recency[i])
      BY DEF SessionInv, Files
    <2>2. \E i \in DOMAIN recency : t = recency[i]
      BY <1>1 DEF SessionInv, Files, ToSet
    <2> QED
      BY <2>1, <2>2
  <1>3. /\ record'.id = t /\ record'.turns = disk[t].turns /\ record'.history = disk[t].history
        /\ IsRecord(record')
    BY <1>1 DEF IsRecord
  <1> HIDE DEF t
  <1>4. /\ Sound(sent, history', t) /\ Sound(sent, record'.history, t)
        /\ Done(sent, record'.turns, t) /\ Due(sent, t) \subseteq Turns(history')
    BY <1>1, <1>2, <1>3 DEF SessionInv, Kept, FileKept
  <1>5. SessionType'
    BY <1>1, <1>2, <1>3 DEF SessionInv, SessionType, Waiting, NoGoal
  <1>6. Files'
    BY <1>1 DEF SessionInv, Files, Readable
  <1>7. Kept'
    <2>1. \A u \in Threads : FileKept(u)'
      BY <1>1 DEF SessionInv, Kept, FileKept, Readable
    <2> QED
      BY <1>1, <1>3, <1>4, <2>1 DEF Kept
  <1>8. Talking'
    BY <1>1, <1>3, <1>4 DEF Talking, AtRest, AllDue, InTurn, LastWord, Waiting, Working, Ended
  <1> QED
    BY <1>5, <1>6, <1>7, <1>8 DEF SessionInv

-----------------------------------------------------------------------------
(* The invariant, and what it implies.                                       *)
LEMMA InitSession == Init => SessionInv
  <1> SUFFICES ASSUME Init PROVE SessionInv
    OBVIOUS
  <1>1. SessionType
    BY DEF Init, SessionType, IsLoop, IsRecord, Empty, NoTurn, NoGoal
  <1>2. Files
    BY DEF Init, Files
  <1>3. Kept
    <2>1. \A t : Due(sent, t) = {}
      BY DEF Init, Due
    <2>2. \A t \in Threads : FileKept(t)
      BY <2>1 DEF Init, FileKept, Readable, NoFile
    <2> QED
      BY <2>2 DEF Init, Kept
  <1>4. Talking
    BY DEF Init, Talking, AtRest, AllDue, InTurn, LastWord, Waiting, Working, Ended
  <1> QED
    BY <1>1, <1>2, <1>3, <1>4 DEF SessionInv

LEMMA SameSession == SessionInv /\ UNCHANGED vars => SessionInv'
  <1> SUFFICES ASSUME SessionInv, UNCHANGED vars PROVE SessionInv'
    OBVIOUS
  <1>1. UNCHANGED <<pc, history, loop, record, goal, disk, recency, sent>>
    BY DEF vars, agentVars, files
  <1>2. SessionType' /\ Files'
    BY <1>1 DEF SessionInv, SessionType, Files, Readable
  <1>3. Kept'
    <2>1. \A t \in Threads : FileKept(t)'
      BY <1>1 DEF SessionInv, Kept, FileKept, Readable
    <2> QED
      BY <1>1, <2>1 DEF SessionInv, Kept
  <1>4. Talking'
    BY <1>1 DEF SessionInv, Talking, AtRest, AllDue, InTurn, LastWord
  <1> QED
    BY <1>2, <1>3, <1>4 DEF SessionInv

LEMMA NextSession == SessionInv /\ [Next]_vars => SessionInv'
  <1> SUFFICES ASSUME SessionInv, [Next]_vars PROVE SessionInv'
    OBVIOUS
  <1>1. CASE Ask
    BY <1>1, AnswerStep, CallStep, RateLimitStep DEF Ask
  <1>2. CASE UseTool \/ HeadlessUnavailable \/ HeadlessAnswers
    BY <1>2, ToolStep, HeadlessFails, HeadlessStep
  <1>3. CASE Flush \/ Judge \/ RecordTurn \/ EndSave
    BY <1>3, AfterTurn, RecordStep, EndSaveStep
  <1>4. CASE Send \/ AutoContinue
    <2>1. pc \in {"prompt", "continue"} /\ SendTo
      BY <1>4 DEF Send, AutoContinue, Prompting
    <2> QED
      BY <2>1, SendStep
  <1>5. CASE NoMoreSends \/ SwitchProvider \/ ToggleHarvest
    BY <1>5, PromptSteps
  <1>6. CASE NewThread \/ SwitchThread \/ Start
    BY <1>6, NewThreadStep, SwitchStep, StartStep
  <1>7. CASE Interrupt \/ InterruptJudge \/ Crash
    BY <1>7, InterruptStep, JudgeInterrupted, CrashStep
  <1>8. CASE Save \/ AskThread \/ Exit
    BY <1>8, SaveSteps
  <1>9. CASE Reset \/ Delegate \/ Report
    BY <1>9, ResetStep, DelegateStep, ReportStep
  <1>10. CASE UNCHANGED vars
    BY <1>10, SameSession
  <1> QED
    BY <1>1, <1>2, <1>3, <1>4, <1>5, <1>6, <1>7, <1>8, <1>9, <1>10 DEF Next, Work

(* What a thread holds is sound at every moment: the strengthening of the    *)
(* four invariants below.                                                    *)
THEOREM SessionInvariant == Spec => []SessionInv
  BY InitSession, NextSession, PTL DEF Spec

(* A thread's file and the running conversation hold messages and turns of   *)
(* that thread only.                                                         *)
THEOREM ThreadsStayApart == Spec => []ThreadsDoNotMix
  <1>1. SessionInv => ThreadsDoNotMix
    <2> SUFFICES ASSUME SessionInv PROVE ThreadsDoNotMix
      OBVIOUS
    <2>1. ASSUME pc # "down" PROVE \A n \in Turns(history) : sent[n].thread = record.id
      BY <2>1 DEF SessionInv, SessionType, Talking, AtRest, InTurn, Sound, Of
    <2>2. ASSUME NEW t \in Threads, Readable(t),
                 NEW n \in Turns(disk[t].history) \cup Range(disk[t].turns)
          PROVE  sent[n].thread = t
      BY <2>2 DEF SessionInv, Kept, FileKept, Sound, Of, Done
    <2> QED
      BY <2>1, <2>2 DEF ThreadsDoNotMix
  <1> QED
    BY <1>1, SessionInvariant, PTL

(* The messages of every completed turn are in its thread's file at every    *)
(* moment that the file can be read, unless a report's save left them out.   *)
THEOREM CompletedTurnsAreKept == Spec => []ConversationKept
  <1>1. SessionInv => ConversationKept
    <2> SUFFICES ASSUME SessionInv, NEW n \in Completed, sent[n].kept, Readable(sent[n].thread)
                 PROVE  n \in Turns(disk[sent[n].thread].history)
      BY DEF ConversationKept
    <2> DEFINE t == sent[n].thread
    <2>1. sent \in Seq(Entry) /\ n \in DOMAIN sent /\ sent[n].outcome \in Recorded
      BY DEF SessionInv, SessionType, Completed
    <2>2. t \in Threads
      <3>1. sent[n] \in Entry
        BY <2>1
      <3> QED
        BY <3>1 DEF Entry
    <2>3. n \in Due(sent, t)
      BY <2>1 DEF Due
    <2> HIDE DEF t
    <2>4. Due(sent, t) \subseteq Turns(disk[t].history)
      BY <2>2 DEF SessionInv, Kept, FileKept, t
    <2> QED
      BY <2>3, <2>4 DEF t
  <1> QED
    BY <1>1, SessionInvariant, PTL

(* No file records an interrupted turn.                                      *)
THEOREM InterruptedTurnsAreNotRecorded == Spec => []InterruptedNotRecorded
  <1>1. SessionInv => InterruptedNotRecorded
    <2> SUFFICES ASSUME SessionInv, NEW t \in Threads, Readable(t),
                        NEW i \in DOMAIN disk[t].turns
                 PROVE  sent[disk[t].turns[i]].outcome # "interrupted"
      BY DEF InterruptedNotRecorded
    <2>1. Done(sent, disk[t].turns, t)
      BY DEF SessionInv, Kept, FileKept
    <2>2. disk[t].turns[i] \in Range(disk[t].turns)
      BY DEF Range
    <2> QED
      BY <2>1, <2>2 DEF Done
  <1> QED
    BY <1>1, SessionInvariant, PTL

(* In every request results follow calls, and each turn before ends with a   *)
(* message its outcome accounts for: the calls without a result are those of *)
(* interrupted and of cut turns.                                             *)
THEOREM RequestsTellHowTurnsEnded == Spec => []RequestTellsHowTurnsEnded
  <1>1. SessionInv => RequestTellsHowTurnsEnded
    <2> SUFFICES ASSUME SessionInv, pc = "request" PROVE RequestTellsHowTurnsEnded
      BY DEF RequestTellsHowTurnsEnded
    <2>1. \A i \in 1..(Len(history) - 1) : Follows(sent, history[i], history[i + 1])
      BY DEF SessionInv, Talking, InTurn, Working, Formed
    <2>2. LET m == history[Len(history)]
          IN  m.turn = loop.turn /\ m.kind \in {"user", "result"}
      BY DEF SessionInv, Talking, LastWord
    <2> QED
      BY <2>1, <2>2 DEF RequestTellsHowTurnsEnded, Follows, Closed
  <1> QED
    BY <1>1, SessionInvariant, PTL
=============================================================================
