----------------------------- MODULE CodeSession -----------------------------
(* The interactive coding agent of src/self_harness/cli_agent: the prompt    *)
(* loop (repl.py), its sessions with a model API or with a headless CLI      *)
(* (session.py), the saved threads (sessions.py), the harvesters that turn   *)
(* failures into inbox bundles (harvest.py, ux_harvest.py), and the start    *)
(* and resume of cli.py's _run_code.                                         *)
EXTENDS AgentLoop, FiniteSets, SequencesExt

CONSTANTS
    MaxThreads,      \* bound: threads
    Glm,             \* the provider with a model API
    Headless,        \* providers that are local command line agents
    Judges,          \* providers that could judge a semantic complaint
    Checks,          \* failing check commands
    MaxAutoContinue, \* _MAX_AUTO_CONTINUE
    MaxSends,        \* bound: messages sent to a session
    MaxEvents        \* bound: commands that do not send or switch, and crashes

VARIABLES
    provider,   \* of the session in use
    turnIndex,  \* session.turn_index
    candidates, \* harvester._candidates, keyed by command
    enabled,    \* harvester.enabled, for both harvesters
    flushed,    \* result.harvested of the turn
    record,     \* the SessionRecord in use
    autos,      \* automatic continuations of the turn so far
    goal,       \* what the running save is part of, and for which thread
    disk,       \* runs/sessions: what is in every thread's file
    recency,    \* readable threads, the one saved last first
    inbox,      \* ids of the bundles written
    sent,       \* of every message sent: its thread, what came of it, and
                \* whether no report's save left it out of the thread's file
    events      \* commands and crashes used up

session == <<provider, turnIndex, candidates, enabled, flushed>>
files == <<disk, recency, inbox>>
vars == <<agentVars, session, record, autos, goal, files, sent, events>>

Threads == 1..MaxThreads
Providers == {Glm} \cup Headless
NoThread == 0
NoFile == [state |-> "none"]
TornFile == [state |-> "torn"]
Empty(t) == [id |-> t, turns |-> <<>>, history |-> <<>>, harvested |-> {}]
Content(r) == [state |-> "saved", turns |-> r.turns, history |-> r.history,
               harvested |-> r.harvested]

Readable(t) == disk[t].state = "saved"
\* Fresh ids are told apart from the others by nothing but being fresh: the
\* next one is used.
Unused ==
    {t \in Threads :
        /\ disk[t].state = "none" /\ record.id # t
        /\ \A u \in 1..(t - 1) : disk[u].state # "none" \/ record.id = u}

Prompting == pc = "prompt"
Event == events < MaxEvents /\ events' = events + 1
Command == Prompting /\ Event

-----------------------------------------------------------------------------
NoTurn == [turn |-> 0, step |-> 0, attempt |-> 1, left |-> 0, stop |-> "none"]
NoGoal == [do |-> "prompt", thread |-> NoThread]

Init ==
    /\ pc = "down"
    /\ history = <<>>
    /\ loop = NoTurn
    /\ provider \in Providers
    /\ turnIndex = 0
    /\ candidates = {}
    /\ enabled = TRUE
    /\ flushed = {}
    /\ record = Empty(NoThread)
    /\ autos = 0
    /\ goal = NoGoal
    /\ disk = [t \in Threads |-> NoFile]
    /\ recency = <<>>
    /\ inbox = {}
    /\ sent = <<>>
    /\ events = 0

\* _run_code: a fresh thread, or a saved one by id or as the latest.  What is
\* resumed is the conversation; the record the prompt loop makes is empty.
Start ==
    /\ pc = "down"
    /\ \E t \in Unused \cup ToSet(recency) :
          LET resumed == t \notin Unused
          IN  /\ record' = Empty(t)
              /\ history' = IF resumed THEN disk[t].history ELSE <<>>
              /\ turnIndex' = IF resumed THEN Len(disk[t].turns) ELSE 0
    /\ pc' = "prompt"
    /\ UNCHANGED <<loop, provider, candidates, enabled, flushed, autos, goal,
                   files, sent, events>>

\* The process is gone, and with it all but the files; the provider in use is
\* in the user's configuration.
Died ==
    /\ pc' = "down"
    /\ history' = <<>>
    /\ loop' = NoTurn
    /\ UNCHANGED provider
    /\ turnIndex' = 0
    /\ candidates' = {}
    /\ enabled' = TRUE
    /\ flushed' = {}
    /\ record' = Empty(NoThread)
    /\ autos' = 0
    /\ goal' = NoGoal

\* write_stable_json opens the file, which empties it, and writes it then;
\* SaveAs is the first half, EndSave the second.
SaveAs(r, do, t) ==
    /\ record' = r
    /\ disk' = [disk EXCEPT ![r.id] = TornFile]
    /\ recency' = RemoveFirst(recency, r.id)
    /\ goal' = [do |-> do, thread |-> t]
    /\ pc' = "saving"

EndSave ==
    /\ pc = "saving"
    /\ disk' = [disk EXCEPT ![record.id] = Content(record)]
    /\ recency' = <<record.id>> \o recency
    /\ IF goal.do = "exit"
       THEN Died
       ELSE /\ pc' = goal.do
            /\ goal' = IF goal.do = "prompt" THEN NoGoal ELSE goal
            /\ loop' = NoTurn
            /\ flushed' = {}
            /\ UNCHANGED <<history, provider, turnIndex, candidates, enabled,
                           record, autos>>
    /\ UNCHANGED <<inbox, sent, events>>

Turns(h) == {h[i].turn : i \in DOMAIN h}
Recorded == {"end_turn", "max_tokens", "max_steps"}
Completed == {i \in DOMAIN sent : sent[i].outcome \in Recorded}
WithHistory == [record EXCEPT !.history = history]

-----------------------------------------------------------------------------
(* A turn.                                                                   *)
Outcome(turn, what) == sent' = [sent EXCEPT ![turn].outcome = what]

SendTo ==
    /\ Len(sent) < MaxSends
    /\ sent' = Append(sent, [thread |-> record.id, outcome |-> "open", kept |-> TRUE])
    /\ turnIndex' = turnIndex + 1
    /\ flushed' = {}
    /\ IF provider = Glm
       THEN BeginLoop(Len(sent) + 1)
       ELSE /\ pc' = "headless"
            /\ loop' = [loop EXCEPT !.turn = Len(sent) + 1, !.stop = "none"]
            /\ UNCHANGED history
    /\ goal' = NoGoal
    /\ UNCHANGED <<provider, candidates, enabled, record, files, events>>

Send == Prompting /\ UNCHANGED autos /\ SendTo

AutoContinue == pc = "continue" /\ autos' = autos + 1 /\ SendTo

\* The bound on messages is used up; a user would see the turn go on.
NoMoreSends ==
    /\ pc = "continue"
    /\ Len(sent) = MaxSends
    /\ pc' = "prompt"
    /\ autos' = 0
    /\ goal' = NoGoal
    /\ UNCHANGED <<history, loop, session, record, files, sent, events>>

Ask ==
    /\ Answer \/ AnswerCut \/ CallTools \/ RateLimited \/ Refused
    /\ UNCHANGED <<session, record, autos, goal, files, sent, events>>

\* A failing check is a candidate, kept until the next flush of this process.
Observed == IF enabled THEN SUBSET Checks ELSE {{}}

UseTool ==
    /\ RunTool
    /\ \E failing \in Observed :
          /\ Cardinality(failing) <= 1
          /\ candidates' = candidates \cup failing
    /\ UNCHANGED <<provider, turnIndex, enabled, flushed, record, autos, goal,
                   files, sent, events>>

InterruptAsReturn ==      \* a slip: the partial turn is recorded and saved
    /\ pc \in {"request", "tools", "headless"}
    /\ Outcome(loop.turn, "interrupted")
    /\ SaveAs([record EXCEPT !.turns = Append(@, loop.turn),
                             !.history = history], "prompt", NoThread)
    /\ UNCHANGED <<history, loop, session, autos, inbox, events>>

\* _run_turn catches Ctrl-C and every exception of send: nothing is recorded
\* or saved, and what the turn put into the history stays there.
Interrupt ==
    /\ \/ Leave
       \/ pc = "headless" /\ pc' = "prompt" /\ UNCHANGED history
    /\ loop' = NoTurn
    /\ autos' = 0
    /\ Outcome(loop.turn, "interrupted")
    /\ UNCHANGED <<session, record, goal, files, events>>

\* The headless agent is missing or takes too long: send returns before the
\* flush.  Otherwise its commands are observed, and the question and the
\* answer enter the history only when it succeeded.
HeadlessUnavailable ==
    /\ pc = "headless"
    /\ loop' = [loop EXCEPT !.stop = "model_error"]
    /\ pc' = "judging"
    /\ UNCHANGED <<history, session, record, autos, goal, files, sent, events>>

HeadlessAnswers ==
    /\ pc = "headless"
    /\ \E failing \in Observed : candidates' = candidates \cup failing
    /\ \E stop \in {"end_turn", "model_error"} :
          /\ loop' = [loop EXCEPT !.stop = stop]
          /\ history' = IF stop = "model_error" THEN history
                        ELSE history \o <<Message("user", loop.turn),
                                          Message("text", loop.turn)>>
    /\ pc' = "returned"
    /\ UNCHANGED <<provider, turnIndex, enabled, flushed, record, autos, goal,
                   files, sent, events>>

BundleIds == {[by |-> "cli", n |-> turnIndex, key |-> c] : c \in candidates}

Flush ==
    /\ pc = "returned"
    /\ IF enabled
       THEN /\ inbox' = inbox \cup BundleIds
            /\ flushed' = BundleIds
            /\ candidates' = {}
       ELSE UNCHANGED <<inbox, flushed, candidates>>
    /\ pc' = "judging"
    /\ UNCHANGED <<history, loop, provider, turnIndex, enabled, record, autos,
                   goal, disk, recency, sent, events>>

\* observe_turn raises a complaint when the steps ran out or the model failed
\* (the triggers that read texts are left out); it becomes a bundle if one of
\* at most two judges other than the active provider admits it.
UxId == [by |-> "cli", n |-> turnIndex, key |-> "ux"]
CanBeAdmitted == enabled /\ Judges \ {provider} # {}
Complaint == CanBeAdmitted /\ loop.stop \in {"max_steps", "model_error"}

Judge ==
    /\ pc = "judging"
    /\ \E admitted \in IF Complaint THEN {{}, {UxId}} ELSE {{}} :
          /\ inbox' = inbox \cup admitted
          /\ flushed' = flushed \cup admitted
    /\ pc' = "recording"
    /\ UNCHANGED <<history, loop, provider, turnIndex, candidates, enabled,
                   record, autos, goal, disk, recency, sent, events>>

\* Ctrl-C while a judge thinks is caught nowhere: the process ends.
InterruptJudge ==
    /\ pc = "judging"
    /\ Died
    /\ Outcome(loop.turn, "interrupted")
    /\ UNCHANGED <<files, events>>

WithTurn(turn, ids) == [WithHistory EXCEPT !.turns = Append(@, turn),
                                           !.harvested = @ \cup ids]

RecordTurn ==
    /\ pc = "recording"
    /\ Outcome(loop.turn, loop.stop)
    /\ SaveAs(WithTurn(loop.turn, flushed),
              IF loop.stop = "max_steps" /\ autos < MaxAutoContinue
              THEN "continue" ELSE "prompt", NoThread)
    /\ autos' = IF goal'.do = "continue" THEN autos ELSE 0
    /\ UNCHANGED <<history, loop, session, inbox, events>>

-----------------------------------------------------------------------------
(* Commands at the prompt.                                                   *)
Save ==
    /\ Command
    /\ SaveAs(WithHistory, "prompt", NoThread)
    /\ UNCHANGED <<history, loop, session, autos, inbox, sent>>

\* /reset clears the thread; its bundles stay remembered.
Reset ==
    /\ Command
    /\ SaveAs([record EXCEPT !.turns = <<>>, !.history = <<>>], "prompt",
              NoThread)
    /\ history' = <<>>
    /\ turnIndex' = 0
    /\ sent' = [i \in DOMAIN sent |->
                  IF sent[i].thread = record.id
                  THEN [sent[i] EXCEPT !.outcome = "cleared"] ELSE sent[i]]
    /\ UNCHANGED <<loop, provider, candidates, enabled, flushed, autos, inbox>>

AskThreadStale ==         \* a slip: saved without the session's history
    /\ Prompting
    /\ \/ Unused # {} /\ SaveAs(record, "new", NoThread)
       \/ \E t \in ToSet(recency) : SaveAs(record, "switch", t)
    /\ UNCHANGED <<history, loop, session, autos, inbox, sent, events>>

\* The current thread is saved first, then the new or chosen one replaces it.
AskThread ==
    /\ Prompting
    /\ \/ Unused # {} /\ SaveAs(WithHistory, "new", NoThread)
       \/ \E t \in ToSet(recency) : SaveAs(WithHistory, "switch", t)
       \/ \E n \in DOMAIN recency : SaveAs(WithHistory, "pick", n)
    /\ UNCHANGED <<history, loop, session, autos, inbox, sent, events>>

NewThreadSameSession ==   \* a slip: the session is not reset
    /\ pc = "new"
    /\ \E t \in Unused : SaveAs(Empty(t), "prompt", NoThread)
    /\ UNCHANGED <<history, loop, session, autos, inbox, sent, events>>

NewThread ==
    /\ pc = "new"
    /\ \E t \in Unused : SaveAs(Empty(t), "prompt", NoThread)
    /\ history' = <<>>
    /\ turnIndex' = 0
    /\ UNCHANGED <<loop, provider, candidates, enabled, flushed, autos, inbox,
                   sent, events>>

\* A number is looked up after the save, which has put the current thread
\* first in the list.
SwitchThread ==
    /\ pc \in {"switch", "pick"}
    /\ LET t == IF pc = "pick" THEN recency[goal.thread] ELSE goal.thread
       IN  /\ record' = [id |-> t, turns |-> disk[t].turns,
                         history |-> disk[t].history,
                         harvested |-> disk[t].harvested]
           /\ history' = disk[t].history
           /\ turnIndex' = Len(disk[t].turns)
    /\ pc' = "prompt"
    /\ goal' = NoGoal
    /\ UNCHANGED <<loop, provider, candidates, enabled, flushed, autos, files,
                   sent, events>>

\* A new session object takes over the history and the turn counter.
SwitchProvider ==
    /\ Command
    /\ provider' \in Providers
    /\ record' = WithHistory
    /\ UNCHANGED <<pc, history, loop, turnIndex, candidates, enabled, flushed,
                   autos, goal, files, sent>>

ToggleHarvest ==
    /\ Command
    /\ enabled' = ~enabled
    /\ record' = WithHistory
    /\ UNCHANGED <<pc, history, loop, provider, turnIndex, candidates, flushed,
                   autos, goal, files, sent>>

\* A helper does one subtask; a note of it enters the history and the turns.
Delegate ==
    /\ Command
    /\ Len(sent) < MaxSends
    /\ \E outcome \in {"end_turn", "model_error"} :
          sent' = Append(sent, [thread |-> record.id, outcome |-> outcome,
                                kept |-> TRUE])
    /\ LET n == Len(sent) + 1
           noted == history \o <<Message("user", n), Message("text", n)>>
       IN  /\ history' = noted
           /\ SaveAs([WithTurn(n, {}) EXCEPT !.history = noted], "prompt",
                     NoThread)
    /\ UNCHANGED <<loop, session, autos, inbox>>

\* A report that a judge admits is remembered and the record saved as it is:
\* right after a resume, or after a turn that was interrupted, without the
\* conversation.
Report ==
    /\ Command
    /\ CanBeAdmitted
    /\ LET id == [by |-> "report", n |-> record.id, key |-> "ux"]
       IN  /\ inbox' = inbox \cup {id}
           /\ SaveAs([record EXCEPT !.harvested = @ \cup {id}], "prompt",
                     NoThread)
    /\ sent' = [i \in DOMAIN sent |->
                  [sent[i] EXCEPT !.kept =
                     @ /\ (sent[i].thread = record.id /\ i \in Completed
                           => i \in Turns(record.history))]]
    /\ UNCHANGED <<history, loop, session, autos>>

\* /exit, end of input, Ctrl-C at the prompt.
Exit ==
    /\ Prompting
    /\ SaveAs(WithHistory, "exit", NoThread)
    /\ UNCHANGED <<history, loop, session, autos, inbox, sent, events>>

Crash ==
    /\ pc # "down"
    /\ Event
    /\ Died
    /\ sent' = [i \in DOMAIN sent |->
                  IF sent[i].outcome = "open"
                  THEN [sent[i] EXCEPT !.outcome = "interrupted"] ELSE sent[i]]
    /\ UNCHANGED files

-----------------------------------------------------------------------------
Work ==
    \/ Ask \/ UseTool \/ HeadlessUnavailable \/ HeadlessAnswers
    \/ Flush \/ Judge \/ RecordTurn \/ EndSave \/ AutoContinue \/ NoMoreSends
    \/ NewThread \/ SwitchThread

Next ==
    \/ Work
    \/ Start \/ Send \/ Interrupt \/ InterruptJudge \/ Crash
    \/ Save \/ Reset \/ AskThread \/ SwitchProvider \/ ToggleHarvest
    \/ Delegate \/ Report \/ Exit

\* Requests, tools, headless agents and judges all have a timeout.
Spec == Init /\ [][Next]_vars /\ WF_vars(Work)

-----------------------------------------------------------------------------

(* A thread's file and the running conversation hold messages and turns of   *)
(* that thread only, through new threads, switches, resumes, provider        *)
(* changes and interrupted turns that nobody recorded.                       *)
ThreadsDoNotMix ==
    /\ pc # "down" => \A n \in Turns(history) : sent[n].thread = record.id
    /\ \A t \in Threads : Readable(t) =>
          \A n \in Turns(disk[t].history) \cup Range(disk[t].turns) :
             sent[n].thread = t

(* sessions.py: a session is written after every turn "so a crash loses      *)
(* nothing".  The messages of every completed turn are in the thread's file  *)
(* at every moment, unless the process died inside a save, or a report saved  *)
(* a record that had not been refreshed.                                     *)
ConversationKept ==
    \A n \in {i \in Completed : sent[i].kept} :
        LET t == sent[n].thread
        IN  Readable(t) => n \in Turns(disk[t].history)

(* code_cli.md: an interrupted turn "is not recorded as a completed model    *)
(* turn", although its messages stay in the conversation.                    *)
InterruptedNotRecorded ==
    \A t \in Threads : Readable(t) =>
        \A i \in DOMAIN disk[t].turns :
            sent[disk[t].turns[i]].outcome # "interrupted"

\* What the last message of a turn may be that ended like this.  A turn that
\* was interrupted while a tool ran, or cut, ends in a call without its result.
LastKinds(outcome) ==
    CASE outcome = "end_turn" -> {"text"}
      [] outcome = "max_tokens" -> {"call"}
      [] outcome = "max_steps" -> {"result"}
      [] outcome = "model_error" -> {"user", "result", "text"}
      [] outcome = "interrupted" -> {"user", "call", "result"}
      [] OTHER -> {}

(* In a request, results follow calls within a turn, and the message that a  *)
(* turn ends with is one its outcome accounts for.  So the calls that go to  *)
(* the provider without a result, which it will refuse, are those that an    *)
(* interrupted or a cut turn left in the history, and none of a turn that    *)
(* answered, failed, ran out of steps or is still at work.                   *)
RequestTellsHowTurnsEnded ==
    pc = "request" =>
        /\ \A i \in 1..(Len(history) - 1) :
              LET m == history[i]
                  next == history[i + 1]
              IN  IF next.turn = m.turn
                  THEN m.kind = "call" <=> next.kind = "result"
                  ELSE m.kind \in LastKinds(sent[m.turn].outcome)
        /\ LET m == history[Len(history)]
           IN  m.turn = loop.turn /\ m.kind \in {"user", "result"}

(* Whatever the model, the tools and the judges do, the user gets the prompt *)
(* back: retries, steps and automatic continuations are all bounded.         *)
TurnEnds == []<>(pc \in {"prompt", "down"})
=============================================================================
