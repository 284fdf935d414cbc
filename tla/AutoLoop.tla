------------------------------ MODULE AutoLoop ------------------------------
(* The continuous improvement loop of src/self_harness/ui.py: one controller *)
(* thread that drains the failure inbox, tops up its tasks, runs a job       *)
(* inline and counts it, over and over; runs that users start next to it on  *)
(* threads of their own; other processes that drop bundles in the inbox; and *)
(* three kinds of file that outlive the process: the inbox, the learned      *)
(* tasks and the evolving harness.  None of the files is written atomically: *)
(* write_text truncates first, and a reader or a crash may find it torn.     *)
(*                                                                           *)
(* What engine.run does in between is module Engine's; here a run ends with  *)
(* an edit promoted, with nothing changed, or not at all (an exception, or   *)
(* the watchdog's timeout, after which its worker thread goes on but nobody  *)
(* uses what it finds).                                                      *)
EXTENDS Naturals, Sequences, FiniteSets, SequencesExt

CONSTANTS
    Bundles,    \* file names of inbox bundles, in the order of the listing
    Submitted,  \* what producers put in bundles: see Kinds
    Generated,  \* the tasks the generator may come up with
    LoopJobs,   \* bound: the jobs the loop may create
    UserJobs,   \* the jobs users start
    Evolving,   \* the jobs with evolve set; the loop forces it on
    MaxStarts,  \* bound: how often the loop is started
    MaxCrashes  \* bound: how often the process dies

\* A failing command and a UX complaint; an object that ingest_inbox_bundle
\* refuses; JSON that is no object.
Kinds == {"command", "ux", "malformed", "no object"}

Jobs == LoopJobs \cup UserJobs
Loops == 1..MaxStarts

ASSUME BundleNames ==
    Bundles \subseteq Nat /\ IsFiniteSet(Bundles) /\ Submitted \subseteq Kinds
ASSUME JobKinds ==
    LoopJobs \cap UserJobs = {} /\ LoopJobs \subseteq Evolving /\ Evolving \subseteq Jobs
ASSUME GeneratedNamespaced == Generated \cap Bundles = {}
ASSUME LoopBounds == MaxStarts \in Nat /\ MaxCrashes \in Nat

VARIABLES
    bundle,     \* per bundle: the directory it is in, what can be read of it
    learned,    \* the tasks that can be read from learned_tasks.json
    state,      \* harness_state.json, what can be read from it
    jobs,       \* self._jobs, with the local variables of _run_job
    pc,         \* where each controller thread is
    local,      \* and its local variables
    auto,       \* self._autoloop
    stop,       \* self._autoloop_stop
    stopping,    \* stop_autoloop between its look at "active" and the signal
    promoted,   \* history: the edits whose persisting came to its end
    asked,      \* history: the loops that were told to stop
    harm,       \* history: what a crash or an exception cut short
    crashes     \* history: how often the process died

vars == <<bundle, learned, state, jobs, pc, local, auto, stop, stopping,
          promoted, asked, harm, crashes>>

files == <<bundle, learned, state>>
threads == <<pc, local>>
history == <<promoted, asked, harm, crashes>>
control == <<auto, stop, stopping>>

-----------------------------------------------------------------------------
\* A torn harness state reads as the initial harness.  A missing one loads as
\* nothing, and so does one that its loader refuses (InvalidPatchError), which
\* no write of the loop leaves: somebody else has put it there.  Torn learned
\* tasks read as none, and so do missing ones.
State(edits) == [loads |-> TRUE, edits |-> edits, registered |-> TRUE]
TornState == [loads |-> TRUE, edits |-> {}, registered |-> FALSE]
InitialState == TornState
NoState == [loads |-> FALSE, edits |-> {}, registered |-> FALSE]

InInbox == {b \in Bundles : bundle[b].place = "inbox"}
FreeJobs == {j \in LoopJobs : jobs[j].step = "idle"}
Alive(g) == pc[g] \notin {"unborn", "dead"}

Idle == [todo |-> <<>>, buffer |-> {}, ingested |-> 0, job |-> "none"]
Unused == [step |-> "idle", status |-> "none", layers |-> {},
           result |-> "none", loop |-> 0]
\* _make_job, and _run_job up to its worker.
Called(j) == [Unused EXCEPT !.status = "running",
                            !.step = IF j \in Evolving THEN "load" ELSE "engine"]
Stopped == [active |-> FALSE, runs |-> 0, edits |-> 0, outcome |-> "none",
            error |-> "none"]

Init ==
    /\ bundle = [b \in Bundles |-> [place |-> "none", holds |-> "torn"]]
    /\ learned = {}
    /\ state \in {NoState, InitialState}
    /\ jobs = [j \in Jobs |-> Unused]
    /\ pc = [g \in Loops |-> "unborn"]
    /\ local = [g \in Loops |-> Idle]
    /\ auto = Stopped
    /\ stop = FALSE
    /\ stopping = FALSE
    /\ promoted = {}
    /\ asked = {}
    /\ harm = {}
    /\ crashes = 0

-----------------------------------------------------------------------------
(* The inbox's producers: submit_inbox_bundle, the harvesters of the CLI.    *)
BeginSubmit(b) ==
    /\ bundle[b].place = "none"
    /\ bundle' = [bundle EXCEPT ![b].place = "inbox"]
    /\ UNCHANGED <<learned, state, jobs, threads, control, history>>

\* What a writer adds to a file that was rejected meanwhile nobody reads.
EndSubmit(b) ==
    /\ bundle[b] = [place |-> "inbox", holds |-> "torn"]
    /\ \E k \in Submitted : bundle' = [bundle EXCEPT ![b].holds = k]
    /\ UNCHANGED <<learned, state, jobs, threads, control, history>>

-----------------------------------------------------------------------------
(* start_autoloop holds the lock throughout; stop_autoloop looks at "active" *)
(* under the lock and signals after it has let go.                           *)
StartLoopClearing(g) ==   \* a slip: clears the signal before it looks
    /\ stop' = FALSE
    /\ IF auto.active
       THEN UNCHANGED <<auto, threads>>
       ELSE /\ pc[g] = "unborn" /\ \A h \in 1..g - 1 : pc[h] # "unborn"
            /\ auto' = [Stopped EXCEPT !.active = TRUE]
            /\ pc' = [pc EXCEPT ![g] = "check"]
            /\ UNCHANGED local
    /\ UNCHANGED <<files, jobs, stopping, history>>

StartLoop(g) ==
    /\ ~auto.active
    /\ pc[g] = "unborn" /\ \A h \in 1..g - 1 : pc[h] # "unborn"
    /\ auto' = [Stopped EXCEPT !.active = TRUE]
    /\ stop' = FALSE
    /\ pc' = [pc EXCEPT ![g] = "check"]
    /\ UNCHANGED <<local, files, jobs, stopping, history>>

LookAtActive ==
    /\ ~stopping
    /\ stopping' = TRUE
    /\ asked' = IF auto.active THEN asked \cup {g \in Loops : Alive(g)} ELSE asked
    /\ UNCHANGED <<files, jobs, threads, auto, stop, promoted, harm, crashes>>

SignalInactive ==   \* a slip: the request itself clears "active"
    /\ stopping
    /\ stop' = TRUE
    /\ auto' = [auto EXCEPT !.active = FALSE]
    /\ stopping' = FALSE
    /\ UNCHANGED <<files, jobs, threads, history>>

SignalStop ==
    /\ stopping
    /\ stop' = TRUE
    /\ stopping' = FALSE
    /\ UNCHANGED <<files, jobs, threads, auto, history>>

-----------------------------------------------------------------------------
(* One controller thread, _autoloop_run.                                     *)
CheckStopUnlessFailed(g) ==   \* a slip: a failed run is retried at once
    /\ pc[g] = "check"
    /\ stop \/ FreeJobs # {}
    /\ pc' = [pc EXCEPT ![g] = IF stop /\ auto.outcome # "failed" THEN "closing"
                               ELSE "drain"]
    /\ UNCHANGED <<local, files, jobs, control, history>>

CheckStop(g) ==
    /\ pc[g] = "check"
    /\ stop \/ FreeJobs # {}
    /\ pc' = [pc EXCEPT ![g] = IF stop THEN "closing" ELSE "drain"]
    /\ UNCHANGED <<local, files, jobs, control, history>>

\* sorted(): the names in their order.
Listing(names) ==
    CHOOSE s \in SetToSeqs(names) : \A i, j \in DOMAIN s : i < j => s[i] < s[j]

\* _drain_inbox lists the bundles; without any it does not read the tasks.
ListInbox(g) ==
    /\ pc[g] = "drain"
    /\ pc' = [pc EXCEPT ![g] = IF InInbox = {} THEN "generate" ELSE "bundle"]
    /\ local' = [local EXCEPT ![g] =
          [@ EXCEPT !.todo = Listing(InInbox),
                    !.buffer = learned,
                    !.ingested = 0]]
    /\ UNCHANGED <<files, jobs, control, history>>

Moved(place) == [place |-> place, holds |-> "torn"]

\* A UX complaint must also be solved and verified, which may go either way.
Ingest(g) ==
    /\ pc[g] = "bundle" /\ local[g].todo # <<>>
    /\ LET b == Head(local[g].todo)
       IN  /\ bundle[b].holds \in {"command", "ux"}
           /\ bundle' = [bundle EXCEPT ![b] = Moved("processed")]
           /\ local' = [local EXCEPT ![g].todo = Tail(@),
                                     ![g].buffer = @ \cup {b},
                                     ![g].ingested = @ + 1]
    /\ UNCHANGED <<pc, learned, state, jobs, control, history>>

RejectBuffered(g) ==   \* a slip: the guard comes after the task was added
    /\ pc[g] = "bundle" /\ local[g].todo # <<>>
    /\ LET b == Head(local[g].todo)
       IN  /\ bundle[b].holds \in {"torn", "ux", "malformed", "watchdog"}
           /\ bundle' = [bundle EXCEPT ![b] = Moved("rejected")]
           /\ local' = [local EXCEPT ![g].todo = Tail(@),
                                     ![g].buffer = @ \cup {b}]
    /\ UNCHANGED <<pc, learned, state, jobs, control, history>>

\* JSONDecodeError, OSError or TaskSourceError.
RejectBundle(g) ==
    /\ pc[g] = "bundle" /\ local[g].todo # <<>>
    /\ LET b == Head(local[g].todo)
       IN  /\ bundle[b].holds \in {"torn", "ux", "malformed", "watchdog"}
           /\ bundle' = [bundle EXCEPT ![b] = Moved("rejected")]
    /\ local' = [local EXCEPT ![g].todo = Tail(@)]
    /\ UNCHANGED <<pc, learned, state, jobs, control, history>>

\* Any other exception leaves the drain, and with it the loop: asking a JSON
\* list for its "kind" is an AttributeError.
ChokeOnBundle(g) ==
    /\ pc[g] = "bundle" /\ local[g].todo # <<>>
    /\ LET b == Head(local[g].todo)
       IN  bundle[b].holds = "no object"
    /\ auto' = [auto EXCEPT !.error = "bundle"]
    /\ harm' = IF local[g].ingested > 0 THEN harm \cup {"tasks"} ELSE harm
    /\ pc' = [pc EXCEPT ![g] = "closing"]
    /\ UNCHANGED <<local, files, jobs, stop, stopping, promoted, asked, crashes>>

EndDrainUnsaved(g) ==   \* a slip: only the last bundle's outcome is looked at
    /\ pc[g] = "bundle" /\ local[g].todo = <<>>
    /\ pc' = [pc EXCEPT ![g] = IF local[g].ingested > 1 THEN "save"
                               ELSE "generate"]
    /\ UNCHANGED <<local, files, jobs, control, history>>

EndDrain(g) ==
    /\ pc[g] = "bundle" /\ local[g].todo = <<>>
    /\ pc' = [pc EXCEPT ![g] = IF local[g].ingested > 0 THEN "save"
                               ELSE "generate"]
    /\ UNCHANGED <<local, files, jobs, control, history>>

\* _save_learned_tasks: truncate, then write.
BeginSave(g) ==
    /\ pc[g] \in {"save", "add"}
    /\ learned' = {}
    /\ pc' = [pc EXCEPT ![g] = IF @ = "save" THEN "saving" ELSE "adding"]
    /\ UNCHANGED <<local, bundle, state, jobs, control, history>>

EndSave(g) ==
    /\ pc[g] \in {"saving", "adding"}
    /\ learned' = local[g].buffer
    /\ pc' = [pc EXCEPT ![g] = IF @ = "saving" THEN "generate" ELSE "make"]
    /\ UNCHANGED <<local, bundle, state, jobs, control, history>>

\* _maybe_generate_tasks: a top-up when the inbox is empty and the last run
\* changed nothing, and even then one that may come to nothing.
Starved == InInbox = {} /\ auto.outcome \in {"none", "no change"}

Generate(g) ==
    /\ pc[g] = "generate"
    /\ Starved
    /\ \E t \in Generated \ learned :
          local' = [local EXCEPT ![g].buffer = learned \cup {t}]
    /\ pc' = [pc EXCEPT ![g] = "add"]
    /\ UNCHANGED <<files, jobs, control, history>>

\* _make_job, the corpus, and the call of _run_job.
MakeJob(g) ==
    /\ pc[g] \in {"generate", "make"}
    /\ \E j \in FreeJobs :
          /\ jobs' = [jobs EXCEPT ![j] = [Called(j) EXCEPT !.loop = g]]
          /\ local' = [local EXCEPT ![g].job = j]
    /\ pc' = [pc EXCEPT ![g] = "run"]
    /\ UNCHANGED <<files, control, history>>

\* With learned tasks the corpus must be assembled, which may raise: the job
\* stays in the list as "queued", the loop ends.
NoCorpus(g) ==
    /\ pc[g] \in {"generate", "make"} /\ learned # {}
    /\ \E j \in FreeJobs :
          jobs' = [jobs EXCEPT ![j] = [Unused EXCEPT !.step = "abandoned",
                                             !.status = "queued", !.loop = g]]
    /\ auto' = [auto EXCEPT !.error = "corpus"]
    /\ pc' = [pc EXCEPT ![g] = "closing"]
    /\ UNCHANGED <<local, files, stop, stopping, history>>

\* A failed job has no summary, so it has promoted nothing.
Count(g) ==
    /\ pc[g] = "run" /\ jobs[local[g].job].step = "returned"
    /\ LET j == jobs[local[g].job]
           edit == j.status = "completed" /\ j.result = "promoted"
       IN  auto' = [auto EXCEPT !.runs = @ + 1,
                                !.edits = IF edit THEN @ + 1 ELSE @,
                                !.outcome = IF j.status = "failed" THEN "failed"
                                            ELSE IF edit THEN "promoted edit"
                                            ELSE "no change"]
    /\ pc' = [pc EXCEPT ![g] = "check"]
    /\ local' = [local EXCEPT ![g].job = "none"]
    /\ UNCHANGED <<files, jobs, stop, stopping, history>>

\* The finally clause.
Close(g) ==
    /\ pc[g] = "closing"
    /\ auto' = [auto EXCEPT !.active = FALSE]
    /\ pc' = [pc EXCEPT ![g] = "dead"]
    /\ UNCHANGED <<local, files, jobs, stop, stopping, history>>

LoopStep(g) ==
    \/ CheckStop(g) \/ ListInbox(g) \/ Ingest(g) \/ RejectBundle(g)
    \/ ChokeOnBundle(g) \/ EndDrain(g) \/ BeginSave(g) \/ EndSave(g)
    \/ Generate(g) \/ MakeJob(g) \/ NoCorpus(g) \/ Count(g) \/ Close(g)

-----------------------------------------------------------------------------
(* _run_job, on the controller's thread or on one of its own.                *)
StartRun(j) ==
    /\ j \in UserJobs /\ jobs[j].step = "idle"
    /\ jobs' = [jobs EXCEPT ![j] = Called(j)]
    /\ UNCHANGED <<files, threads, control, history>>

\* _load_persisted_layers.  A state that does not know the profile is written
\* back with the profile registered.  Without a file, and with one the loader
\* refuses ("except (OSError, InvalidPatchError): return None"), the run has no
\* layers and writes nothing: the engine begins with its own.
Load(j) ==
    /\ jobs[j].step = "load"
    /\ jobs' = [jobs EXCEPT
          ![j].layers = state.edits,
          ![j].step = IF state.loads /\ ~state.registered THEN "register"
                      ELSE "engine"]
    /\ UNCHANGED <<files, threads, control, history>>

BeginRegister(j) ==
    /\ jobs[j].step = "register"
    /\ state' = TornState
    /\ jobs' = [jobs EXCEPT ![j].step = "registering"]
    /\ UNCHANGED <<bundle, learned, threads, control, history>>

EndRegister(j) ==
    /\ jobs[j].step = "registering"
    /\ state' = State(jobs[j].layers)
    /\ jobs' = [jobs EXCEPT ![j].step = "engine"]
    /\ UNCHANGED <<bundle, learned, threads, control, history>>

\* engine.run comes to its end within the timeout.
EngineReturns(j) ==
    /\ jobs[j].step = "engine"
    /\ \E r \in {"promoted", "unchanged"} :
          jobs' = [jobs EXCEPT
             ![j].result = r,
             ![j].layers = IF r = "promoted" THEN @ \cup {j} ELSE @,
             ![j].step = IF r = "promoted" /\ j \in Evolving THEN "persist"
                         ELSE "report"]
    /\ UNCHANGED <<files, threads, control, history>>

\* It raises, or the watchdog stops waiting for it: either way a "loop_timeout".
EngineFails(j) ==
    /\ jobs[j].step = "engine"
    /\ jobs' = [jobs EXCEPT ![j].status = "failed", ![j].step = "alarm",
                            ![j].layers = {}]
    /\ UNCHANGED <<files, threads, control, history>>

\* _record_system_failure writes an object without the "id" and "command" that
\* the ingester asks for; an OSError is passed over.
RecordFailure(j) ==
    /\ jobs[j].step = "alarm"
    /\ jobs' = [jobs EXCEPT ![j].step = "returned"]
    /\ \/ \E b \in Bundles :
             /\ bundle[b].place = "none"
             /\ bundle' = [bundle EXCEPT
                   ![b] = [place |-> "inbox", holds |-> "watchdog"]]
       \/ UNCHANGED bundle
    /\ UNCHANGED <<learned, state, threads, control, history>>

\* _persist_final_harness: the layers of the run replace what is in the file.
BeginPersist(j) ==
    /\ jobs[j].step = "persist"
    /\ state' = TornState
    /\ jobs' = [jobs EXCEPT ![j].step = "persisting"]
    /\ UNCHANGED <<bundle, learned, threads, control, history>>

EndPersistOwn(j) ==   \* a slip: the run's own edit, not the layers it made
    /\ jobs[j].step = "persisting"
    /\ state' = State({j})
    /\ promoted' = promoted \cup {j}
    /\ jobs' = [jobs EXCEPT ![j].step = "report"]
    /\ UNCHANGED <<bundle, learned, threads, control, asked, harm, crashes>>

EndPersist(j) ==
    /\ jobs[j].step = "persisting"
    /\ state' = State(jobs[j].layers)
    /\ promoted' = promoted \cup {j}
    /\ jobs' = [jobs EXCEPT ![j].step = "report"]
    /\ UNCHANGED <<bundle, learned, threads, control, asked, harm, crashes>>

\* Source promotion and the summary, which may still raise.
Report(j) ==
    /\ jobs[j].step = "report"
    /\ \E s \in {"completed", "failed"} :
          jobs' = [jobs EXCEPT ![j].status = s, ![j].step = "returned",
                               ![j].layers = {}]
    /\ UNCHANGED <<files, threads, control, history>>

JobStep(j) ==
    \/ Load(j) \/ BeginRegister(j) \/ EndRegister(j)
    \/ EngineReturns(j) \/ EngineFails(j) \/ RecordFailure(j)
    \/ BeginPersist(j) \/ EndPersist(j) \/ Report(j)

-----------------------------------------------------------------------------
\* The tasks and the harness a crash would tear just now.
Unsaved(g) ==
    \/ pc[g] = "bundle" /\ local[g].ingested > 0
    \/ pc[g] \in {"save", "saving", "add", "adding"}
Writing(j) == jobs[j].step \in {"registering", "persisting"}
AtRisk ==
    (IF \E g \in Loops : Unsaved(g) THEN {"tasks"} ELSE {})
    \cup (IF \E j \in Jobs : Writing(j) THEN {"state"} ELSE {})

\* The process dies and is started again: the files are all that is left.
Crash ==
    /\ crashes < MaxCrashes
    /\ crashes' = crashes + 1
    /\ harm' = harm \cup AtRisk
    /\ jobs' = [j \in Jobs |->
                  IF jobs[j].step \in {"idle", "abandoned", "returned"}
                  THEN jobs[j]
                  ELSE [jobs[j] EXCEPT !.step = "returned", !.status = "lost",
                                   !.layers = {}]]
    /\ pc' = [g \in Loops |-> IF Alive(g) THEN "dead" ELSE pc[g]]
    /\ local' = [g \in Loops |-> Idle]
    /\ auto' = Stopped
    /\ stop' = FALSE
    /\ stopping' = FALSE
    /\ UNCHANGED <<files, promoted, asked>>

Next ==
    \/ \E b \in Bundles : BeginSubmit(b) \/ EndSubmit(b)
    \/ \E g \in Loops : StartLoop(g) \/ LoopStep(g)
    \/ LookAtActive \/ SignalStop
    \/ \E j \in Jobs : StartRun(j) \/ JobStep(j)
    \/ Crash

\* Threads that can go on do; nobody has to submit, start, stop or crash.
Fairness ==
    /\ \A g \in Loops : WF_vars(LoopStep(g))
    /\ \A j \in Jobs : WF_vars(JobStep(j))
    /\ WF_vars(SignalStop)

Spec == Init /\ [][Next]_vars /\ Fairness

-----------------------------------------------------------------------------
Steps == {"idle", "load", "register", "registering", "engine",
          "alarm", "persist", "persisting", "report", "returned", "abandoned"}

(* However starts, stops and crashes interleave, there is at most one        *)
(* controller thread, and "active" says whether there is one: on this the    *)
(* unlocked writes of the inbox and of the learned tasks rely.               *)
OneLoop ==
    /\ \A g, h \in Loops : Alive(g) /\ Alive(h) => g = h
    /\ auto.active <=> \E g \in Loops : Alive(g)

(* A bundle becomes a task only once it is out of the inbox and was not      *)
(* rejected, whenever the process dies: no bundle is learned twice.          *)
LearnedOnlyIfProcessed ==
    \A b \in learned \cap Bundles : bundle[b].place = "processed"

(* And, the other way round, a processed bundle is a learned task once the   *)
(* drain is over, and stays one; the only way to lose it is a crash between  *)
(* its renaming and the end of the save.                                     *)
ProcessedAreLearned ==
    "tasks" \notin harm /\ (\A g \in Loops : ~Unsaved(g)) =>
        {b \in Bundles : bundle[b].place = "processed"} \subseteq learned

(* The lineage only grows: an edit, once persisted, stays in the harness     *)
(* state and is in the layers of every evolving run from then on, failed,    *)
(* timed out and not evolving ones in between or not.  "Each iteration       *)
(* starts from the persisted best-so-far harness ... so the lineage improves *)
(* monotonically."  The only way out is a crash in the middle of a write.    *)
LineageKept ==
    "state" \notin harm =>
        /\ (\A j \in Jobs : ~Writing(j)) => promoted \subseteq state.edits
        /\ \A j \in Evolving :
              jobs[j].step \in {"register", "registering", "engine", "persist",
                                "persisting"} =>
                  promoted \subseteq jobs[j].layers

(* A stop request that was answered with "autoloop stopping" is not lost:    *)
(* once signalled, the signal stands until the loop it was answered about is *)
(* gone, even if other starts and stops come in between.                     *)
StopNotLost == \A g \in asked : Alive(g) /\ ~stopping => stop

(* And so the loop it was about ends, mid-drain, mid-run or between runs as   *)
(* it may be.  The watchdog sees to it that the run ends; the guard on a UX   *)
(* bundle and the generator have none, they are taken to return.             *)
StopHonoured == \A g \in Loops : (g \in asked) ~> pc[g] = "dead"

(* "A malformed or unverifiable bundle is moved to processed/ with a         *)
(* .rejected suffix so it doesn't block the queue forever."                  *)
NoBundleStopsTheLoop == auto.error # "bundle"
=============================================================================
