----------------------------- MODULE LoopDaemon -----------------------------
(* The loop as a process of its own: start_background and stop_background of *)
(* src/self_harness/loop_daemon.py, which find it by a pid file, and the     *)
(* process they spawn, run_loop_default of cli.py, whose worker thread runs  *)
(* the engine, persists the harness and promotes it to source (module        *)
(* SourcePromotion).  Its threads are daemons: when the main thread has      *)
(* waited out its three seconds for the run to end, they are cut off         *)
(* wherever they are.                                                        *)
EXTENDS SourcePromotion, FiniteSets

CONSTANTS
    Launchers,  \* terminals in which commands are given
    MaxRuns     \* bound: runs a loop process gets to

ASSUME DaemonBounds == MaxRuns \in Nat \ {0} /\ 0 \notin Launchers

VARIABLES
    launch,    \* per terminal: the command, the pid it works with, its answer
    pidfile,   \* runs/loop.pid: a pid, or 0 when there is no file
    proc,      \* per pid: what the process is at, runs it began, SIGTERM seen
    used,      \* history: the pids that were given out at least once
    orphans    \* history: the loops whose pid no command lived to record

daemonVars == <<launch, pidfile, proc, used, orphans>>
vars == <<daemonVars, promotionVars>>

\* "other" is somebody else's process that got the pid of a dead loop.
Dead == [at |-> "dead", runs |-> 0, term |-> FALSE]
Alive(p) == proc[p].at # "dead"
IsLoop(p) == proc[p].at \notin {"dead", "other"}
Enter(p, step) == proc' = [proc EXCEPT ![p].at = step]
Answers(l, said) ==
    launch' = [launch EXCEPT ![l] = [at |-> "prompt", pid |-> 0, said |-> said]]
Goes(l, step, pid) ==
    launch' = [launch EXCEPT ![l] = [at |-> step, pid |-> pid, said |-> "none"]]

Init ==
    /\ PromotionInit
    /\ launch = [l \in Launchers |-> [at |-> "prompt", pid |-> 0, said |-> "none"]]
    /\ pidfile = 0
    /\ proc = [p \in Procs |-> Dead]
    /\ used = {}
    /\ orphans = {}

-----------------------------------------------------------------------------
(* The commands.  is_running reads the pid file, probes the process and      *)
(* removes a stale file; status does nothing else.                           *)
IsRunning(l, found, none) ==
    IF pidfile # 0 /\ Alive(pidfile)
    THEN found /\ UNCHANGED pidfile
    ELSE none /\ pidfile' = 0

StartAnyway(l) ==   \* a slip: a live loop is no reason to stop
    /\ launch[l].at = "prompt"
    /\ used # Procs
    /\ Goes(l, "spawn", 0)
    /\ UNCHANGED <<pidfile, proc, used, orphans, promotionVars>>

Start(l) ==
    /\ launch[l].at = "prompt"
    /\ used # Procs   \* bound: the pids there are
    /\ IsRunning(l, Answers(l, "already running"), Goes(l, "spawn", 0))
    /\ UNCHANGED <<proc, used, orphans, promotionVars>>

Spawn(l) ==
    /\ launch[l].at = "spawn"
    /\ \E p \in Procs \ used :
         /\ proc' = [proc EXCEPT ![p] = [Dead EXCEPT !.at = "boot"]]
         /\ used' = used \cup {p}
         /\ Goes(l, "record", p)
    /\ UNCHANGED <<pidfile, orphans, promotionVars>>

RecordPid(l) ==
    /\ launch[l].at = "record"
    /\ pidfile' = launch[l].pid
    /\ Answers(l, "started")
    /\ UNCHANGED <<proc, used, orphans, promotionVars>>

Stop(l) ==
    /\ launch[l].at = "prompt"
    /\ IsRunning(l, Goes(l, "signal", pidfile), Answers(l, "nothing to stop"))
    /\ UNCHANGED <<proc, used, orphans, promotionVars>>

\* Before its handler is in place SIGTERM ends the process at once; so it
\* does, taken for the same here, with whatever else has the pid.
Signal(l) ==
    /\ launch[l].at = "signal"
    /\ LET p == launch[l].pid IN
       CASE proc[p].at = "dead" ->
              pidfile' = 0 /\ Answers(l, "stopped") /\ UNCHANGED proc
         [] proc[p].at \in {"boot", "other"} ->
              proc' = [proc EXCEPT ![p] = Dead]
              /\ Goes(l, "poll", p) /\ UNCHANGED pidfile
         [] OTHER ->
              proc' = [proc EXCEPT ![p].term = TRUE]
              /\ Goes(l, "poll", p) /\ UNCHANGED pidfile
    /\ UNCHANGED <<used, orphans, promotionVars>>

SeeStoppedAfterSignal(l) ==   \* a slip: the signal is taken for the end
    /\ launch[l].at = "poll"
    /\ pidfile' = 0
    /\ Answers(l, "stopped")
    /\ UNCHANGED <<proc, used, orphans, promotionVars>>

SeeStopped(l) ==
    /\ launch[l].at = "poll"
    /\ ~Alive(launch[l].pid)
    /\ pidfile' = 0
    /\ Answers(l, "stopped")
    /\ UNCHANGED <<proc, used, orphans, promotionVars>>

\* 60 s are over.
GiveUp(l) ==
    /\ launch[l].at = "poll"
    /\ Alive(launch[l].pid)
    /\ Answers(l, "did not stop")
    /\ UNCHANGED <<pidfile, proc, used, orphans, promotionVars>>

\* The terminal is closed, or the command killed, at any of its steps: between
\* Popen and the write of the pid file too, and then nobody knows the loop.
LauncherDies(l) ==
    /\ launch[l].at # "prompt"
    /\ orphans' = IF launch[l].at = "record" THEN orphans \cup {launch[l].pid}
                                              ELSE orphans
    /\ Answers(l, "none")
    /\ UNCHANGED <<pidfile, proc, used, promotionVars>>

\* The pid of a dead process is given to a program that has nothing to do
\* with the loop.
ReusePid(p) ==
    /\ p \in used /\ ~Alive(p)
    /\ \A l \in Launchers : launch[l].at # "record" \/ launch[l].pid # p
    /\ proc' = [proc EXCEPT ![p].at = "other"]
    /\ UNCHANGED <<launch, pidfile, used, orphans, promotionVars>>

-----------------------------------------------------------------------------
(* The loop process.                                                         *)
\* The package is not imported from a torn harness.py.
Boot(p) ==
    /\ proc[p].at = "boot"
    /\ Enter(p, IF source = Torn THEN "dead" ELSE "between")
    /\ UNCHANGED <<launch, pidfile, used, orphans, promotionVars>>

\* The controller looks at its stop signal between runs only.
BeginRun(p) ==
    /\ proc[p].at = "between"
    /\ ~proc[p].term /\ proc[p].runs < MaxRuns
    /\ proc' = [proc EXCEPT ![p].at = "run", ![p].runs = @ + 1]
    /\ UNCHANGED <<launch, pidfile, used, orphans, promotionVars>>

EndRun(p) ==
    /\ proc[p].at = "run"
    /\ Enter(p, "between")
    /\ UNCHANGED <<launch, pidfile, used, orphans, promotionVars>>

\* An edit was accepted: the run's final harness goes to source.
EndRunPromoting(p) ==
    /\ proc[p].at = "run"
    /\ \E h \in Harnesses : BeginPromotion(p, h)
    /\ Enter(p, "promote")
    /\ UNCHANGED <<launch, pidfile, used, orphans, source, backup>>

PromoteStep(p) ==
    /\ proc[p].at = "promote"
    /\ Promote(p)
    /\ UNCHANGED daemonVars

PromotionDone(p) ==
    /\ proc[p].at = "promote" /\ At(p, "done")
    /\ Enter(p, "between")
    /\ prom' = [prom EXCEPT ![p] = Resting]
    /\ UNCHANGED <<launch, pidfile, used, orphans, source, backup>>

\* An exception between two runs ends the controller thread (module AutoLoop).
ControllerDies(p) ==
    /\ proc[p].at = "between"
    /\ Enter(p, "failed")
    /\ UNCHANGED <<launch, pidfile, used, orphans, promotionVars>>

ExitWhenIdle(p) ==   \* a slip: the wait for the controller has no limit
    /\ proc[p].at = "between" /\ proc[p].term
    /\ proc' = [proc EXCEPT ![p] = Dead]
    /\ UNCHANGED <<launch, pidfile, used, orphans, promotionVars>>

\* After SIGTERM the main thread waits until the controller is done, but not
\* for more than three seconds; then its daemon threads end with it.  When it
\* next looks, every ten seconds, and finds the controller dead of an error,
\* it ends as well.
Exit(p) ==
    /\ IsLoop(p)
    /\ proc[p].term \/ proc[p].at = "failed"
    /\ proc' = [proc EXCEPT ![p] = Dead]
    /\ prom' = [prom EXCEPT ![p] = Resting]
    /\ UNCHANGED <<launch, pidfile, used, orphans, source, backup>>

Command(l) == Start(l) \/ Stop(l)
CommandGoesOn(l) ==
    Spawn(l) \/ RecordPid(l) \/ Signal(l) \/ SeeStopped(l) \/ GiveUp(l)
LoopStep(p) ==
    \/ Boot(p)
    \/ BeginRun(p)
    \/ EndRun(p)
    \/ EndRunPromoting(p)
    \/ PromoteStep(p)
    \/ PromotionDone(p)
    \/ ControllerDies(p)
    \/ Exit(p)

Next ==
    \/ \E l \in Launchers : Command(l) \/ CommandGoesOn(l) \/ LauncherDies(l)
    \/ \E p \in Procs : LoopStep(p) \/ ReusePid(p)

\* A command that was given goes on, and the main thread of a process wakes
\* up.  Nothing is assumed of its worker: a run may hang in a model call.
Fairness ==
    /\ \A l \in Launchers : WF_vars(CommandGoesOn(l))
    /\ \A p \in Procs : WF_vars(Exit(p))

Spec == Init /\ [][Next]_vars /\ Fairness

-----------------------------------------------------------------------------
\* Whenever harness.py is torn, in the middle of a rewrite or for good because
\* the process was stopped in it, harness.py.bak is whole: source can be put
\* back.  It rests on the order of the writes, on a promotion refusing a file
\* without markers, and on there being no loop but the recorded one.
TornSourceHasBackup == orphans = {} /\ source = Torn => backup \in Harnesses

\* Commands from one terminal never have two loop processes going at once,
\* which would promote to the same file: however the loop ended, whoever has
\* its pid now, and when a stop gave up waiting.  The one way to a second loop
\* is a start that dies before it has recorded the first.
KnownLoop(p) == IsLoop(p) /\ p \notin orphans
OneLoopAtATime == Cardinality({p \in Procs : KnownLoop(p)}) <= 1

\* When a stop command has said that the loop is stopped, none is left but
\* those that were never recorded.
StoppedMeansStopped ==
    \A l \in Launchers : launch[l].said = "stopped" => \A p \in Procs : ~KnownLoop(p)

\* A loop that was asked to stop ends, whatever it was in the middle of, and
\* so does one whose controller has died.
SignalledLoopEnds ==
    \A p \in Procs :
        (IsLoop(p) /\ (proc[p].term \/ proc[p].at = "failed")) ~> ~IsLoop(p)
=============================================================================
