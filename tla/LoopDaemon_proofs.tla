------------------------- MODULE LoopDaemon_proofs -------------------------
(* That commands from one terminal never have two loops going, that a loop   *)
(* which is said to be stopped is gone, and that a torn harness.py has a     *)
(* whole backup: for any number of process ids, runs and harnesses, wherever *)
(* a loop is cut off and whoever has its pid then.                           *)
EXTENDS LoopDaemon, FiniteSetTheorems, TLAPS

(* The commands are given one after the other.  From two terminals each may  *)
(* find no loop before the other's is recorded, and both spawn one.          *)
OneTerminal == \A l, m \in Launchers : l = m

LaunchSteps == {"prompt", "spawn", "record", "signal", "poll"}
Said == {"none", "already running", "started", "nothing to stop", "stopped",
         "did not stop"}
ProcSteps == {"dead", "other", "boot", "between", "run", "promote",
              "failed"}

Process == [at : ProcSteps, runs : Nat, term : BOOLEAN]

DaemonType ==
    /\ launch \in [Launchers -> [at : LaunchSteps, pid : Procs \cup {0}, said : Said]]
    /\ pidfile \in Procs \cup {0}
    /\ proc \in [Procs -> Process]
    /\ used \subseteq Procs

Reports == {"none", "no markers", "unchanged", "applied", "gate failed"}
Promotion ==
    [at : Steps, spec : Harnesses, original : Harnesses, filling : BOOLEAN,
     report : Reports]

PromotionType ==
    /\ source \in Contents
    /\ backup \in Contents \cup {Absent}
    /\ prom \in [Procs -> Promotion]

NoLoop == \A p \in Procs : ~KnownLoop(p)

(* A loop is the one the pid file names, or the one a command just spawned   *)
(* and has not recorded yet, or an orphan.                                   *)
Recorded ==
    \A p \in Procs :
        /\ IsLoop(p) => p \in used
        /\ KnownLoop(p) =>
           \/ p = pidfile
           \/ \E l \in Launchers : launch[l].at = "record" /\ launch[l].pid = p

(* What a command knows at each of its steps.                                *)
CommandKnows ==
    \A l \in Launchers :
        /\ launch[l].at = "spawn" => NoLoop
        /\ launch[l].at = "record" =>
              \A p \in Procs : KnownLoop(p) => p = launch[l].pid
        /\ launch[l].at \in {"signal", "poll"} =>
              launch[l].pid = pidfile /\ pidfile # 0
        /\ launch[l].said = "stopped" => launch[l].at = "prompt" /\ NoLoop

DaemonInv == DaemonType /\ Recorded /\ CommandKnows

(* Only a loop in its promotion writes, and whenever it is about to empty    *)
(* harness.py the backup is whole; before and after that, harness.py is.     *)
TornIsBackedUp == source = Torn => backup \in Harnesses

PromotionInv ==
    /\ PromotionType
    /\ TornIsBackedUp
    /\ \A p \in Procs :
          /\ prom[p].at # "none" => proc[p].at = "promote"
          /\ prom[p].at \in {"backup", "unlink"} => source # Torn
          /\ prom[p].at \in {"write", "gate", "restore"} => backup \in Harnesses

-----------------------------------------------------------------------------
LEMMA InitDaemon == Init => DaemonInv /\ PromotionInv
  <1> SUFFICES ASSUME Init PROVE DaemonInv /\ PromotionInv
    OBVIOUS
  <1>1. \A p \in Procs : proc[p].at = "dead"
    BY DEF Init, Dead
  <1>2. DaemonType
    BY DEF Init, Dead, DaemonType, Process, LaunchSteps, Said, ProcSteps
  <1>3. DaemonInv
    BY <1>1, <1>2 DEF Init, DaemonInv, Recorded, CommandKnows, KnownLoop, IsLoop
  <1>4. PromotionType
    BY HarnessKinds
    DEF Init, PromotionInit, PromotionType, Promotion, Resting, Steps, Reports, Contents
  <1>5. PromotionInv
    BY <1>4, HarnessKinds, WholeRenderings
    DEF Init, PromotionInit, PromotionInv, TornIsBackedUp, Resting
  <1> QED
    BY <1>3, <1>5

(* is_running: a command that finds no loop at its prompt knows there is none,*)
(* for a loop is recorded unless a command is between spawning and recording. *)
LEMMA NoLoopUnlessAlive ==
    ASSUME OneTerminal, DaemonInv, NEW l \in Launchers,
           launch[l].at # "record", pidfile = 0 \/ ~Alive(pidfile)
    PROVE  NoLoop
  <1>1. \A p \in Procs : KnownLoop(p) => p = pidfile
    BY DEF OneTerminal, DaemonInv, Recorded
  <1>2. \A p \in Procs : p # 0 /\ (IsLoop(p) => Alive(p))
    BY ProcessIds DEF Alive, IsLoop
  <1> QED
    BY <1>1, <1>2 DEF NoLoop, KnownLoop

\* A command comes to a step, works with a pid and has said something.
Comes(l, at, pid, said) ==
    launch' = [launch EXCEPT ![l] = [at |-> at, pid |-> pid, said |-> said]]

LEMMA AnswersComes ==
    ASSUME NEW l, NEW said, Answers(l, said)
    PROVE  Comes(l, "prompt", 0, said)
  BY DEF Answers, Comes

LEMMA GoesComes ==
    ASSUME NEW l, NEW step, NEW pid, Goes(l, step, pid)
    PROVE  Comes(l, step, pid, "none")
  BY DEF Goes, Comes

(* The whole invariant, for a step of a command that leaves the processes be. *)
LEMMA CommandDaemon ==
    ASSUME OneTerminal, DaemonInv, NEW l \in Launchers, UNCHANGED <<proc, used, orphans>>,
           NEW at \in LaunchSteps, NEW pid \in Procs \cup {0}, NEW said \in Said,
           Comes(l, at, pid, said), pidfile' \in Procs \cup {0},
           \/ NoLoop
           \/ /\ at \notin {"spawn", "record"} /\ said # "stopped"
              /\ launch[l].at # "record" /\ pidfile' = pidfile
           \/ /\ at = "prompt" /\ said # "stopped"
              /\ launch[l].at = "record" /\ pidfile' = launch[l].pid,
           at \in {"signal", "poll"} => pid = pidfile' /\ pid # 0,
           said = "stopped" => at = "prompt"
    PROVE  DaemonInv'
  <1>1. \A m \in Launchers : m = l
    BY DEF OneTerminal
  <1>2. DaemonType'
    BY DEF DaemonInv, DaemonType, Comes
  <1>3. launch'[l].at = at /\ launch'[l].pid = pid /\ launch'[l].said = said
    BY DEF DaemonInv, DaemonType, Comes
  <1>4. \A p \in Procs : (IsLoop(p)' <=> IsLoop(p)) /\ (KnownLoop(p)' <=> KnownLoop(p))
    BY DEF KnownLoop, IsLoop
  <1>5. NoLoop' <=> NoLoop
    BY <1>4 DEF NoLoop
  <1>6. Recorded'
    <2> SUFFICES ASSUME NEW p \in Procs, KnownLoop(p)
                 PROVE  p = pidfile'
      BY <1>4 DEF DaemonInv, Recorded
    <2> QED
      BY <1>1 DEF DaemonInv, Recorded, CommandKnows, NoLoop
  <1>7. CommandKnows'
    BY <1>1, <1>3, <1>4, <1>5 DEF CommandKnows, NoLoop
  <1> QED
    BY <1>2, <1>6, <1>7 DEF DaemonInv

(* start                                                                     *)
LEMMA StartDaemon ==
    ASSUME OneTerminal, DaemonInv, NEW l \in Launchers, Start(l)
    PROVE  DaemonInv'
  <1>1. launch[l].at = "prompt" /\ UNCHANGED <<proc, used, orphans>>
    BY DEF Start
  <1>2. CASE pidfile # 0 /\ Alive(pidfile)
    <2>1. Comes(l, "prompt", 0, "already running") /\ pidfile' = pidfile
      BY <1>2, AnswersComes DEF Start, IsRunning
    <2> QED
      BY <1>1, <2>1, CommandDaemon DEF DaemonInv, DaemonType, LaunchSteps, Said
  <1>3. CASE ~(pidfile # 0 /\ Alive(pidfile))
    <2>1. Comes(l, "spawn", 0, "none") /\ pidfile' = 0
      BY <1>3, GoesComes DEF Start, IsRunning
    <2>2. NoLoop
      BY <1>1, <1>3, NoLoopUnlessAlive
    <2> QED
      BY <1>1, <2>1, <2>2, CommandDaemon DEF LaunchSteps, Said
  <1> QED
    BY <1>2, <1>3

(* The spawned process is the only loop, and not yet recorded.               *)
LEMMA SpawnDaemon ==
    ASSUME OneTerminal, DaemonInv, NEW l \in Launchers, Spawn(l)
    PROVE  DaemonInv'
  <1>1. \A m \in Launchers : m = l
    BY DEF OneTerminal
  <1>2. PICK p \in Procs \ used :
          /\ proc' = [proc EXCEPT ![p] = [Dead EXCEPT !.at = "boot"]]
          /\ used' = used \cup {p}
          /\ Goes(l, "record", p)
    BY DEF Spawn
  <1>3. Comes(l, "record", p, "none")
    BY <1>2, GoesComes
  <1>4. NoLoop /\ UNCHANGED <<pidfile, orphans>>
    BY DEF DaemonInv, CommandKnows, Spawn
  <1>5. DaemonType'
    <2>1. proc' \in [Procs -> Process]
      BY <1>2 DEF DaemonInv, DaemonType, Dead, Process, ProcSteps
    <2> QED
      BY <1>2, <1>3, <1>4, <2>1 DEF DaemonInv, DaemonType, Comes, LaunchSteps, Said
  <1>6. \A q \in Procs : (KnownLoop(q)' => q = p) /\ (IsLoop(q)' => q = p \/ IsLoop(q))
    BY <1>2, <1>4 DEF DaemonInv, DaemonType, NoLoop, KnownLoop, IsLoop
  <1>7. launch'[l].at = "record" /\ launch'[l].pid = p /\ launch'[l].said = "none"
    BY <1>3 DEF DaemonInv, DaemonType, Comes
  <1>8. Recorded'
    BY <1>2, <1>6, <1>7 DEF DaemonInv, Recorded
  <1>9. CommandKnows'
    BY <1>1, <1>6, <1>7 DEF CommandKnows
  <1> QED
    BY <1>5, <1>8, <1>9 DEF DaemonInv

LEMMA RecordDaemon ==
    ASSUME OneTerminal, DaemonInv, NEW l \in Launchers, RecordPid(l)
    PROVE  DaemonInv'
  <1>1. launch[l].at = "record" /\ pidfile' = launch[l].pid /\ UNCHANGED <<proc, used, orphans>>
    BY DEF RecordPid
  <1>2. Comes(l, "prompt", 0, "started")
    BY AnswersComes DEF RecordPid
  <1>3. pidfile' \in Procs \cup {0}
    BY <1>1 DEF DaemonInv, DaemonType
  <1> QED
    BY <1>1, <1>2, <1>3, CommandDaemon DEF LaunchSteps, Said

(* stop finds a loop, or knows there is none.                                *)
LEMMA StopDaemon ==
    ASSUME OneTerminal, DaemonInv, NEW l \in Launchers, Stop(l)
    PROVE  DaemonInv'
  <1>1. launch[l].at = "prompt" /\ UNCHANGED <<proc, used, orphans>>
        /\ pidfile \in Procs \cup {0}
    BY DEF Stop, DaemonInv, DaemonType
  <1>2. CASE pidfile # 0 /\ Alive(pidfile)
    <2>1. Comes(l, "signal", pidfile, "none") /\ pidfile' = pidfile
      BY <1>2, GoesComes DEF Stop, IsRunning
    <2> QED
      BY <1>1, <1>2, <2>1, CommandDaemon DEF LaunchSteps, Said
  <1>3. CASE ~(pidfile # 0 /\ Alive(pidfile))
    <2>1. Comes(l, "prompt", 0, "nothing to stop") /\ pidfile' = 0
      BY <1>3, AnswersComes DEF Stop, IsRunning
    <2>2. NoLoop
      BY <1>1, <1>3, NoLoopUnlessAlive
    <2> QED
      BY <1>1, <2>1, <2>2, CommandDaemon DEF LaunchSteps, Said
  <1> QED
    BY <1>2, <1>3

(* The answer "stopped", of SeeStopped and of a Signal that finds the process *)
(* dead: the pid file named it, so there is no loop.                         *)
LEMMA StoppedDaemon ==
    ASSUME OneTerminal, DaemonInv, NEW l \in Launchers,
           launch[l].at \in {"signal", "poll"}, ~Alive(launch[l].pid),
           pidfile' = 0, Answers(l, "stopped"), UNCHANGED <<proc, used, orphans>>
    PROVE  DaemonInv'
  <1>1. NoLoop
    BY NoLoopUnlessAlive DEF DaemonInv, CommandKnows
  <1>2. Comes(l, "prompt", 0, "stopped")
    BY AnswersComes
  <1> QED
    BY <1>1, <1>2, CommandDaemon DEF LaunchSteps, Said

LEMMA GiveUpDaemon ==
    ASSUME OneTerminal, DaemonInv, NEW l \in Launchers, GiveUp(l)
    PROVE  DaemonInv'
  <1>1. launch[l].at = "poll" /\ UNCHANGED <<pidfile, proc, used, orphans>>
        /\ pidfile \in Procs \cup {0}
    BY DEF GiveUp, DaemonInv, DaemonType
  <1>2. Comes(l, "prompt", 0, "did not stop")
    BY AnswersComes DEF GiveUp
  <1> QED
    BY <1>1, <1>2, CommandDaemon DEF LaunchSteps, Said

(* A command that dies between spawning and recording leaves an orphan, and   *)
(* no other loop.                                                            *)
LEMMA DeathDaemon ==
    ASSUME OneTerminal, DaemonInv, NEW l \in Launchers, LauncherDies(l)
    PROVE  DaemonInv'
  <1>1. Comes(l, "prompt", 0, "none") /\ UNCHANGED <<pidfile, proc, used>>
    BY AnswersComes DEF LauncherDies
  <1>2. CASE launch[l].at # "record"
    <2>1. orphans' = orphans /\ pidfile \in Procs \cup {0}
      BY <1>2 DEF LauncherDies, DaemonInv, DaemonType
    <2> QED
      BY <1>1, <1>2, <2>1, CommandDaemon DEF LaunchSteps, Said
  <1>3. CASE launch[l].at = "record"
    <2>1. orphans' = orphans \cup {launch[l].pid}
      BY <1>3 DEF LauncherDies
    <2>2. NoLoop' /\ \A p \in Procs : IsLoop(p)' <=> IsLoop(p)
      BY <1>1, <1>3, <2>1 DEF DaemonInv, CommandKnows, NoLoop, KnownLoop, IsLoop
    <2>3. DaemonType'
      BY <1>1 DEF DaemonInv, DaemonType, Comes, LaunchSteps, Said
    <2>4. \A m \in Launchers : m = l
      BY DEF OneTerminal
    <2>5. launch'[l].at = "prompt" /\ launch'[l].said = "none"
      BY <1>1 DEF DaemonInv, DaemonType, Comes
    <2>6. Recorded'
      BY <1>1, <2>2 DEF DaemonInv, Recorded, NoLoop
    <2>7. CommandKnows'
      BY <2>4, <2>5 DEF CommandKnows
    <2> QED
      BY <2>3, <2>6, <2>7 DEF DaemonInv
  <1> QED
    BY <1>2, <1>3

(* A process on its own never becomes a loop: it goes on, ends, or its pid is *)
(* given to something else.                                                  *)
LEMMA ProcessDaemon ==
    ASSUME DaemonInv, NEW p \in Procs,
           NEW r \in Process,
           proc' = [proc EXCEPT ![p] = r],
           r.at \in {"dead", "other"} \/ IsLoop(p),
           UNCHANGED <<launch, pidfile, used, orphans>>
    PROVE  DaemonInv'
  <1>1. \A q \in Procs : (IsLoop(q)' => IsLoop(q)) /\ (KnownLoop(q)' => KnownLoop(q))
    BY DEF DaemonInv, DaemonType, KnownLoop, IsLoop
  <1>2. DaemonType'
    BY DEF DaemonInv, DaemonType
  <1>3. Recorded'
    BY <1>1 DEF DaemonInv, Recorded
  <1>4. CommandKnows'
    BY <1>1 DEF DaemonInv, CommandKnows, NoLoop
  <1> QED
    BY <1>2, <1>3, <1>4 DEF DaemonInv

(* SIGTERM: the process is marked, or ended when no handler is in place; with *)
(* the step to "poll" nothing else is known of the loops than before.        *)
LEMMA SignalDaemon ==
    ASSUME OneTerminal, DaemonInv, NEW l \in Launchers, Signal(l)
    PROVE  DaemonInv'
  <1> DEFINE p == launch[l].pid
  <1>1. \A m \in Launchers : m = l
    BY DEF OneTerminal
  <1>2. launch[l].at = "signal" /\ UNCHANGED <<used, orphans>>
    BY DEF Signal
  <1>3. p \in Procs /\ p = pidfile /\ pidfile # 0
    BY <1>2 DEF DaemonInv, DaemonType, CommandKnows
  <1>4. CASE proc[p].at = "dead"
    <2>1. pidfile' = 0 /\ Answers(l, "stopped") /\ UNCHANGED proc
      BY <1>4 DEF Signal
    <2> QED
      BY <1>2, <1>4, <2>1, StoppedDaemon DEF Alive
  <1>5. CASE proc[p].at # "dead"
    <2>1. /\ Goes(l, "poll", p) /\ UNCHANGED pidfile
          /\ proc' = [proc EXCEPT ![p] = Dead] \/ proc' = [proc EXCEPT ![p].term = TRUE]
      BY <1>5 DEF Signal
    <2>2. Comes(l, "poll", p, "none")
      BY <2>1, GoesComes
    <2>3. \A q \in Procs : (IsLoop(q)' => IsLoop(q)) /\ (KnownLoop(q)' => KnownLoop(q))
      <3>1. proc \in [Procs -> Process]
        BY DEF DaemonInv, DaemonType
      <3>2. \A q \in Procs : proc'[q].at = proc[q].at \/ proc'[q].at = "dead"
        BY <1>3, <2>1, <3>1 DEF Dead, Process
      <3> QED
        BY <1>2, <3>2 DEF KnownLoop, IsLoop
    <2>4. launch'[l].at = "poll" /\ launch'[l].pid = p /\ launch'[l].said = "none"
      BY <2>2 DEF DaemonInv, DaemonType, Comes
    <2>5. proc' \in [Procs -> Process]
      <3>1. proc \in [Procs -> Process] /\ Dead \in Process
        BY DEF DaemonInv, DaemonType, Process, Dead, ProcSteps
      <3>2. [proc[p] EXCEPT !.term = TRUE] \in Process
        BY <1>3, <3>1 DEF Process
      <3> QED
        BY <1>3, <2>1, <3>1, <3>2
    <2>6. DaemonType'
      BY <1>2, <1>3, <2>1, <2>2, <2>5
      DEF DaemonInv, DaemonType, Comes, LaunchSteps, Said
    <2>7. Recorded'
      BY <1>1, <1>2, <2>1, <2>3 DEF DaemonInv, Recorded
    <2>8. CommandKnows'
      BY <1>1, <1>3, <2>1, <2>4 DEF CommandKnows
    <2> QED
      BY <2>6, <2>7, <2>8 DEF DaemonInv
  <1> QED
    BY <1>4, <1>5

LEMMA LoopStepDaemon ==
    ASSUME DaemonInv, NEW p \in Procs, LoopStep(p) \/ ReusePid(p)
    PROVE  DaemonInv'
  <1> DEFINE Step(r) == proc' = [proc EXCEPT ![p] = r]
  <1>1. UNCHANGED <<launch, pidfile, used, orphans>>
    BY DEF LoopStep, Boot, BeginRun, EndRun, EndRunPromoting, PromoteStep,
           PromotionDone, ControllerDies, Exit, ReusePid, daemonVars
  <1>2. proc \in [Procs -> Process] /\ proc[p] \in Process /\ Dead \in Process
    BY DEF DaemonInv, DaemonType, Process, Dead, ProcSteps
  <1>3. \A step \in ProcSteps : [proc[p] EXCEPT !.at = step] \in Process
    BY <1>2 DEF Process
  <1>4. CASE PromoteStep(p)
    <2>1. UNCHANGED proc
      BY <1>4 DEF PromoteStep, daemonVars
    <2> QED
      BY <1>1, <2>1 DEF DaemonInv, DaemonType, Recorded, CommandKnows, KnownLoop, IsLoop, NoLoop
  <1>5. CASE Exit(p)
    <2>1. Step(Dead) /\ Dead.at = "dead"
      BY <1>5 DEF Exit, Dead
    <2> QED
      BY <1>1, <1>2, <2>1, ProcessDaemon
  <1>6. CASE ReusePid(p)
    <2>1. Step([proc[p] EXCEPT !.at = "other"])
      BY <1>2, <1>6 DEF ReusePid
    <2>2. [proc[p] EXCEPT !.at = "other"].at = "other"
      BY <1>2 DEF Process
    <2> QED
      BY <1>1, <1>3, <2>1, <2>2, ProcessDaemon DEF ProcSteps
  <1>7. CASE BeginRun(p)
    <2>1. Step([proc[p] EXCEPT !.at = "run", !.runs = @ + 1])
      BY <1>2, <1>7 DEF BeginRun
    <2>2. [proc[p] EXCEPT !.at = "run", !.runs = @ + 1] \in Process
      <3>1. proc[p].runs + 1 \in Nat /\ "run" \in ProcSteps
        BY <1>2 DEF Process, ProcSteps
      <3> QED
        BY <1>2, <3>1 DEF Process
    <2> QED
      BY <1>1, <1>7, <2>1, <2>2, ProcessDaemon DEF BeginRun, IsLoop
  <1>8. CASE \/ Boot(p) \/ EndRun(p) \/ EndRunPromoting(p) \/ PromotionDone(p)
             \/ ControllerDies(p)
    <2>1. \E step \in ProcSteps : Step([proc[p] EXCEPT !.at = step])
      BY <1>2, <1>8 DEF Boot, EndRun, EndRunPromoting, PromotionDone, ControllerDies, Enter, ProcSteps
    <2>2. IsLoop(p)
      BY <1>8 DEF Boot, EndRun, EndRunPromoting, PromotionDone, ControllerDies, IsLoop
    <2> QED
      BY <1>1, <1>3, <2>1, <2>2, ProcessDaemon
  <1> QED
    BY <1>4, <1>5, <1>6, <1>7, <1>8 DEF LoopStep

THEOREM DaemonInvariant == ASSUME OneTerminal PROVE Spec => []DaemonInv
  <1>1. Init => DaemonInv
    BY InitDaemon
  <1>2. DaemonInv /\ [Next]_vars => DaemonInv'
    <2> SUFFICES ASSUME DaemonInv, [Next]_vars PROVE DaemonInv'
      OBVIOUS
    <2>1. CASE \E l \in Launchers : Start(l) \/ Stop(l) \/ Spawn(l) \/ RecordPid(l)
                                    \/ Signal(l) \/ GiveUp(l)
      BY <2>1, StartDaemon, StopDaemon, SpawnDaemon, RecordDaemon, SignalDaemon,
         GiveUpDaemon
    <2>2. CASE \E l \in Launchers : SeeStopped(l)
      BY <2>2, StoppedDaemon DEF SeeStopped
    <2>3. CASE \E p \in Procs : LoopStep(p) \/ ReusePid(p)
      BY <2>3, LoopStepDaemon
    <2>4. CASE \E l \in Launchers : LauncherDies(l)
      BY <2>4, DeathDaemon
    <2>5. CASE UNCHANGED vars
      BY <2>5 DEF vars, daemonVars, DaemonInv, DaemonType, Recorded, CommandKnows,
                  KnownLoop, IsLoop, NoLoop
    <2> QED
      BY <2>1, <2>2, <2>3, <2>4, <2>5 DEF Next, Command, CommandGoesOn
  <1> QED
    BY <1>1, <1>2, PTL DEF Spec

(* Two loops would both be the recorded one, or both the one being recorded.  *)
LEMMA TheLoop ==
    ASSUME OneTerminal, DaemonInv, NEW p \in Procs, NEW q \in Procs,
           KnownLoop(p), KnownLoop(q)
    PROVE  p = q
  BY DEF OneTerminal, DaemonInv, Recorded, CommandKnows

(* Commands from one terminal never have two loop processes going, however   *)
(* they interleave with the process, with its end and with the reuse of its  *)
(* pid (loop_daemon.start_background), but for one whose start died before   *)
(* it had written the pid file.                                              *)
THEOREM NeverTwoLoops == ASSUME OneTerminal PROVE Spec => []OneLoopAtATime
  <1>1. DaemonInv => OneLoopAtATime
    <2> SUFFICES ASSUME DaemonInv PROVE OneLoopAtATime
      OBVIOUS
    <2> DEFINE L == {p \in Procs : KnownLoop(p)}
    <2>1. CASE L = {}
      BY <2>1, FS_EmptySet DEF OneLoopAtATime
    <2>2. CASE L # {}
      <3>1. PICK p \in L : TRUE
        BY <2>2
      <3>2. L = {p}
        BY <3>1, TheLoop
      <3> QED
        BY <3>2, FS_Singleton DEF OneLoopAtATime
    <2> QED
      BY <2>1, <2>2
  <1> QED
    BY <1>1, DaemonInvariant, PTL

(* When stop_background has said "stopped", no loop is left that a command   *)
(* lived to record.                                                          *)
THEOREM StoppedIsStopped == ASSUME OneTerminal PROVE Spec => []StoppedMeansStopped
  <1>1. DaemonInv => StoppedMeansStopped
    BY DEF DaemonInv, CommandKnows, NoLoop, StoppedMeansStopped
  <1> QED
    BY <1>1, DaemonInvariant, PTL

-----------------------------------------------------------------------------
\* The steps of a promotion that ends at once or goes from one step to the next.
Sets(p, r) == prom' = [prom EXCEPT ![p] = r]

Alone(p) == \A q \in Procs : q # p => prom[q].at = "none"

LEMMA PromotionAlone ==
    ASSUME OneTerminal, orphans = {}, DaemonInv, PromotionInv, NEW p \in Procs, IsLoop(p)
    PROVE  Alone(p)
  <1> SUFFICES ASSUME NEW q \in Procs, prom[q].at # "none" PROVE q = p
    BY DEF Alone
  <1>1. IsLoop(q)
    BY DEF PromotionInv, IsLoop
  <1> QED
    BY <1>1, TheLoop DEF KnownLoop

(* What a step of the only promotion must see to.                            *)
LEMMA PromotionMoves ==
    ASSUME PromotionInv, NEW p \in Procs, Alone(p),
           NEW r \in Promotion, Sets(p, r),
           source' \in Contents, backup' \in Contents \cup {Absent},
           proc'[p].at = "promote" \/ r.at = "none",
           r.at \in {"backup", "unlink"} => source' # Torn,
           r.at \in {"write", "gate", "restore"} => backup' \in Harnesses,
           TornIsBackedUp'
    PROVE  PromotionInv'
  <1>1. prom \in [Procs -> Promotion]
    BY DEF PromotionInv, PromotionType
  <1>2. PromotionType'
    BY <1>1 DEF PromotionType, Sets
  <1>3. prom'[p] = r /\ \A q \in Procs : q # p => prom'[q].at = "none"
    BY <1>1 DEF Sets, Alone
  <1> QED
    BY <1>2, <1>3 DEF PromotionInv

LEMMA PromotionRecords ==
    ASSUME NEW r \in Promotion, NEW step \in Steps, NEW report \in Reports
    PROVE  /\ [r EXCEPT !.at = step, !.filling = FALSE] \in Promotion
           /\ [r EXCEPT !.at = step, !.report = report, !.filling = FALSE] \in Promotion
           /\ [r EXCEPT !.filling = TRUE] \in Promotion
           /\ \A h \in Harnesses :
                 /\ [r EXCEPT !.original = h, !.at = step] \in Promotion
                 /\ [Resting EXCEPT !.at = step, !.spec = h] \in Promotion
  <1>1. Resting \in Promotion
    BY HarnessKinds DEF Resting, Promotion, Steps, Reports
  <1> QED
    BY <1>1 DEF Promotion

LEMMA PromoteStepPromotion ==
    ASSUME OneTerminal, orphans = {}, DaemonInv, PromotionInv, NEW p \in Procs, PromoteStep(p)
    PROVE  PromotionInv'
  <1> DEFINE r == prom[p]
  <1>1. proc[p].at = "promote" /\ proc' = proc /\ Alone(p)
    BY PromotionAlone DEF PromoteStep, daemonVars, IsLoop
  <1>2. /\ prom \in [Procs -> Promotion] /\ r \in Promotion
        /\ source \in Contents /\ backup \in Contents \cup {Absent}
        /\ r.spec \in Harnesses /\ r.original \in Harnesses
    BY DEF PromotionInv, PromotionType, Promotion
  <1>3. \A step \in Steps, report \in Reports :
          /\ Goto(p, step) =>
                Sets(p, [r EXCEPT !.at = step, !.filling = FALSE])
          /\ Report(p, report) =>
                Sets(p, [r EXCEPT !.at = "done", !.report = report, !.filling = FALSE])
    BY <1>2 DEF Goto, Report, Sets
  <1>4. "done" \in Steps /\ "backup" \in Steps /\ "write" \in Steps /\ "gate" \in Steps
        /\ "restore" \in Steps /\ "unlink" \in Steps
        /\ "no markers" \in Reports /\ "unchanged" \in Reports
        /\ "applied" \in Reports /\ "gate failed" \in Reports
    BY DEF Steps, Reports
  <1>5. Harnesses \subseteq Contents /\ Torn \in Contents /\ Torn \notin Harnesses
        /\ Contents \subseteq Harnesses \cup {Torn}
    BY WholeRenderings DEF Contents
  <1>6. TornIsBackedUp
        /\ (r.at \in {"backup", "unlink"} => source # Torn)
        /\ (r.at \in {"write", "gate", "restore"} => backup \in Harnesses)
    BY DEF PromotionInv
  <1>7. \A step \in Steps, report \in Reports :
          /\ [r EXCEPT !.at = step, !.filling = FALSE].at = step
          /\ [r EXCEPT !.at = "done", !.report = report, !.filling = FALSE].at = "done"
          /\ [r EXCEPT !.filling = TRUE].at = r.at
    BY <1>2 DEF Promotion
  \* The two halves of write_text.
  <1>8. ASSUME NEW step \in Steps, r.filling,
               Goto(p, step), source' \in Contents, backup' \in Contents \cup {Absent},
               step \in {"backup", "unlink"} => source' # Torn,
               step \in {"write", "gate", "restore"} => backup' \in Harnesses,
               TornIsBackedUp'
        PROVE  PromotionInv'
    BY <1>1, <1>2, <1>3, <1>4, <1>7, <1>8, PromotionRecords, PromotionMoves
  <1>9. ASSUME prom' = [prom EXCEPT ![p].filling = TRUE],
               source' \in Contents, backup' \in Contents \cup {Absent},
               r.at \in {"backup", "unlink"} => source' # Torn,
               r.at \in {"write", "gate", "restore"} => backup' \in Harnesses,
               TornIsBackedUp'
        PROVE  PromotionInv'
    <2>1. Sets(p, [r EXCEPT !.filling = TRUE])
      BY <1>2, <1>9 DEF Sets
    <2> QED
      BY <1>1, <1>2, <1>4, <1>7, <1>9, <2>1, PromotionRecords, PromotionMoves
  \* The end of the promotion.
  <1>10. ASSUME NEW report \in Reports, Report(p, report), UNCHANGED source,
                backup' \in Contents \cup {Absent}, TornIsBackedUp'
         PROVE  PromotionInv'
    BY <1>1, <1>2, <1>3, <1>4, <1>7, <1>10, PromotionRecords, PromotionMoves
  <1>11. CASE ReadSource(p)
    <2>1. UNCHANGED <<source, backup>> /\ TornIsBackedUp'
      BY <1>6, <1>11 DEF ReadSource, TornIsBackedUp
    <2>2. CASE source = Torn \/ source = r.spec
      BY <1>2, <1>4, <1>10, <1>11, <2>1, <2>2 DEF ReadSource
    <2>3. CASE source # Torn /\ source # r.spec
      <3>1. prom' = [prom EXCEPT ![p].original = source, ![p].at = "backup"]
        BY <1>11, <2>3 DEF ReadSource
      <3>2. Sets(p, [r EXCEPT !.original = source, !.at = "backup"])
        BY <1>2, <3>1 DEF Sets
      <3>3. source \in Harnesses
            /\ [r EXCEPT !.original = source, !.at = "backup"].at = "backup"
        BY <1>2, <1>5, <2>3 DEF Promotion
      <3> QED
        BY <1>1, <1>2, <1>4, <2>1, <2>3, <3>2, <3>3, PromotionRecords, PromotionMoves
    <2> QED
      BY <2>2, <2>3
  <1>12. CASE WriteBackup(p)
    <2>1. r.at = "backup" /\ source' = source /\ source # Torn /\ TornIsBackedUp'
      BY <1>6, <1>12 DEF WriteBackup, At, TornIsBackedUp
    <2>2. CASE r.filling
      BY <1>2, <1>4, <1>5, <1>8, <1>12, <2>1, <2>2 DEF WriteBackup, WriteText
    <2>3. CASE ~r.filling
      BY <1>2, <1>5, <1>9, <1>12, <2>1, <2>3 DEF WriteBackup, WriteText
    <2> QED
      BY <2>2, <2>3
  <1>13. CASE WriteSource(p)
    <2>1. r.at = "write" /\ backup' = backup /\ backup \in Harnesses
          /\ TornIsBackedUp'
      BY <1>6, <1>13 DEF WriteSource, At, TornIsBackedUp
    <2>2. CASE r.filling
      BY <1>2, <1>4, <1>5, <1>8, <1>13, <2>1, <2>2 DEF WriteSource, WriteText
    <2>3. CASE ~r.filling
      BY <1>2, <1>5, <1>9, <1>13, <2>1, <2>3 DEF WriteSource, WriteText
    <2> QED
      BY <2>2, <2>3
  <1>14. CASE Gate(p)
    <2>1. r.at = "gate" /\ UNCHANGED <<source, backup>> /\ backup \in Harnesses
          /\ TornIsBackedUp'
      BY <1>6, <1>14 DEF Gate, At, TornIsBackedUp
    <2>2. CASE Report(p, "applied")
      BY <1>2, <1>4, <1>10, <2>1, <2>2
    <2>3. CASE Goto(p, "restore")
      BY <1>1, <1>2, <1>3, <1>4, <1>7, <2>1, <2>3, PromotionRecords, PromotionMoves
    <2> QED
      BY <1>14, <2>2, <2>3 DEF Gate
  <1>15. CASE RestoreSource(p)
    <2>1. r.at = "restore" /\ backup' = backup /\ backup \in Harnesses
          /\ TornIsBackedUp'
      BY <1>6, <1>15 DEF RestoreSource, At, TornIsBackedUp
    <2>2. CASE r.filling
      BY <1>2, <1>4, <1>5, <1>8, <1>15, <2>1, <2>2 DEF RestoreSource, WriteText
    <2>3. CASE ~r.filling
      BY <1>2, <1>5, <1>9, <1>15, <2>1, <2>3 DEF RestoreSource, WriteText
    <2> QED
      BY <2>2, <2>3
  <1>16. CASE UnlinkBackup(p)
    <2>1. r.at = "unlink" /\ source' = source /\ source # Torn /\ backup' = Absent
          /\ TornIsBackedUp' /\ Report(p, "gate failed")
      BY <1>6, <1>16 DEF UnlinkBackup, At, TornIsBackedUp
    <2> QED
      BY <1>4, <1>10, <2>1
  <1> QED
    BY <1>11, <1>12, <1>13, <1>14, <1>15, <1>16 DEF PromoteStep, Promote

(* Nobody finds an orphan.                                                   *)
LEMMA OrphansStay == [Next]_vars => orphans \subseteq orphans'
  BY DEF Next, vars, daemonVars, Command, CommandGoesOn, LauncherDies, Start, Stop, Spawn,
         RecordPid, Signal, SeeStopped, GiveUp, LoopStep, Boot, BeginRun, EndRun,
         EndRunPromoting, PromoteStep, PromotionDone, ControllerDies, Exit, ReusePid

(* The other steps begin a promotion, drop one, or have nothing to do with it.*)
LEMMA NextPromotion ==
    ASSUME OneTerminal, orphans = {}, DaemonInv, PromotionInv, [Next]_vars
    PROVE  PromotionInv'
  <1>1. ASSUME UNCHANGED promotionVars,
               \A p \in Procs : proc[p].at = "promote" => proc'[p].at = "promote"
        PROVE  PromotionInv'
    BY <1>1 DEF promotionVars, PromotionInv, PromotionType, TornIsBackedUp
  <1>2. /\ source \in Contents /\ backup \in Contents \cup {Absent}
        /\ TornIsBackedUp
        /\ Resting \in Promotion /\ Resting.at = "none"
        /\ proc \in [Procs -> Process] /\ prom \in [Procs -> Promotion]
    BY HarnessKinds DEF PromotionInv, PromotionType, Promotion, Resting, Steps,
                        Reports, DaemonInv, DaemonType
  <1>3. ASSUME NEW p \in Procs, IsLoop(p), prom' = [prom EXCEPT ![p] = Resting],
               UNCHANGED <<source, backup>>
        PROVE  PromotionInv'
    BY <1>2, <1>3, PromotionAlone, PromotionMoves DEF Sets, TornIsBackedUp
  <1>4. ASSUME NEW l \in Launchers, Command(l) \/ CommandGoesOn(l) \/ LauncherDies(l)
        PROVE  PromotionInv'
    <2>1. UNCHANGED promotionVars
      BY <1>4 DEF Command, CommandGoesOn, Start, Stop, Spawn, RecordPid, Signal,
                  SeeStopped, GiveUp, LauncherDies
    <2>2. CASE UNCHANGED proc
      BY <1>1, <2>1, <2>2
    <2>3. CASE Spawn(l)
      <3>1. PICK q \in Procs \ used : proc' = [proc EXCEPT ![q] = [Dead EXCEPT !.at = "boot"]]
        BY <2>3 DEF Spawn
      <3>2. proc[q].at # "promote"
        BY DEF DaemonInv, Recorded, IsLoop
      <3> QED
        BY <1>1, <1>2, <2>1, <3>1, <3>2
    <2>4. CASE Signal(l)
      <3> DEFINE q == launch[l].pid
      <3>1. \/ UNCHANGED proc
            \/ proc[q].at # "promote" /\ proc' = [proc EXCEPT ![q] = Dead]
            \/ proc' = [proc EXCEPT ![q].term = TRUE]
        BY <2>4 DEF Signal
      <3>2. \A p \in Procs : proc[p].at = "promote" => proc'[p].at = "promote"
        BY <1>2, <3>1 DEF Process
      <3> QED
        BY <1>1, <2>1, <3>2
    <2> QED
      BY <1>4, <2>2, <2>3, <2>4
      DEF Command, CommandGoesOn, Start, Stop, RecordPid, SeeStopped, GiveUp, LauncherDies
  <1>5. ASSUME NEW p \in Procs, LoopStep(p) \/ ReusePid(p)
        PROVE  PromotionInv'
    <2>1. CASE Boot(p) \/ BeginRun(p) \/ EndRun(p) \/ ControllerDies(p) \/ ReusePid(p)
      <3>1. UNCHANGED promotionVars /\ proc[p].at # "promote"
        BY <2>1 DEF Boot, BeginRun, EndRun, ControllerDies, ReusePid, Alive
      <3>2. \A q \in Procs : q # p => proc'[q] = proc[q]
        BY <1>2, <2>1 DEF Boot, BeginRun, EndRun, ControllerDies, ReusePid, Enter
      <3> QED
        BY <1>1, <3>1, <3>2
    <2>2. CASE EndRunPromoting(p)
      <3>1. PICK h \in Harnesses : BeginPromotion(p, h)
        BY <2>2 DEF EndRunPromoting
      <3> DEFINE r == [Resting EXCEPT !.at = "read", !.spec = h]
      <3>2. Sets(p, r)
        BY <3>1 DEF BeginPromotion, Sets
      <3>3. r \in Promotion /\ r.at = "read"
        BY <1>2, PromotionRecords DEF Steps, Reports, Resting
      <3>4. proc'[p].at = "promote" /\ UNCHANGED <<source, backup>> /\ IsLoop(p)
        BY <1>2, <2>2 DEF EndRunPromoting, Enter, Process, IsLoop
      <3> QED
        BY <1>2, <3>2, <3>3, <3>4, PromotionAlone, PromotionMoves
        DEF TornIsBackedUp
    <2>3. CASE PromoteStep(p)
      BY <2>3, PromoteStepPromotion
    <2>4. CASE PromotionDone(p) \/ Exit(p)
      BY <1>3, <2>4 DEF PromotionDone, Exit, IsLoop
    <2> QED
      BY <1>5, <2>1, <2>2, <2>3, <2>4 DEF LoopStep
  <1>6. CASE UNCHANGED vars
    BY <1>1, <1>6 DEF vars, daemonVars
  <1> QED
    BY <1>4, <1>5, <1>6 DEF Next

(* Whenever harness.py is torn, harness.py.bak is whole, wherever the loop    *)
(* was cut off in _promote_spec_to_source and however often it is started    *)
(* again, as long as no start died before it had recorded its loop.          *)
THEOREM TornSourceIsBackedUp == ASSUME OneTerminal PROVE Spec => []TornSourceHasBackup
  <1> DEFINE Inv == orphans = {} => PromotionInv
  <1>1. Init => Inv
    BY InitDaemon
  <1>2. DaemonInv /\ Inv /\ [Next]_vars => Inv'
    <2> SUFFICES ASSUME DaemonInv, Inv, [Next]_vars, orphans' = {}
                 PROVE  PromotionInv'
      OBVIOUS
    <2>1. orphans = {}
      BY OrphansStay
    <2> QED
      BY <2>1, NextPromotion
  <1>3. Inv => TornSourceHasBackup
    BY DEF PromotionInv, TornIsBackedUp, TornSourceHasBackup
  <1> QED
    BY <1>1, <1>2, <1>3, DaemonInvariant, PTL DEF Spec
=============================================================================
