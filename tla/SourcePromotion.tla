--------------------------- MODULE SourcePromotion ---------------------------
(* HarnessUiApp._promote_spec_to_source and _run_source_gate of              *)
(* src/self_harness/ui.py: an evolved harness is written between the markers *)
(* of harness.py, the file the program itself is imported from.  The file is *)
(* copied to harness.py.bak, rewritten, checked by ruff, mypy and an import  *)
(* in a fresh process, and put back if a check fails.  No step is atomic     *)
(* with the next, write_text empties a file before it fills it, and the      *)
(* threads that do this are killed when the process ends.                    *)
EXTENDS Naturals

CONSTANTS
    Procs,      \* processes, by process id
    Harnesses,  \* harnesses, and the renderings of initial_harness() they give
    Bad,        \* those whose rendering ruff or mypy refuses
    Initial     \* the harness that harness.py is checked out with

ASSUME HarnessKinds == Bad \subseteq Harnesses /\ Initial \in Harnesses \ Bad
ASSUME ProcessIds == Procs \subseteq Nat \ {0}

VARIABLES
    source,   \* harness.py: the harness it renders, or Torn
    backup,   \* harness.py.bak, which may be Absent
    prom      \* per process, the local variables of its promotion

promotionVars == <<source, backup, prom>>

Torn == "torn"
Absent == "absent"
Contents == Harnesses \cup {Torn}
ASSUME WholeRenderings == Torn \notin Harnesses /\ Absent \notin Harnesses

Steps == {"none", "read", "backup", "write", "gate", "restore", "unlink", "done"}
Resting == [at |-> "none", spec |-> Initial, original |-> Initial,
            filling |-> FALSE, report |-> "none"]

At(p, step) == prom[p].at = step
Goto(p, step) == prom' = [prom EXCEPT ![p].at = step, ![p].filling = FALSE]
Report(p, report) ==
    prom' = [prom EXCEPT ![p].at = "done", ![p].report = report,
                         ![p].filling = FALSE]

BeginPromotion(p, spec) ==
    prom' = [prom EXCEPT ![p] = [Resting EXCEPT !.at = "read", !.spec = spec]]

\* _replace_marked_block finds no markers in a torn file, which ends the
\* promotion before anything is written.
ReadSource(p) ==
    /\ At(p, "read")
    /\ IF source = Torn
       THEN Report(p, "no markers")
       ELSE IF source = prom[p].spec
       THEN Report(p, "unchanged")
       ELSE prom' = [prom EXCEPT ![p].original = source, ![p].at = "backup"]
    /\ UNCHANGED <<source, backup>>

\* write_text: the file is emptied, then it has its new content.
WriteText(p, file, content, next) ==
    IF prom[p].filling
    THEN file' = content /\ Goto(p, next)
    ELSE file' = Torn /\ prom' = [prom EXCEPT ![p].filling = TRUE]

WriteSourceFirst(p) ==   \* a slip: the backup is left for after the rewrite
    /\ At(p, "backup")
    /\ WriteText(p, source, prom[p].spec, "gate")
    /\ UNCHANGED backup

WriteBackup(p) ==
    /\ At(p, "backup")
    /\ WriteText(p, backup, prom[p].original, "write")
    /\ UNCHANGED source

WriteSource(p) ==
    /\ At(p, "write")
    /\ WriteText(p, source, prom[p].spec, "gate")
    /\ UNCHANGED backup

\* A check that cannot run, or takes more than its 300 s, has failed; the
\* import confirms that what is in the file now is the promoted harness.
GatePasses(p) == source = prom[p].spec /\ source \notin Bad

Gate(p) ==
    /\ At(p, "gate")
    /\ \/ GatePasses(p) /\ Report(p, "applied")
       \/ Goto(p, "restore")
    /\ UNCHANGED <<source, backup>>

RestoreSource(p) ==
    /\ At(p, "restore")
    /\ WriteText(p, source, prom[p].original, "unlink")
    /\ UNCHANGED backup

UnlinkBackup(p) ==
    /\ At(p, "unlink")
    /\ backup' = Absent
    /\ Report(p, "gate failed")
    /\ UNCHANGED source

Promote(p) ==
    \/ ReadSource(p)
    \/ WriteBackup(p)
    \/ WriteSource(p)
    \/ Gate(p)
    \/ RestoreSource(p)
    \/ UnlinkBackup(p)

PromotionInit ==
    /\ source = Initial
    /\ backup = Absent
    /\ prom = [p \in Procs |-> Resting]
=============================================================================
