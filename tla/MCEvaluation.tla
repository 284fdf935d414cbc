---------------------------- MODULE MCEvaluation ----------------------------
(* Every answer of the runner for one task in each split.                    *)
EXTENDS Evaluation

CONSTANTS t1, t2

MCTasks == <<t1, t2>>
MCHeldIn == {t1}
=============================================================================
