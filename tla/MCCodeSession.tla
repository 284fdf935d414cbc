---------------------------- MODULE MCCodeSession ----------------------------
(* Two threads, the model API and one headless agent, at most three sends.   *)
EXTENDS CodeSession

CONSTANTS glm, codex, check

OneHeadless == {codex}
OneJudge == {codex}
OneCheck == {check}
=============================================================================
