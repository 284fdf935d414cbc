---------------------------- MODULE MCLoopDaemon ----------------------------
EXTENDS LoopDaemon

MCProcs == 1..2
MCHarnesses == {"h0", "h1", "bad"}
MCBad == {"bad"}
=============================================================================
