------------------------- MODULE MCProposalEvidence -------------------------
(* Three held-in tasks and one held-out task, two rounds of two proposals.   *)
EXTENDS ProposalEvidence

CONSTANTS t1, t2, t3, m1, m2, s1, s2, h0, h1

MCHeldIn == {t1, t2, t3}
MCMechanisms == {m1}
MCSurfaces == {s1, s2}
MCHarnesses == {h0, h1}

\* One count of each task although each is attempted twice: the outcomes that
\* finished artefacts may state; one of them counts attempts.
MCStated ==
    {[in |-> s[1], inTotal |-> 3, out |-> s[2], outTotal |-> 1, repeats |-> 2]
        : s \in {<<1, 0>>, <<1, 1>>, <<2, 0>>}}
    \cup {[in |-> 4, inTotal |-> 6, out |-> 1, outTotal |-> 2, repeats |-> 2]}
=============================================================================
