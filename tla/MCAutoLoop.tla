----------------------------- MODULE MCAutoLoop -----------------------------
(* Two runs of the loop over two starts.  For the inbox: two bundles, each a *)
(* UX complaint (which may be learned or rejected, so it stands for a failing*)
(* command and for a refused object too), or JSON that is no object.  For    *)
(* the lineage: a user's run next to the loop's.                             *)
EXTENDS AutoLoop

CONSTANTS j1, j2, u, gen

MCLoopJobs == {j1, j2}
MCUserJobs == {u}
MCGenerated == {gen}
AnyJSON == {"ux", "no object"}
Objects == {"ux"}
=============================================================================
