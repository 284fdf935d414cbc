--------------------------- MODULE MCHarnessPatch ---------------------------
(* Every group of at most two patches of at most two operations, on one      *)
(* surface of each kind and a second list surface.                           *)
EXTENDS HarnessPatch

CONSTANTS a, b, c   \* fragments, items and policy values

MCSurfaces == {"execution", "tools", "subagents", "runtime_policy"}

MCSpecs ==
    {[s \in MCSurfaces |->
        IF s = "execution" THEN text ELSE
        IF s = "runtime_policy" THEN [enabled |-> a] ELSE <<>>] :
        text \in {<<>>, <<a>>, <<a, Blank>>}}

Op(name, s, k, v) == [op |-> name, surface |-> s, kind |-> k, payload |-> v]

GoodOps == {
    Op("AppendToSurface", "execution", "str", <<b>>),
    Op("AppendToSurface", "execution", "str", <<Blank, c, Blank>>),
    Op("AppendToSurface", "execution", "str", <<Blank>>),
    Op("ReplaceSurface", "execution", "str", <<c, Blank>>),
    Op("AppendToListSurface", "tools", "str", b),
    Op("AppendToListSurface", "tools", "str", c),
    Op("AppendToListSurface", "subagents", "dict", b),
    Op("ReplaceSurface", "tools", "list", <<a>>),
    Op("SetPolicy", "runtime_policy", "dict", [enabled |-> b]),
    Op("SetPolicy", "runtime_policy", "dict", [limit |-> c]) }

BadOps == {
    Op("AppendToSurface", "execution", "list", <<b>>),
    Op("ReplaceSurface", "execution", "list", <<c>>),
    Op("AppendToListSurface", "tools", "dict", b),
    Op("AppendToListSurface", "execution", "str", b),
    Op("Delete", "tools", "str", a) }

MCPatches ==
    {<<o>> : o \in GoodOps}
    \cup {<<o, p>> : o \in GoodOps, p \in GoodOps \cup BadOps}
=============================================================================
