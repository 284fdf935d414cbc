----------------------------- MODULE HarnessOps -----------------------------
(* The edit language of src/self_harness/harness.py: a harness is a record   *)
(* of named surfaces and every change of it is a patch, a sequence of typed  *)
(* operations on one surface each.  This module has no state; HarnessPatch,  *)
(* HarnessLayers and Engine are built from it.                               *)
(*                                                                           *)
(* A text is a sequence of fragments, one to a line, where Blank stands for  *)
(* whitespace; a list surface is the sequence of its items; runtime_policy   *)
(* is a function from keys to values.  The "kind" of an operation is the     *)
(* Python type of its payload, which is all that validate_op looks at.       *)
EXTENDS Naturals, Sequences, SequencesExt

CONSTANTS
    Surfaces,   \* the editable surfaces the harness under study gives a value
    Blank       \* the whitespace fragment

TextSurfaces == {"system_prompt", "bootstrap", "execution", "verification",
                 "failure_recovery"}
ListSurfaces == {"tools", "skills", "memory_sources", "subagents"}
PolicySurfaces == {"runtime_policy"}
EditableSurfaces == TextSurfaces \cup ListSurfaces \cup PolicySurfaces
OpWhitelist == {"AppendToListSurface", "AppendToSurface", "ReplaceSurface",
                "SetPolicy"}

ASSUME SurfacesEditable == Surfaces \subseteq EditableSurfaces

\* The type a surface holds, and so the type a replacement must have.
SurfaceKind(s) ==
    CASE s \in TextSurfaces   -> "str"
      [] s \in ListSurfaces   -> "list"
      [] s \in PolicySurfaces -> "dict"
      [] OTHER                -> "none"

\* The type of one item of a list surface.
ItemKind(s) == IF s = "subagents" THEN "dict" ELSE "str"

-----------------------------------------------------------------------------
(* validate_op: the whole guard of an operation.                             *)
ValidOpByMessage(o) ==   \* a slip: "payload must be a string or dict"
    /\ o.op \in OpWhitelist
    /\ o.surface \in EditableSurfaces
    /\ o.op = "AppendToSurface" => o.surface \in TextSurfaces /\ o.kind = "str"
    /\ o.op = "AppendToListSurface" =>
           o.surface \in ListSurfaces /\ o.kind = ItemKind(o.surface)
    /\ o.op = "SetPolicy" => o.surface \in PolicySurfaces /\ o.kind = "dict"
    /\ o.op = "ReplaceSurface" => o.kind \in {"str", "dict"}

ValidOp(o) ==
    /\ o.op \in OpWhitelist
    /\ o.surface \in EditableSurfaces
    /\ o.op = "AppendToSurface" => o.surface \in TextSurfaces /\ o.kind = "str"
    /\ o.op = "AppendToListSurface" =>
           o.surface \in ListSurfaces /\ o.kind = ItemKind(o.surface)
    /\ o.op = "SetPolicy" => o.surface \in PolicySurfaces /\ o.kind = "dict"
    /\ o.op = "ReplaceSurface" => o.kind = SurfaceKind(o.surface)

ValidPatch(p) == \A i \in DOMAIN p : ValidOp(p[i])

-----------------------------------------------------------------------------
(* str.rstrip() and str.strip() on a sequence of fragments.                  *)
Solid(t) == {i \in DOMAIN t : t[i] # Blank}
RStrip(t) == IF Solid(t) = {} THEN <<>> ELSE SubSeq(t, 1, Max(Solid(t)))
Strip(t) ==
    IF Solid(t) = {} THEN <<>> ELSE SubSeq(t, Min(Solid(t)), Max(Solid(t)))

\* dict.update: the payload's entries win.
Updated(dict, payload) ==
    [k \in DOMAIN dict \cup DOMAIN payload |->
        IF k \in DOMAIN payload THEN payload[k] ELSE dict[k]]

\* What apply_op puts in the surface.  A blank text append changes nothing,
\* and an append drops the trailing whitespace of the text it extends.
NewValue(current, o) ==
    CASE o.op = "AppendToSurface" ->
            IF Strip(o.payload) = <<>> THEN current
            ELSE RStrip(current) \o Strip(o.payload)
      [] o.op = "AppendToListSurface" -> Append(current, o.payload)
      [] o.op = "ReplaceSurface" -> o.payload
      [] OTHER -> Updated(current, o.payload)

ApplyOp(spec, o) == [spec EXCEPT ![o.surface] = NewValue(spec[o.surface], o)]

ReverseOpOfResult(spec, o) ==   \* a slip: the undo keeps the edited value
    [op      |-> "ReplaceSurface",
     surface |-> o.surface,
     kind    |-> SurfaceKind(o.surface),
     payload |-> ApplyOp(spec, o)[o.surface]]

\* The inverse apply_op returns next to the new harness: it puts back the
\* surface's value from before, whatever the operation was.
ReverseOp(spec, o) ==
    [op      |-> "ReplaceSurface",
     surface |-> o.surface,
     kind    |-> SurfaceKind(o.surface),
     payload |-> spec[o.surface]]

\* apply_patch, both results: the patched harness and the reverse patch,
\* whose operations are in the opposite order.
ApplyPatch(spec, p) == FoldLeft(ApplyOp, spec, p)

ReversePatch(spec, p) ==
    [i \in DOMAIN p |->
        LET k == Len(p) + 1 - i
        IN  ReverseOp(ApplyPatch(spec, SubSeq(p, 1, k - 1)), p[k])]

-----------------------------------------------------------------------------
(* structurally_mergeable and merge_patches.                                 *)
OpsMergeableBySurfaceKind(l, r) ==   \* a plausible slip: any two equal ops
    l.surface # r.surface \/ l.op = r.op

OpsMergeable(l, r) ==
    \/ l.surface # r.surface
    \/ l.op = "AppendToSurface" /\ r.op = "AppendToSurface"
    \/ l.op = "AppendToListSurface" /\ r.op = "AppendToListSurface"

Mergeable(p, q) ==
    \A i \in DOMAIN p, j \in DOMAIN q : OpsMergeable(p[i], q[j])

MergePatches(patches) == FlattenSeq(patches)

Touches(p, s) == \E i \in DOMAIN p : p[i].surface = s
=============================================================================
