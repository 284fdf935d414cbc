---------------------------- MODULE HarnessPatch ----------------------------
(* apply_patch as it runs: one operation at a time, the reverse patch built  *)
(* from the front, on a patch merged from several proposals; and the way     *)
(* back, the reverse patch that a lineage record keeps applied operation by  *)
(* operation.  An invalid operation raises, and the caller keeps the         *)
(* harness it had.                                                           *)
EXTENDS HarnessOps

CONSTANTS
    Specs,      \* the harnesses a patch may be applied to
    Patches,    \* the patches the proposals may carry
    MaxGroup    \* how many proposals are merged at most

\* The operations that occur in patches.
PatchOps == UNION {{p[i] : i \in DOMAIN p} : p \in Patches}

ASSUME MaxGroupNat == MaxGroup \in Nat
ASSUME SpecsAreHarnesses ==
    \A h \in Specs : h = [s \in Surfaces |-> h[s]]
ASSUME PatchesAreSequences == Patches \subseteq Seq(PatchOps)
\* Texts and lists are sequences, and so is a text that a valid patch appends.
ASSUME SpecsTyped ==
    \A h \in Specs : \A s \in Surfaces \ PolicySurfaces : h[s] \in Seq(ToSet(h[s]))
ASSUME PatchesTyped ==
    \A o \in PatchOps :
        o.op = "AppendToSurface" /\ ValidOp(o) => o.payload \in Seq(ToSet(o.payload))
ASSUME PatchesOnSurfaces == \A o \in PatchOps : o.surface \in Surfaces

VARIABLES
    origin,     \* the harness apply_patch is called with
    group,      \* the patches of the proposals, in the order they are merged
    pending,    \* the patches merge_patches has not yet concatenated
    todo,       \* the operations still to apply, or to undo
    spec,       \* next_spec, the harness so far
    reverse,    \* reverse_ops, newest first
    past,       \* history: the harness before each operation not yet undone
    phase       \* "merge", "apply", "applied", "undo", "undone", "rejected"

patchVars == <<origin, group, pending, todo, spec, reverse, past, phase>>

\* A merge group holds patches that were each applied on their own before,
\* every one structurally mergeable with those before it.
IsMergeGroup(g) ==
    /\ \A i \in DOMAIN g : ValidPatch(g[i])
    /\ \A i, j \in DOMAIN g : i < j => Mergeable(g[j], g[i])

\* Either one proposal's own patch, which nothing has validated yet, or the
\* patches of a merge group.
PatchInit ==
    /\ origin \in Specs
    /\ \/ \E p \in Patches : /\ group = <<p>>
                             /\ pending = <<>>
                             /\ todo = p
                             /\ phase = "apply"
       \/ /\ group \in UNION {[1..n -> Patches] : n \in 2..MaxGroup}
          /\ IsMergeGroup(group)
          /\ pending = group
          /\ todo = <<>>
          /\ phase = "merge"
    /\ spec = origin
    /\ reverse = <<>>
    /\ past = <<>>

\* One turn of the loop of merge_patches, and its end.
Merge ==
    /\ phase = "merge" /\ pending # <<>>
    /\ todo' = todo \o Head(pending)
    /\ pending' = Tail(pending)
    /\ UNCHANGED <<origin, group, spec, reverse, past, phase>>

Merged ==
    /\ phase = "merge" /\ pending = <<>>
    /\ phase' = "apply"
    /\ UNCHANGED <<origin, group, pending, todo, spec, reverse, past>>

\* One turn of the loop of apply_patch.
Apply ==
    /\ phase = "apply" /\ todo # <<>> /\ ValidOp(Head(todo))
    /\ spec' = ApplyOp(spec, Head(todo))
    /\ reverse' = <<ReverseOp(spec, Head(todo))>> \o reverse
    /\ past' = <<spec>> \o past
    /\ todo' = Tail(todo)
    /\ UNCHANGED <<origin, group, pending, phase>>

\* validate_op raises InvalidPatchError; harnesses are immutable, so what the
\* caller holds is the harness it passed in.
Reject ==
    /\ phase = "apply" /\ todo # <<>> /\ ~ValidOp(Head(todo))
    /\ phase' = "rejected"
    /\ spec' = origin
    /\ reverse' = <<>>
    /\ past' = <<>>
    /\ todo' = <<>>
    /\ UNCHANGED <<origin, group, pending>>

Applied ==
    /\ phase = "apply" /\ todo = <<>>
    /\ phase' = "applied"
    /\ UNCHANGED <<origin, group, pending, todo, spec, reverse, past>>

\* Apply the reverse patch in its turn.
StartUndo ==
    /\ phase = "applied"
    /\ phase' = "undo"
    /\ todo' = reverse
    /\ UNCHANGED <<origin, group, pending, spec, reverse, past>>

Undo ==
    /\ phase = "undo" /\ todo # <<>> /\ ValidOp(Head(todo))
    /\ spec' = ApplyOp(spec, Head(todo))
    /\ todo' = Tail(todo)
    /\ past' = Tail(past)
    /\ UNCHANGED <<origin, group, pending, reverse, phase>>

Undone ==
    /\ phase = "undo" /\ todo = <<>>
    /\ phase' = "undone"
    /\ UNCHANGED <<origin, group, pending, todo, spec, reverse, past>>

PatchNext ==
    \/ Merge \/ Merged
    \/ Apply \/ Reject \/ Applied
    \/ StartUndo \/ Undo \/ Undone

PatchSpec == PatchInit /\ [][PatchNext]_patchVars /\ WF_patchVars(PatchNext)

-----------------------------------------------------------------------------
(* The control state: what is left to do in each phase.                      *)
TypeOK ==
    /\ origin \in Specs
    /\ phase \in {"merge", "apply", "applied", "undo", "undone", "rejected"}
    /\ spec = [s \in Surfaces |-> spec[s]]
    /\ phase # "merge" => pending = <<>>
    /\ phase \in {"applied", "undone", "rejected"} => todo = <<>>

\* The operations that would take the harness back, newest first.
Stack == IF phase \in {"undo", "undone"} THEN todo ELSE reverse

(* Every reverse operation undoes exactly the operation it was made for: it  *)
(* takes the harness that followed back to the one before, down to the       *)
(* harness apply_patch was called with.                                      *)
UndoStepExact ==
    /\ Len(past) = Len(Stack)
    /\ \A i \in 1..Len(past) :
          ApplyOp(IF i = 1 THEN spec ELSE past[i - 1], Stack[i]) = past[i]
    /\ IF past = <<>> THEN spec = origin ELSE past[Len(past)] = origin

(* The reverse patch of a lineage record, applied to the harness after,      *)
(* gives back the harness before: "every committed harness_after has a chain *)
(* of reverse patches back to the initial spec".                             *)
UndoRestores == phase = "undone" => spec = origin

(* The reverse patch is itself a valid patch, so that undoing it is never    *)
(* refused: a patch that was applied can always be taken back.               *)
UndoNeverRefused ==
    [](phase = "applied" => <>(phase = "undone" /\ spec = origin))

(* Merging loses no edit: after the merged patch, a surface only one         *)
(* proposal touches is what that proposal alone makes of it, and a surface   *)
(* several touch holds every fragment or item any of them appends.           *)
MergedEditsSurvive ==
    phase = "applied" =>
        \A i \in DOMAIN group : \A s \in Surfaces :
            Touches(group[i], s) =>
                IF \A j \in DOMAIN group \ {i} : ~Touches(group[j], s)
                THEN spec[s] = ApplyPatch(origin, group[i])[s]
                ELSE \A k \in DOMAIN group[i] :
                        LET o == group[i][k]
                        IN  o.surface = s =>
                              IF o.op = "AppendToSurface"
                              THEN ToSet(o.payload) \ {Blank} \subseteq ToSet(spec[s])
                              ELSE o.op = "AppendToListSurface"
                                   /\ o.payload \in ToSet(spec[s])

=============================================================================
