---------------------------- MODULE HarnessLayers ---------------------------
(* The layered harness of src/self_harness/harness_state.py: one base        *)
(* harness shared by every model, and on top of it the operations kept for   *)
(* a provider and for one of its models.  What a model runs with is the base *)
(* with its provider's and then its own operations applied.                  *)
EXTENDS HarnessOps

CONSTANTS
    Profiles,   \* provider/model pairs, normalised
    ProviderOf, \* the provider of each profile
    NoProfile   \* None: the base harness itself

ASSUME NoProfileIsNone == NoProfile \notin Profiles
ASSUME ProviderOfProfiles == DOMAIN ProviderOf = Profiles

\* A new overlay: no operations and no certificate.
EmptyOverlay == [ops |-> <<>>, smoke |-> "none"]

\* HarnessLayers: the base, the overlays of providers and of models, and the
\* certified profiles.
IsOverlay(overlay) ==
    /\ overlay = [ops |-> overlay.ops, smoke |-> overlay.smoke]
    /\ overlay.ops \in Seq(ToSet(overlay.ops))

IsLayers(layers) ==
    /\ DOMAIN layers = {"base", "providers", "models", "certified"}
    /\ layers.base = [s \in Surfaces |-> layers.base[s]]
    /\ DOMAIN layers.providers \subseteq {ProviderOf[p] : p \in Profiles}
    /\ \A k \in DOMAIN layers.providers : IsOverlay(layers.providers[k])
    /\ DOMAIN layers.models \subseteq Profiles
    /\ \A p \in DOMAIN layers.models : IsOverlay(layers.models[p])

\* layers.get(key, HarnessOverlay()).ops
OverlayOps(overlays, key) ==
    IF key \in DOMAIN overlays THEN overlays[key].ops ELSE <<>>

Effective(layers, profile) ==
    IF profile = NoProfile THEN layers.base
    ELSE ApplyPatch(
            ApplyPatch(layers.base,
                       OverlayOps(layers.providers, ProviderOf[profile])),
            OverlayOps(layers.models, profile))

\* overlays with an empty one for key, if it had none.
Registered(overlays, key) ==
    [k \in DOMAIN overlays \cup {key} |->
        IF k \in DOMAIN overlays THEN overlays[k] ELSE EmptyOverlay]

RegisterProfile(layers, profile) ==
    [layers EXCEPT !.providers = Registered(@, ProviderOf[profile]),
                   !.models    = Registered(@, profile)]

\* apply_patch_to_layers.  Without a profile the patch goes into the base;
\* for a profile it is applied to what the profile runs with and kept, as
\* operations, at the end of the model's overlay.
BaseOfShared(layers, target) == layers.base   \* a slip: forget the overlays

BaseOf(layers, target) ==
    IF target = NoProfile THEN layers.base
    ELSE Effective(RegisterProfile(layers, target), target)

LayersWith(layers, patch, target) ==
    IF target = NoProfile
    THEN [layers EXCEPT !.base = ApplyPatch(@, patch)]
    ELSE [RegisterProfile(layers, target)
             EXCEPT !.models[target].ops = @ \o patch]

ApplyPatchToLayers(layers, patch, target) ==
    [layers  |-> LayersWith(layers, patch, target),
     reverse |-> ReversePatch(BaseOf(layers, target), patch),
     spec    |-> ApplyPatch(BaseOf(layers, target), patch)]

\* mark_profile_certified: the profile joins the certified ones and its
\* overlay keeps the certificate, if there is one.
MarkProfileCertified(layers, profile, certification) ==
    [RegisterProfile(layers, profile)
        EXCEPT !.certified = @ \cup {profile},
               !.models[profile].smoke = certification]
=============================================================================
