----------------------------- MODULE ReleaseGate -----------------------------
(* The operators' side of a release: the policies they promote and bind, and *)
(* the readiness catalog, one row of which the preflight of those policies   *)
(* can provision (scripts/operator_preflight.py). At another desk the scans  *)
(* are run: they share no file with the promotion here, so a behaviour sits  *)
(* at one desk (a bound).                                                    *)
EXTENDS PolicyPromotion, ReadinessCatalog, ScanGate

CONSTANTS
    Malformed,    \* the policy versions that their loaders refuse
    MaxCommands   \* bound: commands and edits in a behaviour

VARIABLES commands, desk

vars == <<policyVars, readinessVars, scanVars, commands, desk>>

\* The files of the other desk: nobody uses them, so one choice is enough.
UnusedScans ==
    /\ tag = CHOOSE d \in Digests : TRUE
    /\ db.fields = CHOOSE f \in FieldSets : TRUE
    /\ imagePolicy = CHOOSE p \in ImagePolicies : TRUE
    /\ vulnerabilityPolicy = CHOOSE p \in VulnerabilityPolicies : TRUE

UnusedPromotion ==
    /\ content = CHOOSE c \in FirstContents : TRUE
    /\ catalog = CHOOSE c \in FirstCatalogs : TRUE

Init ==
    /\ PolicyInit /\ ReadinessInit /\ ScanInit
    /\ commands = 0
    /\ \/ desk = "promotion" /\ UnusedScans
       \/ desk = "scans" /\ UnusedPromotion

PoliciesLoad(expired) ==
    /\ LoadOperatorPolicyBundle(expired)
    /\ \A t \in Targets : content[t[2]] \notin Malformed

\* The operator preflight of the policies as they are.
PreflightPolicies ==
    /\ \E expired \in BOOLEAN : RunOperatorPreflight(PoliciesLoad(expired))
    /\ UNCHANGED policyVars

ReadinessCommand ==
    /\ \/ OtherSurface
       \/ \E candidate \in Catalogs, allowDemotions \in BOOLEAN :
             Promote(candidate, allowDemotions)
    /\ UNCHANGED policyVars

\* A command counts once: with its write if it reads the manifest first, and
\* such a read is left out when none is left; with its beginning if it goes on
\* from there.
Promotion ==
    \/ BindingStep /\ UNCHANGED <<readinessVars, commands>>
    \/ /\ commands < MaxCommands
       /\ \E o \in Operators : LoadPromotionManifest(o)
       /\ UNCHANGED <<readinessVars, commands>>
    \/ /\ commands < MaxCommands
       /\ \/ PolicyCommand /\ UNCHANGED readinessVars
          \/ PreflightPolicies
          \/ ReadinessCommand
       /\ commands' = commands + 1

Next ==
    /\ UNCHANGED desk
    /\ \/ desk = "promotion" /\ Promotion /\ UNCHANGED scanVars
       \/ desk = "scans" /\ ScanNext /\ UNCHANGED <<policyVars, readinessVars, commands>>

Spec == Init /\ [][Next]_vars
=============================================================================
