------------------------- MODULE ReleaseGate_proofs -------------------------
(* What the operators' gates vouch for, for any number of operators,         *)
(* policies, keys, dependencies, reports, advisories and days.  Each of the   *)
(* three components is proved about by itself; at the end, that the desks of  *)
(* module ReleaseGate do nothing that the components do not, so that what was *)
(* proved of them holds of their composition.                                *)
EXTENDS ReleaseGate, FiniteSetTheorems, TLAPS

-----------------------------------------------------------------------------
(* The promotion of policies: what a policy binding vouches for.             *)
(* A manifest's entries, the file's as well as the ones that the commands    *)
(* and the binding under way have loaded, have the digests an add computed.  *)
EntriesReviewed(m) ==
    /\ m \in [DOMAIN m -> PromotionEntry]
    /\ \A n \in DOMAIN m : Digested(m[n]) \in reviewed

(* What the trusted key signed, it signed with its active entries.           *)
SignedEntriesApproved ==
    signature # NoSignature /\ signature.key = TrustedKey =>
        \A b \in signature.bytes : b[3] = "active" => b[2] \in approved

(* What the policy binding under way found active when it checked the        *)
(* signature of the trusted key, that key had signed as active.              *)
CheckedApproved ==
    checking # NoCheck /\ checking.mode = "trusted" => checking.verified \subseteq approved

(* So had the entries it goes on with.                                       *)
CheckedReviewed == checking # NoCheck => EntriesReviewed(checking.entries)

ReviewInv ==
    /\ content \in [Paths -> Versions \cup {NoFile}]
    /\ manifest # NoManifest => EntriesReviewed(manifest)
    /\ DOMAIN read = Operators
    /\ \A o \in Operators : read[o] # NoManifest => EntriesReviewed(read[o])
    /\ SignedEntriesApproved
    /\ CheckedApproved
    /\ CheckedReviewed
    /\ BoundPoliciesWereReviewed
    /\ SignedBindingWasApproved

(* A binding that is ok vouches for the digests of active entries.           *)
LEMMA BoundByActiveEntry ==
    ASSUME NEW m, NEW t \in Targets, TargetBound(m, t)
    PROVE  \E n \in ActiveNames(m) : Digested(m[n]) = <<t[1], t[2], content[t[2]]>>
<1>1. Cardinality(Bindings(m, t)) = 1
    BY DEF TargetBound
<1>2. Bindings(m, t) # {}
    BY <1>1, FS_EmptySet
<1>3. PICK n \in Bindings(m, t) : TRUE
    BY <1>2
<1>4. t = <<t[1], t[2]>>
    BY PolicyAssumption
<1>5. m[n].digest = content[t[2]]
    BY <1>3 DEF TargetBound
<1> QED BY <1>3, <1>4, <1>5 DEF Bindings, Digested

LEMMA ReviewInit == PolicyInit => ReviewInv
BY PolicyAssumption
   DEF PolicyInit, ReviewInv, SignedEntriesApproved, CheckedApproved,
       CheckedReviewed, BoundPoliciesWereReviewed, SignedBindingWasApproved

-----------------------------------------------------------------------------
(* One lemma for each operation.                                             *)
LEMMA EditKeepsReviews ==
    ASSUME NEW p \in Paths, NEW v \in Versions \cup {NoFile}, EditPolicy(p, v), ReviewInv
    PROVE  ReviewInv'
BY DEF EditPolicy, ReviewInv, EntriesReviewed, SignedEntriesApproved,
       CheckedApproved, CheckedReviewed, BoundPoliciesWereReviewed, SignedBindingWasApproved

LEMMA InitManifestKeepsReviews ==
    ASSUME NEW force \in BOOLEAN, InitPromotionManifest(force), ReviewInv
    PROVE  ReviewInv'
BY DEF InitPromotionManifest, ReviewInv, EntriesReviewed, SignedEntriesApproved,
       CheckedApproved, CheckedReviewed, BoundPoliciesWereReviewed, SignedBindingWasApproved

LEMMA LoadKeepsReviews ==
    ASSUME NEW o \in Operators, LoadPromotionManifest(o), ReviewInv
    PROVE  ReviewInv'
BY DEF LoadPromotionManifest, ReviewInv, EntriesReviewed, SignedEntriesApproved,
       CheckedApproved, CheckedReviewed, BoundPoliciesWereReviewed, SignedBindingWasApproved

LEMMA AddKeepsReviews ==
    ASSUME NEW o \in Operators, NEW n \in Names, NEW k \in Kinds, NEW p \in Paths,
           NEW status \in Statuses, AddPromotionEntry(o, n, k, p, status), ReviewInv
    PROVE  ReviewInv'
<1> DEFINE entry == [kind |-> k, path |-> p, digest |-> content[p], status |-> status]
           added == [m \in DOMAIN read[o] \cup {n} |-> IF m = n THEN entry ELSE read[o][m]]
<1>1. /\ manifest' = added
      /\ read' = [read EXCEPT ![o] = NoManifest]
      /\ reviewed' = reviewed \cup {Digested(entry)}
      /\ UNCHANGED <<content, signature, checking, binding, approved>>
    BY DEF AddPromotionEntry, SavePromotionManifest
<1>2. entry \in PromotionEntry
    BY DEF AddPromotionEntry, ReviewInv, PromotionEntry
<1>3. EntriesReviewed(read[o])
    BY DEF AddPromotionEntry, ReviewInv
<1>4. EntriesReviewed(manifest)'
    <2>1. added \in [DOMAIN added -> PromotionEntry]
        BY <1>2, <1>3 DEF EntriesReviewed
    <2>2. ASSUME NEW m \in DOMAIN added
          PROVE  Digested(added[m]) \in reviewed'
        BY <1>1, <1>3 DEF EntriesReviewed
    <2> QED BY <1>1, <2>1, <2>2 DEF EntriesReviewed
<1> QED
    BY <1>1, <1>4 DEF ReviewInv, EntriesReviewed, SignedEntriesApproved, CheckedApproved,
                      CheckedReviewed, BoundPoliciesWereReviewed, SignedBindingWasApproved

LEMMA SetStatusKeepsReviews ==
    ASSUME NEW o \in Operators, NEW n \in Names, NEW status \in Statuses,
           SetPromotionStatus(o, n, status), ReviewInv
    PROVE  ReviewInv'
<1> DEFINE set == [read[o] EXCEPT ![n].status = status]
<1>1. /\ manifest' = set
      /\ read' = [read EXCEPT ![o] = NoManifest]
      /\ UNCHANGED <<content, signature, checking, binding, reviewed, approved>>
    BY DEF SetPromotionStatus, SavePromotionManifest
<1>2. EntriesReviewed(read[o]) /\ n \in DOMAIN read[o]
    BY DEF SetPromotionStatus, ReviewInv
<1>3. /\ set \in [DOMAIN set -> PromotionEntry]
      /\ \A m \in DOMAIN set : Digested(set[m]) = Digested(read[o][m])
    BY <1>2 DEF EntriesReviewed, PromotionEntry, Digested
<1>4. DOMAIN set = DOMAIN read[o]
    BY <1>2
<1> QED
    BY <1>1, <1>2, <1>3, <1>4
       DEF ReviewInv, EntriesReviewed, SignedEntriesApproved, CheckedApproved,
           CheckedReviewed, BoundPoliciesWereReviewed, SignedBindingWasApproved

LEMMA SignKeepsReviews ==
    ASSUME NEW key \in Keys, SignPromotionManifest(key), ReviewInv
    PROVE  ReviewInv'
<1>1. SignedEntriesApproved'
    <2> SUFFICES ASSUME key = TrustedKey, NEW b \in CanonicalBytes(manifest), b[3] = "active"
                 PROVE  b[2] \in approved'
        BY DEF SignPromotionManifest, SignedEntriesApproved
    <2>1. PICK n \in DOMAIN manifest : b = <<n, Digested(manifest[n]), manifest[n].status>>
        BY DEF CanonicalBytes
    <2> QED BY <2>1 DEF SignPromotionManifest, ActiveDigests, ActiveNames
<1> QED
    BY <1>1 DEF SignPromotionManifest, ReviewInv, EntriesReviewed, CheckedApproved,
                CheckedReviewed, BoundPoliciesWereReviewed, SignedBindingWasApproved

LEMMA RefusalKeepsReviews == RefuseBinding /\ ReviewInv => ReviewInv'
BY DEF RefuseBinding, Refused, ReviewInv, EntriesReviewed, SignedEntriesApproved,
       CheckedApproved, CheckedReviewed, BoundPoliciesWereReviewed, SignedBindingWasApproved

LEMMA ContinuationKeepsReviews ==
    ASSUME NEW found, ContinueBinding(found), ReviewInv,
           EntriesReviewed(found.entries),
           found.mode = "trusted" => found.verified \subseteq approved
    PROVE  ReviewInv'
BY DEF ContinueBinding, ReviewInv, EntriesReviewed, SignedEntriesApproved,
       CheckedApproved, CheckedReviewed, BoundPoliciesWereReviewed, SignedBindingWasApproved

LEMMA BeginningKeepsReviews ==
    ASSUME NEW mode \in Modes, NEW expired \in BOOLEAN, BeginPolicyBinding(mode, expired),
           ReviewInv
    PROVE  ReviewInv'
<1> DEFINE found == [mode |-> mode, stage |-> "files", entries |-> manifest, verified |-> {}]
<1>1. RefuseBinding \/ (manifest # NoManifest /\ ContinueBinding(found))
    BY DEF BeginPolicyBinding
<1>2. found.verified = {} /\ found.entries = manifest
    OBVIOUS
<1>3. manifest # NoManifest => EntriesReviewed(manifest)
    BY DEF ReviewInv
<1> QED BY <1>1, <1>2, <1>3, RefusalKeepsReviews, ContinuationKeepsReviews

LEMMA FilesCheckKeepsReviews == CheckManifestFiles /\ ReviewInv => ReviewInv'
<1> SUFFICES ASSUME CheckManifestFiles, ReviewInv, ~RefuseBinding
             PROVE  ReviewInv'
    BY RefusalKeepsReviews
<1> DEFINE found == [checking EXCEPT
                       !.stage = IF checking.mode = "unsigned" THEN "load" ELSE "signature"]
<1>1. checking # NoCheck /\ ContinueBinding(found)
    BY DEF CheckManifestFiles, Reaches
<1>2. /\ found.entries = checking.entries /\ found.mode = checking.mode
      /\ found.verified = checking.verified
    OBVIOUS
<1>3. /\ EntriesReviewed(checking.entries)
      /\ checking.mode = "trusted" => checking.verified \subseteq approved
    BY <1>1 DEF ReviewInv, CheckedReviewed, CheckedApproved
<1> QED BY <1>1, <1>2, <1>3, ContinuationKeepsReviews

LEMMA ReloadKeepsReviews == LoadBoundManifest /\ ReviewInv => ReviewInv'
<1> SUFFICES ASSUME LoadBoundManifest, ReviewInv, ~RefuseBinding
             PROVE  ReviewInv'
    BY RefusalKeepsReviews
<1> DEFINE found == [checking EXCEPT !.stage = "bind", !.entries = manifest]
<1>1. checking # NoCheck /\ manifest # NoManifest /\ ContinueBinding(found)
    BY DEF LoadBoundManifest, Reaches
<1>2. /\ found.mode = checking.mode /\ found.verified = checking.verified
      /\ EntriesReviewed(manifest)
      /\ checking.mode = "trusted" => checking.verified \subseteq approved
    BY <1>1 DEF ReviewInv, CheckedApproved
<1>3. found.entries = manifest
    OBVIOUS
<1> QED BY <1>1, <1>2, <1>3, ContinuationKeepsReviews

(* The signature covers the statuses: what is active in a manifest that      *)
(* verifies was active in the one that was signed.                           *)
LEMMA SignatureCheckKeepsReviews == CheckBindingSignature /\ ReviewInv => ReviewInv'
<1> SUFFICES ASSUME CheckBindingSignature, ReviewInv, ~RefuseBinding
             PROVE  ReviewInv'
    BY RefusalKeepsReviews
<1> DEFINE found == [checking EXCEPT !.stage = "load", !.verified = ActiveDigests(manifest)]
<1>1. /\ checking # NoCheck
      /\ VerifyPromotionSignature(checking.mode) /\ ContinueBinding(found)
    BY DEF CheckBindingSignature, Reaches
<1>2. ASSUME found.mode = "trusted"
      PROVE  found.verified \subseteq approved
    <2> SUFFICES ASSUME NEW d \in found.verified
                 PROVE  d \in approved
        OBVIOUS
    <2>1. d \in ActiveDigests(manifest)
        OBVIOUS
    <2>2. PICK n \in ActiveNames(manifest) : d = Digested(manifest[n])
        BY <2>1 DEF ActiveDigests
    <2>3. checking.mode = "trusted"
        BY <1>2
    <2>4. /\ signature # NoSignature
          /\ signature.bytes = CanonicalBytes(manifest)
          /\ signature.key = TrustedKey
        BY <1>1, <2>3 DEF VerifyPromotionSignature
    <2>5. <<n, Digested(manifest[n]), manifest[n].status>> \in signature.bytes
        BY <2>2, <2>4 DEF CanonicalBytes, ActiveNames
    <2> QED BY <2>2, <2>4, <2>5 DEF ReviewInv, SignedEntriesApproved, ActiveNames
<1>3. EntriesReviewed(found.entries)
    BY <1>1 DEF ReviewInv, CheckedReviewed
<1> QED BY <1>1, <1>2, <1>3, ContinuationKeepsReviews

(* What was not active when the signature was checked, and is bound, was     *)
(* activated after it.                                                       *)
LEMMA BindingKeepsReviews == VerifyPolicyBinding /\ ReviewInv => ReviewInv'
<1> SUFFICES ASSUME VerifyPolicyBinding, ReviewInv, ~RefuseBinding
             PROVE  ReviewInv'
    BY RefusalKeepsReviews
<1> DEFINE bound == {<<t[1], t[2], content[t[2]]>> : t \in Targets}
           m == checking.entries
           activated == ActiveDigests(m) \ checking.verified
<1>1. /\ checking # NoCheck /\ EntriesReviewed(m)
      /\ \A t \in Targets : TargetBound(m, t)
      /\ binding' = [ok |-> TRUE, mode |-> checking.mode,
                     policies |-> bound, activated |-> activated]
      /\ checking' = NoCheck
      /\ UNCHANGED <<content, manifest, read, signature, reviewed, approved>>
    BY DEF VerifyPolicyBinding, Reaches, ReviewInv, CheckedReviewed
<1>2. ASSUME NEW b \in bound
      PROVE  b \in reviewed /\ b \in ActiveDigests(m)
    <2>1. PICK t \in Targets : b = <<t[1], t[2], content[t[2]]>>
        OBVIOUS
    <2>2. PICK n \in ActiveNames(m) :
              Digested(m[n]) = <<t[1], t[2], content[t[2]]>>
        BY <1>1, BoundByActiveEntry
    <2>3. b \in reviewed
        BY <1>1, <2>1, <2>2 DEF EntriesReviewed, ActiveNames
    <2> QED BY <2>1, <2>2, <2>3 DEF ActiveDigests
<1>3. BoundPoliciesWereReviewed'
    BY <1>1, <1>2 DEF BoundPoliciesWereReviewed
<1>4. ASSUME checking.mode = "trusted"
      PROVE  bound \subseteq approved \cup activated
    BY <1>1, <1>2, <1>4 DEF ReviewInv, CheckedApproved
<1>5. SignedBindingWasApproved'
    BY <1>1, <1>4 DEF SignedBindingWasApproved
<1> QED
    BY <1>1, <1>3, <1>5 DEF ReviewInv, EntriesReviewed, SignedEntriesApproved, CheckedApproved,
                           CheckedReviewed

-----------------------------------------------------------------------------
(* Whatever the operators do, in any interleaving, between the steps of a    *)
(* binding as well: what a binding report vouches for was reviewed, and,     *)
(* under the trusted key, approved, or activated after the signature check.  *)
THEOREM ReviewInvariant == PolicySpec => []ReviewInv
<1>1. ReviewInv /\ [PolicyNext]_policyVars => ReviewInv'
    <2> SUFFICES ASSUME ReviewInv, [PolicyNext]_policyVars
                 PROVE  ReviewInv'
        OBVIOUS
    <2>1. CASE \E p \in Paths, v \in Versions \cup {NoFile} : EditPolicy(p, v)
        BY <2>1, EditKeepsReviews
    <2>2. CASE \E force \in BOOLEAN : InitPromotionManifest(force)
        BY <2>2, InitManifestKeepsReviews
    <2>3. CASE \E o \in Operators : LoadPromotionManifest(o)
        BY <2>3, LoadKeepsReviews
    <2>4. CASE \E o \in Operators, n \in Names, status \in Statuses :
                  SetPromotionStatus(o, n, status)
        BY <2>4, SetStatusKeepsReviews
    <2>5. CASE \E o \in Operators, n \in Names, status \in Statuses, k \in Kinds, p \in Paths :
                  AddPromotionEntry(o, n, k, p, status)
        BY <2>5, AddKeepsReviews
    <2>6. CASE \E key \in Keys : SignPromotionManifest(key)
        BY <2>6, SignKeepsReviews
    <2>7. CASE \E mode \in Modes, expired \in BOOLEAN : BeginPolicyBinding(mode, expired)
        BY <2>7, BeginningKeepsReviews
    <2>8. CASE CheckBindingSignature
        BY <2>8, SignatureCheckKeepsReviews
    <2>9. CASE VerifyPolicyBinding
        BY <2>9, BindingKeepsReviews
    <2>10. CASE CheckManifestFiles
        BY <2>10, FilesCheckKeepsReviews
    <2>11. CASE LoadBoundManifest
        BY <2>11, ReloadKeepsReviews
    <2>12. CASE UNCHANGED policyVars
        BY <2>12 DEF policyVars, ReviewInv, EntriesReviewed, SignedEntriesApproved,
                     CheckedApproved, CheckedReviewed, BoundPoliciesWereReviewed, SignedBindingWasApproved
    <2> QED
        BY <2>1, <2>2, <2>3, <2>4, <2>5, <2>6, <2>7, <2>8, <2>9, <2>10, <2>11, <2>12
        DEF PolicyNext, PolicyCommand, PolicyStep, BindingStep
<1> QED BY <1>1, ReviewInit, PTL DEF PolicySpec

(* A binding report that is ok vouches for reviewed versions only, for any   *)
(* number of operators, manifests and policies.                              *)
THEOREM BoundPoliciesReviewed == PolicySpec => []BoundPoliciesWereReviewed
<1>1. ReviewInv => BoundPoliciesWereReviewed
    BY DEF ReviewInv
<1> QED BY <1>1, ReviewInvariant, PTL

(* A binding checked under the trusted key holds only what that key signed   *)
(* as active, and what was activated while the command ran, after it had     *)
(* checked the signature: what was activated or edited before is not let     *)
(* through.                                                                  *)
THEOREM SignedBindingApproved == PolicySpec => []SignedBindingWasApproved
<1>1. ReviewInv => SignedBindingWasApproved
    BY DEF ReviewInv
<1> QED BY <1>1, ReviewInvariant, PTL

-----------------------------------------------------------------------------
(* The readiness catalog: what the admission of a catalog guarantees.        *)
(* An admitted candidate drifts no more than the catalog it replaces: the    *)
(* rows that admission did not look at are those of the baseline.            *)
THEOREM AdmissionPreservesDrift ==
    ASSUME NEW baseline, NEW candidate, NEW files, NEW allowDemotions,
           PromotionOk(baseline, candidate, files, allowDemotions),
           DriftOk(baseline, files)
    PROVE  DriftOk(candidate, files)
<1> SUFFICES ASSUME NEW d \in DOMAIN candidate, NeedsEvidence(candidate[d])
             PROVE  SurfacePasses(candidate[d], files)
    BY DEF DriftOk
<1>1. CASE d \notin DOMAIN baseline
    BY <1>1 DEF PromotionOk, NewEntryRejected
<1>2. CASE d \in DOMAIN baseline /\ baseline[d] = candidate[d]
    BY <1>2 DEF DriftOk
<1>3. CASE d \in DOMAIN baseline /\ baseline[d] # candidate[d]
    BY <1>3 DEF PromotionOk, ExistingEntryRejected
<1> QED BY <1>1, <1>2, <1>3

(* The drift check agrees with the admission in every reachable state: what  *)
(* admission lets through does not drift unless the catalog did already.     *)
THEOREM AdmissionAndDriftAgree == ReadinessSpec => []AdmissionKeepsDriftOk
<1>1. AdmissionKeepsDriftOk
    BY AdmissionPreservesDrift DEF AdmissionKeepsDriftOk
<1> QED BY <1>1, PTL

-----------------------------------------------------------------------------
(* A row that needs evidence after an admitted promotion, and changed in it, *)
(* has a surface that accepts the report it was admitted on.                 *)
LEMMA ChangedRowsPass ==
    ASSUME NEW baseline, NEW candidate, NEW files, NEW allowDemotions,
           PromotionOk(baseline, candidate, files, allowDemotions),
           NEW d \in Changed(baseline, candidate), NeedsEvidence(candidate[d])
    PROVE  SurfacePasses(candidate[d], files)
<1>1. CASE d \notin DOMAIN baseline
    BY <1>1 DEF PromotionOk, NewEntryRejected, Changed
<1>2. CASE d \in DOMAIN baseline
    BY <1>2 DEF PromotionOk, ExistingEntryRejected, Changed
<1> QED BY <1>1, <1>2

(* The catalog's rows are those of known dependencies.                       *)
LEMMA CatalogDomain ==
    ASSUME NEW c \in Catalogs
    PROVE  DOMAIN c \subseteq Dependencies
BY DEF Catalogs

EvidenceInv == catalog \in Catalogs /\ AdmittedRowsHoldEvidence

LEMMA EvidenceInit == ReadinessInit => EvidenceInv
<1> SUFFICES ASSUME ReadinessInit PROVE EvidenceInv
    OBVIOUS
<1>1. catalog \in Catalogs /\ \A d \in DOMAIN catalog : catalog[d].status # "provisioned"
    BY FirstCatalogsAssumption DEF ReadinessInit
<1> QED BY <1>1 DEF EvidenceInv, AdmittedRowsHoldEvidence, NeedsEvidence

LEMMA ReportKeepsEvidence ==
    ASSUME NEW surface, NEW written, WriteReport(surface, written), EvidenceInv
    PROVE  EvidenceInv'
BY DEF WriteReport, EvidenceInv, AdmittedRowsHoldEvidence

LEMMA PromoteKeepsEvidence ==
    ASSUME NEW candidate \in Catalogs, NEW allowDemotions \in BOOLEAN,
           Promote(candidate, allowDemotions), EvidenceInv
    PROVE  EvidenceInv'
<1>1. catalog' = candidate /\ PromotionOk(catalog, candidate, reports, allowDemotions)
    BY DEF Promote
<1>2. SUFFICES ASSUME NEW d \in DOMAIN candidate, NeedsEvidence(candidate[d])
               PROVE  SurfaceAccepts(candidate[d].surface, admittedOn'[d])
    BY <1>1, <1>2 DEF EvidenceInv, AdmittedRowsHoldEvidence
<1>3. d \in Dependencies
    BY CatalogDomain
<1>4. CASE d \in Changed(catalog, candidate)
    <2>1. admittedOn'[d] = ReportOf(candidate[d], reports)
        BY <1>3, <1>4 DEF Promote
    <2> QED BY <2>1, <1>1, <1>2, <1>4, ChangedRowsPass DEF SurfacePasses
<1>5. CASE d \notin Changed(catalog, candidate)
    <2>1. d \in DOMAIN catalog /\ catalog[d] = candidate[d]
        BY <1>5 DEF Changed
    <2>2. admittedOn'[d] = admittedOn[d]
        BY <1>3, <1>5 DEF Promote
    <2> QED BY <2>1, <2>2, <1>2 DEF EvidenceInv, AdmittedRowsHoldEvidence
<1> QED BY <1>4, <1>5

(* Whatever catalogs are proposed and whatever reports are written, a row    *)
(* that needs evidence rests on a report that its surface accepted.          *)
THEOREM AdmittedEvidence == ReadinessSpec => []AdmittedRowsHoldEvidence
<1>1. EvidenceInv /\ [ReadinessNext]_readinessVars => EvidenceInv'
    <2> SUFFICES ASSUME EvidenceInv, [ReadinessNext]_readinessVars
                 PROVE  EvidenceInv'
        OBVIOUS
    <2>1. CASE OtherSurface
        BY <2>1, ReportKeepsEvidence
           DEF OtherSurface, RunModelBackendPreflight, RunAttestationCheck
    <2>2. CASE \E loads \in BOOLEAN : RunOperatorPreflight(loads)
        BY <2>2, ReportKeepsEvidence DEF RunOperatorPreflight
    <2>3. CASE \E candidate \in Catalogs, allowDemotions \in BOOLEAN :
                  Promote(candidate, allowDemotions)
        BY <2>3, PromoteKeepsEvidence
    <2>4. CASE UNCHANGED readinessVars
        BY <2>4 DEF readinessVars, EvidenceInv, AdmittedRowsHoldEvidence
    <2> QED BY <2>1, <2>2, <2>3, <2>4 DEF ReadinessNext
<1>2. EvidenceInv => AdmittedRowsHoldEvidence
    BY DEF EvidenceInv
<1> QED BY <1>1, <1>2, EvidenceInit, PTL DEF ReadinessSpec

-----------------------------------------------------------------------------
(* The scans: what a scan that is ok vouches for.                            *)
Dbs == [built : Nat, metadata : {"read", "missing", "malformed"},
        fields : SUBSET {"NextUpdate", "UpdatedAt"}]

Scans == [request : Requests, stage : {"scan", "judge"}, begun : Nat]

(* A report that can be read lists every advisory older than its database    *)
(* policy lets a database be, counted from the day before its date.          *)
ReportComplete(file) ==
    file \notin {NoTrivyReport, Torn} =>
        /\ file.of \in Digests
        /\ file.stamp \in Nat \cup {NoLimit}
        /\ file.under \in DbPolicies \cup {NoPolicy}
        /\ file.stamp # NoLimit /\ file.under # NoPolicy =>
              \A a \in Affects[file.of] :
                  a.published + Lag(file.under) + 1 <= file.stamp => a \in file.found

(* Until Trivy is done the database is as fresh as the preflight found it;   *)
(* afterwards the report is the one of the command under way.                *)
ScanUnderWay ==
    scan # NoScan =>
        /\ scan \in Scans
        /\ scan.begun <= day /\ day <= scan.begun + 1
        /\ scan.stage = "scan" /\ scan.request.dbPolicy # NoPolicy =>
              scan.request.dbDir /\ scan.begun <= db.built + Lag(scan.request.dbPolicy)
        /\ scan.stage = "judge" /\ scan.request.mode = "live" /\ ~scan.request.elsewhere =>
              report.by = scans /\ scan.request.digest \in {NoDigest, report.of}

ScanInv ==
    /\ day \in Nat
    /\ tag \in Digests
    /\ db \in Dbs
    /\ ReportComplete(report)
    /\ ReportComplete(kept)
    /\ ScanUnderWay
    /\ LiveVerdictIsOfThisScan
    /\ OldAdvisoriesAllowed

-----------------------------------------------------------------------------
(* A database policy that loads bounds the age of the database it passes.    *)
LEMMA DbPolicyBoundsLag ==
    ASSUME NEW policy \in DbPolicies, LoadDbFreshnessPolicy(policy),
           db \in Dbs, day \in Nat, DbFresh(policy, day)
    PROVE  day <= db.built + Lag(policy)
<1>1. CASE policy.maxAge # NoLimit
    <2>1. policy.maxAge \in Nat /\ db.built \in Nat
        BY <1>1 DEF DbPolicies, Dbs
    <2>2. day - db.built <= policy.maxAge
        BY <1>1 DEF DbFresh
    <2> QED BY <1>1, <2>1, <2>2 DEF Lag
<1>2. CASE policy.maxAge = NoLimit
    <2>1. policy.requireNextUpdate
        BY <1>2 DEF LoadDbFreshnessPolicy
    <2>2. db.built + Period >= day
        BY <2>1 DEF DbFresh
    <2>3. db.built \in Nat /\ Period \in Nat
        BY ScanAssumption DEF Dbs
    <2> QED BY <1>2, <2>2, <2>3 DEF Lag
<1> QED BY <1>1, <1>2

LEMMA LagIsNat ==
    ASSUME NEW policy \in DbPolicies
    PROVE  Lag(policy) \in Nat
BY ScanAssumption DEF Lag, DbPolicies

(* A report that passes lists whatever both policies together bound.         *)
LEMMA PassingReportAllowsOld ==
    ASSUME ScanInv, NEW request \in Requests, VulnerabilityReportOk(request),
           request.freshness # NoPolicy, request.freshness.maxAge # NoLimit,
           report.under # NoPolicy, NEW a \in Affects[report.of],
           a.published + Lag(report.under) + request.freshness.maxAge + 1 <= day
    PROVE  FindingAllowed(vulnerabilityPolicy, a, day)
<1>1. /\ report.of \in Digests /\ report.stamp \in Nat \cup {NoLimit}
      /\ report.under \in DbPolicies
    BY DEF ScanInv, ReportComplete, VulnerabilityReportOk
<1>2. request.freshness \in FreshnessPolicies
    BY ScanAssumption
<1>3. request.freshness.maxAge \in Nat
    BY <1>2 DEF FreshnessPolicies
<1>4. report.stamp # NoLimit /\ day - report.stamp <= request.freshness.maxAge
    BY DEF VulnerabilityReportOk, ReportFresh
<1>5. a.published \in Nat
    BY <1>1, ScanAssumption
<1>6. Lag(report.under) \in Nat
    BY <1>1, LagIsNat
<1>7. day \in Nat /\ report.stamp \in Nat
    BY <1>1, <1>4 DEF ScanInv
<1>8. a.published + Lag(report.under) + 1 <= report.stamp
    BY <1>3, <1>4, <1>5, <1>6, <1>7
<1>9. a \in report.found
    BY <1>1, <1>4, <1>8 DEF ScanInv, ReportComplete, VulnerabilityReportOk
<1> QED BY <1>9 DEF VulnerabilityReportOk

-----------------------------------------------------------------------------
(* What ends a command: a verdict that is not ok, or one of the check.       *)
LEMMA FailureKeepsVerdicts ==
    ASSUME NEW request, NEW by, End(request, FALSE, by)
    PROVE  LiveVerdictIsOfThisScan' /\ OldAdvisoriesAllowed'
BY DEF End, Verdict, LiveVerdictIsOfThisScan, OldAdvisoriesAllowed

LEMMA CheckKeepsOldAdvisories ==
    ASSUME ScanInv, NEW request \in Requests, NEW mode, NEW by,
           End([request EXCEPT !.mode = mode], VulnerabilityReportOk(request), by)
    PROVE  OldAdvisoriesAllowed'
<1> DEFINE judged == [request EXCEPT !.mode = mode]
<1>1. judged.freshness = request.freshness
    BY ScanAssumption
<1>2. /\ result'.ok = VulnerabilityReportOk(request)
      /\ result'.request = judged /\ result'.judged = report /\ result'.day = day
      /\ result'.vulnerabilityPolicy = vulnerabilityPolicy
    BY DEF End, Verdict
<1> QED BY <1>1, <1>2, PassingReportAllowsOld DEF OldAdvisoriesAllowed

-----------------------------------------------------------------------------
(* One lemma for each operation.                                             *)
LEMMA InitScans == ScanInit => ScanInv
BY ScanAssumption
   DEF ScanInit, ScanInv, Dbs, ReportComplete, ScanUnderWay, LiveVerdictIsOfThisScan,
       OldAdvisoriesAllowed

LEMMA MidnightKeeps == ScanInv /\ Midnight => ScanInv'
BY DEF Midnight, policies, ScanInv, Dbs, Scans, ReportComplete, ScanUnderWay,
       LiveVerdictIsOfThisScan, OldAdvisoriesAllowed

LEMMA BuildsAreLater ==
    ASSUME db \in Dbs, day \in Nat, NEW used \in {db} \cup Builds(db.built)
    PROVE  used \in Dbs /\ used.built >= db.built
<1>1. CASE used = db
    BY <1>1 DEF Dbs
<1>2. CASE used \in Builds(db.built)
    <2>1. db.built \in Nat
        BY DEF Dbs
    <2>2. used.built \in db.built .. day
        BY <1>2 DEF Builds
    <2>3. used.built \in Nat /\ used.built >= db.built
        BY <2>1, <2>2
    <2>4. used.metadata = "read" /\ used.fields \in FieldSets
        BY <1>2 DEF Builds
    <2>5. used = [built |-> used.built, metadata |-> used.metadata, fields |-> used.fields]
        BY <1>2 DEF Builds
    <2>6. used.fields \in SUBSET {"NextUpdate", "UpdatedAt"}
        BY <2>4, ScanAssumption
    <2> QED BY <2>3, <2>4, <2>5, <2>6 DEF Dbs
<1> QED BY <1>1, <1>2

LEMMA ChangeKeeps ==
    ASSUME ScanInv, Change, tag' \in Digests, db' \in Dbs, db'.built >= db.built,
           kept' \in {kept, report}
    PROVE  ScanInv'
<1>1. ReportComplete(report)' /\ ReportComplete(kept)'
    BY DEF Change, ScanInv, ReportComplete
<1>2. LiveVerdictIsOfThisScan' /\ OldAdvisoriesAllowed'
    BY DEF Change, ScanInv, LiveVerdictIsOfThisScan, OldAdvisoriesAllowed
<1>3. ScanUnderWay'
    <2> SUFFICES ASSUME scan # NoScan, scan.stage = "scan", scan.request.dbPolicy # NoPolicy
                 PROVE  scan.begun <= db'.built + Lag(scan.request.dbPolicy)
        BY DEF Change, ScanInv, ScanUnderWay
    <2>1. scan \in Scans /\ scan.begun <= db.built + Lag(scan.request.dbPolicy)
        BY DEF ScanInv, ScanUnderWay
    <2>2. scan.request.dbPolicy \in DbPolicies /\ scan.begun \in Nat
        BY <2>1, ScanAssumption DEF Scans
    <2>3. Lag(scan.request.dbPolicy) \in Nat
        BY <2>2, LagIsNat
    <2>4. db.built \in Nat /\ db'.built \in Nat
        BY DEF ScanInv, Dbs
    <2> QED BY <2>1, <2>2, <2>3, <2>4
<1> QED BY <1>1, <1>2, <1>3 DEF Change, ScanInv

LEMMA ChangesKeep == ScanInv /\ (Repush \/ EditPolicies \/ UpdateDb \/ Keep) => ScanInv'
<1> SUFFICES ASSUME ScanInv, Repush \/ EditPolicies \/ UpdateDb \/ Keep
             PROVE  ScanInv'
    OBVIOUS
<1>1. Change
    BY DEF Repush, EditPolicies, UpdateDb, Keep
<1>2. tag' \in Digests /\ kept' \in {kept, report}
    BY DEF Repush, EditPolicies, UpdateDb, Keep, ScanInv
<1>3. db' \in Dbs /\ db'.built >= db.built
    <2>1. CASE UpdateDb
        <3>1. db \in Dbs /\ day \in Nat
            BY DEF ScanInv
        <3>2. CASE db' \in Builds(db.built)
            BY <3>1, <3>2, BuildsAreLater
        <3>3. CASE \E metadata \in {"missing", "malformed"} :
                      db' = [db EXCEPT !.metadata = metadata, !.fields = {}]
            <4>1. PICK metadata \in {"missing", "malformed"} :
                      db' = [db EXCEPT !.metadata = metadata, !.fields = {}]
                BY <3>3
            <4>2. db' = [built |-> db.built, metadata |-> metadata, fields |-> {}]
                BY <3>1, <4>1 DEF Dbs
            <4>3. db.built \in Nat
                BY <3>1 DEF Dbs
            <4>4. db' \in Dbs /\ db'.built = db.built
                BY <4>2, <4>3 DEF Dbs
            <4> QED BY <4>3, <4>4
        <3> QED BY <2>1, <3>2, <3>3 DEF UpdateDb
    <2>2. CASE Repush \/ EditPolicies \/ Keep
        BY <2>2 DEF Repush, EditPolicies, Keep, ScanInv, Dbs
    <2> QED BY <2>1, <2>2
<1> QED BY <1>1, <1>2, <1>3, ChangeKeeps

LEMMA SameDay == \A d \in Nat : d <= d /\ d <= d + 1
OBVIOUS

LEMMA BeginScanKeeps ==
    ASSUME ScanInv, NEW request \in Requests, BeginScan(request)
    PROVE  ScanInv'
<1>1. /\ day' \in Nat /\ tag' \in Digests /\ db' \in Dbs
      /\ ReportComplete(report)' /\ ReportComplete(kept)'
    BY DEF ScanInv, BeginScan, around, ReportComplete
<1>2. CASE End(request, FALSE, scans')
    BY <1>1, <1>2, FailureKeepsVerdicts DEF End, ScanInv, ScanUnderWay
<1>3. CASE request.mode = "dry-run" /\ End(request, TRUE, scans')
    BY <1>1, <1>3 DEF End, Verdict, ScanInv, ScanUnderWay, LiveVerdictIsOfThisScan,
                      OldAdvisoriesAllowed
<1>4. ASSUME NEW installed \in SUBSET {"trivy", "registry config"},
             Preflight(request, installed),
             request.dbPolicy # NoPolicy => LoadDbFreshnessPolicy(request.dbPolicy),
             scan' = [request |-> request, stage |-> "scan", begun |-> day],
             result' = NoResult
      PROVE  ScanInv'
    <2>1. ScanUnderWay'
        <3>1. scan' \in Scans
            BY <1>4, <1>1 DEF Scans, ScanInv
        <3>2. scan'.stage = "scan" /\ scan'.begun = day /\ scan'.request = request
            BY <1>4
        <3>3. request.dbPolicy # NoPolicy =>
                 request.dbDir /\ day <= db.built + Lag(request.dbPolicy)
            <4> SUFFICES ASSUME request.dbPolicy # NoPolicy
                         PROVE  request.dbDir /\ day <= db.built + Lag(request.dbPolicy)
                OBVIOUS
            <4>1. request.dbPolicy \in DbPolicies
                BY ScanAssumption
            <4>2. request.dbDir /\ DbFresh(request.dbPolicy, day)
                BY <1>4 DEF Preflight, DbMetadataCheck
            <4> QED BY <4>1, <4>2, <1>4, DbPolicyBoundsLag DEF ScanInv
        <3>4. day' = day /\ db' = db
            BY DEF BeginScan, around
        <3>5. scan'.begun <= day' /\ day' <= scan'.begun + 1
            <4>1. day' \in Nat /\ day' = day /\ scan'.begun = day
                BY <1>1, <3>2, <3>4
            <4> QED BY <4>1, SameDay
        <3>6. scan'.request.dbPolicy # NoPolicy =>
                 /\ scan'.request.dbDir
                 /\ scan'.begun <= db'.built + Lag(scan'.request.dbPolicy)
            BY <3>2, <3>3, <3>4
        <3> QED BY <3>1, <3>2, <3>5, <3>6 DEF ScanUnderWay
    <2> QED BY <1>1, <1>4, <2>1 DEF ScanInv, LiveVerdictIsOfThisScan, OldAdvisoriesAllowed
<1> QED BY <1>2, <1>3, <1>4 DEF BeginScan

LEMMA TrivyExitsZeroKeeps == ScanInv /\ TrivyExitsZero => ScanInv'
<1> SUFFICES ASSUME ScanInv, TrivyExitsZero
             PROVE  ScanInv'
    OBVIOUS
<1> DEFINE request == scan.request
           digest == ImageReference(request)
<1>1. PICK repoDigests \in RepoDigests(digest), stamp \in {day, NoLimit},
           used \in (IF request.dbDir THEN {db} \cup Builds(db.built) ELSE Builds(0)) :
               /\ report' = TrivyReport(digest, repoDigests, used, stamp)
               /\ db' = IF request.dbDir THEN used ELSE db
    BY DEF TrivyExitsZero, ReportTimestamps, Used
<1>2. scan \in Scans /\ scan # NoScan /\ scan.stage = "scan" /\ day <= scan.begun + 1
    BY DEF TrivyExitsZero, ScanInv, ScanUnderWay
<1>3. /\ request \in Requests /\ digest \in Digests
      /\ request.dbPolicy \in DbPolicies \cup {NoPolicy}
    BY <1>2, ScanAssumption DEF Scans, ScanInv, ImageReference
<1>4. db' \in Dbs
    BY <1>1, BuildsAreLater DEF ScanInv
<1>5. ReportComplete(report)'
    <2>1. /\ report'.of = digest /\ report'.stamp = stamp
          /\ report'.under = request.dbPolicy
          /\ report'.found = {a \in Affects[digest] : a.published <= used.built}
        BY <1>1 DEF TrivyReport
    <2>2. ASSUME stamp # NoLimit, request.dbPolicy # NoPolicy,
                 NEW a \in Affects[digest],
                 a.published + Lag(request.dbPolicy) + 1 <= stamp
          PROVE  a.published <= used.built
        <3>1. request.dbDir /\ scan.begun <= db.built + Lag(request.dbPolicy)
            BY <1>2, <2>2 DEF ScanInv, ScanUnderWay
        <3>2. used \in Dbs /\ used.built >= db.built
            BY <1>1, <3>1, BuildsAreLater DEF ScanInv
        <3>3. Lag(request.dbPolicy) \in Nat
            BY <1>3, <2>2, LagIsNat
        <3>4. a.published \in Nat
            BY <1>3, ScanAssumption
        <3>5. db.built \in Nat /\ used.built \in Nat /\ scan.begun \in Nat /\ day \in Nat
            BY <3>2, <1>2 DEF ScanInv, Dbs, Scans
        <3>6. stamp = day
            BY <2>2
        <3> QED BY <1>2, <2>2, <3>1, <3>2, <3>3, <3>4, <3>5, <3>6
    <2>3. stamp \in Nat \cup {NoLimit}
        BY DEF ScanInv
    <2> QED BY <1>3, <2>1, <2>2, <2>3 DEF ReportComplete
<1>6. ScanUnderWay'
    <2>1. /\ scan' \in Scans /\ scan'.stage = "judge" /\ scan'.begun = scan.begun
          /\ scan'.request = request
        BY <1>2 DEF TrivyExitsZero, Judge, Scans
    <2>2. day' = day /\ scans' = scans
        BY DEF TrivyExitsZero
    <2>3. report'.by = scans /\ report'.of = digest
        BY <1>1 DEF TrivyReport
    <2>4. request.digest \in {NoDigest, digest}
        BY DEF ImageReference
    <2> QED BY <1>2, <2>1, <2>2, <2>3, <2>4 DEF ScanInv, ScanUnderWay
<1>7. ReportComplete(kept)'
    BY DEF TrivyExitsZero, ScanInv, ReportComplete
<1>8. LiveVerdictIsOfThisScan' /\ OldAdvisoriesAllowed'
    BY DEF TrivyExitsZero, Judge, ScanInv, LiveVerdictIsOfThisScan, OldAdvisoriesAllowed
<1> QED BY <1>4, <1>5, <1>6, <1>7, <1>8 DEF TrivyExitsZero, ScanInv

LEMMA WritingElsewhereKeeps == ScanInv /\ TrivyWritesElsewhere => ScanInv'
<1> SUFFICES ASSUME ScanInv, TrivyWritesElsewhere
             PROVE  ScanInv'
    OBVIOUS
<1>1. /\ UNCHANGED <<day, tag, kept, report, result, scans>>
      /\ scan # NoScan /\ scan \in Scans /\ scan.request.elsewhere
      /\ scan' = [scan EXCEPT !.stage = "judge"]
    BY DEF TrivyWritesElsewhere, Judge, ScanInv, ScanUnderWay
<1>2. db' \in Dbs
    <2>1. PICK used \in (IF scan.request.dbDir THEN {db} \cup Builds(db.built) ELSE Builds(0)) :
              db' = IF scan.request.dbDir THEN used ELSE db
        BY DEF TrivyWritesElsewhere, Used
    <2> QED BY <2>1, BuildsAreLater DEF ScanInv
<1>3. ReportComplete(report)' /\ ReportComplete(kept)'
    BY <1>1 DEF ScanInv, ReportComplete
<1>4. ScanUnderWay'
    <2>1. /\ scan' \in Scans /\ scan'.stage = "judge" /\ scan'.begun = scan.begun
          /\ scan'.request = scan.request
        BY <1>1 DEF Scans
    <2> QED BY <1>1, <2>1 DEF ScanInv, ScanUnderWay
<1>5. LiveVerdictIsOfThisScan' /\ OldAdvisoriesAllowed'
    BY <1>1 DEF ScanInv, LiveVerdictIsOfThisScan, OldAdvisoriesAllowed
<1> QED BY <1>1, <1>2, <1>3, <1>4, <1>5 DEF ScanInv

LEMMA TrivyFailsKeeps == ScanInv /\ TrivyFails => ScanInv'
<1> SUFFICES ASSUME ScanInv, TrivyFails
             PROVE  ScanInv'
    OBVIOUS
<1>1. ReportComplete(report)' /\ ReportComplete(kept)'
    BY DEF TrivyFails, around, ScanInv, ReportComplete
<1>2. LiveVerdictIsOfThisScan' /\ OldAdvisoriesAllowed'
    BY FailureKeepsVerdicts DEF TrivyFails
<1> QED BY <1>1, <1>2 DEF TrivyFails, End, around, ScanInv, ScanUnderWay

LEMMA ReplayKeeps == ScanInv /\ ReplayReport => ScanInv'
<1> SUFFICES ASSUME ScanInv, ReplayReport
             PROVE  ScanInv'
    OBVIOUS
<1>1. /\ UNCHANGED around /\ scans' = scans
      /\ scan # NoScan /\ scan \in Scans /\ scan.request.mode = "replay"
    BY DEF ReplayReport, ScanInv, ScanUnderWay
<1>2. PICK source \in {kept, report} :
          IF source = NoTrivyReport
          THEN End(scan.request, FALSE, scans) /\ UNCHANGED report
          ELSE Judge /\ report' = source
    BY DEF ReplayReport
<1>3. ReportComplete(report)' /\ ReportComplete(kept)'
    BY <1>1, <1>2 DEF around, ScanInv, ReportComplete
<1>4. CASE source = NoTrivyReport
    BY <1>1, <1>2, <1>3, <1>4, FailureKeepsVerdicts
       DEF End, around, ScanInv, ScanUnderWay
<1>5. CASE source # NoTrivyReport
    <2>1. /\ scan' \in Scans /\ scan'.stage = "judge" /\ scan'.begun = scan.begun
          /\ scan'.request = scan.request /\ result' = result
        BY <1>1, <1>2, <1>5 DEF Judge, Scans
    <2>2. ScanUnderWay'
        BY <1>1, <2>1 DEF around, ScanInv, ScanUnderWay
    <2> QED BY <1>1, <1>3, <2>1, <2>2
            DEF around, ScanInv, LiveVerdictIsOfThisScan, OldAdvisoriesAllowed
<1> QED BY <1>4, <1>5

\* The entry of the digest is the one that decides about it.
LEMMA AllowedDigestIsActive ==
    ASSUME NEW policy, LoadImagePolicy(policy), NEW digest, ImageAllowed(policy, digest),
           NEW e \in policy, e.digest = digest
    PROVE  e.status = "active"
BY DEF LoadImagePolicy, ImageAllowed

LEMMA RunCheckKeeps == ScanInv /\ RunVulnerabilityCheck => ScanInv'
<1> SUFFICES ASSUME ScanInv, RunVulnerabilityCheck
             PROVE  ScanInv'
    OBVIOUS
<1> DEFINE request == scan.request
           ok == VulnerabilityReportOk(request)
<1>1. /\ UNCHANGED <<around, report, scans>> /\ End(request, ok, scans)
      /\ scan \in Scans /\ scan # NoScan /\ scan.stage = "judge"
    BY DEF RunVulnerabilityCheck, ScanInv, ScanUnderWay
<1>2. request \in Requests
    BY <1>1 DEF Scans
<1>3. ReportComplete(report)' /\ ReportComplete(kept)'
    BY <1>1 DEF around, ScanInv, ReportComplete
<1>4. request = [request EXCEPT !.mode = request.mode]
    BY <1>2, ScanAssumption
<1>5. OldAdvisoriesAllowed'
    BY <1>1, <1>2, <1>4, CheckKeepsOldAdvisories
<1>6. LiveVerdictIsOfThisScan'
    <2> SUFFICES ASSUME ok, request.mode = "live", ~request.elsewhere
                 PROVE  LiveVerdictIsOfThisScan'
        BY <1>1 DEF End, Verdict, LiveVerdictIsOfThisScan
    <2>1. report.by = scans /\ request.digest \in {NoDigest, report.of}
        BY <1>1 DEF ScanInv, ScanUnderWay
    <2>2. ASSUME request.imagePolicy, report.repoDigests = {report.of},
                 NEW e \in imagePolicy, e.digest = report.of
          PROVE  e.status = "active"
        BY <2>2, AllowedDigestIsActive DEF VulnerabilityReportOk, ImagePolicyPasses
    <2>3. /\ result'.request = request /\ result'.judged = report /\ result'.by = scans
          /\ result'.imagePolicy = imagePolicy
        BY <1>1 DEF End, Verdict
    <2> QED BY <2>1, <2>2, <2>3 DEF LiveVerdictIsOfThisScan
<1> QED BY <1>1, <1>3, <1>5, <1>6 DEF End, around, ScanInv, ScanUnderWay

LEMMA CheckReportKeeps ==
    ASSUME ScanInv, NEW request \in Requests, CheckReport(request)
    PROVE  ScanInv'
<1>1. /\ UNCHANGED <<around, report>>
      /\ End([request EXCEPT !.mode = "check"], VulnerabilityReportOk(request), scans')
    BY DEF CheckReport
<1>2. ReportComplete(report)' /\ ReportComplete(kept)'
    BY <1>1 DEF around, ScanInv, ReportComplete
<1>3. OldAdvisoriesAllowed'
    BY <1>1, CheckKeepsOldAdvisories
<1>4. LiveVerdictIsOfThisScan'
    <2>1. result'.request.mode = "check"
        BY <1>1, ScanAssumption DEF End, Verdict
    <2> QED BY <2>1 DEF LiveVerdictIsOfThisScan
<1> QED BY <1>1, <1>2, <1>3, <1>4 DEF End, around, ScanInv, ScanUnderWay

LEMMA CheckWheelKeeps ==
    ASSUME ScanInv, NEW request \in Requests, CheckWheel(request)
    PROVE  ScanInv'
<1>1. UNCHANGED <<around, report, scan>> /\ scan = NoScan /\ result'.request.mode = "wheel"
    BY DEF CheckWheel
<1>2. ReportComplete(report)' /\ ReportComplete(kept)'
    BY <1>1 DEF around, ScanInv, ReportComplete
<1>3. LiveVerdictIsOfThisScan' /\ OldAdvisoriesAllowed'
    BY <1>1 DEF LiveVerdictIsOfThisScan, OldAdvisoriesAllowed
<1> QED BY <1>1, <1>2, <1>3 DEF around, ScanInv, ScanUnderWay

-----------------------------------------------------------------------------
(* The inductive invariant of scanning: reports are complete up to what      *)
(* their database policy allows, and a live command judges its own report.   *)
THEOREM ScanInvariant == ScanSpec => []ScanInv
<1>1. ScanInit => ScanInv
    BY InitScans
<1>2. ScanInv /\ [ScanNext]_scanVars => ScanInv'
    <2> SUFFICES ASSUME ScanInv, [ScanNext]_scanVars
                 PROVE  ScanInv'
        OBVIOUS
    <2>1. CASE Midnight
        BY <2>1, MidnightKeeps
    <2>2. CASE Repush \/ EditPolicies \/ UpdateDb \/ Keep
        BY <2>2, ChangesKeep
    <2>3. ASSUME NEW request \in Requests,
                 BeginScan(request) \/ CheckReport(request) \/ CheckWheel(request)
          PROVE  ScanInv'
        BY <2>3, BeginScanKeeps, CheckReportKeeps, CheckWheelKeeps
    <2>4. CASE TrivyExitsZero \/ TrivyWritesElsewhere
        BY <2>4, TrivyExitsZeroKeeps, WritingElsewhereKeeps
    <2>5. CASE TrivyFails
        BY <2>5, TrivyFailsKeeps
    <2>6. CASE ReplayReport
        BY <2>6, ReplayKeeps
    <2>7. CASE RunVulnerabilityCheck
        BY <2>7, RunCheckKeeps
    <2>8. CASE UNCHANGED scanVars
        BY <2>8 DEF scanVars, around, policies, ScanInv, ReportComplete, ScanUnderWay,
                    LiveVerdictIsOfThisScan, OldAdvisoriesAllowed
    <2> QED BY <2>1, <2>2, <2>3, <2>4, <2>5, <2>6, <2>7, <2>8 DEF ScanNext
<1> QED BY <1>1, <1>2, PTL DEF ScanSpec

(* A live scan that is ok judged the report of its own Trivy run.            *)
THEOREM LiveVerdictsAreOfTheirScan == ScanSpec => []LiveVerdictIsOfThisScan
<1>1. ScanInv => LiveVerdictIsOfThisScan
    BY DEF ScanInv
<1> QED BY <1>1, ScanInvariant, PTL

(* The database policy and the freshness policy together bound the age of an *)
(* advisory that a scan which is ok may have missed.                         *)
THEOREM OldAdvisoriesAreAllowed == ScanSpec => []OldAdvisoriesAllowed
<1>1. ScanInv => OldAdvisoriesAllowed
    BY DEF ScanInv
<1> QED BY <1>1, ScanInvariant, PTL

-----------------------------------------------------------------------------
(* The composition.                                                          *)
LEMMA ReleaseNextParts ==
    ASSUME [Next]_vars
    PROVE  [PolicyNext]_policyVars /\ [ReadinessNext]_readinessVars /\ [ScanNext]_scanVars
  <1>1. CASE UNCHANGED vars
    BY <1>1 DEF vars
  <1>2. CASE Promotion /\ UNCHANGED scanVars
    <2>1. CASE PolicyStep /\ UNCHANGED <<readinessVars, commands>>
      BY <1>2, <2>1 DEF PolicyNext
    <2>2. CASE PolicyCommand /\ UNCHANGED readinessVars
      BY <1>2, <2>2 DEF PolicyNext
    <2>3. CASE PreflightPolicies
      <3>1. PICK expired \in BOOLEAN : RunOperatorPreflight(PoliciesLoad(expired))
        BY <2>3 DEF PreflightPolicies
      <3>2. PoliciesLoad(expired) \in BOOLEAN
        BY DEF PoliciesLoad
      <3> QED
        BY <1>2, <2>3, <3>1, <3>2 DEF PreflightPolicies, ReadinessNext
    <2>4. CASE ReadinessCommand
      BY <1>2, <2>4 DEF ReadinessCommand, ReadinessNext
    <2> QED
      BY <1>2, <2>1, <2>2, <2>3, <2>4 DEF Promotion, PolicyStep
  <1>3. CASE ScanNext /\ UNCHANGED <<policyVars, readinessVars, commands>>
    BY <1>3
  <1> QED
    BY <1>1, <1>2, <1>3 DEF Next

(* Every behaviour of the two desks is one of each component: no command of   *)
(* one writes the files of another (operator_preflight.py writes its report   *)
(* only, and only reads the policies).                                       *)
THEOREM ReleaseGateComposes == Spec => PolicySpec /\ ReadinessSpec /\ ScanSpec
  <1>1. Init => PolicyInit /\ ReadinessInit /\ ScanInit
    BY DEF Init
  <1>2. [Next]_vars =>
           [PolicyNext]_policyVars /\ [ReadinessNext]_readinessVars /\ [ScanNext]_scanVars
    BY ReleaseNextParts
  <1> QED
    BY <1>1, <1>2, PTL DEF Spec, PolicySpec, ReadinessSpec, ScanSpec

(* So what the gates vouch for holds where they are used together.           *)
THEOREM ReleaseGateVouches ==
    Spec => /\ []BoundPoliciesWereReviewed
            /\ []SignedBindingWasApproved
            /\ []AdmittedRowsHoldEvidence
            /\ []AdmissionKeepsDriftOk
            /\ []LiveVerdictIsOfThisScan
            /\ []OldAdvisoriesAllowed
  BY ReleaseGateComposes, BoundPoliciesReviewed, SignedBindingApproved, AdmittedEvidence,
     AdmissionAndDriftAgree, LiveVerdictsAreOfTheirScan, OldAdvisoriesAreAllowed, PTL
=============================================================================
