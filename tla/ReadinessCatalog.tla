-------------------------- MODULE ReadinessCatalog --------------------------
(* The readiness catalog of live dependencies, the admission of a candidate  *)
(* catalog against the reports of its preflight surfaces, and the drift      *)
(* check (src/self_harness/readiness_matrix.py, readiness_promotion.py,      *)
(* readiness_drift.py), with two of the surfaces: the model backends         *)
(* (model_backend_preflight.py) and the attestation (attestations.py).       *)
EXTENDS Naturals, FiniteSets

CONSTANTS
    Dependencies,    \* the names of the catalog's rows
    Backends,        \* the paper's model backends
    FirstCatalogs,   \* the catalogs as checked in: no row is provisioned
    NoReport

VARIABLES
    catalog,     \* the catalog in force
    reports,     \* the report file of each surface
    admittedOn   \* history: the report that a row was admitted on last

readinessVars == <<catalog, reports, admittedOn>>

Surfaces == {"operator_preflight", "model_backend_preflight", "attestation_check"}
RowStatuses == {"blocked", "optional", "provisioned"}
Rows == [status : RowStatuses, relevant : BOOLEAN, surface : Surfaces \cup {"none"}]
Catalogs == UNION {[S -> Rows] : S \in SUBSET Dependencies}

ASSUME FirstCatalogsAssumption ==
    FirstCatalogs \subseteq
        {c \in Catalogs : \A d \in DOMAIN c : c[d].status # "provisioned"}

-----------------------------------------------------------------------------
(* The surfaces.                                                             *)
Report(ok, mode, backend, valid) ==
    [ok |-> ok, failed |-> ~ok, mode |-> mode, backend |-> backend, valid |-> valid]

\* evaluate_model_backend_preflight: every backend that was asked for must
\* answer; a dry run has not run, which is no pass.
ModelBackendReport(mode, selected, reachable) ==
    LET pass(backend) == CASE mode = "dry-run" -> FALSE
                           [] mode = "replay"  -> TRUE
                           [] mode = "live"    -> backend \in reachable
    IN  Report(\A backend \in selected : pass(backend), mode, "structural", FALSE)

\* verify_attestation: bound is that the trust root loads, the material is one
\* of the attestation's and the certificate is the expected one's; only the
\* sigstore backend looks at the signature.
AttestationReport(backend, bound, signed) ==
    LET valid == backend = "sigstore" /\ bound /\ signed
    IN  Report(bound /\ (backend = "sigstore" => signed), "live", backend, valid)

\* operator_preflight.py: the bundle loads, and so does every policy it names.
OperatorPreflightReport(loads) == Report(loads, "live", "structural", FALSE)

-----------------------------------------------------------------------------
(* evaluate_provisioned_surface.  That a required check of the report failed *)
(* is one flag.  A report that claims reproduction, which would refuse every *)
(* candidate, is none that a surface writes.                                 *)
SurfaceAccepts(surface, report) ==
    /\ surface # "none"
    /\ report # NoReport
    /\ report.ok
    /\ ~report.failed
    /\ surface = "attestation_check" => report.backend = "sigstore" /\ report.valid
    /\ surface = "model_backend_preflight" => report.mode = "live"

ReportOf(row, files) == IF row.surface = "none" THEN NoReport ELSE files[row.surface]
SurfacePasses(row, files) == SurfaceAccepts(row.surface, ReportOf(row, files))

NeedsEvidence(row) == row.status = "provisioned" /\ row.relevant

-----------------------------------------------------------------------------
(* evaluate_readiness_promotion: which rows of a candidate are refused.      *)
RowOrder == [blocked |-> 0, optional |-> 1, provisioned |-> 2]
IsDemoted(old, new) == RowOrder[new.status] < RowOrder[old.status]

NewEntryOnTrust(new, files) == FALSE    \* a slip: only changes need evidence

NewEntryRejected(new, files) == NeedsEvidence(new) /\ ~SurfacePasses(new, files)

PromotedEntryRejected(old, new, files, allowDemotions) ==    \* a slip: only
    \/ IsDemoted(old, new) /\ ~allowDemotions        \* promotions need evidence
    \/ NeedsEvidence(new) /\ old.surface # new.surface
    \/ NeedsEvidence(new) /\ old.status # "provisioned" /\ ~SurfacePasses(new, files)

ExistingEntryRejected(old, new, files, allowDemotions) ==
    \/ IsDemoted(old, new) /\ ~allowDemotions
    \/ NeedsEvidence(new) /\ old.surface # new.surface
    \/ NeedsEvidence(new) /\ ~SurfacePasses(new, files)

\* Rows that did not change are not looked at; none may be removed.
PromotionOk(baseline, candidate, files, allowDemotions) ==
    /\ DOMAIN baseline \subseteq DOMAIN candidate
    /\ \A d \in DOMAIN candidate \ DOMAIN baseline : ~NewEntryRejected(candidate[d], files)
    /\ \A d \in DOMAIN baseline :
          baseline[d] # candidate[d] =>
              ~ExistingEntryRejected(baseline[d], candidate[d], files, allowDemotions)

Changed(baseline, candidate) ==
    {d \in DOMAIN candidate : d \notin DOMAIN baseline \/ baseline[d] # candidate[d]}

(* evaluate_readiness_drift: every row is looked at.                         *)
DriftOk(rows, files) ==
    \A d \in DOMAIN rows : NeedsEvidence(rows[d]) => SurfacePasses(rows[d], files)

-----------------------------------------------------------------------------
ReadinessInit ==
    /\ catalog \in FirstCatalogs
    /\ reports = [s \in Surfaces |-> NoReport]
    /\ admittedOn = [d \in Dependencies |-> NoReport]

WriteReport(surface, report) ==
    /\ reports' = [reports EXCEPT ![surface] = report]
    /\ UNCHANGED <<catalog, admittedOn>>

RunModelBackendPreflight(mode, selected, reachable) ==
    WriteReport("model_backend_preflight", ModelBackendReport(mode, selected, reachable))

RunAttestationCheck(backend, bound, signed) ==
    WriteReport("attestation_check", AttestationReport(backend, bound, signed))

RunOperatorPreflight(loads) ==
    WriteReport("operator_preflight", OperatorPreflightReport(loads))

\* An operator edits the catalog, and puts it into force if it is admitted.
Promote(candidate, allowDemotions) ==
    /\ candidate # catalog
    /\ PromotionOk(catalog, candidate, reports, allowDemotions)
    /\ catalog' = candidate
    /\ admittedOn' = [d \in Dependencies |->
                        IF d \in Changed(catalog, candidate)
                        THEN ReportOf(candidate[d], reports) ELSE admittedOn[d]]
    /\ UNCHANGED reports

OtherSurface ==
    \/ \E mode \in {"dry-run", "replay", "live"},
          selected \in (SUBSET Backends) \ {{}}, reachable \in SUBSET Backends :
             RunModelBackendPreflight(mode, selected, reachable)
    \/ \E backend \in {"structural", "sigstore"}, bound, signed \in BOOLEAN :
          RunAttestationCheck(backend, bound, signed)

ReadinessNext ==
    \/ OtherSurface
    \/ \E loads \in BOOLEAN : RunOperatorPreflight(loads)
    \/ \E candidate \in Catalogs, allowDemotions \in BOOLEAN :
          Promote(candidate, allowDemotions)

ReadinessSpec == ReadinessInit /\ [][ReadinessNext]_readinessVars

-----------------------------------------------------------------------------
(* After any series of admitted catalogs, a row that reproduction relies on  *)
(* rests on a report that its surface accepted when the row last changed:    *)
(* it cannot have been made relevant, or been added, on trust.  So only a    *)
(* report that was rewritten since can make such a row drift.                *)
AdmittedRowsHoldEvidence ==
    \A d \in DOMAIN catalog :
        NeedsEvidence(catalog[d]) => SurfaceAccepts(catalog[d].surface, admittedOn[d])

(* The two gates agree: a candidate that is admitted against a catalog which *)
(* does not drift does not drift either, on the same reports, demotions      *)
(* allowed or not.  Admission looks at what changed only, the drift check at *)
(* every row.                                                                *)
AdmissionKeepsDriftOk ==
    DriftOk(catalog, reports) =>
        \A candidate \in Catalogs :
            PromotionOk(catalog, candidate, reports, TRUE) => DriftOk(candidate, reports)
=============================================================================
