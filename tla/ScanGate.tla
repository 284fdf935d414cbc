------------------------------ MODULE ScanGate ------------------------------
(* The scans a release passes: Trivy run, replayed or only planned over one  *)
(* image (scanner_execution.py, scripts/scanner_run.py), the database it     *)
(* scans with (scanner_db_freshness.py, scanner_db_update.py) and the        *)
(* policies that decide about its report (image_policy.py,                   *)
(* vulnerability_policy.py, freshness_policy.py, scripts/vuln_check.py).     *)
(* One scanner command at a time writes the report; the policies, the        *)
(* database and the image behind the name change while it runs. Days are     *)
(* numbers; the build of the database and the report of Trivy are external.  *)
EXTENDS Integers, FiniteSets

CONSTANTS
    Advisories,    \* [package, ids, published]: ids are the id and its aliases
    Digests,       \* the images that the name has denoted or will denote
    Affects,       \* the advisories each of them is exposed to
    Period,        \* days from the build of a database to its NextUpdate
    FieldSets,     \* the dates that the metadata of a database may hold
    ImagePolicies, VulnerabilityPolicies,   \* what operators put into the files
    Requests,      \* the command lines of scanner_run.py
    NoDigest, NoPolicy, NoTrivyReport, NoScan, NoResult,
    Torn,          \* a report cut short
    LastDay, MaxScans, MaxChanges   \* bounds: the calendar, scanner commands,
                                    \* changes made around them

NoLimit == -1    \* a limit or a date that is not given

VARIABLES
    day,
    tag,           \* the digest the image's name denotes
    db,            \* [built, metadata, fields]
    imagePolicy, vulnerabilityPolicy,   \* the files
    report,        \* the file at --out
    kept,          \* the archived report that --replay names
    scan,          \* the scanner command under way
    result,        \* the verdict of the last command, and what it judged
    scans, changes

policies == <<imagePolicy, vulnerabilityPolicy>>
around == <<day, tag, db, policies, kept, changes>>
scanVars == <<around, report, scan, result, scans>>

\* What the loaders make of the files, entry by entry.
ImageEntries ==
    [digest : Digests \cup {NoDigest}, status : {"active", "retired", "revoked"}]
VulnerabilityEntries ==
    [package : {a.package : a \in Advisories}, id : UNION {a.ids : a \in Advisories},
     status : {"active", "accepted", "retired", "rejected"}, expiresOn : Nat]
DbPolicies == [maxAge : Nat \cup {NoLimit}, requireNextUpdate : BOOLEAN]
FreshnessPolicies == [maxAge : Nat \cup {NoLimit}, notBefore : Nat \cup {NoLimit}]

ASSUME ScanAssumption ==
    /\ \A a \in Advisories : a.published \in Nat
    /\ Affects \in [Digests -> SUBSET Advisories]
    /\ Period \in Nat
    /\ FieldSets \subseteq SUBSET {"NextUpdate", "UpdatedAt"}
    /\ ImagePolicies \subseteq SUBSET ImageEntries
    /\ \A policy \in VulnerabilityPolicies : policy \subseteq VulnerabilityEntries
    /\ Requests \subseteq
          [mode : {"dry-run", "replay", "live"}, digest : Digests \cup {NoDigest},
           dbDir : BOOLEAN, dbPolicy : DbPolicies \cup {NoPolicy},
           registryConfig : BOOLEAN, imagePolicy : BOOLEAN,
           elsewhere : BOOLEAN,    \* a --trivy-arg sends the report elsewhere
           freshness : FreshnessPolicies \cup {NoPolicy}]

ScanInit ==
    /\ day = 0 /\ scans = 0 /\ changes = 0
    /\ tag \in Digests
    /\ \E fields \in FieldSets : db = [built |-> 0, metadata |-> "read", fields |-> fields]
    /\ imagePolicy \in ImagePolicies
    /\ vulnerabilityPolicy \in VulnerabilityPolicies
    /\ report = NoTrivyReport /\ kept = NoTrivyReport
    /\ scan = NoScan /\ result = NoResult

-----------------------------------------------------------------------------
(* The policies. A loader refuses the whole file; a second entry for the     *)
(* same thing stands for all that is refused, and {} is also the policy of a *)
(* command without --vuln-policy.                                            *)
LoadImagePolicy(policy) ==
    \A e, f \in policy : e.digest = f.digest => e = f

LoadVulnerabilityPolicy(policy) ==
    \A e, f \in policy : e.package = f.package /\ e.id = f.id => e = f

LoadFreshnessPolicy(policy) ==
    policy.maxAge # NoLimit \/ policy.notBefore # NoLimit

LoadDbFreshnessPolicy(policy) ==
    policy.maxAge # NoLimit \/ policy.requireNextUpdate

(* The entry of the digest decides, whatever the entry of the name says.     *)
ImageAllowed(policy, digest) ==
    LET exact == {e \in policy : e.digest = digest}
        nameOnly == {e \in policy : e.digest = NoDigest}
    IN \E e \in (IF exact # {} THEN exact ELSE nameOnly) : e.status = "active"

\* One of the references of the report is enough; a report without is not.
ImagePolicyPasses(policy, file) ==
    \E digest \in file.repoDigests : ImageAllowed(policy, digest)

\* Exactly one entry is about the finding, and that one still holds.
FindingAllowed(policy, finding, today) ==
    LET matches == {e \in policy : e.package = finding.package /\ e.id \in finding.ids}
    IN \E e \in matches :
          /\ matches = {e}
          /\ e.status \in {"active", "accepted"}
          /\ e.expiresOn >= today

ReportFresh(policy, stamp, today) ==
    /\ stamp # NoLimit
    /\ stamp <= today
    /\ policy.notBefore # NoLimit => stamp >= policy.notBefore
    /\ policy.maxAge # NoLimit => today - stamp <= policy.maxAge

DbFreshByNextUpdate(policy, today) ==    \* a slip: the age only without NextUpdate
    IF "NextUpdate" \in db.fields
    THEN db.built + Period >= today
    ELSE /\ ~policy.requireNextUpdate
         /\ "UpdatedAt" \in db.fields /\ today - db.built <= policy.maxAge

\* A NextUpdate is looked at whenever there is one, UpdatedAt with max_age_days.
DbFresh(policy, today) ==
    /\ policy.requireNextUpdate => "NextUpdate" \in db.fields
    /\ "NextUpdate" \in db.fields => db.built + Period >= today
    /\ policy.maxAge # NoLimit =>
          /\ "UpdatedAt" \in db.fields
          /\ db.built <= today
          /\ today - db.built <= policy.maxAge

-----------------------------------------------------------------------------
(* What happens around a command.                                            *)
\* The default timeout lets a command see one midnight.
Midnight ==
    /\ day < LastDay
    /\ scan # NoScan => scan.begun = day
    /\ day' = day + 1
    /\ UNCHANGED <<tag, db, policies, kept, changes, report, scan, result, scans>>

Change ==
    /\ changes < MaxChanges
    /\ changes' = changes + 1
    /\ UNCHANGED <<day, report, scan, result, scans>>

Repush ==
    /\ Change
    /\ tag' \in Digests \ {tag}
    /\ UNCHANGED <<db, policies, kept>>

EditPolicies ==
    /\ Change
    /\ imagePolicy' \in ImagePolicies
    /\ vulnerabilityPolicy' \in VulnerabilityPolicies
    /\ policies' # policies
    /\ UNCHANGED <<tag, db, kept>>

\* The mirror serves a build no older than the last.
Builds(first) ==
    [built : first .. day, metadata : {"read"}, fields : FieldSets]

\* A run that is refused beforehand changes nothing, one that is cut short
\* leaves no metadata that can be read.
UpdateDb ==
    /\ Change
    /\ \/ db' \in Builds(db.built)
       \/ \E metadata \in {"missing", "malformed"} :
             db' = [db EXCEPT !.metadata = metadata, !.fields = {}]
    /\ UNCHANGED <<tag, policies, kept>>

\* The operator archives the report, for a later --replay.
Keep ==
    /\ Change
    /\ report # NoTrivyReport
    /\ kept' = report
    /\ UNCHANGED <<tag, db, policies>>

-----------------------------------------------------------------------------
(* scripts/scanner_run.py                                                    *)
Verdict(request, ok, by) ==
    [ok |-> ok, request |-> request, by |-> by, judged |-> report, day |-> day,
     imagePolicy |-> imagePolicy, vulnerabilityPolicy |-> vulnerabilityPolicy]

End(request, ok, by) ==
    /\ scan' = NoScan
    /\ result' = Verdict(request, ok, by)

DbMetadataCheck(request) ==
    IF request.dbDir
    THEN /\ db.metadata # "missing"
         /\ request.dbPolicy # NoPolicy => db.metadata = "read" /\ DbFresh(request.dbPolicy, day)
    ELSE request.dbPolicy = NoPolicy

\* "installed" is what the machine has; a replay needs no Trivy.
ExecutableCheck(request, installed) == request.mode = "live" => "trivy" \in installed
RegistryConfigCheck(request, installed) ==
    request.registryConfig => "registry config" \in installed

\* A replay is preflighted only when it names a database or a policy for it.
Preflight(request, installed) ==
    \/ request.mode = "replay" /\ ~request.dbDir /\ request.dbPolicy = NoPolicy
    \/ /\ ExecutableCheck(request, installed)
       /\ DbMetadataCheck(request)
       /\ RegistryConfigCheck(request, installed)

\* The arguments are read, the command is built and the preflight run.
BeginScan(request) ==
    /\ scan = NoScan /\ scans < MaxScans
    /\ scans' = scans + 1
    /\ LET loads == request.dbPolicy # NoPolicy => LoadDbFreshnessPolicy(request.dbPolicy)
       IN \/ /\ ~loads
             /\ End(request, FALSE, scans')
          \/ /\ loads /\ request.mode = "dry-run"
             /\ End(request, TRUE, scans')
          \/ /\ loads /\ request.mode # "dry-run"
             /\ \E installed \in SUBSET {"trivy", "registry config"} :
                   IF Preflight(request, installed)
                   THEN /\ scan' = [request |-> request, stage |-> "scan", begun |-> day]
                        /\ result' = NoResult
                   ELSE End(request, FALSE, scans')
    /\ UNCHANGED <<around, report>>

\* The image given by digest, or what the name denotes now.
ImageReference(request) ==
    IF request.digest # NoDigest THEN request.digest ELSE tag

\* A local image has no RepoDigests; another image may have several.
RepoDigests(digest) == {refs \in SUBSET Digests : refs # {} => digest \in refs}

\* The day of CreatedAt; an old Trivy writes none.
ReportTimestamps == {day, NoLimit}

\* What Trivy found with a database, under which policy for it, for which
\* command and when.
TrivyReport(digest, repoDigests, used, stamp) ==
    [of |-> digest, repoDigests |-> repoDigests, stamp |-> stamp,
     found |-> {a \in Affects[digest] : a.published <= used.built},
     under |-> scan.request.dbPolicy, by |-> scans]

Judge ==
    /\ scan' = [scan EXCEPT !.stage = "judge"]
    /\ UNCHANGED result

\* The database of --db-dir, which Trivy may update first, or a cache of its own.
Used(request) == IF request.dbDir THEN {db} \cup Builds(db.built) ELSE Builds(0)

TrivyExitsZero ==
    /\ scan # NoScan /\ scan.stage = "scan" /\ scan.request.mode = "live"
    /\ ~scan.request.elsewhere
    /\ LET request == scan.request
           digest == ImageReference(request)
       IN \E repoDigests \in RepoDigests(digest), stamp \in ReportTimestamps,
             used \in Used(request) :
             /\ report' = TrivyReport(digest, repoDigests, used, stamp)
             /\ db' = IF request.dbDir THEN used ELSE db
    /\ Judge
    /\ UNCHANGED <<day, tag, policies, kept, changes, scans>>

\* The additional arguments follow --output and may override it: what was at
\* --out stays, and is judged.
TrivyWritesElsewhere ==
    /\ scan # NoScan /\ scan.stage = "scan" /\ scan.request.mode = "live"
    /\ scan.request.elsewhere
    /\ \E used \in Used(scan.request) : db' = IF scan.request.dbDir THEN used ELSE db
    /\ Judge
    /\ UNCHANGED <<day, tag, policies, kept, changes, report, scans>>

TrivyFailsUnseen ==    \* a slip: what is at --out is judged whatever the exit
    /\ scan # NoScan /\ scan.stage = "scan" /\ scan.request.mode = "live"
    /\ report' \in {report, Torn}
    /\ Judge
    /\ UNCHANGED <<around, scans>>

\* A nonzero exit, the timeout or an OSError: the command ends without a look
\* at the report, which is the one before or a part of a new one.
TrivyFails ==
    /\ scan # NoScan /\ scan.stage = "scan" /\ scan.request.mode = "live"
    /\ report' \in {report, Torn}
    /\ End(scan.request, FALSE, scans)
    /\ UNCHANGED <<around, scans>>

\* --replay names the archive or the file at --out itself.
ReplayReport ==
    /\ scan # NoScan /\ scan.stage = "scan" /\ scan.request.mode = "replay"
    /\ \E source \in {kept, report} :
          IF source = NoTrivyReport
          THEN End(scan.request, FALSE, scans) /\ UNCHANGED report
          ELSE Judge /\ report' = source
    /\ UNCHANGED <<around, scans>>

-----------------------------------------------------------------------------
(* scripts/vuln_check.py over the report, with the policies as they are now. *)
VulnerabilityReportOk(request) ==
    /\ report \notin {NoTrivyReport, Torn}
    /\ LoadVulnerabilityPolicy(vulnerabilityPolicy)
    /\ request.imagePolicy =>
          LoadImagePolicy(imagePolicy) /\ ImagePolicyPasses(imagePolicy, report)
    /\ request.freshness # NoPolicy =>
          /\ LoadFreshnessPolicy(request.freshness)
          /\ ReportFresh(request.freshness, report.stamp, day)
    /\ \A finding \in report.found : FindingAllowed(vulnerabilityPolicy, finding, day)

RunVulnerabilityCheck ==
    /\ scan # NoScan /\ scan.stage = "judge"
    /\ End(scan.request, VulnerabilityReportOk(scan.request), scans)
    /\ UNCHANGED <<around, report, scans>>

\* The check on its own over the file at --out, whoever wrote it.
CheckReport(request) ==
    /\ scan = NoScan /\ scans < MaxScans
    /\ scans' = scans + 1
    /\ End([request EXCEPT !.mode = "check"], VulnerabilityReportOk(request), scans')
    /\ UNCHANGED <<around, report>>

PipAuditFindings == SUBSET Advisories

\* The check of the wheel's runtime dependencies: pip-audit installs them and
\* reports, or fails; without dependencies nothing is run. The policies of
\* images and of freshness are refused with it.
CheckWheel(request) ==
    /\ scan = NoScan /\ scans < MaxScans
    /\ scans' = scans + 1
    /\ \E audited \in BOOLEAN, found \in PipAuditFindings :
          result' = [request |-> [mode |-> "wheel"],
                     ok |-> /\ LoadVulnerabilityPolicy(vulnerabilityPolicy)
                            /\ ~request.imagePolicy /\ request.freshness = NoPolicy
                            /\ audited
                            /\ \A finding \in found :
                                  FindingAllowed(vulnerabilityPolicy, finding, day)]
    /\ UNCHANGED <<around, report, scan>>

ScanNext ==
    \/ Midnight \/ Repush \/ EditPolicies \/ UpdateDb \/ Keep
    \/ \E request \in Requests :
          BeginScan(request) \/ CheckReport(request) \/ CheckWheel(request)
    \/ TrivyExitsZero \/ TrivyWritesElsewhere \/ TrivyFails \/ ReplayReport \/ RunVulnerabilityCheck

ScanSpec == ScanInit /\ [][ScanNext]_scanVars

-----------------------------------------------------------------------------
\* The days by which a database that satisfies the policy may lag behind.
Lag(policy) == IF policy.maxAge # NoLimit THEN policy.maxAge ELSE Period

(* A live scan that is ok, and whose --trivy-arg leave the report at --out,  *)
(* judged the report that its own Trivy wrote, over the digest it was given, *)
(* never a report left there; and an image with no other digest is not one   *)
(* that the image policy has retired or revoked.                             *)
LiveVerdictIsOfThisScan ==
    result # NoResult /\ result.ok /\ result.request.mode = "live"
        /\ ~result.request.elsewhere =>
    LET file == result.judged
    IN /\ file.by = result.by
       /\ result.request.digest \in {NoDigest, file.of}
       /\ result.request.imagePolicy /\ file.repoDigests = {file.of} =>
             \A e \in result.imagePolicy : e.digest = file.of => e.status = "active"

(* A verdict under a freshness policy of R days, over a report made with a   *)
(* database policy that allows a lag of D, is ok only if every advisory that *)
(* is older than both together, and the midnight a scan may see, is allowed  *)
(* by the one entry about it: the two policies bound what a scan may miss,   *)
(* whichever database, name, archive and day the commands met.               *)
OldAdvisoriesAllowed ==
    result # NoResult /\ result.ok /\ result.request.mode \in {"live", "replay", "check"} =>
    LET freshness == result.request.freshness
        file == result.judged
    IN freshness # NoPolicy /\ freshness.maxAge # NoLimit /\ file.under # NoPolicy =>
       \A a \in Affects[file.of] :
           a.published + Lag(file.under) + freshness.maxAge + 1 <= result.day =>
               FindingAllowed(result.vulnerabilityPolicy, a, result.day)
=============================================================================
