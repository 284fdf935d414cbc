---------------------------- MODULE MCReleaseGate ----------------------------
(* Instances of ReleaseGate for TLC.                                         *)
EXTENDS ReleaseGate, TLC

CONSTANTS n1, n2, o1, o2

TargetsDef == {<<"image_policy", "p">>}

\* Both files there and well formed.
Contents == {[p \in Paths |-> "v1"]}

\* One dependency: not in the catalog yet, or blocked as in the shipped one.
Shipped(d) == [status |-> "blocked", relevant |-> TRUE, surface |-> "attestation_check"]
FirstCatalogsDef == {[d \in S |-> Shipped(d)] : S \in SUBSET Dependencies}

\* Scans: two advisories, one known under two ids, about one package.
Old == [package |-> "p", ids |-> {"CVE-1", "GHSA-1"}, published |-> 0]
New == [package |-> "p", ids |-> {"CVE-2"}, published |-> 1]
AdvisoriesDef == {Old, New}
AffectsDef == [d \in Digests |-> IF d = "d1" THEN {Old, New} ELSE {New}]
FieldSetsDef == {{"NextUpdate", "UpdatedAt"}, {"UpdatedAt"}}
ImageEntry(d, s) == [digest |-> d, status |-> s]
ImagePoliciesDef == {
   {ImageEntry("d1", "active")},
   {ImageEntry(NoDigest, "active"), ImageEntry("d1", "revoked")}}
Allow(id, status, expires) ==
   [package |-> "p", id |-> id, status |-> status, expiresOn |-> expires]
VulnerabilityPoliciesDef == {
   {Allow("CVE-1", "active", 9), Allow("GHSA-1", "active", 9)},
   {Allow("CVE-1", "active", 9), Allow("CVE-2", "accepted", 1)}}
Limits(age, next) == [maxAge |-> age, requireNextUpdate |-> next]
Freshness(age, from) == [maxAge |-> age, notBefore |-> from]
Request(mode, digest, dbDir, dbPolicy, freshness) ==
   [mode |-> mode, digest |-> digest, dbDir |-> dbDir, dbPolicy |-> dbPolicy,
    registryConfig |-> dbDir, imagePolicy |-> digest # NoDigest, elsewhere |-> FALSE,
    freshness |-> freshness]
RequestsDef == {
   [Request("live", "d1", FALSE, NoPolicy, Freshness(0, NoLimit)) EXCEPT !.elsewhere = TRUE],
   Request("live", "d1", TRUE, Limits(0, TRUE), Freshness(0, NoLimit)),
   Request("live", NoDigest, TRUE, Limits(NoLimit, TRUE), NoPolicy),
   Request("live", NoDigest, FALSE, NoPolicy, Freshness(NoLimit, 1)),
   Request("replay", "d1", FALSE, NoPolicy, Freshness(0, NoLimit)),
   Request("replay", NoDigest, TRUE, Limits(NoLimit, FALSE), NoPolicy),
   Request("dry-run", "d1", FALSE, Limits(0, FALSE), NoPolicy)}

Symmetry == Permutations({n1, n2}) \cup Permutations({o1, o2})
=============================================================================
