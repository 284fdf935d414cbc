--------------------------- MODULE PolicyPromotion ---------------------------
(* The promotion of operator policies: the manifest of                       *)
(* src/self_harness/operator_promotion, its signature sidecar, and the       *)
(* binding of an operator bundle to the active entries                       *)
(* (operator_policy_binding.py, operator_bundle.py).                         *)
(*                                                                           *)
(* A command reads the manifest, and writes it back as a whole: two          *)
(* operators may both have read it before either writes.  The binding reads  *)
(* it several times, and what the others write in between counts.  A digest  *)
(* is the version of the file that was hashed.                               *)
EXTENDS Naturals, FiniteSets

CONSTANTS
    Operators, Names,      \* the operators, the names of manifest entries
    Kinds, Paths,          \* policy kinds, policy files
    Versions,              \* the bytes a policy file may hold
    Targets,               \* <<kind, path>>: the files the bundle refers to
    FirstContents,         \* what the files may hold to begin with
    Keys, TrustedKey,      \* the signing keys, the one a verifier trusts
    NoFile, NoManifest, NoSignature, NoCheck, NoBinding

ASSUME PolicyAssumption ==
    /\ Targets \subseteq Kinds \X Paths
    /\ TrustedKey \in Keys
    /\ NoFile \notin Versions
    /\ FirstContents \subseteq [Paths -> Versions \cup {NoFile}]

VARIABLES
    content,      \* what each policy file holds
    manifest,     \* the manifest file: its entries by name
    read,         \* the manifest each operator's command has loaded
    signature,    \* the sidecar
    checking,     \* the policy binding under way: what it has found so far
    binding,      \* the last report of the policy binding
    reviewed,     \* history: <<kind, path, version>> hashed by an add
    approved      \* history: those active in a manifest the trusted key signed

policyVars == <<content, manifest, read, signature, checking, binding, reviewed, approved>>

Statuses == {"draft", "candidate", "active", "retired"}
StatusOrder == [draft |-> 0, candidate |-> 1, active |-> 2, retired |-> 3]
Modes == {"unsigned", "sidecar", "trusted"}

PromotionEntry ==
    [kind : Kinds, path : Paths, digest : Versions, status : Statuses]
Digested(e) == <<e.kind, e.path, e.digest>>
ActiveNames(m) == {n \in DOMAIN m : m[n].status = "active"}
ActiveDigests(m) == {Digested(m[n]) : n \in ActiveNames(m)}

PolicyInit ==
    /\ content \in FirstContents
    /\ manifest = NoManifest
    /\ read = [o \in Operators |-> NoManifest]
    /\ signature = NoSignature
    /\ checking = NoCheck
    /\ binding = NoBinding
    /\ reviewed = {}
    /\ approved = {}

-----------------------------------------------------------------------------
(* A policy file is edited, or deleted.                                      *)
EditPolicy(p, v) ==
    /\ content[p] # v
    /\ content' = [content EXCEPT ![p] = v]
    /\ UNCHANGED <<manifest, read, signature, checking, binding, reviewed, approved>>

-----------------------------------------------------------------------------
(* The commands on the manifest.                                             *)
InitPromotionManifest(force) ==
    /\ manifest = NoManifest \/ force
    /\ manifest' = [n \in {} |-> NoManifest]
    /\ UNCHANGED <<content, read, signature, checking, binding, reviewed, approved>>

LoadPromotionManifest(o) ==
    /\ manifest # NoManifest
    /\ read' = [read EXCEPT ![o] = manifest]
    /\ UNCHANGED <<content, manifest, signature, checking, binding, reviewed, approved>>

\* What the command made of the manifest it had loaded replaces the file.
SavePromotionManifest(o, entries) ==
    /\ manifest' = entries
    /\ read' = [read EXCEPT ![o] = NoManifest]
    /\ UNCHANGED <<content, signature, checking, binding, approved>>

\* The file is hashed as it is now, whatever status the entry begins with.
AddPromotionEntry(o, n, k, p, status) ==
    /\ read[o] # NoManifest
    /\ n \notin DOMAIN read[o]
    /\ content[p] # NoFile
    /\ LET entry == [kind |-> k, path |-> p, digest |-> content[p], status |-> status]
       IN  /\ SavePromotionManifest(o,
                 [m \in DOMAIN read[o] \cup {n} |-> IF m = n THEN entry ELSE read[o][m]])
           /\ reviewed' = reviewed \cup {Digested(entry)}

\* Forward or the same; what is retired stays so.
TransitionAllowed(current, next) ==
    \/ current = next
    \/ current # "retired" /\ StatusOrder[next] >= StatusOrder[current]

SetStatusOfFile(o, n, status) ==    \* a slip: the entry is hashed anew
    /\ read[o] # NoManifest
    /\ n \in DOMAIN read[o]
    /\ TransitionAllowed(read[o][n].status, status)
    /\ content[read[o][n].path] # NoFile
    /\ SavePromotionManifest(o, [read[o] EXCEPT ![n].status = status,
                                                ![n].digest = content[read[o][n].path]])
    /\ UNCHANGED reviewed

SetPromotionStatus(o, n, status) ==
    /\ read[o] # NoManifest
    /\ n \in DOMAIN read[o]
    /\ TransitionAllowed(read[o][n].status, status)
    /\ SavePromotionManifest(o, [read[o] EXCEPT ![n].status = status])
    /\ UNCHANGED reviewed

-----------------------------------------------------------------------------
(* The signature.                                                            *)
CanonicalBytesOfFiles(m) ==     \* a slip: the statuses are not signed
    {<<n, Digested(m[n])>> : n \in DOMAIN m}

\* canonical_manifest_bytes: every field of every entry.
CanonicalBytes(m) == {<<n, Digested(m[n]), m[n].status>> : n \in DOMAIN m}

SignPromotionManifest(key) ==
    /\ manifest # NoManifest
    /\ signature' = [bytes |-> CanonicalBytes(manifest), key |-> key]
    /\ approved' = IF key = TrustedKey THEN approved \cup ActiveDigests(manifest)
                                       ELSE approved
    /\ UNCHANGED <<content, manifest, read, checking, binding, reviewed>>

\* Without a trusted key, the key that the sidecar itself names is believed.
VerifyPromotionSignature(mode) ==
    /\ signature # NoSignature
    /\ signature.bytes = CanonicalBytes(manifest)
    /\ mode = "trusted" => signature.key = TrustedKey

-----------------------------------------------------------------------------
(* The binding of the bundle.                                                *)
\* expired: its expires_on lies before the date the command evaluates it at.
LoadOperatorPolicyBundle(expired) ==
    /\ ~expired
    /\ \A t \in Targets : content[t[2]] # NoFile

\* What follows judges a manifest as it was read, whatever the file holds now.
ManifestFilesValid(m) ==    \* every entry is hashed again, retired ones too
    \A n \in DOMAIN m : content[m[n].path] = m[n].digest

Bindings(m, t) == {n \in ActiveNames(m) : <<m[n].kind, m[n].path>> = t}

TargetBound(m, t) ==
    /\ Cardinality(Bindings(m, t)) = 1
    /\ \A n \in Bindings(m, t) : m[n].digest = content[t[2]]

ActiveEntriesReferenced(m) ==
    \A n \in ActiveNames(m) : <<m[n].kind, m[n].path>> \in Targets

Refused == [ok |-> FALSE]

\* A check that fails decides the report: what the command does after it
\* changes nothing.
RefuseBinding ==
    /\ checking' = NoCheck
    /\ binding' = Refused
    /\ UNCHANGED <<content, manifest, read, signature, reviewed, approved>>

ContinueBinding(found) ==
    /\ checking' = found
    /\ UNCHANGED <<content, manifest, read, signature, binding, reviewed, approved>>

Reaches(stage) == checking # NoCheck /\ checking.stage = stage

\* verify_policy_binding: the bundle, then the manifest.
BeginPolicyBinding(mode, expired) ==
    /\ checking = NoCheck
    /\ IF LoadOperatorPolicyBundle(expired) /\ manifest # NoManifest /\ DOMAIN manifest # {}
       THEN ContinueBinding([mode |-> mode, stage |-> "files", entries |-> manifest,
                             verified |-> {}])
       ELSE RefuseBinding

CheckManifestFiles ==
    /\ Reaches("files")
    /\ IF ManifestFilesValid(checking.entries)
       THEN ContinueBinding([checking EXCEPT
               !.stage = IF checking.mode = "unsigned" THEN "load" ELSE "signature"])
       ELSE RefuseBinding

\* verify_promotion_signature reads the manifest again.
\* verified: the entries that were active in what it read.
CheckBindingSignature ==
    /\ Reaches("signature")
    /\ IF manifest # NoManifest /\ VerifyPromotionSignature(checking.mode)
       THEN ContinueBinding([checking EXCEPT !.stage = "load",
                                             !.verified = ActiveDigests(manifest)])
       ELSE RefuseBinding

\* The manifest is read once more, for _check_active_bindings.
LoadBoundManifest ==
    /\ Reaches("load")
    /\ IF manifest # NoManifest
       THEN ContinueBinding([checking EXCEPT !.stage = "bind", !.entries = manifest])
       ELSE RefuseBinding

\* The bundle's files are hashed.  policies: what the report vouches for, their
\* bytes.  activated: what was not active when the signature was checked.
VerifyPolicyBinding ==
    /\ Reaches("bind")
    /\ IF /\ \A t \in Targets : TargetBound(checking.entries, t)
          /\ ActiveEntriesReferenced(checking.entries)
       THEN /\ binding' = [ok |-> TRUE, mode |-> checking.mode,
                           policies |-> {<<t[1], t[2], content[t[2]]>> : t \in Targets},
                           activated |-> ActiveDigests(checking.entries) \ checking.verified]
            /\ checking' = NoCheck
            /\ UNCHANGED <<content, manifest, read, signature, reviewed, approved>>
       ELSE RefuseBinding

-----------------------------------------------------------------------------
PolicyCommand ==
    \/ \E p \in Paths, v \in Versions \cup {NoFile} : EditPolicy(p, v)
    \/ \E force \in BOOLEAN : InitPromotionManifest(force)
    \/ \E o \in Operators, n \in Names, status \in Statuses :
          \/ SetPromotionStatus(o, n, status)
          \/ \E k \in Kinds, p \in Paths : AddPromotionEntry(o, n, k, p, status)
    \/ \E key \in Keys : SignPromotionManifest(key)
    \/ \E mode \in Modes, expired \in BOOLEAN : BeginPolicyBinding(mode, expired)

\* A binding under way, which nothing but its command's end stops.
BindingStep ==
    CheckManifestFiles \/ CheckBindingSignature \/ LoadBoundManifest \/ VerifyPolicyBinding

\* What a command does before its write, or after its beginning.
PolicyStep == BindingStep \/ \E o \in Operators : LoadPromotionManifest(o)

PolicyNext == PolicyCommand \/ PolicyStep

PolicySpec == PolicyInit /\ [][PolicyNext]_policyVars

-----------------------------------------------------------------------------
(* A binding report that is ok vouches for bytes that were hashed, as that   *)
(* kind and under that path, when an entry was added: no later edit of a     *)
(* policy, change of a status or write of another operator gets past it.     *)
BoundPoliciesWereReviewed ==
    binding # NoBinding /\ binding.ok => binding.policies \subseteq reviewed

(* If it verified the signature of the trusted key, then each policy was     *)
(* active, with those bytes, in a manifest which that key signed, unless an  *)
(* operator activated it while this very command ran, after it had checked   *)
(* the signature: what became active before that is not let through.         *)
SignedBindingWasApproved ==
    binding # NoBinding /\ binding.ok /\ binding.mode = "trusted"
        => binding.policies \subseteq approved \cup binding.activated
=============================================================================
