------------------------------ MODULE AuditTrail ------------------------------
(***************************************************************************)
(* Audit events of the tenants: the SQLite store, whose methods each run   *)
(* in a worker thread on a connection of their own; the retention endpoint,*)
(* which counts and then deletes; signed export bundles, exported to the   *)
(* client or to a file, and their verification; and restarts of the        *)
(* service under other signing settings.                                   *)
(*                                                                         *)
(* SHA-256 and HMAC are taken as injective: the fingerprint of a chain is  *)
(* the sequence of its records, a signature the secret with the payload.   *)
(***************************************************************************)
EXTENDS Naturals, FiniteSets, SequencesExt

CONSTANTS
  AuditTenants,
  Cleaners,         \* cleanup requests that may overlap
  Handlers,         \* export-file and verify requests that may overlap
  CapRequests,      \* max_records of a cleanup request; 0 asks for the configured cap
  ConfiguredCap,    \* max_audit_records_per_tenant
  Limits,           \* limit of an export request
  MaxExport,        \* max_audit_export_records
  MaxListed,        \* the store's own bound on a list, 1000 in the code
  SigningSettings,  \* [legacy, versioned, active]: the signing secrets of a deployment
  MaxEvents,        \* bound: events appended
  MaxBundles,       \* bound: bundles exported
  MaxSeconds        \* bound: seconds that pass

ASSUME AuditAssumption ==
  /\ ConfiguredCap \in Nat /\ MaxExport \in Nat /\ MaxListed \in Nat \ {0}
  /\ MaxEvents \in Nat /\ MaxBundles \in Nat /\ MaxSeconds \in Nat

VARIABLES
  events,     \* audit_events in the order of sequence_id: [n, tenant]
  appended,   \* events appended so far; the next event_id
  cleaning,   \* per cleanup request: what it counted, or NotCleaning
  handler,    \* per export-file or verify request: the call the entitlement gate let through
  signing,    \* the signing settings the service runs with
  exported,   \* [bundle, ring]: the bundles exported, each with the keyring of that time
  files,      \* export directory: <<tenant, second>> -> bundle
  second,     \* the clock, to the second the file name keeps
  verdict     \* the last answer of verify

auditVars == <<events, appended, cleaning, handler, signing, exported, files, second, verdict>>

NotCleaning == [tenant |-> "none"]
NoCall == [kind |-> "none"]
NoVerdict == [verified |-> FALSE, bundle |-> "none"]

AuditInit ==
  /\ events = <<>> /\ appended = 0
  /\ cleaning = [c \in Cleaners |-> NotCleaning]
  /\ handler = [h \in Handlers |-> NoCall]
  /\ signing \in SigningSettings
  /\ exported = {} /\ files = [f \in {} |-> NoVerdict]
  /\ second = 0 /\ verdict = NoVerdict

-----------------------------------------------------------------------------
(* The store *)

OfTenant(t) == SelectSeq(events, LAMBDA e : e.tenant = t)

LastN(s, n) == IF Len(s) <= n THEN s ELSE SubSeq(s, Len(s) - n + 1, Len(s))

AtLeast(n, low) == IF n < low THEN low ELSE n
AtMost(n, high) == IF n > high THEN high ELSE n

ListEvents(t, limit) == LastN(OfTenant(t), AtLeast(AtMost(limit, MaxListed), 1))

AppendEvent(t) ==
  /\ appended < MaxEvents
  /\ events' = Append(events, [n |-> appended, tenant |-> t])
  /\ appended' = appended + 1

\* ToolAuditPipeline.emit, from whatever the service does for the tenant.
Emit(t) ==
  /\ AppendEvent(t)
  /\ UNCHANGED <<cleaning, handler, signing, exported, files, second, verdict>>

RetainedCap(requested) == IF requested > 0 THEN requested ELSE ConfiguredCap

Overflow(t, cap) == IF Len(OfTenant(t)) > cap THEN Len(OfTenant(t)) - cap ELSE 0

\* SELECT COUNT: a statement of its own, before the transaction the DELETE opens.
CountEvents(c, t, requested) ==
  /\ cleaning[c] = NotCleaning
  /\ LET cap == RetainedCap(requested) IN
     cleaning' = [cleaning EXCEPT ![c] = IF Overflow(t, cap) = 0 THEN NotCleaning
                    ELSE [tenant |-> t, cap |-> cap, overflow |-> Overflow(t, cap)]]
  /\ UNCHANGED <<events, appended, handler, signing, exported, files, second, verdict>>

\* DELETE the oldest rows of the tenant, as many as were counted too many.
PruneEvents(c) ==
  /\ cleaning[c] # NotCleaning
  /\ LET old == OfTenant(cleaning[c].tenant)
         gone == ToSet(SubSeq(old, 1, AtMost(cleaning[c].overflow, Len(old)))) IN
     events' = SelectSeq(events, LAMBDA e : e \notin gone)
  /\ cleaning' = [cleaning EXCEPT ![c] = NotCleaning]
  /\ UNCHANGED <<appended, handler, signing, exported, files, second, verdict>>

-----------------------------------------------------------------------------
(* Signing *)

\* build_signing_keyring: the versioned secrets, and the legacy secret as v1 if v1 has none.
Keyring ==
  LET versioned == {v \in DOMAIN signing.versioned : signing.versioned[v] # ""}
      legacy == IF signing.legacy = "" THEN {} ELSE {"v1"} IN
  [v \in versioned \cup legacy |->
     IF v \in versioned THEN signing.versioned[v] ELSE signing.legacy]

\* The first of sorted(keyring.keys()): the versions of the model in the order of their names.
VersionOrder == <<"v1", "v2", "v3">>
FirstVersion ==
  VersionOrder[CHOOSE i \in 1..Len(VersionOrder) :
                 /\ VersionOrder[i] \in DOMAIN Keyring
                 /\ \A j \in 1..(i - 1) : VersionOrder[j] \notin DOMAIN Keyring]

ASSUME SigningAssumption ==
  \A s \in SigningSettings : DOMAIN s.versioned \subseteq {"v1", "v2", "v3"}

VersionUsed ==
  IF signing.active \in DOMAIN Keyring THEN signing.active
  ELSE IF "v1" \in DOMAIN Keyring THEN "v1" ELSE FirstVersion

\* Mutation: a bundle signed with another version's secret keeps the active version's name.
SigningSecretKeepsName ==
  IF DOMAIN Keyring = {} THEN [version |-> signing.active, secret |-> ""]
  ELSE [version |-> signing.active, secret |-> Keyring[VersionUsed]]

\* resolve_signing_secret: the active version, else v1, else the first; none leaves it unsigned.
SigningSecret ==
  IF DOMAIN Keyring = {} THEN [version |-> signing.active, secret |-> ""]
  ELSE [version |-> VersionUsed, secret |-> Keyring[VersionUsed]]

Sign(payload, secret) == [secret |-> secret, payload |-> payload]

\* Mutation: a declared version that is not in the keyring is taken as valid.
SignatureValidIfUnknown(bundle) ==
  LET declared == bundle.payload.version IN
  declared \notin DOMAIN Keyring \/ bundle.signature = Sign(bundle.payload, Keyring[declared])

\* verify_signed_bundle_with_keyring: the declared version if it is known, else any of them.
SignatureValid(bundle) ==
  LET declared == bundle.payload.version
      tried == IF declared \in DOMAIN Keyring THEN {declared} ELSE DOMAIN Keyring IN
  \E v \in tried : bundle.signature = Sign(bundle.payload, Keyring[v])

\* compute_audit_chain_fingerprint over the records of the payload, and what was declared.
ChainValid(bundle) == bundle.payload.valid /\ bundle.payload.last = bundle.payload.records

-----------------------------------------------------------------------------
(* Export and verification *)

BuildBundle(t, limit) ==
  LET records == ListEvents(t, AtMost(AtLeast(limit, 1), AtLeast(MaxExport, 1)))
      payload == [tenant |-> t, records |-> records, valid |-> TRUE, last |-> records,
                  version |-> SigningSecret.version, at |-> second] IN
  [payload |-> payload, signature |-> Sign(payload, SigningSecret.secret)]

\* GET audit/export: one SELECT, and the bundle goes to the client.
Export(t, limit) ==
  /\ Cardinality(exported) < MaxBundles
  /\ exported' = exported \cup {[bundle |-> BuildBundle(t, limit), ring |-> Keyring]}
  /\ UNCHANGED <<events, appended, cleaning, handler, signing, files, second, verdict>>

\* The entitlement gate of export-file and verify records its decision, whichever it is, and
\* the request goes on only when it is entitled.
Gate(h, t, kind, entitled) ==
  /\ handler[h] = NoCall
  /\ AppendEvent(t)
  /\ handler' = IF entitled THEN [handler EXCEPT ![h] = [kind |-> kind, tenant |-> t]] ELSE handler
  /\ UNCHANGED <<cleaning, signing, exported, files, second, verdict>>

\* The file's name holds the tenant and the second, so a later export may replace it.
ExportFile(h, limit) ==
  /\ handler[h].kind = "export"
  /\ Cardinality(exported) < MaxBundles
  /\ LET t == handler[h].tenant
         bundle == BuildBundle(t, limit)
         name == <<t, second>> IN
     /\ exported' = exported \cup {[bundle |-> bundle, ring |-> Keyring]}
     /\ files' = [f \in DOMAIN files \cup {name} |-> IF f = name THEN bundle ELSE files[f]]
  /\ handler' = [handler EXCEPT ![h] = NoCall]
  /\ UNCHANGED <<events, appended, cleaning, signing, second, verdict>>

\* Bundles a caller may hand in: an exported one, one with its newest record removed and its
\* fingerprint computed again, or one that declares another version.
Shortened(b) == [b EXCEPT !.payload.records = Front(@), !.payload.last = Front(@)]
Bundles == {x.bundle : x \in exported}
Presentable ==
  Bundles \cup {Shortened(b) : b \in {x \in Bundles : Len(x.payload.records) > 0}}
          \cup {[b EXCEPT !.payload.version = v] : b \in Bundles, v \in ToSet(VersionOrder)}

Answer(t, bundle) ==
  [tenant |-> t, bundle |-> bundle, ring |-> Keyring,
   verified |-> /\ bundle.payload.tenant = t
                /\ SignatureValid(bundle)
                /\ ChainValid(bundle)]

Verify(h, bundle) ==
  /\ handler[h].kind = "verify"
  /\ verdict' = Answer(handler[h].tenant, bundle)
  /\ handler' = [handler EXCEPT ![h] = NoCall]
  /\ UNCHANGED <<events, appended, cleaning, signing, exported, files, second>>

\* A file that is not there is answered with 404.
VerifyFile(h, name) ==
  IF name \in DOMAIN files THEN Verify(h, files[name])
  ELSE /\ handler[h].kind = "verify"
       /\ handler' = [handler EXCEPT ![h] = NoCall]
       /\ UNCHANGED <<events, appended, cleaning, signing, exported, files, second, verdict>>

\* The service restarts under other settings: its requests are gone, the database and the
\* export directory are not.
Restart(settings) ==
  /\ settings # signing
  /\ signing' = settings
  /\ cleaning' = [c \in Cleaners |-> NotCleaning]
  /\ handler' = [h \in Handlers |-> NoCall]
  /\ UNCHANGED <<events, appended, exported, files, second, verdict>>

Tick ==
  /\ second < MaxSeconds
  /\ second' = second + 1
  /\ UNCHANGED <<events, appended, cleaning, handler, signing, exported, files, verdict>>

AuditNext ==
  \/ \E t \in AuditTenants : Emit(t)
  \/ \E c \in Cleaners, t \in AuditTenants, n \in CapRequests : CountEvents(c, t, n)
  \/ \E c \in Cleaners : PruneEvents(c)
  \/ \E t \in AuditTenants, n \in Limits : Export(t, n)
  \/ \E h \in Handlers, t \in AuditTenants, k \in {"export", "verify"}, e \in BOOLEAN :
       Gate(h, t, k, e)
  \/ \E h \in Handlers, n \in Limits : ExportFile(h, n)
  \/ \E h \in Handlers, b \in Presentable : Verify(h, b)
  \/ \E h \in Handlers, t \in AuditTenants, s \in 0..MaxSeconds : VerifyFile(h, <<t, s>>)
  \/ \E s \in SigningSettings : Restart(s)
  \/ Tick

AuditSpec == AuditInit /\ [][AuditNext]_auditVars

-----------------------------------------------------------------------------
(* verify_audit_bundle accepts only what the service exported, for the tenant asked for: a    *)
(* bundle with a record taken out or another version declared is never verified, whatever the *)
(* keyring has become since the export.                                                       *)
VerifiedIsExported ==
  verdict.verified => verdict.bundle \in Bundles /\ verdict.bundle.payload.tenant = verdict.tenant

(* Rotation keeps old evidence valid: a signed bundle, as it was exported, is verified by every *)
(* deployment that still holds the secret it was signed with, if no version the two keyrings   *)
(* share was given another secret since.                                                       *)
RotationKeepsEvidence ==
  verdict # NoVerdict => \A x \in exported :
    LET shared == DOMAIN x.ring \cap DOMAIN verdict.ring
        secret == x.bundle.signature.secret IN
    (/\ verdict.bundle = x.bundle
     /\ verdict.tenant = x.bundle.payload.tenant
     /\ \A v \in shared : x.ring[v] = verdict.ring[v]
     /\ \E v \in shared : x.ring[v] = secret)
    => verdict.verified

(* Retention: a cleanup of _cleanup_sync that removes records of a tenant leaves at least the   *)
(* cap it was asked for; other tenants lose nothing.                                            *)
CleanupKeepsCap ==
  [][\A c \in Cleaners : PruneEvents(c) =>
       /\ Len(SelectSeq(events', LAMBDA e : e.tenant = cleaning[c].tenant)) >= cleaning[c].cap
       /\ \A t \in AuditTenants \ {cleaning[c].tenant} :
            SelectSeq(events', LAMBDA e : e.tenant = t) = OfTenant(t)]_auditVars

\* Together: of the bundles whose secret is still there, exactly those exported are verified.
EvidenceVerifies == VerifiedIsExported /\ RotationKeepsEvidence
=============================================================================
