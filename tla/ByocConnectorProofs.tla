------------------------- MODULE ByocConnectorProofs -------------------------
(***************************************************************************)
(* Proofs about the connector for any number of jobs, request slots,       *)
(* tenants, keys and ticks: a job's result is ingested at most once, a     *)
(* completed job is answered, and execute keeps the safety half of the     *)
(* promise of ByocCall.                                                    *)
(***************************************************************************)
EXTENDS ByocConnector, ByocJobStoreProofs

(***************************************************************************)
(* The inductive invariant.  OneIngestPerJob alone is not inductive: that  *)
(* a spent job stays spent needs the life cycle of the job store, and that *)
(* a stored key is unique needs to know which keys the store has seen.     *)
(***************************************************************************)

SubmitStates == {"submit_prune", "submit_auth", "submit_lookup", "submit_complete",
                 "submit_ingest"}

\* A request that is being served names a tenant, from its claim on a job, and a
\* submission has the key of its job or none.
RequestsKnown ==
  \A r \in Requests :
    /\ req[r].pc # "idle" => req[r].tenant \in Tenants
    /\ req[r].pc \in SubmitStates \cup {"claim_reply"} => req[r].job \in JobIds
    /\ req[r].pc \in SubmitStates => req[r].key \in {KeyOf[req[r].job], NoKey}

\* Type invariant of the result store.
ResultTypeOK ==
  /\ seen_keys \in SUBSET Keys
  /\ results \in [JobIds -> Results \cup {NoResult}]
  /\ consumed \in [JobIds -> SUBSET Results]

\* A result of job j is stored or was handed out.
Holds(j) == results[j] # NoResult \/ consumed[j] # {}

\* Results are kept under the key of their job, which the store then knows; the jobs of
\* one key do not both hold one, and a job that holds one was consumed at most once.
HeldOnce ==
  \A j \in JobIds :
    /\ results[j] # NoResult => results[j].key = KeyOf[j] /\ consumed[j] = {}
    /\ \A r \in consumed[j] : r.key = KeyOf[j]
    /\ \A r, s \in consumed[j] : r = s
    /\ Holds(j) => KeyOf[j] \in seen_keys
    /\ \A l \in JobIds : Holds(j) /\ Holds(l) /\ KeyOf[j] = KeyOf[l] => j = l

\* Some request got past complete_claim for job j.
Spent(j) == Ingesting(j) # {} \/ Holds(j) \/ j \in unkeyed

\* A job whose claim was completed is completed, or was and has been pruned since.
SpentIsOver ==
  \A j \in JobIds : Spent(j) => j <= enqueued /\ states[j].status \in {"completed", "absent"}

\* The request that completed a job is the only one, and ingests first.
IngestsFirst ==
  \A j \in JobIds :
    /\ \A r, s \in Ingesting(j) : r = s
    /\ Ingesting(j) # {} => ~Holds(j) /\ j \notin unkeyed

DeliveredWasConsumed == \A j \in JobIds : caller[j] = "delivered" => consumed[j] # {}

ConnectorIInv ==
  /\ StoreIInv /\ ConnectorTypeOK /\ ResultTypeOK /\ RequestsKnown
  /\ HeldOnce /\ SpentIsOver /\ IngestsFirst /\ CompletedIsAnswered /\ DeliveredWasConsumed

-----------------------------------------------------------------------------
(* What a step does to the request slots.                                  *)

RequestRecord == [pc : RequestStates, tenant : Tenants \cup {""}, job : JobIds \cup {0},
                  token : Tokens, key : Keys \cup {NoKey}, success : BOOLEAN, sound : BOOLEAN]

\* The empty slot is a request record, and the empty token a token.
LEMMA NoRequestTyped == NoRequest \in RequestRecord /\ NoRequest.pc = "idle" /\ 0 \in Tokens
BY StoreAssumption DEF NoRequest, RequestRecord, RequestStates, Tokens

\* A handler that replaces the record of its slot leaves the other slots alone.
LEMMA SlotReplaced ==
  ASSUME ConnectorTypeOK, NEW r \in Requests, NEW w \in RequestRecord,
         req' = [req EXCEPT ![r] = w]
  PROVE  /\ req' \in [Requests -> RequestRecord]
         /\ req'[r] = w
         /\ \A q \in Requests : q # r => req'[q] = req[q]
<1>1. req \in [Requests -> RequestRecord]
  BY DEF ConnectorTypeOK, RequestRecord
<1> HIDE DEF RequestRecord
<1> QED BY <1>1

\* Goto moves the slot's program counter and keeps the request's fields.
LEMMA SlotMoved ==
  ASSUME ConnectorTypeOK, NEW r \in Requests, NEW s \in RequestStates, Goto(r, s)
  PROVE  /\ req' \in [Requests -> RequestRecord]
         /\ req'[r].pc = s /\ req'[r].tenant = req[r].tenant /\ req'[r].job = req[r].job
         /\ req'[r].token = req[r].token /\ req'[r].key = req[r].key
         /\ req'[r].success = req[r].success /\ req'[r].sound = req[r].sound
         /\ \A q \in Requests : q # r => req'[q] = req[q]
<1> DEFINE w == [req[r] EXCEPT !.pc = s]
<1>1. req[r] \in RequestRecord
  BY DEF ConnectorTypeOK, RequestRecord
<1>2. /\ w \in RequestRecord
      /\ w.pc = s /\ w.tenant = req[r].tenant /\ w.job = req[r].job
      /\ w.token = req[r].token /\ w.key = req[r].key
      /\ w.success = req[r].success /\ w.sound = req[r].sound
  BY <1>1 DEF RequestRecord
<1>3. req' = [req EXCEPT ![r] = w]
  BY DEF Goto
<1> HIDE DEF w
<1> QED BY <1>2, <1>3, SlotReplaced

\* Finish empties the slot.
LEMMA SlotFreed ==
  ASSUME ConnectorTypeOK, NEW r \in Requests, Finish(r)
  PROVE  /\ req' \in [Requests -> RequestRecord]
         /\ req'[r].pc = "idle"
         /\ \A q \in Requests : q # r => req'[q] = req[q]
BY NoRequestTyped, SlotReplaced DEF Finish

-----------------------------------------------------------------------------
(* The steps that neither complete a claim nor touch the result store.     *)

\* Slots at submit_ingest stay where they are, and no slot gets there.
IngestersKept ==
  \A r \in Requests :
    /\ req'[r].pc = "submit_ingest" <=> req[r].pc = "submit_ingest"
    /\ req[r].pc = "submit_ingest" => req'[r].job = req[r].job

DeliveredKept ==
  \A j \in JobIds : caller'[j] = "delivered" <=> caller[j] = "delivered"

PlainStep ==
  /\ [QuietNext]_storeVars
  /\ UNCHANGED <<seen_keys, results, consumed, unkeyed>>
  /\ ConnectorTypeOK' /\ RequestsKnown'
  /\ IngestersKept /\ DeliveredKept

\* A slot that is not at submit_ingest may be emptied or moved anywhere else.
LEMMA SlotStep ==
  ASSUME ConnectorIInv, NEW r \in Requests, req[r].pc # "submit_ingest",
         req' \in [Requests -> RequestRecord], req'[r].pc # "submit_ingest",
         \A q \in Requests : q # r => req'[q] = req[q],
         /\ req'[r].pc # "idle" => req'[r].tenant \in Tenants
         /\ req'[r].pc \in SubmitStates \cup {"claim_reply"} => req'[r].job \in JobIds
         /\ req'[r].pc \in SubmitStates => req'[r].key \in {KeyOf[req'[r].job], NoKey}
  PROVE  RequestsKnown' /\ IngestersKept
<1>1. RequestsKnown
  BY DEF ConnectorIInv
<1>2. ASSUME NEW q \in Requests
      PROVE  /\ req'[q].pc # "idle" => req'[q].tenant \in Tenants
             /\ req'[q].pc \in SubmitStates \cup {"claim_reply"} => req'[q].job \in JobIds
             /\ req'[q].pc \in SubmitStates => req'[q].key \in {KeyOf[req'[q].job], NoKey}
  <2>1. CASE q = r
    BY <2>1
  <2>2. CASE q # r
    BY <2>2, <1>1 DEF RequestsKnown
  <2> QED BY <2>1, <2>2
<1>3. RequestsKnown'
  BY <1>2 DEF RequestsKnown
<1>4. IngestersKept
  BY DEF IngestersKept
<1> QED BY <1>3, <1>4

\* Clock readings are positive naturals.
LEMMA ReadingsNat == ASSUME StoreIInv PROVE Readings \subseteq Nat \ {0}
BY DEF StoreIInv, StoreTypeOK, Readings

\* Pruning is an operation of the store that completes nothing.
LEMMA PruneQuiet == ASSUME NEW t \in Tenants, Prune(t) PROVE QuietNext
BY DEF Prune, QuietNext

\* execute up to its polling step, but for consume, is plain.
LEMMA CallerPlain ==
  ASSUME ConnectorIInv, NEW j \in JobIds,
         \/ \E at \in Readings : ExecuteStart(j, at)
         \/ ExecutePrune(j) \/ ExecuteEnqueue(j) \/ ExecuteRequeue(j)
  PROVE  PlainStep
<1>1. /\ StoreIInv /\ ConnectorTypeOK /\ RequestsKnown
      /\ caller \in [JobIds -> CallerStates] /\ deadline \in [JobIds -> Nat]
      /\ last_cleanup \in Nat /\ now \in Nat /\ Timeout \in Nat /\ MaxTime \in Nat
  BY StoreAssumption, ConnectorAssumption DEF ConnectorIInv, ConnectorTypeOK, StoreIInv, StoreTypeOK
<1>2. /\ UNCHANGED <<non_blocking, reqVars, resultVars, unkeyed>>
      /\ caller[j] # "delivered"
      /\ \E s \in CallerStates \ {"delivered"} : caller' = [caller EXCEPT ![j] = s]
      /\ deadline' \in [JobIds -> Nat]
      /\ last_cleanup' \in Nat
  <2>1. CASE \E at \in Readings : ExecuteStart(j, at)
    <3>1. PICK at \in Readings : ExecuteStart(j, at)
      BY <2>1
    <3>2. last_cleanup' \in Nat
      BY <1>1, <3>1, ReadingsNat DEF ExecuteStart, Gate
    <3>3. AfterGate(at, "prune", "enqueue") \in CallerStates \ {"delivered"}
      BY DEF AfterGate, CallerStates
    <3> QED BY <1>1, <3>1, <3>2, <3>3 DEF ExecuteStart
  <2>2. CASE ExecutePrune(j)
    BY <2>2, <1>1 DEF ExecutePrune, CallerStates
  <2>3. CASE ExecuteEnqueue(j)
    <3>1. Deadline \in Nat
      BY <1>1 DEF Deadline
    <3> QED BY <2>3, <1>1, <3>1 DEF ExecuteEnqueue, CallerStates
  <2>4. CASE ExecuteRequeue(j)
    BY <2>4, <1>1 DEF ExecuteRequeue, CallerStates
  <2> QED BY <2>1, <2>2, <2>3, <2>4
<1>3. [QuietNext]_storeVars
  <2>1. TenantOf[j] \in Tenants
    BY StoreAssumption
  <2> QED BY <2>1, PruneQuiet DEF ExecuteStart, ExecutePrune, ExecuteEnqueue, ExecuteRequeue,
                                  QuietNext
<1>4. caller' \in [JobIds -> CallerStates] /\ DeliveredKept
  BY <1>1, <1>2 DEF DeliveredKept
<1>5. ConnectorTypeOK'
  BY <1>1, <1>2, <1>4 DEF ConnectorTypeOK, reqVars
<1>6. RequestsKnown' /\ IngestersKept
  BY <1>1, <1>2 DEF RequestsKnown, IngestersKept, reqVars
<1> QED BY <1>2, <1>3, <1>4, <1>5, <1>6 DEF PlainStep, resultVars

\* A step of a request that leaves the callers, the result store and the history alone
\* keeps the types when it keeps those of its own variables.
LEMMA RequestTypes ==
  ASSUME ConnectorIInv, req' \in [Requests -> RequestRecord], UNCHANGED <<callVars, unkeyed>>,
         envelope' \in [JobIds -> Tokens], received' \in SUBSET [job : JobIds, token : Tokens],
         last_cleanup' \in Nat
  PROVE  ConnectorTypeOK' /\ DeliveredKept
BY DEF ConnectorIInv, ConnectorTypeOK, RequestRecord, callVars, DeliveredKept

\* claim_next_job is plain.
LEMMA ClaimPlain ==
  ASSUME ConnectorIInv, NEW r \in Requests,
         \/ \E t \in Tenants, at \in Readings : ClaimStart(r, t, at)
         \/ ClaimPrune(r) \/ ClaimRequeue(r) \/ ClaimTake(r) \/ ClaimReply(r)
  PROVE  PlainStep
<1>1. /\ StoreIInv /\ ConnectorTypeOK /\ RequestsKnown
      /\ envelope \in [JobIds -> Tokens] /\ received \in SUBSET [job : JobIds, token : Tokens]
      /\ last_cleanup \in Nat
  BY DEF ConnectorIInv, ConnectorTypeOK
<1>2. req[r].pc # "idle" => req[r].tenant \in Tenants
  BY <1>1 DEF RequestsKnown
<1>3. CASE \E t \in Tenants, at \in Readings : ClaimStart(r, t, at)
  <2>1. PICK t \in Tenants, at \in Readings : ClaimStart(r, t, at)
    BY <1>3
  <2> DEFINE s == AfterGate(at, "claim_prune", "claim_requeue")
             w == [NoRequest EXCEPT !.pc = s, !.tenant = t]
  <2>2. s \in {"claim_prune", "claim_requeue"}
    BY DEF AfterGate
  <2>3. w \in RequestRecord /\ w.pc = s /\ w.tenant = t
    BY <2>2, NoRequestTyped DEF RequestRecord, RequestStates
  <2>4. req' = [req EXCEPT ![r] = w] /\ req[r].pc = "idle"
    BY <2>1 DEF ClaimStart
  <2> HIDE DEF w, s
  <2>5. /\ req' \in [Requests -> RequestRecord] /\ req'[r] = w
        /\ \A q \in Requests : q # r => req'[q] = req[q]
    BY <1>1, <2>3, <2>4, SlotReplaced
  <2>6. RequestsKnown' /\ IngestersKept
    BY <2>2, <2>3, <2>4, <2>5, SlotStep DEF SubmitStates
  <2>7. last_cleanup' \in Nat
    BY <1>1, <2>1, ReadingsNat DEF ClaimStart, Gate
  <2>8. ConnectorTypeOK' /\ DeliveredKept
    BY <1>1, <2>1, <2>5, <2>7, RequestTypes DEF ClaimStart
  <2> QED BY <2>1, <2>6, <2>8 DEF PlainStep, ClaimStart, resultVars
<1>4. CASE ClaimPrune(r) \/ ClaimRequeue(r)
  <2>1. PICK s \in {"claim_requeue", "claim_take"} : Goto(r, s)
    BY <1>4 DEF ClaimPrune, ClaimRequeue
  <2>2. req[r].pc \in {"claim_prune", "claim_requeue"}
    BY <1>4 DEF ClaimPrune, ClaimRequeue
  <2>3. s \in RequestStates
    BY DEF RequestStates
  <2>4. /\ req' \in [Requests -> RequestRecord] /\ req'[r].pc = s
        /\ req'[r].tenant = req[r].tenant
        /\ \A q \in Requests : q # r => req'[q] = req[q]
    BY <1>1, <2>1, <2>3, SlotMoved
  <2>5. RequestsKnown' /\ IngestersKept
    BY <1>2, <2>2, <2>4, SlotStep DEF SubmitStates
  <2>6. QuietNext /\ UNCHANGED <<resultVars, callVars, envelope, received, last_cleanup, unkeyed>>
    BY <1>4, <1>2, PruneQuiet DEF ClaimPrune, ClaimRequeue, QuietNext
  <2>7. ConnectorTypeOK' /\ DeliveredKept
    BY <1>1, <2>4, <2>6, RequestTypes
  <2> QED BY <2>5, <2>6, <2>7 DEF PlainStep, resultVars
<1>5. CASE ClaimTake(r)
  <2>1. /\ req[r].pc = "claim_take" /\ req[r].tenant \in Tenants
        /\ UNCHANGED <<resultVars, callVars, received, last_cleanup, unkeyed>>
    BY <1>5, <1>2 DEF ClaimTake
  <2>2. CASE Finish(r) /\ UNCHANGED envelope /\ [QuietNext]_storeVars
    <3>1. /\ req' \in [Requests -> RequestRecord] /\ req'[r].pc = "idle"
          /\ \A q \in Requests : q # r => req'[q] = req[q]
      BY <1>1, <2>2, SlotFreed
    <3>2. RequestsKnown' /\ IngestersKept
      BY <2>1, <3>1, SlotStep DEF SubmitStates
    <3>3. ConnectorTypeOK' /\ DeliveredKept
      BY <1>1, <2>1, <2>2, <3>1, RequestTypes
    <3> QED BY <2>1, <2>2, <3>2, <3>3 DEF PlainStep, resultVars
  <2>3. CASE \E at \in Readings :
               /\ ClaimNext(req[r].tenant, at)
               /\ \E c \in claims' \ claims :
                    /\ envelope' = [envelope EXCEPT ![c.job] = c.token]
                    /\ req' = [req EXCEPT ![r].pc = "claim_reply", ![r].job = c.job,
                                          ![r].token = c.token]
    <3>1. PICK at \in Readings : ClaimNext(req[r].tenant, at)
      BY <2>3
    <3>2. PICK c \in claims' :
            /\ envelope' = [envelope EXCEPT ![c.job] = c.token]
            /\ req' = [req EXCEPT ![r].pc = "claim_reply", ![r].job = c.job,
                                  ![r].token = c.token]
      BY <2>3
    <3>3. QuietNext
      BY <2>1, <3>1 DEF QuietNext
    <3>4. c.job \in JobIds /\ c.token \in Tokens
      <4>1. StoreIInv'
        BY <1>1, <2>1, <3>1, ClaimNextKeeps
      <4> QED BY <4>1, <3>2 DEF StoreIInv, StoreTypeOK, Claims
    <3> DEFINE w == [req[r] EXCEPT !.pc = "claim_reply", !.job = c.job, !.token = c.token]
    <3>5. req \in [Requests -> RequestRecord]
      BY <1>1 DEF ConnectorTypeOK, RequestRecord
    <3>6. req' = [req EXCEPT ![r] = w]
      <4> HIDE DEF RequestRecord
      <4> QED BY <3>2, <3>5
    <3>7. /\ w \in RequestRecord /\ w.pc = "claim_reply" /\ w.tenant = req[r].tenant
          /\ w.job = c.job
      BY <3>4, <3>5 DEF RequestRecord, RequestStates
    <3> HIDE DEF w
    <3>8. /\ req' \in [Requests -> RequestRecord] /\ req'[r] = w
          /\ \A q \in Requests : q # r => req'[q] = req[q]
      BY <1>1, <3>6, <3>7, SlotReplaced
    <3>9. RequestsKnown' /\ IngestersKept
      BY <2>1, <3>4, <3>7, <3>8, SlotStep DEF SubmitStates
    <3>10. envelope' \in [JobIds -> Tokens]
      BY <1>1, <3>2, <3>4
    <3>11. ConnectorTypeOK' /\ DeliveredKept
      BY <1>1, <2>1, <3>8, <3>10, RequestTypes
    <3> QED BY <2>1, <3>3, <3>9, <3>11 DEF PlainStep, resultVars
  <2>4. \/ Finish(r) /\ UNCHANGED envelope /\ UNCHANGED storeVars
        \/ \E at \in Readings : ClaimNext(req[r].tenant, at) /\ Finish(r) /\ UNCHANGED envelope
        \/ \E at \in Readings :
               /\ ClaimNext(req[r].tenant, at)
               /\ \E c \in claims' \ claims :
                    /\ envelope' = [envelope EXCEPT ![c.job] = c.token]
                    /\ req' = [req EXCEPT ![r].pc = "claim_reply", ![r].job = c.job,
                                          ![r].token = c.token]
    BY <1>5 DEF ClaimTake
  <2>5. ASSUME NEW at \in Readings, ClaimNext(req[r].tenant, at) PROVE QuietNext
    BY <2>1, <2>5 DEF QuietNext
  <2> QED BY <2>2, <2>3, <2>4, <2>5
<1>6. CASE ClaimReply(r)
  <2>1. /\ req' \in [Requests -> RequestRecord] /\ req'[r].pc = "idle"
        /\ \A q \in Requests : q # r => req'[q] = req[q]
    BY <1>1, <1>6, SlotFreed DEF ClaimReply
  <2>2. RequestsKnown' /\ IngestersKept
    BY <1>6, <2>1, SlotStep DEF SubmitStates, ClaimReply
  <2>3. received' \in SUBSET [job : JobIds, token : Tokens]
    <3>1. req[r].job \in JobIds
      BY <1>1, <1>6 DEF ClaimReply, RequestsKnown
    <3>2. [job |-> req[r].job, token |-> envelope[req[r].job]] \in [job : JobIds, token : Tokens]
      BY <1>1, <3>1
    <3> QED BY <1>1, <1>6, <3>2 DEF ClaimReply
  <2>4. ConnectorTypeOK' /\ DeliveredKept
    BY <1>1, <1>6, <2>1, <2>3, RequestTypes DEF ClaimReply
  <2> QED BY <1>6, <2>2, <2>4 DEF PlainStep, resultVars, ClaimReply
<1> QED BY <1>3, <1>4, <1>5, <1>6

\* A submission is plain up to complete_claim.
LEMMA SubmitPlain ==
  ASSUME ConnectorIInv, NEW r \in Requests,
         \/ \E sound \in SoundValues, keyed \in BOOLEAN : WorkerSubmits(r, sound, keyed)
         \/ SubmitPrune(r) \/ SubmitAuth(r) \/ SubmitLookup(r)
  PROVE  PlainStep
<1>1. /\ StoreIInv /\ ConnectorTypeOK /\ RequestsKnown
      /\ envelope \in [JobIds -> Tokens] /\ received \in SUBSET [job : JobIds, token : Tokens]
      /\ last_cleanup \in Nat /\ req \in [Requests -> RequestRecord]
  BY DEF ConnectorIInv, ConnectorTypeOK, RequestRecord
<1>2. /\ req[r].pc # "idle" => req[r].tenant \in Tenants
      /\ req[r].pc \in SubmitStates =>
           req[r].job \in JobIds /\ req[r].key \in {KeyOf[req[r].job], NoKey}
  BY <1>1 DEF RequestsKnown
<1>3. CASE \E sound \in SoundValues, keyed \in BOOLEAN : WorkerSubmits(r, sound, keyed)
  <2>1. PICK sound \in SoundValues, keyed \in BOOLEAN, lease \in received,
             success \in SuccessValues, at \in Readings :
          SubmitStart(r, lease, IF keyed THEN KeyOf[lease.job] ELSE NoKey, success, sound, at)
    BY <1>3 DEF WorkerSubmits
  <2> DEFINE key == IF keyed THEN KeyOf[lease.job] ELSE NoKey
             s == AfterGate(at, "submit_prune", "submit_auth")
             w == [pc |-> s, tenant |-> TenantOf[lease.job], job |-> lease.job,
                   token |-> lease.token, key |-> key, success |-> success, sound |-> sound]
  <2>2. s \in {"submit_prune", "submit_auth"}
    BY DEF AfterGate
  <2>3. /\ lease.job \in JobIds /\ lease.token \in Tokens /\ TenantOf[lease.job] \in Tenants
        /\ key \in {KeyOf[lease.job], NoKey} /\ key \in Keys \cup {NoKey}
        /\ sound \in BOOLEAN /\ success \in BOOLEAN
    BY <1>1, StoreAssumption, ConnectorAssumption
  <2> HIDE DEF key, s
  <2>4. /\ w \in RequestRecord /\ w.pc = s /\ w.tenant \in Tenants
        /\ w.job \in JobIds /\ w.key \in {KeyOf[w.job], NoKey}
    BY <2>2, <2>3 DEF RequestRecord, RequestStates
  <2>5. req' = [req EXCEPT ![r] = w] /\ req[r].pc = "idle"
    BY <2>1 DEF SubmitStart, key, s
  <2> HIDE DEF w
  <2>6. /\ req' \in [Requests -> RequestRecord] /\ req'[r] = w
        /\ \A q \in Requests : q # r => req'[q] = req[q]
    BY <1>1, <2>4, <2>5, SlotReplaced
  <2>7. RequestsKnown' /\ IngestersKept
    BY <2>2, <2>4, <2>5, <2>6, SlotStep DEF SubmitStates
  <2>8. last_cleanup' \in Nat
    BY <1>1, <2>1, ReadingsNat DEF SubmitStart, Gate
  <2>9. ConnectorTypeOK' /\ DeliveredKept
    BY <1>1, <2>1, <2>6, <2>8, RequestTypes DEF SubmitStart
  <2> QED BY <2>1, <2>7, <2>9 DEF PlainStep, SubmitStart, resultVars
<1>4. CASE SubmitPrune(r) \/ SubmitAuth(r) \/ SubmitLookup(r)
  <2>1. /\ req[r].pc \in SubmitStates \ {"submit_ingest"} /\ req[r].pc # "idle"
        /\ UNCHANGED <<resultVars, callVars, envelope, received, last_cleanup, unkeyed>>
    BY <1>4 DEF SubmitPrune, SubmitAuth, SubmitLookup, SubmitStates
  <2>2. [QuietNext]_storeVars
    <3>1. req[r].job \in JobIds /\ req[r].token \in Tokens /\ req[r].tenant \in Tenants
      BY <1>1, <1>2, <2>1 DEF RequestRecord
    <3> QED BY <1>4, <3>1, PruneQuiet DEF SubmitPrune, SubmitAuth, SubmitLookup, QuietNext
  <2>3. \/ Finish(r)
        \/ \E s \in {"submit_auth", "submit_lookup", "submit_complete"} : Goto(r, s)
    BY <1>4 DEF SubmitPrune, SubmitAuth, SubmitLookup
  <2>4. req' \in [Requests -> RequestRecord] /\ RequestsKnown' /\ IngestersKept
    <3>1. CASE Finish(r)
      <4>1. /\ req' \in [Requests -> RequestRecord] /\ req'[r].pc = "idle"
            /\ \A q \in Requests : q # r => req'[q] = req[q]
        BY <1>1, <3>1, SlotFreed
      <4> QED BY <2>1, <4>1, SlotStep DEF SubmitStates
    <3>2. CASE \E s \in {"submit_auth", "submit_lookup", "submit_complete"} : Goto(r, s)
      <4>1. PICK s \in {"submit_auth", "submit_lookup", "submit_complete"} : Goto(r, s)
        BY <3>2
      <4>2. s \in RequestStates
        BY DEF RequestStates
      <4>3. /\ req' \in [Requests -> RequestRecord] /\ req'[r].pc = s
            /\ req'[r].tenant = req[r].tenant /\ req'[r].job = req[r].job
            /\ req'[r].key = req[r].key
            /\ \A q \in Requests : q # r => req'[q] = req[q]
        BY <1>1, <4>1, <4>2, SlotMoved
      <4> QED BY <1>2, <2>1, <4>3, SlotStep
    <3> QED BY <2>3, <3>1, <3>2
  <2>5. ConnectorTypeOK' /\ DeliveredKept
    BY <1>1, <2>1, <2>4, RequestTypes
  <2> QED BY <2>1, <2>2, <2>4, <2>5 DEF PlainStep, resultVars
<1> QED BY <1>3, <1>4

\* Cancellation, dead-letter replay, a forced cleanup and the clock are plain.
LEMMA OperatorPlain == ASSUME ConnectorIInv, OperatorCall \/ ConnectorTick PROVE PlainStep
<1>1. /\ StoreIInv /\ ConnectorTypeOK /\ RequestsKnown /\ last_cleanup \in Nat
      /\ envelope \in [JobIds -> Tokens] /\ received \in SUBSET [job : JobIds, token : Tokens]
      /\ req \in [Requests -> RequestRecord]
  BY DEF ConnectorIInv, ConnectorTypeOK, RequestRecord
<1>2. QuietNext /\ UNCHANGED <<resultVars, callVars, reqVars, unkeyed>> /\ last_cleanup' \in Nat
  <2>1. CASE \E j \in JobIds : Replay(j)
    BY <2>1, <1>1 DEF Replay, QuietNext
  <2>2. CASE \E c \in Cancelled : RequestCancellation(c)
    BY <2>2, <1>1, ConnectorAssumption DEF RequestCancellation, QuietNext
  <2>3. CASE \E t \in Admins : ForcedCleanup(t)
    BY <2>3, <1>1, ConnectorAssumption, PruneQuiet, ReadingsNat DEF ForcedCleanup
  <2>4. CASE ConnectorTick
    BY <2>4, <1>1 DEF ConnectorTick, QuietNext
  <2> QED BY <2>1, <2>2, <2>3, <2>4 DEF OperatorCall
<1>3. ConnectorTypeOK' /\ DeliveredKept
  BY <1>1, <1>2, RequestTypes DEF reqVars
<1>4. RequestsKnown' /\ IngestersKept
  BY <1>1, <1>2 DEF RequestsKnown, IngestersKept, reqVars
<1> QED BY <1>2, <1>3, <1>4 DEF PlainStep, resultVars

-----------------------------------------------------------------------------
(* Every step keeps the inductive invariant.                               *)

\* No operation of the store takes back the count of jobs enqueued.
LEMMA EnqueuedGrows == ASSUME StoreIInv, [StoreNext]_storeVars PROVE enqueued' >= enqueued
<1>1. enqueued \in Nat
  BY DEF StoreIInv, StoreTypeOK
<1>2. enqueued' = enqueued \/ enqueued' = enqueued + 1
  <2>1. CASE \E t \in Tenants, at \in Readings : ClaimNext(t, at)
    BY <2>1 DEF ClaimNext
  <2>2. CASE \E j \in JobIds, token \in Tokens : CompleteClaim(j, token) \/ GetLeasedJob(j, token)
    BY <2>2 DEF CompleteClaim, GetLeasedJob
  <2>3. CASE \E c \in Calls : CancelPendingCall(c)
    BY <2>3 DEF CancelPendingCall
  <2>4. CASE \E t \in Tenants, at \in Readings : CleanupRetention(t, at)
    BY <2>4 DEF CleanupRetention
  <2>5. CASE \/ Enqueue \/ Tick \/ UNCHANGED storeVars
             \/ \E limit \in {0, DlqLimit} : RequeueExpiredLeases(limit)
             \/ \E j \in JobIds : ReplayDeadLetterJob(j)
    BY <2>5 DEF Enqueue, Tick, storeVars, RequeueExpiredLeases, ReplayDeadLetterJob
  <2> QED BY <2>1, <2>2, <2>3, <2>4, <2>5 DEF StoreNext
<1> QED BY <1>1, <1>2

\* A job that is over (completed, or pruned after it was enqueued) stays so.
LEMMA OverStays ==
  ASSUME StoreIInv, [StoreNext]_storeVars, NEW j \in JobIds,
         j <= enqueued, states[j].status \in {"completed", "absent"}
  PROVE  j <= enqueued' /\ states'[j].status \in {"completed", "absent"}
<1>1. j \in Nat /\ enqueued \in Nat
  BY JobIdsFinite DEF StoreIInv, StoreTypeOK
<1>2. enqueued' \in Nat
  BY StoreStep DEF StoreIInv, StoreTypeOK
<1> QED BY <1>1, <1>2, EnqueuedGrows, StatusSteps

\* A plain step keeps the inductive invariant.
LEMMA PlainKeeps == ASSUME ConnectorIInv, PlainStep PROVE ConnectorIInv'
<1>1. /\ StoreIInv /\ [QuietNext]_storeVars /\ [StoreNext]_storeVars
      /\ UNCHANGED <<seen_keys, results, consumed, unkeyed>>
      /\ ConnectorTypeOK' /\ RequestsKnown'
  BY DEF ConnectorIInv, PlainStep, QuietNext, StoreNext
<1>2. StoreIInv'
  BY <1>1, StoreStep
<1>3. ASSUME NEW j \in JobIds PROVE Ingesting(j)' = Ingesting(j)
  BY DEF PlainStep, IngestersKept, Ingesting
<1>4. ASSUME NEW j \in JobIds PROVE Holds(j)' = Holds(j) /\ Spent(j)' = Spent(j)
  BY <1>1, <1>3 DEF Holds, Spent
<1>5. ResultTypeOK' /\ HeldOnce'
  BY <1>1, <1>4 DEF ConnectorIInv, ResultTypeOK, HeldOnce
<1>6. SpentIsOver'
  BY <1>1, <1>4, OverStays DEF ConnectorIInv, SpentIsOver
<1>7. IngestsFirst'
  BY <1>1, <1>3, <1>4 DEF ConnectorIInv, IngestsFirst
<1>8. CompletedIsAnswered'
  <2> SUFFICES ASSUME NEW j \in JobIds, states'[j].status = "completed"
               PROVE  KeyOf[j] \in seen_keys' \/ Ingesting(j)' # {} \/ j \in unkeyed'
    BY DEF CompletedIsAnswered
  <2>1. states[j].status = "completed"
    BY <1>1, QuietSteps
  <2> QED BY <1>1, <1>3, <2>1 DEF ConnectorIInv, CompletedIsAnswered
<1>9. DeliveredWasConsumed'
  BY <1>1 DEF ConnectorIInv, DeliveredWasConsumed, PlainStep, DeliveredKept
<1> QED BY <1>1, <1>2, <1>5, <1>6, <1>7, <1>8, <1>9 DEF ConnectorIInv

\* complete_claim is granted to one submission of a job at most: the job leaves the
\* leased state and never returns to it.
LEMMA SubmitCompleteKeeps ==
  ASSUME ConnectorIInv, NEW r \in Requests, SubmitComplete(r)
  PROVE  ConnectorIInv'
<1>0. PICK j, token : j = req[r].job /\ token = req[r].token
  OBVIOUS
<1>1. /\ StoreIInv /\ ConnectorTypeOK /\ RequestsKnown
      /\ envelope \in [JobIds -> Tokens] /\ received \in SUBSET [job : JobIds, token : Tokens]
      /\ last_cleanup \in Nat /\ req \in [Requests -> RequestRecord]
      /\ req[r].pc = "submit_complete"
      /\ UNCHANGED <<resultVars, callVars, envelope, received, last_cleanup, unkeyed>>
  BY DEF ConnectorIInv, ConnectorTypeOK, RequestRecord, SubmitComplete
<1>2. /\ j \in JobIds /\ token \in Tokens /\ req[r].tenant \in Tenants
      /\ req[r].key \in {KeyOf[j], NoKey}
  BY <1>0, <1>1 DEF RequestsKnown, SubmitStates, RequestRecord
<1>3. [StoreNext]_storeVars /\ CompleteClaim(j, token)
  BY <1>0, <1>2 DEF SubmitComplete, StoreNext
<1>4. CASE ~LeaseActive(j, token)
  <2>1. GetLeasedJob(j, token)
    BY <1>3, <1>4 DEF CompleteClaim, GetLeasedJob
  <2>2. /\ req' \in [Requests -> RequestRecord] /\ req'[r].pc = "idle"
        /\ \A q \in Requests : q # r => req'[q] = req[q]
    BY <1>0, <1>1, <1>4, SlotFreed DEF SubmitComplete
  <2>3. RequestsKnown' /\ IngestersKept
    BY <1>1, <2>2, SlotStep DEF SubmitStates
  <2>4. ConnectorTypeOK' /\ DeliveredKept
    BY <1>1, <2>2, RequestTypes
  <2>5. PlainStep
    BY <1>1, <1>2, <2>1, <2>3, <2>4 DEF PlainStep, QuietNext, resultVars
  <2> QED BY <2>5, PlainKeeps
<1>5. CASE LeaseActive(j, token)
  <2>1. /\ states' = [states EXCEPT ![j] = [@ EXCEPT !.status = "completed", !.at = now]]
        /\ states[j].status = "leased"
    <3>1. now \in Nat /\ states[j].lease_expires \in Nat
      BY <1>1, <1>2 DEF StoreIInv, StoreTypeOK, JobState
    <3> QED BY <1>3, <1>5, <3>1 DEF CompleteClaim, LeaseActive, LeaseLapsed
  <2>2. /\ states'[j].status = "completed"
        /\ \A l \in JobIds : l # j => states'[l] = states[l]
    <3>1. states \in [JobIds -> JobState] /\ states[j] \in JobState
      BY <1>1, <1>2 DEF StoreIInv, StoreTypeOK
    <3> DEFINE x == [states[j] EXCEPT !.status = "completed", !.at = now]
    <3>2. x.status = "completed"
      BY <3>1 DEF JobState
    <3>3. states' = [states EXCEPT ![j] = x]
      BY <2>1
    <3> HIDE DEF x
    <3> QED BY <1>2, <3>1, <3>2, <3>3
  <2>3. /\ req' \in [Requests -> RequestRecord] /\ req'[r].pc = "submit_ingest"
        /\ req'[r].tenant = req[r].tenant /\ req'[r].job = j /\ req'[r].key = req[r].key
        /\ \A q \in Requests : q # r => req'[q] = req[q]
    BY <1>0, <1>1, <1>5, SlotMoved DEF SubmitComplete, RequestStates
  <2>4. ~Spent(j)
    BY <1>2, <2>1 DEF ConnectorIInv, SpentIsOver
  <2>5. Ingesting(j)' = {r} /\ \A l \in JobIds : l # j => Ingesting(l)' = Ingesting(l)
    <3>1. r \in Ingesting(j)'
      BY <2>3 DEF Ingesting
    <3>2. ASSUME NEW q \in Requests, q # r PROVE \A l \in JobIds : q \in Ingesting(l)' <=> q \in Ingesting(l)
      BY <2>3, <3>2 DEF Ingesting
    <3>3. Ingesting(j) = {} /\ \A l \in JobIds : r \notin Ingesting(l)
      BY <1>1, <2>4 DEF Spent, Ingesting
    <3>4. \A l \in JobIds : l # j => r \notin Ingesting(l)'
      BY <2>3 DEF Ingesting
    <3>5. \A l \in JobIds : Ingesting(l) \subseteq Requests /\ Ingesting(l)' \subseteq Requests
      BY DEF Ingesting
    <3> QED BY <1>2, <3>1, <3>2, <3>3, <3>4, <3>5
  <2>6. \A l \in JobIds : Holds(l)' = Holds(l)
    BY <1>1 DEF Holds, resultVars
  <2>7. StoreIInv'
    BY <1>1, <1>3, StoreStep
  <2>8. ConnectorTypeOK' /\ DeliveredKept
    BY <1>1, <2>3, RequestTypes
  <2>9. RequestsKnown'
    <3>1. ASSUME NEW q \in Requests
          PROVE  /\ req'[q].pc # "idle" => req'[q].tenant \in Tenants
                 /\ req'[q].pc \in SubmitStates \cup {"claim_reply"} => req'[q].job \in JobIds
                 /\ req'[q].pc \in SubmitStates => req'[q].key \in {KeyOf[req'[q].job], NoKey}
      <4>1. CASE q = r
        BY <1>2, <2>3, <4>1
      <4>2. CASE q # r
        BY <1>1, <2>3, <4>2 DEF RequestsKnown
      <4> QED BY <4>1, <4>2
    <3> QED BY <3>1 DEF RequestsKnown
  <2>10. ResultTypeOK' /\ HeldOnce'
    BY <1>1, <2>6 DEF ConnectorIInv, ResultTypeOK, HeldOnce, resultVars
  <2>11. SpentIsOver'
    <3> SUFFICES ASSUME NEW l \in JobIds, Spent(l)'
                 PROVE  l <= enqueued' /\ states'[l].status \in {"completed", "absent"}
      BY DEF SpentIsOver
    <3>1. CASE l = j
      <4>1. j <= enqueued
        BY <1>1, <1>2, <2>1, JobIdsFinite DEF StoreIInv, Fresh, StoreTypeOK
      <4>2. enqueued' = enqueued
        BY DEF SubmitComplete, CompleteClaim
      <4> QED BY <2>2, <3>1, <4>1, <4>2
    <3>2. CASE l # j
      <4>1. Spent(l)
        BY <1>1, <2>5, <2>6, <3>2 DEF Spent
      <4> QED BY <1>1, <1>3, <4>1, OverStays DEF ConnectorIInv, SpentIsOver
    <3> QED BY <3>1, <3>2
  <2>12. IngestsFirst'
    <3> SUFFICES ASSUME NEW l \in JobIds
                 PROVE  /\ \A q, s \in Ingesting(l)' : q = s
                        /\ Ingesting(l)' # {} => ~Holds(l)' /\ l \notin unkeyed'
      BY DEF IngestsFirst
    <3>1. CASE l = j
      BY <1>1, <2>4, <2>5, <2>6, <3>1 DEF Spent
    <3>2. CASE l # j
      BY <1>1, <2>5, <2>6, <3>2 DEF ConnectorIInv, IngestsFirst
    <3> QED BY <3>1, <3>2
  <2>13. CompletedIsAnswered'
    <3> SUFFICES ASSUME NEW l \in JobIds, states'[l].status = "completed"
                 PROVE  KeyOf[l] \in seen_keys' \/ Ingesting(l)' # {} \/ l \in unkeyed'
      BY DEF CompletedIsAnswered
    <3>1. CASE l = j
      BY <2>5, <3>1
    <3>2. CASE l # j
      BY <1>1, <2>2, <2>5, <3>2 DEF ConnectorIInv, CompletedIsAnswered, resultVars
    <3> QED BY <3>1, <3>2
  <2>14. DeliveredWasConsumed'
    BY <1>1, <2>8 DEF ConnectorIInv, DeliveredWasConsumed, DeliveredKept, resultVars
  <2> QED BY <2>7, <2>8, <2>9, <2>10, <2>11, <2>12, <2>13, <2>14 DEF ConnectorIInv
<1> QED BY <1>4, <1>5

\* The one submission that completed the job ingests its result, finds its key known, or
\* is turned away for a blank key.
LEMMA SubmitIngestKeeps ==
  ASSUME ConnectorIInv, NEW r \in Requests, SubmitIngest(r)
  PROVE  ConnectorIInv'
<1>0. PICK j, key, res : /\ j = req[r].job /\ key = req[r].key
                         /\ res = [key |-> req[r].key, success |-> req[r].success]
  OBVIOUS
<1>1. /\ StoreIInv /\ ConnectorTypeOK /\ RequestsKnown /\ ResultTypeOK /\ unkeyed \in SUBSET JobIds
      /\ req \in [Requests -> RequestRecord]
      /\ req[r].pc = "submit_ingest"
      /\ UNCHANGED <<storeVars, callVars, envelope, received, last_cleanup>>
      /\ Ingest(j, res)
      /\ unkeyed' = IF key = NoKey THEN unkeyed \cup {j} ELSE unkeyed
  BY <1>0 DEF ConnectorIInv, ConnectorTypeOK, RequestRecord, SubmitIngest
<1>2. /\ j \in JobIds /\ key \in {KeyOf[j], NoKey} /\ KeyOf[j] \in Keys /\ NoKey \notin Keys
      /\ res.key = key
  BY <1>0, <1>1, ConnectorAssumption, ResultAssumption DEF RequestsKnown, SubmitStates
<1>3. /\ req' \in [Requests -> RequestRecord] /\ req'[r].pc = "idle"
      /\ \A q \in Requests : q # r => req'[q] = req[q]
  BY <1>1, SlotFreed DEF SubmitIngest
<1>4. ~Holds(j) /\ j \notin unkeyed /\ \A q \in Ingesting(j) : q = r
  <2>1. r \in Ingesting(j)
    BY <1>0, <1>1 DEF Ingesting
  <2> QED BY <1>2, <2>1 DEF ConnectorIInv, IngestsFirst
<1>5. Ingesting(j)' = {} /\ \A l \in JobIds : l # j => Ingesting(l)' = Ingesting(l)
  <2>1. ASSUME NEW l \in JobIds
        PROVE  /\ r \notin Ingesting(l)'
               /\ \A q \in Requests : q # r => (q \in Ingesting(l)' <=> q \in Ingesting(l))
               /\ l # j => r \notin Ingesting(l)
               /\ Ingesting(l) \subseteq Requests /\ Ingesting(l)' \subseteq Requests
    BY <1>0, <1>3 DEF Ingesting
  <2>2. \A q : q \notin Ingesting(j)'
    BY <1>2, <1>4, <2>1
  <2>3. ASSUME NEW l \in JobIds, l # j PROVE Ingesting(l)' = Ingesting(l)
    <3>1. \A q : q \in Ingesting(l)' <=> q \in Ingesting(l)
      BY <2>1, <2>3
    <3> QED BY <3>1
  <2> QED BY <2>2, <2>3
<1>6. ConnectorTypeOK'
  BY <1>1, <1>2, <1>3 DEF ConnectorTypeOK, callVars, RequestRecord
<1>7. RequestsKnown'
  BY <1>1, <1>3 DEF RequestsKnown, SubmitStates
<1>8. StoreIInv'
  BY <1>1, StoreStep
<1>9. states' = states /\ enqueued' = enqueued /\ caller' = caller /\ consumed' = consumed
  BY <1>1 DEF storeVars, callVars, Ingest
<1>10. j <= enqueued /\ states[j].status \in {"completed", "absent"}
  <2>1. r \in Ingesting(j)
    BY <1>0, <1>1 DEF Ingesting
  <2> QED BY <1>2, <2>1 DEF ConnectorIInv, SpentIsOver, Spent
<1>11. DeliveredWasConsumed'
  BY <1>9 DEF ConnectorIInv, DeliveredWasConsumed
<1>12. ASSUME ResultTypeOK', HeldOnce', KeyOf[j] \in seen_keys' \/ j \in unkeyed',
              seen_keys \subseteq seen_keys',
              \A l \in JobIds : l # j => Holds(l)' = Holds(l)
       PROVE  ConnectorIInv'
  <2>1. \A l \in JobIds : l # j => (l \in unkeyed' <=> l \in unkeyed)
    BY <1>1
  <2>2. SpentIsOver'
    <3> SUFFICES ASSUME NEW l \in JobIds, Spent(l)'
                 PROVE  l <= enqueued /\ states[l].status \in {"completed", "absent"}
      BY <1>9 DEF SpentIsOver
    <3>1. CASE l = j
      BY <1>10, <3>1
    <3>2. CASE l # j
      <4>1. Spent(l)
        BY <1>5, <1>12, <2>1, <3>2 DEF Spent
      <4> QED BY <4>1 DEF ConnectorIInv, SpentIsOver
    <3> QED BY <3>1, <3>2
  <2>3. IngestsFirst'
    <3> SUFFICES ASSUME NEW l \in JobIds
                 PROVE  /\ \A q, s \in Ingesting(l)' : q = s
                        /\ Ingesting(l)' # {} => ~Holds(l)' /\ l \notin unkeyed'
      BY DEF IngestsFirst
    <3>1. CASE l = j
      BY <1>5, <3>1
    <3>2. CASE l # j
      BY <1>5, <1>12, <2>1, <3>2 DEF ConnectorIInv, IngestsFirst
    <3> QED BY <3>1, <3>2
  <2>4. CompletedIsAnswered'
    <3> SUFFICES ASSUME NEW l \in JobIds, states[l].status = "completed"
                 PROVE  KeyOf[l] \in seen_keys' \/ Ingesting(l)' # {} \/ l \in unkeyed'
      BY <1>9 DEF CompletedIsAnswered
    <3>1. CASE l = j
      BY <1>12, <3>1
    <3>2. CASE l # j
      BY <1>5, <1>12, <2>1, <3>2 DEF ConnectorIInv, CompletedIsAnswered
    <3> QED BY <3>1, <3>2
  <2> QED BY <1>6, <1>7, <1>8, <1>11, <1>12, <2>2, <2>3, <2>4 DEF ConnectorIInv
<1>13. CASE ~Stores(IngestOutcome(j, res))
  <2>1. UNCHANGED <<seen_keys, results, consumed>>
    BY <1>1, <1>13 DEF Ingest
  <2>2. KeyOf[j] \in seen_keys \/ key = NoKey
    BY <1>2, <1>4, <1>13 DEF IngestOutcome, Stores, Holds
  <2>3. \A l \in JobIds : Holds(l)' = Holds(l)
    BY <2>1 DEF Holds
  <2>4. ResultTypeOK' /\ HeldOnce'
    BY <2>1, <2>3 DEF ConnectorIInv, ResultTypeOK, HeldOnce
  <2> QED BY <1>1, <1>12, <2>1, <2>2, <2>3, <2>4
<1>14. CASE Stores(IngestOutcome(j, res))
  <2>1. /\ seen_keys' = seen_keys \cup {key}
        /\ results' = [results EXCEPT ![j] = res]
    BY <1>1, <1>2, <1>14 DEF Ingest
  <2>2. key \notin seen_keys /\ key = KeyOf[j]
    BY <1>2, <1>14 DEF IngestOutcome, Stores
  <2>3. res \in Results /\ res # NoResult
    <3>1. req[r].success \in BOOLEAN
      BY <1>1 DEF RequestRecord
    <3> QED BY <1>0, <1>2, <2>2, <3>1, NoResultAssumption DEF Results
  <2>4. ResultTypeOK'
    BY <1>1, <1>2, <1>9, <2>1, <2>2, <2>3 DEF ResultTypeOK
  <2>5. results'[j] = res /\ \A l \in JobIds : l # j => results'[l] = results[l]
    BY <1>1, <1>2, <2>1 DEF ResultTypeOK
  <2>6. Holds(j)' /\ \A l \in JobIds : l # j => Holds(l)' = Holds(l)
    BY <1>9, <2>3, <2>5 DEF Holds
  <2>7. \A l \in JobIds : Holds(l) => KeyOf[l] # KeyOf[j]
    BY <2>2 DEF ConnectorIInv, HeldOnce
  <2>8. HeldOnce'
    <3> SUFFICES ASSUME NEW l \in JobIds
                 PROVE  /\ results'[l] # NoResult => results'[l].key = KeyOf[l] /\ consumed'[l] = {}
                        /\ \A x \in consumed'[l] : x.key = KeyOf[l]
                        /\ \A x, y \in consumed'[l] : x = y
                        /\ Holds(l)' => KeyOf[l] \in seen_keys'
                        /\ \A i \in JobIds : Holds(l)' /\ Holds(i)' /\ KeyOf[l] = KeyOf[i] => l = i
      BY DEF HeldOnce
    <3>1. HeldOnce
      BY DEF ConnectorIInv
    <3>2. CASE l = j
      <4>1. consumed'[l] = {}
        BY <1>4, <1>9, <3>2 DEF Holds
      <4>2. \A i \in JobIds : Holds(i)' /\ KeyOf[l] = KeyOf[i] => l = i
        BY <2>6, <2>7, <3>2
      <4> QED BY <1>2, <2>1, <2>2, <2>5, <3>2, <4>1, <4>2
    <3>3. CASE l # j
      <4>1. results'[l] = results[l] /\ consumed'[l] = consumed[l] /\ Holds(l)' = Holds(l)
        BY <1>9, <2>5, <2>6, <3>3
      <4>2. \A i \in JobIds : Holds(l) /\ Holds(i)' /\ KeyOf[l] = KeyOf[i] => l = i
        <5> SUFFICES ASSUME NEW i \in JobIds, Holds(l), Holds(i)', KeyOf[l] = KeyOf[i]
                     PROVE  l = i
          OBVIOUS
        <5>1. i # j
          BY <2>7
        <5>2. Holds(i)
          BY <2>6, <5>1
        <5> QED BY <3>1, <5>2 DEF HeldOnce
      <4> QED BY <2>1, <3>1, <4>1, <4>2 DEF HeldOnce
    <3> QED BY <3>2, <3>3
  <2> QED BY <1>12, <2>1, <2>2, <2>4, <2>6, <2>8
<1> QED BY <1>13, <1>14

\* execute hands a stored result out, or finds none and polls on or times out.
LEMMA ExecutePollKeeps ==
  ASSUME ConnectorIInv, NEW j \in JobIds, ExecutePoll(j)
  PROVE  ConnectorIInv'
<1>1. /\ StoreIInv /\ ConnectorTypeOK /\ RequestsKnown /\ ResultTypeOK
      /\ caller \in [JobIds -> CallerStates] /\ caller[j] = "poll"
      /\ UNCHANGED <<storeVars, non_blocking, deadline, reqVars, last_cleanup, unkeyed>>
  BY DEF ConnectorIInv, ConnectorTypeOK, ExecutePoll
<1>2. /\ RequestsKnown' /\ IngestersKept /\ UNCHANGED <<states, enqueued, req, unkeyed>>
      /\ \A l \in JobIds : Ingesting(l)' = Ingesting(l)
  BY <1>1 DEF RequestsKnown, IngestersKept, reqVars, Ingesting, storeVars
<1>3. CASE UNCHANGED resultVars
  <2>1. PICK s \in CallerStates \ {"delivered"} : caller' = [caller EXCEPT ![j] = s]
    <3>1. ~Consume(j)
      BY <1>1, <1>3 DEF Consume, ResultTypeOK, resultVars
    <3> QED BY <3>1 DEF ExecutePoll, CallerStates
  <2>2. ConnectorTypeOK' /\ DeliveredKept
    BY <1>1, <2>1 DEF ConnectorTypeOK, DeliveredKept, reqVars
  <2>3. PlainStep
    BY <1>1, <1>2, <1>3, <2>2 DEF PlainStep, resultVars
  <2> QED BY <2>3, PlainKeeps
<1>4. CASE Consume(j) /\ caller' = [caller EXCEPT ![j] = "delivered"]
  <2>1. /\ results[j] # NoResult /\ results[j] \in Results
        /\ consumed' = [consumed EXCEPT ![j] = @ \cup {results[j]}]
        /\ results' = [results EXCEPT ![j] = NoResult]
        /\ UNCHANGED seen_keys
    BY <1>1, <1>4 DEF Consume, ResultTypeOK
  <2>2. consumed[j] = {} /\ results[j].key = KeyOf[j]
    BY <2>1 DEF ConnectorIInv, HeldOnce
  <2>3. /\ results'[j] = NoResult /\ consumed'[j] = {results[j]}
        /\ \A l \in JobIds : l # j => results'[l] = results[l] /\ consumed'[l] = consumed[l]
    BY <1>1, <2>1, <2>2 DEF ResultTypeOK
  <2>4. ResultTypeOK'
    BY <1>1, <2>1 DEF ResultTypeOK
  <2>5. \A l \in JobIds : Holds(l)' = Holds(l)
    BY <2>1, <2>3 DEF Holds
  <2>6. HeldOnce'
    <3> SUFFICES ASSUME NEW l \in JobIds
                 PROVE  /\ results'[l] # NoResult => results'[l].key = KeyOf[l] /\ consumed'[l] = {}
                        /\ \A x \in consumed'[l] : x.key = KeyOf[l]
                        /\ \A x, y \in consumed'[l] : x = y
                        /\ Holds(l)' => KeyOf[l] \in seen_keys'
                        /\ \A i \in JobIds : Holds(l)' /\ Holds(i)' /\ KeyOf[l] = KeyOf[i] => l = i
      BY DEF HeldOnce
    <3>1. HeldOnce
      BY DEF ConnectorIInv
    <3>2. /\ Holds(l)' => KeyOf[l] \in seen_keys'
          /\ \A i \in JobIds : Holds(l)' /\ Holds(i)' /\ KeyOf[l] = KeyOf[i] => l = i
      BY <2>1, <2>5, <3>1 DEF HeldOnce
    <3>3. CASE l = j
      BY <2>2, <2>3, <3>2, <3>3
    <3>4. CASE l # j
      BY <2>3, <3>1, <3>2, <3>4 DEF HeldOnce
    <3> QED BY <3>3, <3>4
  <2>7. \A l \in JobIds : Spent(l)' = Spent(l)
    BY <1>2, <2>5 DEF Spent
  <2>8. SpentIsOver' /\ IngestsFirst' /\ CompletedIsAnswered'
    BY <1>2, <2>1, <2>5, <2>7
       DEF ConnectorIInv, SpentIsOver, IngestsFirst, CompletedIsAnswered
  <2>9. DeliveredWasConsumed'
    BY <1>1, <1>4, <2>3 DEF ConnectorIInv, DeliveredWasConsumed
  <2>10. ConnectorTypeOK'
    BY <1>1, <1>4 DEF ConnectorTypeOK, reqVars, CallerStates
  <2>11. StoreIInv'
    BY <1>1, StoreStep
  <2> QED BY <1>2, <2>4, <2>6, <2>8, <2>9, <2>10, <2>11 DEF ConnectorIInv
<1> QED BY <1>3, <1>4 DEF ExecutePoll

\* Every step of the connector keeps the inductive invariant.
LEMMA ConnectorStep == ConnectorIInv /\ [ConnectorNext]_vars => ConnectorIInv'
<1> SUFFICES ASSUME ConnectorIInv, [ConnectorNext]_vars PROVE ConnectorIInv'
  OBVIOUS
<1>1. CASE UNCHANGED vars
  <2>1. PlainStep
    BY <1>1 DEF vars, callVars, reqVars, resultVars, PlainStep, IngestersKept, DeliveredKept,
                ConnectorIInv, ConnectorTypeOK, RequestsKnown
  <2> QED BY <2>1, PlainKeeps
<1>2. CASE \E j \in JobIds : CallerStep(j) \/ \E at \in Readings : ExecuteStart(j, at)
  BY <1>2, CallerPlain, PlainKeeps, ExecutePollKeeps DEF CallerStep
<1>3. CASE \E r \in Requests : RequestStep(r)
  BY <1>3, ClaimPlain, SubmitPlain, PlainKeeps, SubmitCompleteKeeps, SubmitIngestKeeps
     DEF RequestStep
<1>4. CASE \E r \in Requests : WorkerCall(r)
  BY <1>4, ClaimPlain, SubmitPlain, PlainKeeps DEF WorkerCall, WorkerClaims
<1>5. CASE OperatorCall \/ ConnectorTick
  BY <1>5, OperatorPlain, PlainKeeps
<1> QED BY <1>1, <1>2, <1>3, <1>4, <1>5 DEF ConnectorNext, ServerStep

\* The connector as it is built satisfies the inductive invariant.
LEMMA ConnectorInitIInv == ConnectorInit => ConnectorIInv
<1> SUFFICES ASSUME ConnectorInit PROVE ConnectorIInv
  OBVIOUS
<1>1. StoreIInv
  BY StoreInitIInv DEF ConnectorInit
<1>2. ConnectorTypeOK
  <2>1. req \in [Requests -> RequestRecord]
    BY NoRequestTyped DEF ConnectorInit
  <2>2. non_blocking \in BOOLEAN
    BY ConnectorAssumption DEF ConnectorInit
  <2> QED BY <2>1, <2>2, NoRequestTyped DEF ConnectorInit, ConnectorTypeOK, CallerStates, RequestRecord
<1>3. \A j \in JobIds : results[j] = NoResult /\ consumed[j] = {} /\ Ingesting(j) = {}
  BY ConnectorAssumption, NoRequestTyped DEF ConnectorInit, ResultInit, Ingesting
<1>4. ResultTypeOK
  BY ConnectorAssumption DEF ConnectorInit, ResultInit, ResultTypeOK
<1>5. RequestsKnown
  BY NoRequestTyped DEF ConnectorInit, RequestsKnown, SubmitStates
<1>6. HeldOnce /\ SpentIsOver /\ IngestsFirst
  BY <1>3 DEF ConnectorInit, HeldOnce, SpentIsOver, IngestsFirst, Spent, Holds
<1>7. CompletedIsAnswered /\ DeliveredWasConsumed
  BY DEF ConnectorInit, StoreInit, CompletedIsAnswered, DeliveredWasConsumed, Absent
<1> QED BY <1>1, <1>2, <1>4, <1>5, <1>6, <1>7 DEF ConnectorIInv

-----------------------------------------------------------------------------
(* Theorems.                                                               *)

\* The inductive invariant holds in every reachable state of the connector.
THEOREM ConnectorInvariant == ConnectorSpec => []ConnectorIInv
BY ConnectorInitIInv, ConnectorStep, PTL DEF ConnectorSpec

\* However many requests race through the four critical sections of a submission, at most
\* one gets past complete_claim for a job, and it finds no earlier result.
THEOREM ConnectorOneIngest == ConnectorSpec => []OneIngestPerJob
<1>1. ConnectorIInv => OneIngestPerJob
  BY DEF ConnectorIInv, OneIngestPerJob, IngestsFirst, SpentIsOver, Spent, Holds
<1> QED BY <1>1, ConnectorInvariant, PTL

\* A completed job's result is stored under its key, on its way there, or was turned
\* away for a blank key.
THEOREM ConnectorAnswered == ConnectorSpec => []CompletedIsAnswered
<1>1. ConnectorIInv => CompletedIsAnswered
  BY DEF ConnectorIInv
<1> QED BY <1>1, ConnectorInvariant, PTL

\* The result store keeps its promise under the connector's threads: of the jobs that
\* share an idempotency key one is handed out, once, whatever the conflict strategy.
THEOREM ConnectorOncePerKey == ConnectorSpec => []OncePerKey
<1>1. ConnectorIInv => OncePerKey
  <2> SUFFICES ASSUME ConnectorIInv, NEW k \in Keys
               PROVE  /\ \A j, l \in Holders(k) : j = l
                      /\ \A j \in Holders(k) :
                           /\ results[j] # NoResult => \A r \in consumed[j] : r.key # results[j].key
                           /\ \A r, s \in consumed[j] : r.key = s.key => r = s
    BY DEF OncePerKey
  <2>1. HeldOnce
    BY DEF ConnectorIInv
  <2>2. \A j \in Holders(k) : j \in JobIds /\ Holds(j) /\ KeyOf[j] = k
    BY <2>1, ConnectorAssumption DEF Holders, Holds, HeldOnce
  <2> QED BY <2>1, <2>2 DEF HeldOnce
<1> QED BY <1>1, ConnectorInvariant, PTL

\* Each critical section of the connector is one operation of the job queue or none, so
\* what is proved of the queue under arbitrary clients holds of it inside the connector.
LEMMA ConnectorUsesStore == ConnectorIInv /\ [ConnectorNext]_vars => [StoreNext]_storeVars
<1> SUFFICES ASSUME ConnectorIInv, [ConnectorNext]_vars PROVE [StoreNext]_storeVars
  OBVIOUS
<1>1. PlainStep => [StoreNext]_storeVars
  BY DEF PlainStep, QuietNext, StoreNext
<1>2. ASSUME NEW r \in Requests, SubmitComplete(r) PROVE [StoreNext]_storeVars
  <2>1. req[r].job \in JobIds /\ req[r].token \in Tokens
    BY <1>2 DEF ConnectorIInv, ConnectorTypeOK, RequestsKnown, SubmitComplete, SubmitStates
  <2> QED BY <1>2, <2>1 DEF SubmitComplete, StoreNext
<1>3. ASSUME NEW r \in Requests, SubmitIngest(r) PROVE [StoreNext]_storeVars
  BY <1>3 DEF SubmitIngest
<1>4. ASSUME NEW j \in JobIds, ExecutePoll(j) PROVE [StoreNext]_storeVars
  BY <1>4 DEF ExecutePoll
<1>5. CASE UNCHANGED vars
  BY <1>5 DEF vars
<1>6. CASE \E j \in JobIds : CallerStep(j) \/ \E at \in Readings : ExecuteStart(j, at)
  BY <1>1, <1>4, <1>6, CallerPlain DEF CallerStep
<1>7. CASE \E r \in Requests : RequestStep(r)
  BY <1>1, <1>2, <1>3, <1>7, ClaimPlain, SubmitPlain DEF RequestStep
<1>8. CASE \E r \in Requests : WorkerCall(r)
  BY <1>1, <1>8, ClaimPlain, SubmitPlain DEF WorkerCall, WorkerClaims
<1>9. CASE OperatorCall \/ ConnectorTick
  BY <1>1, <1>9, OperatorPlain
<1> QED BY <1>5, <1>6, <1>7, <1>8, <1>9 DEF ConnectorNext, ServerStep

\* The connector is a client of the job queue: every behaviour of it is a behaviour of
\* the queue under StoreSpec.
THEOREM ConnectorImplementsStore == ConnectorSpec => StoreSpec
<1>1. ConnectorInit => StoreInit
  BY DEF ConnectorInit
<1> QED BY <1>1, ConnectorInvariant, ConnectorUsesStore, PTL DEF ConnectorSpec, StoreSpec

\* Inside the connector too, the deques and the statuses of the jobs agree, two workers
\* never hold one lease, and jobs move along their life cycle.
THEOREM ConnectorQueueSound ==
  ConnectorSpec => []QueueExact /\ []LeaseMutex /\ CompletedByHolder /\ LifecycleOrder
BY ConnectorImplementsStore, StoreQueueExact, StoreLeaseMutex, StoreCompletedByHolder,
   StoreLifecycle

-----------------------------------------------------------------------------
(* The connector implements the safety half of ByocCall.                   *)

\* Only execute changes what its callers are told, and only as ByocCall allows: a result
\* is delivered to a waiting caller, and to no second caller with the same key.
LEMMA ConnectorCallStep ==
  ConnectorIInv /\ [ConnectorNext]_vars => [Call!CallNext]_CallOutcome
<1> SUFFICES ASSUME ConnectorIInv, [ConnectorNext]_vars PROVE [Call!CallNext]_CallOutcome
  OBVIOUS
<1>1. caller \in [JobIds -> CallerStates]
  BY DEF ConnectorIInv, ConnectorTypeOK
<1>2. CASE UNCHANGED caller
  BY <1>2 DEF CallOutcome
<1>3. ASSUME NEW j \in JobIds, NEW s \in CallerStates, caller' = [caller EXCEPT ![j] = s],
             \/ caller[j] \in {"idle", "prune"} /\ s \in {"prune", "enqueue"}
             \/ caller[j] \in {"requeue", "poll"} /\ s \in {"requeue", "poll"}
      PROVE  UNCHANGED CallOutcome
  BY <1>1, <1>3 DEF CallOutcome
<1>4. ASSUME NEW j \in JobIds, ExecuteEnqueue(j) PROVE Call!CallNext
  <2>1. PICK s \in {"queued", "requeue"} : caller' = [caller EXCEPT ![j] = s]
    BY <1>4 DEF ExecuteEnqueue
  <2>2. CallOutcome[j] = "idle"
    BY <1>1, <1>4 DEF ExecuteEnqueue, CallOutcome
  <2>3. CASE s = "queued"
    <3>1. Call!Detach(j)
      BY <1>1, <2>1, <2>2, <2>3 DEF CallOutcome, Call!Detach
    <3> QED BY <3>1 DEF Call!CallNext
  <2>4. CASE s = "requeue"
    <3>1. Call!Start(j)
      BY <1>1, <2>1, <2>2, <2>4 DEF CallOutcome, Call!Start
    <3> QED BY <3>1 DEF Call!CallNext
  <2> QED BY <2>3, <2>4
<1>5. ASSUME NEW j \in JobIds, ExecutePoll(j) PROVE [Call!CallNext]_CallOutcome
  <2>1. PICK s \in {"delivered", "timed_out", "requeue"} :
          /\ caller' = [caller EXCEPT ![j] = s]
          /\ s = "delivered" => Consume(j)
    BY <1>5 DEF ExecutePoll
  <2>2. CallOutcome[j] = "waiting" /\ caller[j] = "poll"
    BY <1>1, <1>5 DEF ExecutePoll, CallOutcome
  <2>3. CASE s = "delivered"
    <3>1. CallOutcome' = [CallOutcome EXCEPT ![j] = "delivered"]
      BY <1>1, <2>1, <2>3 DEF CallOutcome
    <3>2. ASSUME NEW l \in JobIds, KeyOf[l] = KeyOf[j], CallOutcome[l] = "delivered" PROVE FALSE
      <4>1. caller[l] = "delivered"
        BY <1>1, <3>2 DEF CallOutcome, CallerStates
      <4>2. Holds(l) /\ Holds(j)
        BY <2>1, <2>3, <4>1 DEF ConnectorIInv, DeliveredWasConsumed, Holds, Consume
      <4>3. l = j
        BY <3>2, <4>2 DEF ConnectorIInv, HeldOnce
      <4> QED BY <2>2, <4>1, <4>3
    <3>3. Call!Deliver(j)
      BY <2>2, <3>1, <3>2 DEF Call!Deliver, Call!Answered
    <3> QED BY <3>3 DEF Call!CallNext
  <2>4. CASE s = "timed_out"
    <3>1. Call!TimeOut(j)
      BY <1>1, <2>1, <2>2, <2>4 DEF CallOutcome, Call!TimeOut
    <3> QED BY <3>1 DEF Call!CallNext
  <2>5. CASE s = "requeue"
    BY <1>3, <2>1, <2>2, <2>5 DEF CallerStates
  <2> QED BY <2>3, <2>4, <2>5
<1>6. ASSUME NEW j \in JobIds, NEW at \in Readings, ExecuteStart(j, at) PROVE UNCHANGED CallOutcome
  <2>1. PICK s \in {"prune", "enqueue"} : caller' = [caller EXCEPT ![j] = s]
    BY <1>6 DEF ExecuteStart, AfterGate
  <2> QED BY <1>3, <1>6, <2>1 DEF ExecuteStart, CallerStates
<1>7. ASSUME NEW j \in JobIds, ExecutePrune(j) \/ ExecuteRequeue(j) PROVE UNCHANGED CallOutcome
  BY <1>3, <1>7 DEF ExecutePrune, ExecuteRequeue, CallerStates
<1>8. CASE \E j \in JobIds : CallerStep(j) \/ \E at \in Readings : ExecuteStart(j, at)
  BY <1>4, <1>5, <1>6, <1>7, <1>8 DEF CallerStep
<1>9. CASE \E r \in Requests : RequestStep(r) \/ WorkerCall(r)
  BY <1>2, <1>9 DEF RequestStep, WorkerCall, WorkerClaims, WorkerSubmits, callVars, ClaimStart,
     ClaimPrune, ClaimRequeue, ClaimTake, ClaimReply, SubmitStart, SubmitPrune, SubmitAuth,
     SubmitLookup, SubmitComplete, SubmitIngest
<1>10. CASE OperatorCall \/ ConnectorTick \/ UNCHANGED vars
  BY <1>2, <1>10 DEF OperatorCall, Replay, RequestCancellation, ForcedCleanup, ConnectorTick,
     vars, callVars
<1> QED BY <1>8, <1>9, <1>10 DEF ConnectorNext, ServerStep

\* execute keeps its promise to its callers: a call waits from the moment its job is
\* enqueued until it is answered or times out, it is told one outcome, and of the calls
\* that share a key at most one is given a worker's result.
THEOREM ConnectorImplementsCall == ConnectorSpec => Call!CallSafe
<1>1. ConnectorInit => Call!CallInit
  BY DEF ConnectorInit, Call!CallInit, CallOutcome
<1> QED BY <1>1, ConnectorInvariant, ConnectorCallStep, PTL DEF ConnectorSpec, Call!CallSafe
=============================================================================
