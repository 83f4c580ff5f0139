------------------------- MODULE SqliteFairAdmission -------------------------
(***************************************************************************)
(* SQLiteByocFairAdmissionCoordinator: admission slots as rows of a table  *)
(* that several processes share.  A transaction starts with a DELETE, so   *)
(* it has the file's write lock from its first statement to its commit and *)
(* is one step.  A slot carries a lease: a process that dies does not keep *)
(* its slot for good.                                                      *)
(***************************************************************************)
EXTENDS Naturals, FiniteSets

CONSTANTS
  Processes,      \* the callers of acquire, in any process
  MaxInflight,    \* max_inflight_global
  SlotLease,      \* lease_seconds
  MaxSlots,       \* bound: slots ever inserted
  SlotTime,       \* bound: clock ticks
  SlotLag,        \* longest wait for the lock after the clock was read
  MaxSlotCrashes  \* bound: crashes

ASSUME SlotAssumption ==
  /\ MaxInflight \in Nat \ {0} /\ SlotLease \in Nat \ {0}
  /\ MaxSlots \in Nat /\ SlotTime \in Nat /\ SlotLag \in Nat /\ MaxSlotCrashes \in Nat

VARIABLES
  slots,      \* the rows of byoc_fair_admission_slots
  sequence,   \* the AUTOINCREMENT counter: ids are never used again
  call,       \* what each caller is doing, and the slot it was given
  clock,
  crashed     \* number of crashes

slotVars == <<slots, sequence, call, clock, crashed>>

Slots == [id : Nat, expires : Nat]
NoCall == [pc |-> "idle", slot |-> 0, expires |-> 0]

SlotInit ==
  /\ slots = {}
  /\ sequence = 0
  /\ call = [p \in Processes |-> NoCall]
  /\ clock = 1
  /\ crashed = 0

SlotReadings == {at \in 1..clock : at + SlotLag >= clock}

\* _cleanup_expired; a released row is deleted by the transaction that marks it.
Live(at) == {s \in slots : s.expires > at}

\* Mutation: ids are those of a plain INTEGER PRIMARY KEY, which takes the largest in use.
NextIdReused(live) == IF live = {} THEN 1
                      ELSE (CHOOSE s \in live : \A u \in live : u.id <= s.id).id + 1

NextId(live) == sequence + 1

\* Mutation: the count is compared with <=.
HasRoomOffByOne(live) == Cardinality(live) <= MaxInflight

HasRoom(live) == Cardinality(live) < MaxInflight

\* acquire: one turn of its loop.
TryAcquire(p, at) ==
  LET live == Live(at)
      slot == [id |-> NextId(live), expires |-> at + SlotLease]
  IN  /\ call[p].pc \in {"idle", "waiting"}
      /\ sequence < MaxSlots
      /\ \/ /\ HasRoom(live)
            /\ slots' = live \cup {slot}
            /\ sequence' = sequence + 1
            /\ call' = [call EXCEPT ![p] = [pc |-> "running", slot |-> slot.id,
                                            expires |-> slot.expires]]
         \/ /\ ~HasRoom(live)
            /\ slots' = live
            /\ UNCHANGED sequence
            /\ \E to \in {"waiting", "idle"} : call' = [call EXCEPT ![p] = [NoCall EXCEPT !.pc = to]]
      /\ UNCHANGED <<clock, crashed>>

\* release: the row may be gone already.
ReleaseSlot(p) ==
  /\ call[p].pc = "running"
  /\ slots' = {s \in Live(clock) : s.id # call[p].slot}
  /\ call' = [call EXCEPT ![p] = NoCall]
  /\ UNCHANGED <<sequence, clock, crashed>>

\* stats removes expired rows as well.
SlotStats(at) ==
  /\ slots' = Live(at)
  /\ UNCHANGED <<sequence, call, clock, crashed>>

CrashCall(p) ==
  /\ call[p].pc = "running"
  /\ crashed < MaxSlotCrashes
  /\ crashed' = crashed + 1
  /\ call' = [call EXCEPT ![p] = NoCall]
  /\ UNCHANGED <<slots, sequence, clock>>

SlotTick ==
  /\ clock < SlotTime
  /\ clock' = clock + 1
  /\ UNCHANGED <<slots, sequence, call, crashed>>

SlotNext ==
  \/ \E p \in Processes, at \in SlotReadings : TryAcquire(p, at)
  \/ \E p \in Processes : ReleaseSlot(p) \/ CrashCall(p)
  \/ \E at \in SlotReadings : SlotStats(at)
  \/ SlotTick

SlotSpec == SlotInit /\ [][SlotNext]_slotVars

-----------------------------------------------------------------------------
(* Properties.                                                             *)

\* A running call keeps its slot until its lease ends, whatever the other processes
\* release, however late: a release of an expired slot never frees a slot that was given
\* to somebody else.
OwnSlotKept ==
  \A p \in Processes :
    call[p].pc = "running" /\ call[p].expires > clock =>
      [id |-> call[p].slot, expires |-> call[p].expires] \in slots

\* So at most MaxInflight calls run within their leases, across processes and crashes.
LeasedCallsBounded ==
  Cardinality({p \in Processes : call[p].pc = "running" /\ call[p].expires > clock})
    <= MaxInflight

\* Together: the slots in the table are those of the calls that run within their leases.
SlotsHonoured == OwnSlotKept /\ LeasedCallsBounded
=============================================================================
