--------------------------- MODULE SchedulerProofs ---------------------------
(***************************************************************************)
(* Proofs about the turns of the API process and about the background      *)
(* jobs, for any number of runs, jobs, nodes, executions and permits.      *)
(***************************************************************************)
EXTENDS TurnRuns, BackgroundJobs, FiniteSetTheorems, FunctionTheorems, TLAPS

(***************************************************************************)
(* Turns.  The cap counts records, so that it bounds the turns needs that  *)
(* a turn nobody asked to cancel keeps its running record; that an outcome *)
(* is kept needs to know which statuses a live turn's record may have; and *)
(* that a confirmed cancellation has happened needs that the socket knows  *)
(* the task of every live turn of its own.                                 *)
(***************************************************************************)

RunRecords == [status : Statuses, cancel : BOOLEAN, calls : BOOLEAN]
TurnStates ==
  [at : Places, transport : Transports \cup {"none"}, calls : BOOLEAN,
   outcome : {"none", "completed", "errored"}, cancelled : BOOLEAN]

TurnTyped ==
  /\ records \in [Runs -> RunRecords]
  /\ turn \in [Runs -> TurnStates]
  /\ awaiting \in Runs \cup {Nobody}
  /\ replied \in SUBSET Runs

\* What is known of one run: of its record while its turn is new, live or ended, of its task,
\* and of a confirmed cancellation.
RunControlled(r) ==
  /\ records[r].status = "absent" => records[r] = Absent
  /\ turn[r].at \in {"new", "rejected"} => records[r] = Absent
  /\ turn[r].at \in {"new", "rejected", "created"} => turn[r].outcome = "none"
  /\ Live(r) => records[r].status \in {"running", "cancel_requested", "cancelled", "absent"}
  /\ Live(r) /\ r \notin cancel_asked => records[r].status = "running" /\ ~records[r].cancel
  /\ turn[r].at = "ended" /\ turn[r].outcome # "none" =>
       records[r].status \in {turn[r].outcome, "cancelled", "absent"}
  /\ Live(r) /\ turn[r].transport = "websocket" => r \in active_tasks
  /\ r \in replied =>
       /\ turn[r].at # "new"
       /\ turn[r].transport = "websocket" =>
            ~Live(r) /\ records[r].status \in TerminalStatuses \cup {"absent"}

Uncancelled == {r \in Runs : Live(r) /\ r \notin cancel_asked}
CapHolds == MaxActiveRuns # 0 => Cardinality(Uncancelled) <= MaxActiveRuns

TurnIInv == TurnTyped /\ (\A r \in Runs : RunControlled(r)) /\ CapHolds

\* The inductive invariant says what the runs check.
LEMMA TurnIInvControls == TurnIInv => TurnsControlled
<1> SUFFICES ASSUME TurnIInv PROVE TurnsControlled
  OBVIOUS
<1>1. CapEnforced
  <2>1. \A r \in Uncancelled : records[r].status \in ActiveStatuses
    BY DEF TurnIInv, RunControlled, Uncancelled, ActiveStatuses
  <2> QED BY <2>1 DEF TurnIInv, CapHolds, CapEnforced, Uncancelled
<1>2. OutcomeKept
  BY DEF TurnIInv, RunControlled, OutcomeKept
<1>3. CancelledStops
  BY DEF TurnIInv, TurnTyped, RunControlled, CancelledStops, ActiveStatuses, TerminalStatuses
<1> QED BY <1>1, <1>2, <1>3 DEF TurnsControlled

\* start_run, record_tool_call and request_cancel, as operators on the records.
LEMMA StartedRecords ==
  ASSUME NEW recs \in [Runs -> RunRecords], NEW r \in Runs
  PROVE  /\ Started(recs, r) \in [Runs -> RunRecords]
         /\ Started(recs, r)[r].status = "running" /\ ~Started(recs, r)[r].cancel
         /\ \A s \in Runs \ {r} : Started(recs, r)[s] = recs[s]
<1>1. Absent \in RunRecords
  BY DEF Absent, RunRecords, Statuses
<1>2. PICK row \in RunRecords : /\ row = [Absent EXCEPT !.status = "running"]
                                /\ row.status = "running" /\ ~row.cancel
  <2>1. /\ [Absent EXCEPT !.status = "running"] \in RunRecords
        /\ [Absent EXCEPT !.status = "running"].status = "running"
        /\ ~[Absent EXCEPT !.status = "running"].cancel
    BY DEF Absent, RunRecords, Statuses, ActiveStatuses
  <2> QED BY <2>1
<1>3. Started(recs, r) = [recs EXCEPT ![r] = row]
  BY <1>2 DEF Started
<1> QED BY <1>2, <1>3

\* A recorded tool call keeps the status of its run.
LEMMA CallRecords ==
  ASSUME NEW recs \in [Runs -> RunRecords], NEW r \in Runs
  PROVE  /\ ToolCallRecorded(recs, r) \in [Runs -> RunRecords]
         /\ ToolCallRecorded(recs, r)[r].status = recs[r].status
         /\ ToolCallRecorded(recs, r)[r].cancel = recs[r].cancel
         /\ recs[r] = Absent => ToolCallRecorded(recs, r)[r] = Absent
         /\ \A s \in Runs \ {r} : ToolCallRecorded(recs, r)[s] = recs[s]
<1>1. CASE recs[r] = Absent
  BY <1>1 DEF ToolCallRecorded
<1>2. CASE recs[r] # Absent
  <2>1. PICK row \in RunRecords : recs[r] = row
    OBVIOUS
  <2>2. /\ [row EXCEPT !.calls = TRUE] \in RunRecords
        /\ [row EXCEPT !.calls = TRUE].status = row.status
        /\ [row EXCEPT !.calls = TRUE].cancel = row.cancel
    BY DEF RunRecords
  <2>3. PICK new \in RunRecords : /\ new = [row EXCEPT !.calls = TRUE]
                                  /\ new.status = row.status /\ new.cancel = row.cancel
    BY <2>2
  <2>4. ToolCallRecorded(recs, r) = [recs EXCEPT ![r] = new]
    BY <1>2, <2>1, <2>3 DEF ToolCallRecorded
  <2> QED BY <1>2, <2>1, <2>3, <2>4
<1> QED BY <1>1, <1>2

\* What request_cancel writes is a run record.
LEMMA CancelRecords ==
  ASSUME NEW recs \in [Runs -> RunRecords], NEW r \in Runs
  PROVE  /\ CancelRequested(recs, r) \in [Runs -> RunRecords]
         /\ recs[r] = Absent => CancelRequested(recs, r)[r] = Absent
         /\ recs[r] # Absent => CancelRequested(recs, r)[r].cancel
         /\ recs[r] # Absent =>
              CancelRequested(recs, r)[r].status = IF recs[r].status \in TerminalStatuses
                                                   THEN recs[r].status ELSE "cancel_requested"
         /\ \A s \in Runs \ {r} : CancelRequested(recs, r)[s] = recs[s]
<1>1. CASE recs[r] = Absent
  BY <1>1 DEF CancelRequested
<1>2. CASE recs[r] # Absent
  <2>1. PICK row \in RunRecords : recs[r] = row
    OBVIOUS
  <2>2. PICK asked \in RunRecords : /\ asked = [row EXCEPT !.cancel = TRUE]
                                    /\ asked.status = row.status /\ asked.cancel
    <3>1. /\ [row EXCEPT !.cancel = TRUE] \in RunRecords
          /\ [row EXCEPT !.cancel = TRUE].status = row.status
          /\ [row EXCEPT !.cancel = TRUE].cancel
      BY DEF RunRecords
    <3> QED BY <3>1
  <2>3. PICK status \in Statuses :
          status = IF row.status \in TerminalStatuses THEN row.status ELSE "cancel_requested"
    BY DEF RunRecords, Statuses, ActiveStatuses
  <2>4. PICK new \in RunRecords : /\ new = [asked EXCEPT !.status = status]
                                  /\ new.status = status /\ new.cancel
    <3>1. /\ [asked EXCEPT !.status = status] \in RunRecords
          /\ [asked EXCEPT !.status = status].status = status
          /\ [asked EXCEPT !.status = status].cancel = asked.cancel
      BY DEF RunRecords
    <3> QED BY <2>2, <3>1
  <2>5. CancelRequested(recs, r) = [recs EXCEPT ![r] = new]
    <3>1. CancelRequested(recs, r) =
            [[recs EXCEPT ![r] = asked] EXCEPT ![r] = [asked EXCEPT !.status = status]]
      BY <1>2, <2>1, <2>2, <2>3 DEF CancelRequested
    <3> QED BY <2>4, <3>1
  <2> QED BY <1>2, <2>1, <2>3, <2>4, <2>5
<1> QED BY <1>1, <1>2

\* mark_terminal: what the runs of rs that have a record become, before pruning.
Marked(recs, rs, status, s) ==
  IF s \in rs /\ recs[s] # Absent THEN [recs[s] EXCEPT !.status = status] ELSE recs[s]

\* mark_terminal prunes finished records, and no others.
LEMMA MarkedRecords ==
  ASSUME NEW recs \in [Runs -> RunRecords], NEW rs \in SUBSET Runs,
         NEW status \in Statuses \ {"absent"}, MarkTerminal(recs, rs, status)
  PROVE  /\ records' \in [Runs -> RunRecords]
         /\ \A s \in Runs :
              \/ records'[s] = Marked(recs, rs, status, s)
              \/ /\ records'[s] = Absent
                 /\ Marked(recs, rs, status, s).status \in TerminalStatuses
<1> DEFINE after == [s \in Runs |-> Marked(recs, rs, status, s)]
<1>1. \A s \in Runs : after[s] \in RunRecords
  BY DEF Marked, RunRecords
<1>2. after \in [Runs -> RunRecords] /\ Absent \in RunRecords
  BY <1>1 DEF Absent, RunRecords, Statuses
<1>3. after = [s \in Runs |-> IF s \in {q \in rs : recs[q] # Absent}
                              THEN [recs[s] EXCEPT !.status = status] ELSE recs[s]]
  BY DEF Marked
<1>4. \A s \in Runs : after[s] = Marked(recs, rs, status, s)
  OBVIOUS
<1>5. CASE {q \in rs : recs[q] # Absent} = {}
  BY <1>5 DEF MarkTerminal, Marked
<1>6. CASE {q \in rs : recs[q] # Absent} # {}
  <2>1. PICK order : records' = Pruned(after, BeyondCap(after, order))
    BY <1>3, <1>6 DEF MarkTerminal
  <2>2. PICK gone \in SUBSET Prunable(after) : records' = Pruned(after, gone)
    BY <2>1 DEF BeyondCap
  <2> HIDE DEF after
  <2>3. records' = [s \in Runs |-> IF s \in gone THEN Absent ELSE after[s]]
    BY <2>2 DEF Pruned
  <2>4. \A s \in gone : after[s].status \in TerminalStatuses
    BY <2>2 DEF Prunable
  <2> QED BY <1>2, <1>4, <2>3, <2>4
<1> QED BY <1>5, <1>6

\* What mark_terminal and the pruning after it may do to the record of another run.
OtherRecords(r) ==
  \A s \in Runs \ {r} :
    records'[s] = records[s] \/ (records'[s] = Absent /\ records[s].status \in TerminalStatuses)

\* A terminal mark changes the record of its run, and may prune finished ones.
LEMMA MarkedOne ==
  ASSUME NEW recs \in [Runs -> RunRecords], NEW r \in Runs,
         \A s \in Runs \ {r} : recs[s] = records[s],
         NEW status \in Statuses \ {"absent"}, MarkTerminal(recs, {r}, status)
  PROVE  /\ records' \in [Runs -> RunRecords] /\ OtherRecords(r)
         /\ records'[r] = Absent \/ (recs[r] # Absent /\ records'[r].status = status)
<1>1. /\ records' \in [Runs -> RunRecords]
      /\ \A s \in Runs : \/ records'[s] = Marked(recs, {r}, status, s)
                         \/ /\ records'[s] = Absent
                            /\ Marked(recs, {r}, status, s).status \in TerminalStatuses
  <2>1. {r} \in SUBSET Runs
    OBVIOUS
  <2> QED BY <2>1, MarkedRecords
<1>2. \A s \in Runs \ {r} : Marked(recs, {r}, status, s) = records[s]
  BY DEF Marked
<1>3. OtherRecords(r)
  BY <1>1, <1>2 DEF OtherRecords
<1>4. \/ recs[r] = Absent /\ Marked(recs, {r}, status, r) = Absent
      \/ recs[r] # Absent /\ Marked(recs, {r}, status, r).status = status
  BY DEF Marked, RunRecords
<1> QED BY <1>1, <1>3, <1>4

\* mark_cancelled_if_running changes the record of its run, and may prune finished ones.
LEMMA CancelledOne ==
  ASSUME NEW recs \in [Runs -> RunRecords], NEW r \in Runs,
         \A s \in Runs \ {r} : recs[s] = records[s],
         MarkCancelledIfRunning(recs, {r})
  PROVE  /\ records' \in [Runs -> RunRecords] /\ OtherRecords(r)
         /\ \/ records'[r] = Absent
            \/ recs[r] # Absent /\ recs[r].status \notin TerminalStatuses
                 /\ records'[r].status = "cancelled"
            \/ recs[r].status \in TerminalStatuses /\ records'[r] = recs[r]
<1>1. "cancelled" \in Statuses \ {"absent"}
  BY DEF Statuses, TerminalStatuses
<1>2. CASE recs[r].status \notin TerminalStatuses
  <2>1. {s \in {r} : recs[s].status \notin TerminalStatuses} = {r}
    BY <1>2
  <2>2. MarkTerminal(recs, {r}, "cancelled")
    BY <2>1 DEF MarkCancelledIfRunning
  <2> QED BY <1>1, <1>2, <2>2, MarkedOne
<1>3. CASE recs[r].status \in TerminalStatuses
  <2>1. {s \in {r} : recs[s].status \notin TerminalStatuses} = {}
    BY <1>3
  <2>2. MarkTerminal(recs, {}, "cancelled")
    BY <2>1 DEF MarkCancelledIfRunning
  <2>3. /\ records' \in [Runs -> RunRecords]
        /\ \A s \in Runs : \/ records'[s] = Marked(recs, {}, "cancelled", s)
                           \/ /\ records'[s] = Absent
                              /\ Marked(recs, {}, "cancelled", s).status \in TerminalStatuses
    <3>1. {} \in SUBSET Runs
      OBVIOUS
    <3> QED BY <1>1, <2>2, <3>1, MarkedRecords
  <2>4. \A s \in Runs : Marked(recs, {}, "cancelled", s) = recs[s]
    BY DEF Marked
  <2>5. OtherRecords(r)
    BY <2>3, <2>4 DEF OtherRecords
  <2> QED BY <1>3, <2>3, <2>4, <2>5
<1> QED BY <1>2, <1>3

\* Going to a place changes nothing else of a turn.
LEMMA GotoTurns ==
  ASSUME turn \in [Runs -> TurnStates], NEW r \in Runs, NEW place \in Places, Goto(r, place)
  PROVE  /\ turn' \in [Runs -> TurnStates] /\ turn'[r].at = place
         /\ turn'[r].transport = turn[r].transport /\ turn'[r].outcome = turn[r].outcome
         /\ \A s \in Runs \ {r} : turn'[s] = turn[s]
<1>1. PICK now \in TurnStates : turn[r] = now
  OBVIOUS
<1>2. /\ [now EXCEPT !.at = place] \in TurnStates /\ [now EXCEPT !.at = place].at = place
      /\ [now EXCEPT !.at = place].transport = now.transport
      /\ [now EXCEPT !.at = place].outcome = now.outcome
  BY DEF TurnStates
<1>3. PICK next \in TurnStates :
        /\ next = [now EXCEPT !.at = place] /\ next.at = place
        /\ next.transport = now.transport /\ next.outcome = now.outcome
  BY <1>2
<1>4. turn' = [turn EXCEPT ![r] = next]
  BY <1>1, <1>3 DEF Goto
<1> QED BY <1>1, <1>3, <1>4

\* The runs a step does not touch, except that it may prune their finished records.
LEMMA OthersKept ==
  ASSUME TurnIInv, NEW s \in Runs, turn'[s] = turn[s],
         \/ records'[s] = records[s]
         \/ records'[s] = Absent /\ records[s].status \in TerminalStatuses,
         s \in cancel_asked => s \in cancel_asked',
         s \in active_tasks => s \in active_tasks', s \in replied' => s \in replied
  PROVE  RunControlled(s)'
<1>1. RunControlled(s) /\ (Live(s)' <=> Live(s)) /\ Absent.status = "absent"
  BY DEF TurnIInv, Live, Absent
<1>2. CASE records'[s] = records[s]
  BY <1>1, <1>2 DEF RunControlled
<1>3. CASE records'[s] = Absent /\ records[s].status \in TerminalStatuses
  BY <1>1, <1>3 DEF RunControlled, TerminalStatuses
<1> QED BY <1>2, <1>3

\* The turns that nobody has asked to cancel are finitely many.
LEMMA UncancelledFinite == IsFiniteSet(Uncancelled) /\ Cardinality(Uncancelled) \in Nat
<1>1. Uncancelled \in SUBSET Runs
  BY DEF Uncancelled
<1> QED BY <1>1, TurnAssumption, FS_Subset, FS_CardinalityType

\* No new turn: no more of them.
LEMMA CapKept ==
  ASSUME CapHolds, \A s \in Runs : Live(s)' /\ s \notin cancel_asked' =>
                                     Live(s) /\ s \notin cancel_asked
  PROVE  CapHolds'
<1>1. Uncancelled' \in SUBSET Uncancelled
  BY DEF Uncancelled
<1>2. Cardinality(Uncancelled') <= Cardinality(Uncancelled) /\ Cardinality(Uncancelled') \in Nat
  BY <1>1, UncancelledFinite, FS_Subset, FS_CardinalityType
<1>3. MaxActiveRuns \in Nat /\ Cardinality(Uncancelled) \in Nat
  BY TurnAssumption, UncancelledFinite
<1> QED BY <1>2, <1>3 DEF CapHolds

\* A step of one run.
LEMMA OneTurns ==
  ASSUME TurnIInv, NEW r \in Runs,
         records' \in [Runs -> RunRecords], OtherRecords(r), turn' \in [Runs -> TurnStates],
         \A s \in Runs \ {r} : turn'[s] = turn[s],
         awaiting' \in Runs \cup {Nobody}, replied' \in SUBSET Runs, cancel_asked \in SUBSET cancel_asked',
         \A s \in Runs \ {r} : s \in active_tasks => s \in active_tasks',
         \A s \in Runs \ {r} : s \in replied' => s \in replied,
         Live(r)' /\ r \notin cancel_asked' => Live(r) /\ r \notin cancel_asked,
         RunControlled(r)'
  PROVE  TurnIInv'
<1>1. ASSUME NEW s \in Runs PROVE RunControlled(s)'
  <2>1. CASE s # r
    BY <2>1, OthersKept DEF OtherRecords
  <2> QED BY <2>1
<1>2. \A s \in Runs : Live(s)' /\ s \notin cancel_asked' => Live(s) /\ s \notin cancel_asked
  BY DEF Live
<1>3. CapHolds'
  BY <1>2, CapKept DEF TurnIInv
<1> QED BY <1>1, <1>3 DEF TurnIInv, TurnTyped

\* A turn ends: its record is gone, or says how it ended.
LEMMA TurnEnds ==
  ASSUME TurnIInv, NEW r \in Runs, Goto(r, "ended"),
         records' \in [Runs -> RunRecords], OtherRecords(r),
         \/ records'[r] = Absent
         \/ /\ Live(r) /\ records'[r].status # "absent"
            /\ turn[r].outcome # "none" =>
                 records'[r].status \in {turn[r].outcome, "cancelled", "absent"},
         UNCHANGED <<awaiting, replied>>, cancel_asked \in SUBSET cancel_asked',
         active_tasks \ {r} \in SUBSET active_tasks'
  PROVE  TurnIInv'
<1>1. TurnTyped /\ RunControlled(r) /\ "ended" \in Places /\ Absent.status = "absent"
  BY DEF TurnIInv, Places, Absent
<1>2. /\ turn' \in [Runs -> TurnStates] /\ turn'[r].at = "ended"
      /\ turn'[r].transport = turn[r].transport /\ turn'[r].outcome = turn[r].outcome
      /\ \A s \in Runs \ {r} : turn'[s] = turn[s]
  BY <1>1, GotoTurns DEF TurnTyped
<1>3. ~Live(r)'
  BY <1>2 DEF Live
<1>4. RunControlled(r)'
  BY <1>1, <1>2, <1>3 DEF RunControlled
<1> QED BY <1>1, <1>2, <1>3, <1>4, OneTurns DEF TurnTyped

\* A live turn goes on to another place, and its record keeps its status.
LEMMA TurnGoes ==
  ASSUME TurnIInv, NEW r \in Runs, Live(r),
         NEW next \in TurnStates, turn' = [turn EXCEPT ![r] = next],
         next.at \in {"streaming", "handing", "closing"}, next.transport = turn[r].transport,
         records' \in [Runs -> RunRecords], \A s \in Runs \ {r} : records'[s] = records[s],
         records'[r].status = records[r].status, records'[r].cancel = records[r].cancel,
         records[r] = Absent => records'[r] = Absent,
         UNCHANGED <<awaiting, replied, cancel_asked, active_tasks>>
  PROVE  TurnIInv'
<1>1. TurnTyped /\ RunControlled(r)
  BY DEF TurnIInv
<1>2. /\ turn' \in [Runs -> TurnStates] /\ turn'[r] = next
      /\ \A s \in Runs \ {r} : turn'[s] = turn[s]
  BY <1>1 DEF TurnTyped
<1>3. Live(r)' /\ OtherRecords(r)
  BY <1>2 DEF Live, OtherRecords
<1>4. RunControlled(r)'
  BY <1>1, <1>2, <1>3 DEF RunControlled, Live
<1> QED BY <1>1, <1>2, <1>3, <1>4, OneTurns DEF TurnTyped

\* The same for a turn of which only the place changes.
LEMMA TurnPlaces ==
  ASSUME TurnIInv, NEW r \in Runs, Live(r),
         NEW place \in {"streaming", "handing", "closing"}, Goto(r, place),
         records' \in [Runs -> RunRecords], \A s \in Runs \ {r} : records'[s] = records[s],
         records'[r].status = records[r].status, records'[r].cancel = records[r].cancel,
         records[r] = Absent => records'[r] = Absent,
         UNCHANGED <<awaiting, replied, cancel_asked, active_tasks>>
  PROVE  TurnIInv'
<1>1. turn \in [Runs -> TurnStates] /\ place \in Places
  BY DEF TurnIInv, TurnTyped, Places
<1>2. /\ turn' \in [Runs -> TurnStates] /\ turn'[r].at = place
      /\ turn'[r].transport = turn[r].transport
  BY <1>1, GotoTurns
<1>3. PICK next \in TurnStates : next = turn'[r]
  BY <1>2
<1>4. turn' = [turn EXCEPT ![r] = next]
  BY <1>1, <1>3 DEF Goto
<1> QED BY <1>2, <1>3, <1>4, TurnGoes

\* Admission: the cap has room for one turn more.
LEMMA AcceptedKeeps ==
  ASSUME TurnIInv, NEW r \in Runs, turn[r].at = "new",
         NEW transport \in Transports, NEW place \in {"created", "streaming"},
         Accepted(r, transport, place), UNCHANGED <<cancel_asked, awaiting, replied>>,
         active_tasks \in SUBSET active_tasks', transport = "websocket" => r \in active_tasks'
  PROVE  TurnIInv'
<1>1. /\ TurnTyped /\ RunControlled(r) /\ HasCapacity /\ records' = Started(records, r)
      /\ turn' = [turn EXCEPT ![r].transport = transport, ![r].at = place]
  BY DEF TurnIInv, Accepted, OnlyRecords
<1>2. PICK now \in TurnStates : turn[r] = now
  BY <1>1 DEF TurnTyped
<1>3. PICK moved \in TurnStates : /\ moved = [now EXCEPT !.transport = transport]
                                  /\ moved.transport = transport /\ moved.outcome = now.outcome
  <2>1. /\ [now EXCEPT !.transport = transport] \in TurnStates
        /\ [now EXCEPT !.transport = transport].transport = transport
        /\ [now EXCEPT !.transport = transport].outcome = now.outcome
    BY DEF TurnStates
  <2> QED BY <2>1
<1>4. PICK next \in TurnStates : /\ next = [moved EXCEPT !.at = place] /\ next.at = place
                                 /\ next.transport = transport /\ next.outcome = now.outcome
  <2>1. /\ [moved EXCEPT !.at = place] \in TurnStates
        /\ [moved EXCEPT !.at = place].at = place
        /\ [moved EXCEPT !.at = place].transport = moved.transport
        /\ [moved EXCEPT !.at = place].outcome = moved.outcome
    BY DEF TurnStates, Places
  <2> QED BY <1>3, <2>1
<1>5. turn' = [turn EXCEPT ![r] = next]
  BY <1>1, <1>2, <1>3, <1>4 DEF TurnTyped
<1>6. /\ turn' \in [Runs -> TurnStates] /\ turn'[r] = next
      /\ \A s \in Runs \ {r} : turn'[s] = turn[s]
  BY <1>1, <1>5 DEF TurnTyped
<1>7. /\ records' \in [Runs -> RunRecords] /\ records'[r].status = "running" /\ ~records'[r].cancel
      /\ \A s \in Runs \ {r} : records'[s] = records[s]
  BY <1>1, StartedRecords DEF TurnTyped
<1>8. turn[r].outcome = "none" /\ r \notin replied /\ ~Live(r)
  BY <1>1 DEF RunControlled, Live
<1>9. RunControlled(r)'
  BY <1>2, <1>4, <1>6, <1>7, <1>8 DEF RunControlled, Live
<1>10. ASSUME NEW s \in Runs PROVE RunControlled(s)'
  <2>1. CASE s # r
    BY <1>6, <1>7, <2>1, OthersKept
  <2> QED BY <1>9, <2>1
<1>11. CapHolds'
  <2>1. Uncancelled' \in SUBSET (Uncancelled \cup {r}) /\ r \notin Uncancelled
    BY <1>6, <1>8 DEF Uncancelled, Live
  <2>2. Uncancelled \in SUBSET ActiveRuns /\ ActiveRuns \in SUBSET Runs
    BY DEF TurnIInv, RunControlled, Uncancelled, ActiveRuns, ActiveStatuses
  <2>3. IsFiniteSet(ActiveRuns) /\ Cardinality(ActiveRuns) \in Nat
    BY <2>2, TurnAssumption, FS_Subset, FS_CardinalityType
  <2>4. Cardinality(Uncancelled) <= Cardinality(ActiveRuns) /\ Cardinality(Uncancelled) \in Nat
    BY <2>2, <2>3, FS_Subset, UncancelledFinite
  <2>5. /\ IsFiniteSet(Uncancelled \cup {r})
        /\ Cardinality(Uncancelled \cup {r}) = Cardinality(Uncancelled) + 1
    BY <2>1, FS_AddElement, UncancelledFinite
  <2>6. /\ Cardinality(Uncancelled') <= Cardinality(Uncancelled \cup {r})
        /\ Cardinality(Uncancelled') \in Nat
    BY <2>1, <2>5, FS_Subset, FS_CardinalityType
  <2> QED BY <1>1, <2>3, <2>4, <2>5, <2>6, TurnAssumption DEF CapHolds, HasCapacity
<1> QED BY <1>1, <1>6, <1>7, <1>10, <1>11 DEF TurnIInv, TurnTyped

\* An event changes the records only by noting a call, and gives a turn only outcomes there are.
LEMMA EventRecords ==
  ASSUME TurnTyped, NEW r \in Runs, NEW kind \in Kinds
  PROVE  /\ RecordsAfter(r, kind) \in [Runs -> RunRecords]
         /\ RecordsAfter(r, kind)[r].status = records[r].status
         /\ RecordsAfter(r, kind)[r].cancel = records[r].cancel
         /\ records[r] = Absent => RecordsAfter(r, kind)[r] = Absent
         /\ \A s \in Runs \ {r} : RecordsAfter(r, kind)[s] = records[s]
         /\ OutcomeAfter(r, kind) \in {"none", "completed", "errored"}
<1>1. OutcomeAfter(r, kind) \in {"none", "completed", "errored"}
  BY DEF OutcomeAfter, TurnTyped, TurnStates
<1>2. CASE kind = "tool_call"
  BY <1>1, <1>2, CallRecords DEF RecordsAfter, TurnTyped
<1>3. CASE kind # "tool_call"
  BY <1>1, <1>3 DEF RecordsAfter, TurnTyped
<1> QED BY <1>2, <1>3

\* An event of an SSE or gateway stream.
LEMMA HttpEventKeeps ==
  ASSUME TurnIInv, NEW r \in Runs, NEW kind \in Kinds, HttpEvent(r, kind)
  PROVE  TurnIInv'
<1>1. TurnTyped /\ Live(r)
  BY DEF TurnIInv, HttpEvent, Live
<1>2. PICK now \in TurnStates : turn[r] = now
  BY <1>1 DEF TurnTyped
<1>3. PICK place \in {"closing", "handing"}, calls \in BOOLEAN,
           outcome \in {"none", "completed", "errored"} :
        turn' = [turn EXCEPT ![r].at = place, ![r].calls = calls, ![r].outcome = outcome]
  <2> DEFINE seen == now.calls \/ kind = "tool_call"
             breaks == now.transport = "sse" /\ records[r].cancel /\ seen
  <2>1. seen \in BOOLEAN /\ now.outcome \in {"none", "completed", "errored"}
    BY DEF TurnStates
  <2>2. OutcomeAfter(r, kind) \in {"none", "completed", "errored"}
    BY <1>1, EventRecords
  <2>3. turn' = [turn EXCEPT ![r].at = IF breaks THEN "closing" ELSE "handing",
                             ![r].calls = seen,
                             ![r].outcome = IF breaks THEN now.outcome ELSE OutcomeAfter(r, kind)]
    BY <1>1, <1>2 DEF HttpEvent, TurnTyped
  <2>4. CASE breaks
    BY <2>1, <2>3, <2>4
  <2>5. CASE ~breaks
    BY <2>1, <2>2, <2>3, <2>5
  <2> QED BY <2>4, <2>5
<1>4. PICK next \in TurnStates : /\ turn' = [turn EXCEPT ![r] = next]
                                 /\ next.at = place /\ next.transport = now.transport
  <2>1. PICK first \in TurnStates : /\ first = [now EXCEPT !.at = place]
                                    /\ first.at = place /\ first.transport = now.transport
    <3>1. /\ [now EXCEPT !.at = place] \in TurnStates /\ [now EXCEPT !.at = place].at = place
          /\ [now EXCEPT !.at = place].transport = now.transport
      BY DEF TurnStates, Places
    <3> QED BY <3>1
  <2>2. PICK second \in TurnStates : /\ second = [first EXCEPT !.calls = calls]
                                     /\ second.at = place /\ second.transport = now.transport
    <3>1. /\ [first EXCEPT !.calls = calls] \in TurnStates
          /\ [first EXCEPT !.calls = calls].at = first.at
          /\ [first EXCEPT !.calls = calls].transport = first.transport
      BY DEF TurnStates
    <3> QED BY <2>1, <3>1
  <2>3. PICK third \in TurnStates : /\ third = [second EXCEPT !.outcome = outcome]
                                    /\ third.at = place /\ third.transport = now.transport
    <3>1. /\ [second EXCEPT !.outcome = outcome] \in TurnStates
          /\ [second EXCEPT !.outcome = outcome].at = second.at
          /\ [second EXCEPT !.outcome = outcome].transport = second.transport
      BY DEF TurnStates
    <3> QED BY <2>2, <3>1
  <2>4. turn' = [turn EXCEPT ![r] = third]
    BY <1>1, <1>2, <1>3, <2>1, <2>2, <2>3 DEF TurnTyped
  <2> QED BY <2>3, <2>4
<1>5. records' = RecordsAfter(r, kind) /\ UNCHANGED <<awaiting, replied, cancel_asked, active_tasks>>
  BY DEF HttpEvent, OnlyRecords, socketVars
<1>6. /\ records' \in [Runs -> RunRecords] /\ records'[r].status = records[r].status
      /\ records'[r].cancel = records[r].cancel
      /\ records[r] = Absent => records'[r] = Absent
      /\ \A s \in Runs \ {r} : records'[s] = records[s]
  BY <1>1, <1>5, EventRecords
<1>7. /\ next.at \in {"streaming", "handing", "closing"} /\ next.transport = turn[r].transport
  BY <1>2, <1>4
<1> QED BY <1>1, <1>4, <1>5, <1>6, <1>7, TurnGoes

\* The finally clause of an SSE or gateway turn records the outcome it has seen.
LEMMA HttpCloseKeeps ==
  ASSUME TurnIInv, NEW r \in Runs, NEW forwarded \in BOOLEAN, HttpClose(r, forwarded)
  PROVE  TurnIInv'
<1>1. TurnTyped /\ Live(r) /\ Goto(r, "ended") /\ UNCHANGED socketVars
  BY DEF TurnIInv, HttpClose, Live
<1>2. PICK recs \in [Runs -> RunRecords] :
        /\ recs = IF forwarded THEN CancelRequested(records, r) ELSE records
        /\ \A s \in Runs \ {r} : recs[s] = records[s]
  BY <1>1, CancelRecords DEF TurnTyped
<1>3. PICK status \in Statuses \ {"absent"} :
        /\ status = FinalStatus(r, forwarded)
        /\ turn[r].outcome # "none" => status = turn[r].outcome
  <2>1. turn[r].outcome \in {"none", "completed", "errored"}
    BY <1>1 DEF TurnTyped, TurnStates
  <2>2. /\ FinalStatus(r, forwarded) \in {"completed", "errored", "cancelled", "interrupted"}
        /\ turn[r].outcome # "none" => FinalStatus(r, forwarded) = turn[r].outcome
    BY <2>1 DEF FinalStatus
  <2> QED BY <2>2 DEF Statuses, TerminalStatuses
<1>4. MarkTerminal(recs, {r}, status)
  BY <1>2, <1>3 DEF HttpClose
<1>5. /\ records' \in [Runs -> RunRecords] /\ OtherRecords(r)
      /\ records'[r] = Absent \/ records'[r].status = status
  BY <1>2, <1>4, MarkedOne
<1>6. cancel_asked \in SUBSET cancel_asked'
  BY DEF HttpClose
<1> QED BY <1>1, <1>3, <1>5, <1>6, TurnEnds DEF socketVars

\* An event of a WebSocket turn: handed on, or, of a cancelled run, the last one.
LEMMA SocketEventKeeps ==
  ASSUME TurnIInv, NEW r \in Runs, NEW kind \in Kinds, SocketEvent(r, kind)
  PROVE  TurnIInv'
<1>1. /\ TurnTyped /\ RunControlled(r) /\ Live(r) /\ Absent.status = "absent"
      /\ UNCHANGED <<cancel_asked, awaiting, replied>>
  BY DEF TurnIInv, SocketEvent, OnSocket, Live, Absent
<1>2. PICK recs \in [Runs -> RunRecords] :
        /\ recs = RecordsAfter(r, kind) /\ recs[r].status = records[r].status
        /\ recs[r].cancel = records[r].cancel /\ (records[r] = Absent => recs[r] = Absent)
        /\ \A s \in Runs \ {r} : recs[s] = records[s]
  <2>1. /\ RecordsAfter(r, kind) \in [Runs -> RunRecords]
        /\ RecordsAfter(r, kind)[r].status = records[r].status
        /\ RecordsAfter(r, kind)[r].cancel = records[r].cancel
        /\ records[r] = Absent => RecordsAfter(r, kind)[r] = Absent
        /\ \A s \in Runs \ {r} : RecordsAfter(r, kind)[s] = records[s]
    BY <1>1, EventRecords
  <2> QED BY <2>1
<1>3. CASE /\ records' = recs /\ UNCHANGED active_tasks
           /\ turn' = [turn EXCEPT ![r].at = "handing", ![r].outcome = OutcomeAfter(r, kind)]
  <2>1. PICK now \in TurnStates : turn[r] = now
    BY <1>1 DEF TurnTyped
  <2>2. PICK outcome \in {"none", "completed", "errored"} : outcome = OutcomeAfter(r, kind)
    BY <1>1, EventRecords
  <2>3. PICK first \in TurnStates : /\ first = [now EXCEPT !.at = "handing"]
                                    /\ first.at = "handing" /\ first.transport = now.transport
    <3>1. /\ [now EXCEPT !.at = "handing"] \in TurnStates
          /\ [now EXCEPT !.at = "handing"].at = "handing"
          /\ [now EXCEPT !.at = "handing"].transport = now.transport
      BY DEF TurnStates, Places
    <3> QED BY <3>1
  <2>4. PICK next \in TurnStates : /\ next = [first EXCEPT !.outcome = outcome]
                                   /\ next.at = "handing" /\ next.transport = now.transport
    <3>1. /\ [first EXCEPT !.outcome = outcome] \in TurnStates
          /\ [first EXCEPT !.outcome = outcome].at = first.at
          /\ [first EXCEPT !.outcome = outcome].transport = first.transport
      BY DEF TurnStates
    <3> QED BY <2>3, <3>1
  <2>5. turn' = [turn EXCEPT ![r] = next]
    BY <1>1, <1>3, <2>1, <2>2, <2>3, <2>4 DEF TurnTyped
  <2>6. next.at \in {"streaming", "handing", "closing"} /\ next.transport = turn[r].transport
    BY <2>1, <2>4
  <2>7. records' = recs /\ UNCHANGED active_tasks
    BY <1>3
  <2> QED BY <1>1, <1>2, <2>5, <2>6, <2>7, TurnGoes
<1>4. CASE records' = recs /\ UNCHANGED active_tasks /\ Goto(r, "closing")
  BY <1>1, <1>2, <1>4, TurnPlaces
<1>5. CASE MarkCancelledIfRunning(recs, {r}) /\ Goto(r, "ended") /\ Forget(r)
  <2>1. /\ records' \in [Runs -> RunRecords] /\ OtherRecords(r)
        /\ \/ records'[r] = Absent
           \/ records'[r].status = "cancelled"
           \/ recs[r].status \in TerminalStatuses /\ records'[r] = recs[r]
    BY <1>2, <1>5, CancelledOne
  <2>2. recs[r].status \in TerminalStatuses => recs[r].status = "cancelled"
    BY <1>1, <1>2 DEF RunControlled, TerminalStatuses
  <2>3. records'[r] = Absent \/ records'[r].status = "cancelled"
    BY <2>1, <2>2
  <2> QED BY <1>1, <1>5, <2>1, <2>3, TurnEnds DEF Forget
<1> QED BY <1>2, <1>3, <1>4, <1>5 DEF SocketEvent, OnlyRecords

\* The task of a WebSocket turn ends, with or without an outcome.
LEMMA SocketStopKeeps ==
  ASSUME TurnIInv, NEW r \in Runs, SocketTurnStops(r) \/ SocketTurnCancelled(r)
  PROVE  TurnIInv'
<1>1. /\ TurnTyped /\ RunControlled(r) /\ Absent.status = "absent"
      /\ Goto(r, "ended") /\ UNCHANGED <<cancel_asked, awaiting, replied>>
      /\ active_tasks \ {r} \in SUBSET active_tasks'
  BY DEF TurnIInv, SocketTurnStops, SocketTurnCancelled, TaskEnds, Forget, Absent
<1>2. turn[r].outcome \in {"none", "completed", "errored"}
  BY <1>1 DEF TurnTyped, TurnStates
<1>3. Live(r) \/ (turn[r].at \in {"new", "rejected"} /\ records[r] = Absent)
  <2>1. turn[r].at \in Places /\ turn[r].at # "ended"
    BY <1>1 DEF TurnTyped, TurnStates, SocketTurnStops, SocketTurnCancelled, OnSocket
  <2> QED BY <1>1, <2>1 DEF Live, Places, RunControlled
<1>4. CASE records' = records /\ turn[r].outcome = "none"
  BY <1>1, <1>3, <1>4, TurnEnds DEF OtherRecords, TurnTyped, RunControlled
<1>5. ASSUME NEW status \in {"completed", "errored", "cancelled"},
             turn[r].outcome # "none" => status = turn[r].outcome,
             MarkTerminal(records, {r}, status)
      PROVE  TurnIInv'
  <2>1. status \in Statuses \ {"absent"}
    BY <1>5 DEF Statuses, TerminalStatuses
  <2>2. /\ records' \in [Runs -> RunRecords] /\ OtherRecords(r)
        /\ records'[r] = Absent \/ (records[r] # Absent /\ records'[r].status = status)
    BY <1>1, <1>5, <2>1, MarkedOne DEF TurnTyped
  <2> QED BY <1>1, <1>3, <1>5, <2>1, <2>2, TurnEnds
<1>6. turn[r].at = "created" => turn[r].outcome = "none"
  BY <1>1 DEF RunControlled
<1>7. CASE SocketTurnStops(r)
  BY <1>2, <1>4, <1>5, <1>7 DEF SocketTurnStops, TaskEnds, OnlyRecords
<1>8. CASE SocketTurnCancelled(r)
  BY <1>2, <1>4, <1>5, <1>6, <1>8 DEF SocketTurnCancelled
<1> QED BY <1>7, <1>8

\* An event has been sent; after the last one of a cancelled run, the task marks it and ends.
LEMMA SocketSentKeeps ==
  ASSUME TurnIInv, NEW r \in Runs, SocketSent(r)
  PROVE  TurnIInv'
<1>1. /\ TurnTyped /\ RunControlled(r) /\ Live(r) /\ Absent.status = "absent"
      /\ UNCHANGED <<cancel_asked, awaiting, replied>>
  BY DEF TurnIInv, SocketSent, OnSocket, Live, Absent
<1>2. CASE Goto(r, "streaming") /\ UNCHANGED <<records, active_tasks>>
  BY <1>1, <1>2, TurnPlaces DEF TurnTyped
<1>3. CASE MarkCancelledIfRunning(records, {r}) /\ Goto(r, "ended") /\ Forget(r)
  <2>1. /\ records' \in [Runs -> RunRecords] /\ OtherRecords(r)
        /\ \/ records'[r] = Absent
           \/ records'[r].status = "cancelled"
           \/ records[r].status \in TerminalStatuses /\ records'[r] = records[r]
    BY <1>1, <1>3, CancelledOne DEF TurnTyped
  <2>2. records[r].status \in TerminalStatuses => records[r].status = "cancelled"
    BY <1>1 DEF RunControlled, TerminalStatuses
  <2>3. records'[r] = Absent \/ records'[r].status = "cancelled"
    BY <2>1, <2>2
  <2> QED BY <1>1, <1>3, <2>1, <2>3, TurnEnds DEF Forget
<1> QED BY <1>2, <1>3 DEF SocketSent

\* A request for cancellation leaves a finished record as it is.
LEMMA AskedRecord ==
  ASSUME TurnIInv, NEW r \in Runs
  PROVE  /\ CancelRequested(records, r) \in [Runs -> RunRecords]
         /\ \A s \in Runs \ {r} : CancelRequested(records, r)[s] = records[s]
         /\ \/ records[r] = Absent /\ CancelRequested(records, r)[r] = Absent
            \/ /\ records[r] # Absent
               /\ CancelRequested(records, r)[r].status =
                    IF records[r].status \in TerminalStatuses THEN records[r].status
                    ELSE "cancel_requested"
BY CancelRecords DEF TurnIInv, TurnTyped

\* Marking a turn's task as cancelled changes nothing else of the turn.
LEMMA TaskCancelled ==
  ASSUME NEW now \in TurnStates
  PROVE  /\ [now EXCEPT !.cancelled = TRUE] \in TurnStates
         /\ [now EXCEPT !.cancelled = TRUE].at = now.at
         /\ [now EXCEPT !.cancelled = TRUE].transport = now.transport
         /\ [now EXCEPT !.cancelled = TRUE].outcome = now.outcome
BY DEF TurnStates

\* A run for which cancellation is requested, and which may then be marked cancelled: its turn
\* goes on.
LEMMA AskedRun ==
  ASSUME TurnIInv, NEW r \in Runs,
         turn'[r].at = turn[r].at, turn'[r].transport = turn[r].transport,
         turn'[r].outcome = turn[r].outcome,
         \/ records'[r] = Absent
         \/ /\ records[r] # Absent
            /\ \/ records'[r].status = "cancelled"
               \/ records'[r].status = IF records[r].status \in TerminalStatuses
                                       THEN records[r].status ELSE "cancel_requested",
         records[r] # Absent => r \in cancel_asked', r \in cancel_asked => r \in cancel_asked',
         r \in active_tasks => r \in active_tasks', r \in replied' => r \in replied
  PROVE  RunControlled(r)' /\ (Live(r)' => Live(r))
                           /\ (Live(r)' /\ r \notin cancel_asked' => r \notin cancel_asked)
<1>1. RunControlled(r) /\ (Live(r)' <=> Live(r)) /\ Absent.status = "absent"
  BY DEF TurnIInv, Live, Absent
<1>2. Live(r) => r \in cancel_asked'
  BY <1>1 DEF RunControlled
<1>3. turn[r].outcome \in {"none", "completed", "errored"}
  BY DEF TurnIInv, TurnTyped, TurnStates
<1> QED BY <1>1, <1>2, <1>3 DEF RunControlled, TerminalStatuses

\* The client is told that a run is cancelled: no live turn of the socket is meant.
LEMMA RepliedKeeps ==
  ASSUME TurnIInv, NEW r \in Runs, turn[r].at # "new", UNCHANGED turn,
         Live(r) => turn[r].transport # "websocket" /\ r \in cancel_asked',
         cancel_asked \in SUBSET cancel_asked', awaiting' \in Runs \cup {Nobody},
         NEW recs \in [Runs -> RunRecords], \A s \in Runs \ {r} : recs[s] = records[s],
         \/ records[r] = Absent /\ recs[r] = Absent
         \/ records[r] # Absent /\ recs[r] = records[r]
         \/ /\ records[r] # Absent
            /\ recs[r].status = IF records[r].status \in TerminalStatuses
                                THEN records[r].status ELSE "cancel_requested",
         CancelReplied(r, recs)
  PROVE  TurnIInv'
<1>1. /\ TurnTyped /\ RunControlled(r) /\ (Live(r)' <=> Live(r)) /\ Absent.status = "absent"
      /\ turn' \in [Runs -> TurnStates] /\ replied' = replied \cup {r}
      /\ active_tasks' = active_tasks \ {r}
  BY DEF TurnIInv, TurnTyped, Live, Absent, CancelReplied, Forget
<1>2. /\ records' \in [Runs -> RunRecords] /\ OtherRecords(r)
      /\ \/ records'[r] = Absent
         \/ recs[r] # Absent /\ recs[r].status \notin TerminalStatuses
              /\ records'[r].status = "cancelled"
         \/ recs[r].status \in TerminalStatuses /\ records'[r] = recs[r]
  BY CancelledOne DEF CancelReplied
<1>3. \/ records'[r] = Absent
      \/ records[r] # Absent /\ records[r].status \notin TerminalStatuses
           /\ records'[r].status = "cancelled"
      \/ records[r] # Absent /\ records[r].status \in TerminalStatuses
           /\ records'[r].status = records[r].status
  BY <1>1, <1>2 DEF TerminalStatuses
<1>4. records'[r].status \in TerminalStatuses \cup {"absent"}
  BY <1>1, <1>3 DEF TerminalStatuses
<1>5. turn[r].outcome \in {"none", "completed", "errored"}
  BY <1>1 DEF TurnTyped, TurnStates
<1>6. RunControlled(r)'
  BY <1>1, <1>3, <1>4, <1>5 DEF RunControlled, TerminalStatuses
<1>7. replied' \in SUBSET Runs
  BY <1>1 DEF TurnTyped
<1>8. Live(r)' /\ r \notin cancel_asked' => Live(r) /\ r \notin cancel_asked
  BY <1>1
<1> QED BY <1>1, <1>2, <1>6, <1>7, <1>8, OneTurns

\* The socket's handler receives a cancel message.
LEMMA CancelMessageKeeps ==
  ASSUME TurnIInv, NEW r \in Runs, CancelMessage(r)
  PROVE  TurnIInv'
<1>1. /\ TurnTyped /\ RunControlled(r) /\ turn[r].at # "new"
      /\ cancel_asked' = cancel_asked \cup {s \in {r} : records[s] # Absent}
  BY DEF TurnIInv, CancelMessage, CancelAsked
<1>2. records[r] # Absent => r \in cancel_asked'
  BY <1>1
<1>3. CASE TaskRunning(r)
  <2>1. /\ records' = CancelRequested(records, r)
        /\ turn' = [turn EXCEPT ![r].cancelled = TRUE]
        /\ awaiting' = r /\ UNCHANGED <<active_tasks, replied>>
    BY <1>3 DEF CancelMessage, OnlyRecords
  <2>2. PICK now \in TurnStates : turn[r] = now
    BY <1>1 DEF TurnTyped
  <2>3. PICK next \in TurnStates :
          /\ turn' = [turn EXCEPT ![r] = next] /\ next.at = now.at
          /\ next.transport = now.transport /\ next.outcome = now.outcome
    BY <2>1, <2>2, TaskCancelled
  <2>4. /\ turn' \in [Runs -> TurnStates] /\ turn'[r] = next
        /\ \A s \in Runs \ {r} : turn'[s] = turn[s]
    BY <1>1, <2>3 DEF TurnTyped
  <2>5. /\ records' \in [Runs -> RunRecords] /\ OtherRecords(r)
        /\ \/ records'[r] = Absent
           \/ /\ records[r] # Absent
              /\ records'[r].status = IF records[r].status \in TerminalStatuses
                                      THEN records[r].status ELSE "cancel_requested"
    BY <2>1, AskedRecord DEF OtherRecords
  <2>6. /\ RunControlled(r)' /\ (Live(r)' => Live(r))
        /\ Live(r)' /\ r \notin cancel_asked' => r \notin cancel_asked
    BY <1>1, <1>2, <2>1, <2>2, <2>3, <2>4, <2>5, AskedRun
  <2> QED BY <1>1, <2>1, <2>4, <2>5, <2>6, OneTurns DEF TurnTyped
<1>4. CASE ~TaskRunning(r)
  <2>1. CancelReplied(r, CancelRequested(records, r)) /\ UNCHANGED <<turn, awaiting>>
    BY <1>4 DEF CancelMessage
  <2>2. Live(r) => turn[r].transport # "websocket" /\ r \in cancel_asked'
    BY <1>1, <1>2, <1>4 DEF RunControlled, TaskRunning, Live, Absent
  <2>3. PICK recs \in [Runs -> RunRecords] :
          /\ recs = CancelRequested(records, r)
          /\ \A s \in Runs \ {r} : recs[s] = records[s]
          /\ \/ records[r] = Absent /\ recs[r] = Absent
             \/ /\ records[r] # Absent
                /\ recs[r].status = IF records[r].status \in TerminalStatuses
                                    THEN records[r].status ELSE "cancel_requested"
    BY AskedRecord
  <2> QED BY <1>1, <2>1, <2>2, <2>3, RepliedKeeps DEF TurnTyped
<1> QED BY <1>3, <1>4

\* The cancelled task has ended, and the client is told.
LEMMA CancelReplyKeeps ==
  ASSUME TurnIInv, CancelReply \/ CancelReplyFails
  PROVE  TurnIInv'
<1>1. PICK r \in Runs : awaiting = r /\ turn[r].at = "ended"
  BY DEF TurnIInv, TurnTyped, CancelReply, CancelReplyFails
<1>2. TurnTyped /\ RunControlled(r) /\ ~Live(r) /\ UNCHANGED <<turn, cancel_asked>> /\ awaiting' = Nobody
  BY <1>1 DEF TurnIInv, Live, CancelReply, CancelReplyFails, registryVars
<1>3. CASE CancelReply
  <2>1. CancelReplied(r, records) /\ records \in [Runs -> RunRecords]
    BY <1>1, <1>2, <1>3 DEF CancelReply, TurnTyped
  <2> QED BY <1>1, <1>2, <2>1, RepliedKeeps
<1>4. CASE CancelReplyFails
  <2>1. UNCHANGED <<records, replied>> /\ active_tasks' = active_tasks \ {r}
    BY <1>1, <1>4 DEF CancelReplyFails, registryVars, Forget
  <2>2. ~Live(r)' /\ OtherRecords(r)
    BY <1>2, <2>1 DEF Live, OtherRecords
  <2>3. RunControlled(r)'
    BY <1>2, <2>1, <2>2 DEF RunControlled
  <2> QED BY <1>2, <2>1, <2>2, <2>3, OneTurns DEF TurnTyped
<1> QED BY <1>3, <1>4

\* The socket is closed: all its turns are cancelled at once.
LEMMA DisconnectKeeps ==
  ASSUME TurnIInv, active_tasks \in SUBSET Runs, Disconnect
  PROVE  TurnIInv'
<1> DEFINE recs == [s \in Runs |-> IF s \in Doomed THEN CancelRequested(records, s)[s]
                                   ELSE records[s]]
           unfinished == {s \in Doomed \cap Runs : recs[s].status \notin TerminalStatuses}
<1>1. TurnTyped /\ UNCHANGED <<awaiting, active_tasks, replied>>
  BY DEF TurnIInv, Disconnect
<1>2. \A s \in Runs : s \in Doomed =>
        /\ recs[s] \in RunRecords
        /\ \/ records[s] = Absent /\ recs[s] = Absent
           \/ /\ records[s] # Absent
              /\ recs[s].status = IF records[s].status \in TerminalStatuses
                                  THEN records[s].status ELSE "cancel_requested"
  BY AskedRecord
<1>3. recs \in [Runs -> RunRecords] /\ \A s \in Runs : s \notin Doomed => recs[s] = records[s]
  BY <1>1, <1>2 DEF TurnTyped
<1>4. "cancelled" \in Statuses \ {"absent"} /\ Absent.status = "absent"
  BY DEF Statuses, TerminalStatuses, Absent
<1>5. ASSUME Doomed \in SUBSET Runs PROVE TurnIInv'
  <2>1. unfinished = {s \in Doomed : recs[s].status \notin TerminalStatuses}
    BY <1>5
  <2>2. MarkTerminal(recs, unfinished, "cancelled")
    BY <2>1 DEF Disconnect, MarkCancelledIfRunning
  <2>3. unfinished \in SUBSET Runs
    OBVIOUS
  <2>4. \A s \in Runs : s \in unfinished <=> s \in Doomed /\ recs[s].status \notin TerminalStatuses
    OBVIOUS
  <2> HIDE DEF recs, unfinished
  <2>5. /\ records' \in [Runs -> RunRecords]
        /\ \A s \in Runs : \/ records'[s] = Marked(recs, unfinished, "cancelled", s)
                           \/ /\ records'[s] = Absent
                              /\ Marked(recs, unfinished, "cancelled", s).status \in TerminalStatuses
    BY <1>3, <1>4, <2>2, <2>3, MarkedRecords
  <2>6. turn' = [s \in Runs |-> IF s \in Doomed THEN [turn[s] EXCEPT !.cancelled = TRUE] ELSE turn[s]]
    BY DEF Disconnect
  <2>7. \A s \in Runs : s \in Doomed =>
          /\ turn'[s] \in TurnStates /\ turn'[s].at = turn[s].at
          /\ turn'[s].transport = turn[s].transport /\ turn'[s].outcome = turn[s].outcome
    BY <1>1, <2>6, TaskCancelled DEF TurnTyped
  <2>8. \A s \in Runs : s \notin Doomed => turn'[s] = turn[s]
    BY <2>6
  <2>9. turn' \in [Runs -> TurnStates]
    BY <1>1, <2>6, <2>7, <2>8 DEF TurnTyped
  <2>10. cancel_asked' = cancel_asked \cup {s \in Doomed : records[s] # Absent}
    BY DEF Disconnect, CancelAsked
  <2>11. ASSUME NEW s \in Runs
         PROVE  /\ RunControlled(s)'
                /\ Live(s)' /\ s \notin cancel_asked' => Live(s) /\ s \notin cancel_asked
    <3>1. CASE s \in Doomed
      <4>1. \/ records'[s] = Absent
            \/ /\ records[s] # Absent
               /\ \/ records'[s].status = "cancelled"
                  \/ records'[s].status = IF records[s].status \in TerminalStatuses
                                          THEN records[s].status ELSE "cancel_requested"
        <5>1. \/ recs[s] = Absent /\ Marked(recs, unfinished, "cancelled", s) = Absent
              \/ /\ recs[s] # Absent /\ s \in unfinished
                 /\ Marked(recs, unfinished, "cancelled", s).status = "cancelled"
              \/ recs[s] # Absent /\ s \notin unfinished
                 /\ Marked(recs, unfinished, "cancelled", s) = recs[s]
          BY <1>3 DEF Marked, RunRecords
        <5> QED BY <1>2, <1>4, <2>5, <3>1, <5>1
      <4>2. records[s] # Absent => s \in cancel_asked'
        BY <2>10, <3>1
      <4> QED BY <1>1, <2>7, <2>10, <3>1, <4>1, <4>2, AskedRun
    <3>2. CASE s \notin Doomed
      <4>1. Marked(recs, unfinished, "cancelled", s) = records[s]
        BY <1>3, <2>4, <3>2 DEF Marked
      <4>2. \/ records'[s] = records[s]
            \/ records'[s] = Absent /\ records[s].status \in TerminalStatuses
        BY <2>5, <4>1
      <4>3. turn'[s] = turn[s] /\ (s \in cancel_asked' <=> s \in cancel_asked)
        BY <2>8, <2>10, <3>2
      <4>4. RunControlled(s)'
        BY <1>1, <4>2, <4>3, OthersKept
      <4> QED BY <4>3, <4>4 DEF Live
    <3> QED BY <3>1, <3>2
  <2>12. CapHolds'
    BY <2>11, CapKept DEF TurnIInv
  <2> QED BY <1>1, <2>5, <2>9, <2>11, <2>12 DEF TurnIInv, TurnTyped
<1>6. Doomed \in SUBSET Runs
  BY DEF Doomed
<1> QED BY <1>5, <1>6

\* cancel_runtime_run
LEMMA AdminCancelKeeps ==
  ASSUME TurnIInv, NEW r \in Runs, NEW forwarded \in BOOLEAN, AdminCancel(r, forwarded)
  PROVE  TurnIInv'
<1>1. /\ TurnTyped /\ UNCHANGED <<turn, awaiting, active_tasks, replied>>
      /\ cancel_asked' = cancel_asked \cup {s \in {r} : records[s] # Absent}
  BY DEF TurnIInv, AdminCancel, CancelAsked, socketVars
<1>2. PICK recs \in [Runs -> RunRecords] :
        /\ recs = CancelRequested(records, r)
        /\ \A s \in Runs \ {r} : recs[s] = records[s]
        /\ \/ records[r] = Absent /\ recs[r] = Absent
           \/ /\ records[r] # Absent
              /\ recs[r].status = IF records[r].status \in TerminalStatuses
                                  THEN records[r].status ELSE "cancel_requested"
  BY AskedRecord
<1>3. /\ records' \in [Runs -> RunRecords] /\ OtherRecords(r)
      /\ \/ records'[r] = Absent
         \/ /\ records[r] # Absent
            /\ \/ records'[r].status = "cancelled"
               \/ records'[r].status = IF records[r].status \in TerminalStatuses
                                       THEN records[r].status ELSE "cancel_requested"
  <2>1. CASE forwarded
    <3>1. MarkTerminal(recs, {r}, "cancelled") /\ "cancelled" \in Statuses \ {"absent"}
      BY <1>2, <2>1 DEF AdminCancel, Statuses, TerminalStatuses
    <3> QED BY <1>2, <3>1, MarkedOne
  <2>2. CASE ~forwarded
    <3>1. records' = recs
      BY <1>2, <2>2 DEF AdminCancel, OnlyRecords
    <3> QED BY <1>2, <3>1 DEF OtherRecords
  <2> QED BY <2>1, <2>2
<1>4. records[r] # Absent => r \in cancel_asked'
  BY <1>1
<1>5. /\ RunControlled(r)' /\ (Live(r)' => Live(r))
      /\ Live(r)' /\ r \notin cancel_asked' => r \notin cancel_asked
  BY <1>1, <1>3, <1>4, AskedRun
<1> QED BY <1>1, <1>3, <1>5, OneTurns DEF TurnTyped

\* A turn that is not admitted leaves no record.
LEMMA RefusedKeeps ==
  ASSUME TurnIInv, NEW r \in Runs, turn[r].at = "new", Refused(r),
         UNCHANGED <<cancel_asked, awaiting, active_tasks, replied>>
  PROVE  TurnIInv'
<1>1. TurnTyped /\ RunControlled(r) /\ "rejected" \in Places /\ records' = records
  BY DEF TurnIInv, Places, Refused
<1>2. /\ turn' \in [Runs -> TurnStates] /\ turn'[r].at = "rejected"
      /\ turn'[r].transport = turn[r].transport /\ turn'[r].outcome = turn[r].outcome
      /\ \A s \in Runs \ {r} : turn'[s] = turn[s]
  BY <1>1, GotoTurns DEF TurnTyped, Refused
<1>3. ~Live(r)' /\ RunControlled(r)' /\ OtherRecords(r)
  BY <1>1, <1>2 DEF Live, RunControlled, OtherRecords
<1> QED BY <1>1, <1>2, <1>3, OneTurns DEF TurnTyped

\* The socket's tasks are those of its turns.
LEMMA TasksOfRuns ==
  ASSUME active_tasks \in SUBSET Runs, [TurnNext]_turnVars
  PROVE  active_tasks' \in SUBSET Runs
<1>1. ASSUME NEW r \in Runs, TurnStep(r) PROVE active_tasks' \in SUBSET active_tasks
  BY <1>1 DEF TurnStep, Begin, HttpTaken, SocketSent, SocketTurnStops, SocketTurnCancelled,
     AbandonResponse, HttpEvent, SocketEvent, HttpClose, TaskEnds, Forget, socketVars
<1>2. ASSUME NEW r \in Runs,
             \/ CancelMessage(r) \/ SubmitSse(r) \/ SubmitGateway(r)
             \/ \E forwarded \in BOOLEAN : AdminCancel(r, forwarded)
      PROVE  active_tasks' \in SUBSET active_tasks
  BY <1>2 DEF CancelMessage, CancelReplied, SubmitSse, SubmitGateway, AdminCancel, Forget,
     socketVars
<1>3. ASSUME NEW r \in Runs, TurnMessage(r) PROVE active_tasks' \in SUBSET (active_tasks \cup {r})
  BY <1>3 DEF TurnMessage
<1>4. CASE CancelReply \/ CancelReplyFails \/ LoseSocket \/ Disconnect \/ UNCHANGED turnVars
  BY <1>4 DEF CancelReply, CancelReplyFails, LoseSocket, Disconnect, CancelReplied, Forget,
     turnVars, socketVars
<1> QED BY <1>1, <1>2, <1>3, <1>4 DEF TurnNext

\* Every step keeps the inductive invariant.
LEMMA TurnIInvStep ==
  TurnIInv /\ active_tasks \in SUBSET Runs /\ [TurnNext]_turnVars => TurnIInv'
<1> SUFFICES ASSUME TurnIInv, active_tasks \in SUBSET Runs, [TurnNext]_turnVars PROVE TurnIInv'
  OBVIOUS
<1>1. TurnTyped /\ \A r \in Runs : RunControlled(r)
  BY DEF TurnIInv
<1>2. ASSUME UNCHANGED <<records, turn, awaiting, active_tasks, cancel_asked, replied>>
      PROVE  TurnIInv'
  BY <1>2 DEF TurnIInv, TurnTyped, RunControlled, Live, CapHolds, Uncancelled
<1>3. ASSUME NEW r \in Runs, Begin(r) \/ HttpTaken(r) PROVE TurnIInv'
  <2>1. Live(r) /\ Goto(r, "streaming") /\ UNCHANGED <<registryVars, socketVars>>
    BY <1>3 DEF Begin, HttpTaken, Live
  <2> QED BY <1>1, <2>1, TurnPlaces DEF registryVars, socketVars, TurnTyped
<1>4. ASSUME NEW r \in Runs, AbandonResponse(r) PROVE TurnIInv'
  <2>1. /\ Live(r) /\ Goto(r, "ended") /\ UNCHANGED <<registryVars, socketVars>>
        /\ turn[r].outcome = "none" /\ OtherRecords(r)
        /\ records[r] = Absent \/ records[r].status # "absent"
    BY <1>1, <1>4 DEF AbandonResponse, Live, RunControlled, OtherRecords, registryVars
  <2> QED BY <1>1, <2>1, TurnEnds DEF registryVars, socketVars, TurnTyped
<1>5. ASSUME NEW r \in Runs, SubmitSse(r) \/ SubmitGateway(r) \/ TurnMessage(r) PROVE TurnIInv'
  <2>1. turn[r].at = "new" /\ UNCHANGED <<cancel_asked, awaiting, replied>>
    BY <1>5 DEF SubmitSse, SubmitGateway, TurnMessage, socketVars
  <2>2. CASE Refused(r) /\ UNCHANGED active_tasks
    BY <2>1, <2>2, RefusedKeeps
  <2>3. CASE "sse" \in Transports /\ Accepted(r, "sse", "created") /\ UNCHANGED active_tasks
    BY <2>1, <2>3, AcceptedKeeps
  <2>4. CASE /\ "gateway" \in Transports /\ Accepted(r, "gateway", "streaming")
             /\ UNCHANGED active_tasks
    BY <2>1, <2>4, AcceptedKeeps
  <2>5. CASE /\ "websocket" \in Transports /\ Accepted(r, "websocket", "created")
             /\ active_tasks' = active_tasks \cup {r}
    BY <2>1, <2>5, AcceptedKeeps
  <2> QED BY <1>5, <2>2, <2>3, <2>4, <2>5 DEF SubmitSse, SubmitGateway, TurnMessage, socketVars
<1>6. CASE UNCHANGED turnVars
  BY <1>2, <1>6 DEF turnVars, registryVars, socketVars
<1>7. CASE LoseSocket
  BY <1>2, <1>7 DEF LoseSocket, registryVars
<1> QED BY <1>3, <1>4, <1>5, <1>6, <1>7, HttpEventKeeps, HttpCloseKeeps, SocketEventKeeps,
           SocketStopKeeps, SocketSentKeeps, CancelMessageKeeps, CancelReplyKeeps, DisconnectKeeps,
           AdminCancelKeeps
        DEF TurnNext, TurnStep

\* For any number of turns over any transports, through cancellations, lost clients and pruning:
\* the cap bounds the turns that run, a turn that reported its outcome keeps it, and a
\* cancellation that was confirmed has happened.
THEOREM TurnsAreControlled == TurnSpec => []TurnsControlled
<1> DEFINE IInv == TurnIInv /\ active_tasks \in SUBSET Runs
<1>1. TurnInit => IInv
  <2> SUFFICES ASSUME TurnInit PROVE IInv
    OBVIOUS
  <2>1. Absent \in RunRecords /\ NewTurn \in TurnStates
    BY DEF Absent, RunRecords, Statuses, NewTurn, TurnStates, Places
  <2>2. TurnTyped
    BY <2>1 DEF TurnInit, TurnTyped
  <2>3. \A r \in Runs : ~Live(r) /\ RunControlled(r)
    BY DEF TurnInit, NewTurn, Absent, Live, RunControlled
  <2>4. Uncancelled = {}
    BY <2>3 DEF Uncancelled
  <2>5. CapHolds
    BY <2>4, FS_EmptySet, TurnAssumption DEF CapHolds
  <2> QED BY <2>2, <2>3, <2>5 DEF TurnIInv, TurnInit
<1>2. IInv /\ [TurnNext]_turnVars => IInv'
  BY TurnIInvStep, TasksOfRuns
<1>3. IInv => TurnsControlled
  BY TurnIInvControls
<1> QED BY <1>1, <1>2, <1>3, PTL DEF TurnSpec

(***************************************************************************)
(* Background jobs.  The properties relate checkpoints, outcomes and node  *)
(* tasks of several executions, so the invariant says which executions may *)
(* still have tasks and what a task at work implies about its node: with   *)
(* the in-memory store a task that is not being cancelled belongs to the   *)
(* current, gathering execution, which is why nothing overwrites the       *)
(* checkpoint of a completed node.                                         *)
(***************************************************************************)

NodePlaces == {"idle", "waiting"} \cup Holding \cup Ended
Working == Holding \cup {"waiting"}
JobRecords ==
  [status : JobStatuses, execution : 0..MaxExecutions,
   at : {"none", "created", "listing", "gathering", "done"}, cancel : BOOLEAN]
Checkpointed == {"none", "running", "completed", "failed"}

JobsTyped ==
  /\ depends_on \in Workloads
  /\ job \in [Jobs -> JobRecords]
  /\ outcomes \in [Jobs -> [Nodes -> OutcomeStatuses]]
  /\ node \in [Jobs -> [Executions -> [Nodes -> [at : NodePlaces, attempts : Nat]]]]
  /\ checkpoints \in [Jobs -> [Nodes -> Checkpointed]]
  /\ late_writes \subseteq Jobs \X Nodes \X Checkpointed
  /\ permits \in Nat /\ max_concurrency \in Nat

\* Where a node task is.
At(j, e, n) == node[j][e][n].at

\* What is known of a job: its task, its graph, which of its executions have been cancelled,
\* and that only a failure cancels nodes.
JobOk(j) ==
  /\ job[j].status = "none" => job[j].at = "none"
  /\ job[j].at = "none" => job[j].execution = 0 /\ job[j].status = "none"
  /\ job[j].at # "none" => job[j].execution \in Executions /\ j \in DOMAIN depends_on
  /\ job[j].status \in {"completed", "failed", "cancelled"} => job[j].at = "done"
  /\ \A e \in Executions : <<j, e>> \in cancelling =>
       e <= job[j].execution /\ (e = job[j].execution => job[j].cancel)
  /\ (\E n \in Nodes : outcomes[j][n] = "cancelled") =>
       \E m \in Nodes : outcomes[j][m] = "failed"
  /\ job[j].status = "completed" => \A n \in GraphOf(j) : outcomes[j][n] = "completed"
  /\ checkpoint_store = "memory" =>
       /\ job[j].at # "listing"
       /\ \A n \in Nodes : outcomes[j][n] = "completed" => checkpoints[j][n] = "completed"

\* A node task at work for the current execution is of a node that has no outcome yet and whose
\* dependencies have been completed.
TaskOk(j, e, n) ==
  /\ e > job[j].execution => At(j, e, n) = "idle"
  /\ (e = job[j].execution /\ job[j].at \in {"none", "created", "listing"}) =>
       At(j, e, n) = "idle"
  /\ At(j, e, n) = "cancelled" => <<j, e>> \in cancelling
  /\ (e = job[j].execution /\ job[j].at = "gathering" /\ At(j, e, n) \in Working) =>
       /\ n \in GraphOf(j)
       /\ outcomes[j][n] \notin {"completed", "failed"}
       /\ \A d \in depends_on[j][n] : outcomes[j][d] = "completed"

\* With the in-memory store: a task that is not being cancelled works for the current
\* execution, and a completed one has left its checkpoint.
MemoryOk(j, e, n) ==
  /\ At(j, e, n) \notin Saving \cup {"raised"}
  /\ (<<j, e>> \notin cancelling /\ At(j, e, n) \in Working) =>
       e = job[j].execution /\ job[j].at = "gathering" /\ ~job[j].cancel
  /\ (e = job[j].execution /\ At(j, e, n) = "completed") => checkpoints[j][n] = "completed"

\* Everything that is known of one job and its tasks.
JobInv(j) ==
  /\ JobOk(j)
  /\ \A e \in Executions, n \in Nodes : TaskOk(j, e, n)
  /\ checkpoint_store = "memory" => \A e \in Executions, n \in Nodes : MemoryOk(j, e, n)

Held == {t \in NodeTasks : PlaceOf(t) \in Holding}

PermitsHeld ==
  /\ IsFiniteSet(Held)
  /\ permits + Cardinality(Held) = max_concurrency
  /\ max_concurrency <= IF PoolSize > MaxConcurrency THEN PoolSize ELSE MaxConcurrency

BackgroundIInv ==
  /\ JobsTyped
  /\ \A j \in Jobs : JobInv(j)
  /\ checkpoint_store = "memory" => late_writes = {}
  /\ PermitsHeld

-----------------------------------------------------------------------------
(* Facts about places and permits.                                         *)

\* The places of node tasks, listed.
LEMMA PlacesOfTasks ==
  /\ Holding = {"starting", "storing", "failing", "handling", "backoff"}
  /\ Saving = {"starting", "storing", "failing"}
  /\ Working = {"starting", "storing", "failing", "handling", "backoff", "waiting"}
  /\ Ended = {"completed", "failed", "raised", "cancelled"}
BY DEF Holding, Saving, Working, Ended

\* A task that moves, between places with a permit and places without one, changes the set of
\* tasks that hold a permit by itself only.
LEMMA HeldAfterMove ==
  ASSUME JobsTyped, PermitsHeld, NEW j \in Jobs, NEW e \in Executions, NEW n \in Nodes,
         \A i \in Jobs, f \in Executions, m \in Nodes :
           <<i, f, m>> # <<j, e, n>> => At(i, f, m)' = At(i, f, m),
         max_concurrency' = max_concurrency,
         \/ permits' = permits /\ (At(j, e, n)' \in Holding <=> At(j, e, n) \in Holding)
         \/ permits' = permits + 1 /\ At(j, e, n) \in Holding /\ At(j, e, n)' \notin Holding
         \/ /\ permits > 0 /\ permits' = permits - 1
            /\ At(j, e, n) \notin Holding /\ At(j, e, n)' \in Holding
  PROVE  PermitsHeld' /\ permits' \in Nat
<1> DEFINE t == <<j, e, n>>
<1>1. t \in NodeTasks /\ PlaceOf(t) = At(j, e, n) /\ PlaceOf(t)' = At(j, e, n)'
  BY DEF NodeTasks, PlaceOf, At
<1>2. \A u \in NodeTasks : u # t => PlaceOf(u)' = PlaceOf(u)
  <2> SUFFICES ASSUME NEW u \in NodeTasks, u # t PROVE PlaceOf(u)' = PlaceOf(u)
    OBVIOUS
  <2>1. u[1] \in Jobs /\ u[2] \in Executions /\ u[3] \in Nodes /\ u = <<u[1], u[2], u[3]>>
    BY DEF NodeTasks
  <2> QED BY <2>1 DEF PlaceOf, At
<1> HIDE DEF t
<1>3. IsFiniteSet(Held) /\ Cardinality(Held) \in Nat
  BY FS_CardinalityType DEF PermitsHeld
<1>4. CASE At(j, e, n)' \in Holding <=> At(j, e, n) \in Holding
  <2>1. Held' = Held
    BY <1>1, <1>2, <1>4 DEF Held, NodeTasks
  <2>2. permits' = permits
    BY <1>4
  <2> QED BY <2>1, <2>2 DEF PermitsHeld, JobsTyped
<1>5. CASE At(j, e, n) \in Holding /\ At(j, e, n)' \notin Holding
  <2>1. Held' = Held \ {t} /\ t \in Held
    BY <1>1, <1>2, <1>5 DEF Held, NodeTasks
  <2>2. IsFiniteSet(Held') /\ Cardinality(Held') = Cardinality(Held) - 1
    BY <1>3, <2>1, FS_RemoveElement
  <2>3. permits' = permits + 1
    BY <1>5
  <2> QED BY <1>3, <2>2, <2>3 DEF PermitsHeld, JobsTyped
<1>6. CASE At(j, e, n) \notin Holding /\ At(j, e, n)' \in Holding
  <2>1. Held' = Held \cup {t} /\ t \notin Held
    BY <1>1, <1>2, <1>6 DEF Held, NodeTasks
  <2>2. IsFiniteSet(Held') /\ Cardinality(Held') = Cardinality(Held) + 1
    BY <1>3, <2>1, FS_AddElement
  <2>3. permits > 0 /\ permits' = permits - 1
    BY <1>6
  <2> QED BY <1>3, <2>2, <2>3 DEF PermitsHeld, JobsTyped
<1> QED BY <1>4, <1>5, <1>6

\* Steps that leave all places alone keep the permits exact.
LEMMA HeldUnmoved ==
  ASSUME PermitsHeld, UNCHANGED <<permits, max_concurrency>>,
         \A i \in Jobs, f \in Executions, m \in Nodes :
           At(i, f, m)' \in Holding <=> At(i, f, m) \in Holding
  PROVE  PermitsHeld'
<1>1. \A u \in NodeTasks : PlaceOf(u)' \in Holding <=> PlaceOf(u) \in Holding
  <2> SUFFICES ASSUME NEW u \in NodeTasks PROVE PlaceOf(u)' \in Holding <=> PlaceOf(u) \in Holding
    OBVIOUS
  <2>1. u[1] \in Jobs /\ u[2] \in Executions /\ u[3] \in Nodes
    BY DEF NodeTasks
  <2> QED BY <2>1 DEF PlaceOf, At
<1>2. Held' = Held
  BY <1>1 DEF Held, NodeTasks
<1> QED BY <1>2 DEF PermitsHeld

-----------------------------------------------------------------------------
(* Steps of node tasks.                                                    *)

\* A task that has not been cancelled goes on, and writes at most its own node's checkpoint.
LEMMA TaskMoves ==
  ASSUME JobsTyped, \A i \in Jobs : JobInv(i),
         NEW j \in Jobs, NEW e \in Executions, NEW n \in Nodes,
         UNCHANGED <<given, jobVars>>,
         \A i \in Jobs, f \in Executions, m \in Nodes :
           <<i, f, m>> # <<j, e, n>> => At(i, f, m)' = At(i, f, m),
         \A i \in Jobs, m \in Nodes :
           <<i, m>> # <<j, n>> => checkpoints'[i][m] = checkpoints[i][m],
         <<j, e>> \notin cancelling, At(j, e, n) \in Working,
         At(j, e, n)' \in Holding \cup {"completed", "failed", "raised"},
         checkpoint_store = "memory" =>
           /\ At(j, e, n)' \notin Saving \cup {"raised"}
           /\ At(j, e, n)' = "completed" => checkpoints'[j][n] = "completed"
  PROVE  \A i \in Jobs : JobInv(i)'
<1> SUFFICES ASSUME NEW i \in Jobs PROVE JobInv(i)'
  OBVIOUS
<1>1. UNCHANGED <<depends_on, checkpoint_store, job, outcomes, cancelling>>
  BY DEF given, jobVars
<1>2. JobInv(i) /\ JobInv(j)
  OBVIOUS
<1>3. checkpoint_store = "memory" =>
        e = job[j].execution /\ job[j].at = "gathering" /\ outcomes[j][n] \notin {"completed", "failed"}
  BY <1>2 DEF JobInv, MemoryOk, TaskOk
<1>4. JobOk(i)'
  BY <1>1, <1>2, <1>3 DEF JobInv, JobOk, GraphOf
<1>5. ASSUME NEW f \in Executions, NEW m \in Nodes PROVE TaskOk(i, f, m)'
  <2>1. TaskOk(i, f, m)
    BY <1>2 DEF JobInv
  <2>2. CASE <<i, f, m>> # <<j, e, n>>
    <3>1. At(i, f, m)' = At(i, f, m)
      BY <2>2
    <3> QED BY <1>1, <2>1, <3>1 DEF TaskOk, GraphOf
  <2>3. CASE i = j /\ f = e /\ m = n
    <3>1. At(i, f, m) \in Working /\ At(i, f, m)' \in Holding \cup {"completed", "failed", "raised"}
      BY <2>3
    <3>2. At(i, f, m) # "idle" /\ At(i, f, m)' # "cancelled"
      BY <3>1, PlacesOfTasks
    <3> QED BY <1>1, <2>1, <3>1, <3>2 DEF TaskOk, GraphOf
  <2> QED BY <2>2, <2>3
<1>6. ASSUME NEW f \in Executions, NEW m \in Nodes, checkpoint_store = "memory" PROVE MemoryOk(i, f, m)'
  <2>1. MemoryOk(i, f, m) /\ MemoryOk(j, e, n)
    BY <1>2, <1>6 DEF JobInv
  <2>2. CASE <<i, f, m>> # <<j, e, n>>
    <3>1. At(i, f, m)' = At(i, f, m)
      BY <2>2
    <3>2. (f = job[i].execution /\ At(i, f, m) = "completed") => checkpoints'[i][m] = checkpoints[i][m]
      BY <1>3, <1>6, <2>2
    <3> QED BY <1>1, <2>1, <3>1, <3>2 DEF MemoryOk
  <2>3. CASE i = j /\ f = e /\ m = n
    BY <1>1, <1>6, <2>1, <2>3 DEF MemoryOk
  <2> QED BY <2>2, <2>3
<1> QED BY <1>1, <1>4, <1>5, <1>6 DEF JobInv

\* A task ends because its execution has been cancelled.
LEMMA NodeTaskCancelled ==
  ASSUME JobsTyped, \A i \in Jobs : JobInv(i),
         NEW j \in Jobs, NEW e \in Executions, NEW n \in Nodes,
         UNCHANGED <<given, jobVars, checkpoints>>,
         \A i \in Jobs, f \in Executions, m \in Nodes :
           <<i, f, m>> # <<j, e, n>> => At(i, f, m)' = At(i, f, m),
         <<j, e>> \in cancelling, At(j, e, n) \in Working, At(j, e, n)' = "cancelled"
  PROVE  \A i \in Jobs : JobInv(i)'
<1> SUFFICES ASSUME NEW i \in Jobs PROVE JobInv(i)'
  OBVIOUS
<1>1. UNCHANGED <<depends_on, checkpoint_store, job, outcomes, cancelling, checkpoints>>
  BY DEF given, jobVars
<1>2. JobInv(i)
  OBVIOUS
<1>3. JobOk(i)'
  BY <1>1, <1>2 DEF JobInv, JobOk, GraphOf
<1>4. ASSUME NEW f \in Executions, NEW m \in Nodes PROVE TaskOk(i, f, m)'
  <2>1. TaskOk(i, f, m)
    BY <1>2 DEF JobInv
  <2>2. CASE <<i, f, m>> # <<j, e, n>>
    <3>1. At(i, f, m)' = At(i, f, m)
      BY <2>2
    <3> QED BY <1>1, <2>1, <3>1 DEF TaskOk, GraphOf
  <2>3. CASE i = j /\ f = e /\ m = n
    <3>1. At(i, f, m) # "idle" /\ At(i, f, m)' \notin Working /\ At(i, f, m)' = "cancelled"
      BY <2>3, PlacesOfTasks
    <3> QED BY <1>1, <2>1, <2>3, <3>1 DEF TaskOk, GraphOf
  <2> QED BY <2>2, <2>3
<1>5. ASSUME NEW f \in Executions, NEW m \in Nodes, checkpoint_store = "memory" PROVE MemoryOk(i, f, m)'
  <2>1. MemoryOk(i, f, m)
    BY <1>2, <1>5 DEF JobInv
  <2>2. CASE <<i, f, m>> # <<j, e, n>>
    <3>1. At(i, f, m)' = At(i, f, m)
      BY <2>2
    <3> QED BY <1>1, <2>1, <3>1 DEF MemoryOk
  <2>3. CASE i = j /\ f = e /\ m = n
    BY <1>1, <2>1, <2>3, PlacesOfTasks DEF MemoryOk
  <2> QED BY <2>2, <2>3
<1> QED BY <1>1, <1>3, <1>4, <1>5 DEF JobInv

TaskStates == [at : NodePlaces, attempts : Nat]

\* One entry of the table of node tasks is replaced.
LEMMA NodeSet ==
  ASSUME JobsTyped, NEW j \in Jobs, NEW e \in Executions, NEW n \in Nodes, NEW p \in NodePlaces,
         \/ node' = [node EXCEPT ![j][e][n].at = p]
         \/ \E a \in Nat : node' = [node EXCEPT ![j][e][n] = [at |-> p, attempts |-> a]]
  PROVE  /\ node' \in [Jobs -> [Executions -> [Nodes -> TaskStates]]]
         /\ At(j, e, n)' = p
         /\ \A i \in Jobs, f \in Executions, m \in Nodes :
              <<i, f, m>> # <<j, e, n>> => At(i, f, m)' = At(i, f, m)
<1>1. node \in [Jobs -> [Executions -> [Nodes -> TaskStates]]]
  BY DEF JobsTyped, TaskStates
<1>2. node[j] \in [Executions -> [Nodes -> TaskStates]]
  BY <1>1
<1>3. node[j][e] \in [Nodes -> TaskStates]
  BY <1>2
<1>4. node[j][e][n] \in TaskStates
  BY <1>3
<1>5. [node[j][e][n] EXCEPT !.at = p] \in TaskStates /\ [node[j][e][n] EXCEPT !.at = p].at = p
  BY <1>4 DEF TaskStates
<1>6. \A a \in Nat : [at |-> p, attempts |-> a] \in TaskStates /\ [at |-> p, attempts |-> a].at = p
  BY DEF TaskStates
<1>7. PICK x \in TaskStates : x.at = p /\ node' = [node EXCEPT ![j][e][n] = x]
  BY <1>5, <1>6
<1>8. PICK tasks \in [Nodes -> TaskStates] : tasks = [node[j][e] EXCEPT ![n] = x]
  BY <1>3
<1>9. PICK row \in [Executions -> [Nodes -> TaskStates]] : row = [node[j] EXCEPT ![e] = tasks]
  BY <1>2
<1>10. node' = [node EXCEPT ![j] = row]
  BY <1>7, <1>8, <1>9
<1>11. node' \in [Jobs -> [Executions -> [Nodes -> TaskStates]]] /\ node'[j] = row
       /\ \A i \in Jobs : i # j => node'[i] = node[i]
  BY <1>1, <1>10
<1>12. row[e] = tasks /\ \A f \in Executions : f # e => row[f] = node[j][f]
  BY <1>2, <1>9
<1>13. tasks[n] = x /\ \A m \in Nodes : m # n => tasks[m] = node[j][e][m]
  BY <1>3, <1>8
<1>14. At(j, e, n)' = p
  BY <1>7, <1>11, <1>12, <1>13 DEF At
<1>15. ASSUME NEW i \in Jobs, NEW f \in Executions, NEW m \in Nodes, <<i, f, m>> # <<j, e, n>>
       PROVE  At(i, f, m)' = At(i, f, m)
  <2>1. CASE i # j
    BY <1>11, <2>1 DEF At
  <2>2. CASE i = j /\ f # e
    BY <1>11, <1>12, <2>2 DEF At
  <2>3. CASE i = j /\ f = e /\ m # n
    BY <1>11, <1>12, <1>13, <2>3 DEF At
  <2> QED BY <1>15, <2>1, <2>2, <2>3
<1> QED BY <1>11, <1>14, <1>15

\* One checkpoint is written.
LEMMA CheckpointSet ==
  ASSUME JobsTyped, NEW j \in Jobs, NEW n \in Nodes, NEW s \in Checkpointed, Writes(j, n, s)
  PROVE  /\ checkpoints' \in [Jobs -> [Nodes -> Checkpointed]]
         /\ checkpoints'[j][n] = s
         /\ \A i \in Jobs, m \in Nodes :
              <<i, m>> # <<j, n>> => checkpoints'[i][m] = checkpoints[i][m]
<1>1. checkpoints \in [Jobs -> [Nodes -> Checkpointed]] /\ checkpoints[j] \in [Nodes -> Checkpointed]
  BY DEF JobsTyped
<1>2. PICK row \in [Nodes -> Checkpointed] : row = [checkpoints[j] EXCEPT ![n] = s]
  BY <1>1
<1>3. checkpoints' = [checkpoints EXCEPT ![j] = row]
  BY <1>2 DEF Writes
<1>4. row[n] = s /\ \A m \in Nodes : m # n => row[m] = checkpoints[j][m]
  BY <1>1, <1>2
<1>5. checkpoints' \in [Jobs -> [Nodes -> Checkpointed]] /\ checkpoints'[j] = row
      /\ \A i \in Jobs : i # j => checkpoints'[i] = checkpoints[i]
  BY <1>1, <1>3
<1> QED BY <1>4, <1>5

\* A task that has not been cancelled goes on with its permit, takes one or gives it back.
LEMMA TaskSteps ==
  ASSUME BackgroundIInv, NEW j \in Jobs, NEW e \in Executions, NEW n \in Nodes,
         NEW p \in Holding \cup {"completed", "failed", "raised"},
         \/ node' = [node EXCEPT ![j][e][n].at = p]
         \/ \E a \in Nat : node' = [node EXCEPT ![j][e][n] = [at |-> p, attempts |-> a]],
         Alive(j, e), At(j, e, n) \in Working,
         UNCHANGED <<given, jobVars, late_writes, scalerVars>>,
         checkpoints' = checkpoints \/ \E s \in Checkpointed : Writes(j, n, s),
         checkpoint_store = "memory" =>
           /\ p \notin Saving \cup {"raised"}
           /\ p = "completed" => Writes(j, n, "completed"),
         \/ permits' = permits /\ p \in Holding /\ At(j, e, n) \in Holding
         \/ permits' = permits + 1 /\ At(j, e, n) \in Holding /\ p \notin Holding
         \/ permits > 0 /\ permits' = permits - 1 /\ At(j, e, n) \notin Holding /\ p \in Holding
  PROVE  BackgroundIInv'
<1>1. JobsTyped /\ PermitsHeld /\ (\A i \in Jobs : JobInv(i))
  BY DEF BackgroundIInv
<1>2. p \in NodePlaces
  BY DEF NodePlaces, Holding, Saving, Ended
<1>3. /\ node' \in [Jobs -> [Executions -> [Nodes -> TaskStates]]]
      /\ At(j, e, n)' = p
      /\ \A i \in Jobs, f \in Executions, m \in Nodes :
           <<i, f, m>> # <<j, e, n>> => At(i, f, m)' = At(i, f, m)
  BY <1>1, <1>2, NodeSet
<1>4. /\ checkpoints' \in [Jobs -> [Nodes -> Checkpointed]]
      /\ \A i \in Jobs, m \in Nodes :
           <<i, m>> # <<j, n>> => checkpoints'[i][m] = checkpoints[i][m]
  <2>1. CASE checkpoints' = checkpoints
    BY <1>1, <2>1 DEF JobsTyped
  <2>2. CASE \E s \in Checkpointed : Writes(j, n, s)
    BY <1>1, <2>2, CheckpointSet
  <2> QED BY <2>1, <2>2
<1>5. checkpoint_store = "memory" /\ p = "completed" => checkpoints'[j][n] = "completed"
  <2>1. "completed" \in Checkpointed
    BY DEF Checkpointed
  <2> QED BY <1>1, <2>1, CheckpointSet
<1>6. \A i \in Jobs : JobInv(i)'
  BY <1>1, <1>3, <1>4, <1>5, TaskMoves DEF Alive
<1>7. PermitsHeld' /\ permits' \in Nat
  <2>1. max_concurrency' = max_concurrency
    BY DEF scalerVars
  <2>2. \/ permits' = permits /\ (At(j, e, n)' \in Holding <=> At(j, e, n) \in Holding)
        \/ permits' = permits + 1 /\ At(j, e, n) \in Holding /\ At(j, e, n)' \notin Holding
        \/ /\ permits > 0 /\ permits' = permits - 1
           /\ At(j, e, n) \notin Holding /\ At(j, e, n)' \in Holding
    BY <1>3
  <2> QED BY <1>1, <1>3, <2>1, <2>2, HeldAfterMove
<1>8. UNCHANGED <<depends_on, checkpoint_store, job, outcomes, late_writes, max_concurrency>>
  BY DEF given, jobVars, scalerVars
<1>9. JobsTyped'
  BY <1>1, <1>3, <1>4, <1>7, <1>8 DEF JobsTyped, TaskStates
<1> QED BY <1>6, <1>7, <1>8, <1>9 DEF BackgroundIInv

\* A failed attempt is retried, or the node fails.
LEMMA AttemptFailsStep ==
  ASSUME BackgroundIInv, NEW j \in Jobs, NEW e \in Executions, NEW n \in Nodes,
         At(j, e, n) \in Holding, Alive(j, e), AttemptFails(j, e, n),
         UNCHANGED <<given, jobVars, late_writes, scalerVars>>
  PROVE  BackgroundIInv'
<1>1. At(j, e, n) \in Working /\ node[j][e][n].attempts \in Nat
  BY DEF Working, BackgroundIInv, JobsTyped
<1>2. CASE node[j][e][n].attempts <= RetryLimit[n]
  <2>1. /\ \E a \in Nat : node' = [node EXCEPT ![j][e][n] = [at |-> "backoff", attempts |-> a]]
        /\ UNCHANGED <<permits, checkpoints>>
    BY <1>1, <1>2 DEF AttemptFails, Goes
  <2>2. "backoff" \in Holding /\ "backoff" \notin Saving \cup {"raised"}
    BY PlacesOfTasks
  <2> QED BY <1>1, <2>1, <2>2, TaskSteps
<1>3. CASE ~(node[j][e][n].attempts <= RetryLimit[n]) /\ checkpoint_store = "memory"
  <2>1. /\ node' = [node EXCEPT ![j][e][n].at = "failed"] /\ permits' = permits + 1
        /\ Writes(j, n, "failed")
    BY <1>3 DEF AttemptFails, Leaves
  <2>2. "failed" \notin Holding /\ "failed" \notin Saving \cup {"raised"} /\ "failed" \in Checkpointed
    BY PlacesOfTasks DEF Checkpointed
  <2> QED BY <1>1, <2>1, <2>2, TaskSteps
<1>4. CASE ~(node[j][e][n].attempts <= RetryLimit[n]) /\ checkpoint_store # "memory"
  <2>1. /\ \E a \in Nat : node' = [node EXCEPT ![j][e][n] = [at |-> "failing", attempts |-> a]]
        /\ UNCHANGED <<permits, checkpoints>>
    BY <1>1, <1>4 DEF AttemptFails, Goes
  <2>2. "failing" \in Holding
    BY PlacesOfTasks
  <2> QED BY <1>1, <1>4, <2>1, <2>2, TaskSteps
<1> QED BY <1>2, <1>3, <1>4

\* A waiting task gets a permit.
LEMMA AcquireStep ==
  ASSUME BackgroundIInv, NEW j \in Jobs, NEW e \in Executions, NEW n \in Nodes, NodeAcquire(j, e, n)
  PROVE  BackgroundIInv'
<1>1. /\ At(j, e, n) \in Working /\ At(j, e, n) \notin Holding /\ Alive(j, e)
      /\ permits > 0 /\ permits' = permits - 1
      /\ UNCHANGED <<given, jobVars, late_writes, scalerVars>>
  BY PlacesOfTasks DEF NodeAcquire, At
<1>2. CASE checkpoint_store = "memory"
  <2>1. /\ \E a \in Nat : node' = [node EXCEPT ![j][e][n] = [at |-> "handling", attempts |-> a]]
        /\ Writes(j, n, "running")
    BY <1>2 DEF NodeAcquire
  <2>2. /\ "handling" \in Holding /\ "handling" \notin Saving \cup {"raised"}
        /\ "running" \in Checkpointed
    BY PlacesOfTasks DEF Checkpointed
  <2> QED BY <1>1, <2>1, <2>2, TaskSteps
<1>3. CASE checkpoint_store # "memory"
  <2>1. node' = [node EXCEPT ![j][e][n].at = "starting"] /\ UNCHANGED checkpoints
    BY <1>3 DEF NodeAcquire
  <2>2. "starting" \in Holding
    BY PlacesOfTasks
  <2> QED BY <1>1, <1>3, <2>1, <2>2, TaskSteps
<1> QED BY <1>2, <1>3

\* The handler answers.
LEMMA OkStep ==
  ASSUME BackgroundIInv, NEW j \in Jobs, NEW e \in Executions, NEW n \in Nodes, NodeOk(j, e, n)
  PROVE  BackgroundIInv'
<1>1. /\ At(j, e, n) \in Working /\ At(j, e, n) \in Holding /\ Alive(j, e)
      /\ UNCHANGED <<given, jobVars, late_writes, scalerVars>>
      /\ node[j][e][n].attempts \in Nat
  BY PlacesOfTasks DEF NodeOk, At, BackgroundIInv, JobsTyped
<1>2. CASE checkpoint_store = "memory"
  <2>1. /\ node' = [node EXCEPT ![j][e][n].at = "completed"] /\ permits' = permits + 1
        /\ Writes(j, n, "completed")
    BY <1>2 DEF NodeOk, Leaves
  <2>2. /\ "completed" \notin Holding /\ "completed" \notin Saving \cup {"raised"}
        /\ "completed" \in Checkpointed
    BY PlacesOfTasks DEF Checkpointed
  <2> QED BY <1>1, <2>1, <2>2, TaskSteps
<1>3. CASE checkpoint_store # "memory"
  <2>1. /\ \E a \in Nat : node' = [node EXCEPT ![j][e][n] = [at |-> "storing", attempts |-> a]]
        /\ UNCHANGED <<permits, checkpoints>>
    BY <1>1, <1>3 DEF NodeOk, Goes
  <2>2. "storing" \in Holding
    BY PlacesOfTasks
  <2> QED BY <1>1, <1>3, <2>1, <2>2, TaskSteps
<1> QED BY <1>2, <1>3

\* The next attempt starts.
LEMMA RetryStep ==
  ASSUME BackgroundIInv, NEW j \in Jobs, NEW e \in Executions, NEW n \in Nodes, NodeRetry(j, e, n)
  PROVE  BackgroundIInv'
<1>1. /\ At(j, e, n) \in Working /\ At(j, e, n) \in Holding /\ Alive(j, e)
      /\ UNCHANGED <<given, jobVars, late_writes, scalerVars, permits, checkpoints>>
      /\ node[j][e][n].attempts + 1 \in Nat
  BY PlacesOfTasks DEF NodeRetry, Goes, At, BackgroundIInv, JobsTyped
<1>2. \E a \in Nat : node' = [node EXCEPT ![j][e][n] = [at |-> "handling", attempts |-> a]]
  BY <1>1 DEF NodeRetry, Goes
<1>3. "handling" \in Holding /\ "handling" \notin Saving \cup {"raised"}
  BY PlacesOfTasks
<1> QED BY <1>1, <1>2, <1>3, TaskSteps

\* Only the SQLite store has tasks that save across an await.
LEMMA SavingIsSqlite ==
  ASSUME BackgroundIInv, NEW j \in Jobs, NEW e \in Executions, NEW n \in Nodes,
         At(j, e, n) \in Saving
  PROVE  checkpoint_store # "memory"
BY DEF BackgroundIInv, JobInv, MemoryOk

\* A save that the task awaits returns.
LEMMA SavedStep ==
  ASSUME BackgroundIInv, NEW j \in Jobs, NEW e \in Executions, NEW n \in Nodes, NodeSaved(j, e, n)
  PROVE  BackgroundIInv'
<1>1. /\ At(j, e, n) \in Working /\ At(j, e, n) \in Holding /\ Alive(j, e)
      /\ At(j, e, n) \in Saving
      /\ UNCHANGED <<given, jobVars, late_writes, scalerVars>>
  BY PlacesOfTasks DEF NodeSaved, At
<1>2. checkpoint_store # "memory"
  BY <1>1, SavingIsSqlite
<1>3. PICK s \in {"running", "completed", "failed"} : s = Written(At(j, e, n))
  BY <1>1, PlacesOfTasks DEF Written
<1>4. Writes(j, n, s) /\ s \in Checkpointed
  BY <1>3 DEF NodeSaved, At, Checkpointed
<1>5. CASE At(j, e, n) = "starting"
  <2>1. \E a \in Nat : node' = [node EXCEPT ![j][e][n] = [at |-> "handling", attempts |-> a]]
        /\ UNCHANGED permits
    BY <1>5 DEF NodeSaved, Goes, At
  <2>2. "handling" \in Holding
    BY PlacesOfTasks
  <2> QED BY <1>1, <1>2, <1>4, <2>1, <2>2, TaskSteps
<1>6. CASE At(j, e, n) # "starting"
  <2>1. s \in {"completed", "failed"}
    BY <1>1, <1>3, <1>6, PlacesOfTasks DEF Written
  <2>2. node' = [node EXCEPT ![j][e][n].at = s] /\ permits' = permits + 1
    BY <1>3, <1>6 DEF NodeSaved, Leaves, At
  <2>3. s \notin Holding
    BY <2>1, PlacesOfTasks
  <2> QED BY <1>1, <1>2, <1>4, <2>1, <2>2, <2>3, TaskSteps
<1> QED BY <1>5, <1>6

\* A save that the task awaits raises.
LEMMA SaveFailsStep ==
  ASSUME BackgroundIInv, NEW j \in Jobs, NEW e \in Executions, NEW n \in Nodes,
         NodeSaveFails(j, e, n)
  PROVE  BackgroundIInv'
<1>1. /\ At(j, e, n) \in Working /\ At(j, e, n) \in Holding /\ Alive(j, e)
      /\ At(j, e, n) \in Saving
      /\ UNCHANGED <<given, jobVars, late_writes, scalerVars>>
  BY PlacesOfTasks DEF NodeSaveFails, At
<1>2. CASE At(j, e, n) = "storing"
  <2>1. AttemptFails(j, e, n)
    BY <1>2 DEF NodeSaveFails, At
  <2> QED BY <1>1, <2>1, AttemptFailsStep
<1>3. CASE At(j, e, n) # "storing"
  <2>1. checkpoint_store # "memory"
    BY <1>1, SavingIsSqlite
  <2>2. node' = [node EXCEPT ![j][e][n].at = "raised"] /\ permits' = permits + 1
        /\ UNCHANGED checkpoints
    BY <1>3 DEF NodeSaveFails, Leaves, At
  <2>3. "raised" \notin Holding
    BY PlacesOfTasks
  <2> QED BY <1>1, <2>1, <2>2, <2>3, TaskSteps
<1> QED BY <1>2, <1>3

\* A cancelled task gives its permit back; its save goes on.
LEMMA CancelledStep ==
  ASSUME BackgroundIInv, NEW j \in Jobs, NEW e \in Executions, NEW n \in Nodes,
         NodeCancelled(j, e, n)
  PROVE  BackgroundIInv'
<1>1. JobsTyped /\ PermitsHeld /\ (\A i \in Jobs : JobInv(i))
  BY DEF BackgroundIInv
<1>2. /\ At(j, e, n) \in Working /\ <<j, e>> \in cancelling
      /\ UNCHANGED <<given, jobVars, checkpoints, scalerVars>>
  BY DEF NodeCancelled, Alive, At, Working
<1>3. "cancelled" \in NodePlaces /\ "cancelled" \notin Holding
  BY PlacesOfTasks DEF NodePlaces
<1>4. /\ \/ node' = [node EXCEPT ![j][e][n].at = "cancelled"]
         \/ \E a \in Nat : node' = [node EXCEPT ![j][e][n] = [at |-> "cancelled", attempts |-> a]]
      /\ \/ permits' = permits + 1 /\ At(j, e, n) \in Holding
         \/ permits' = permits /\ At(j, e, n) \notin Holding
  BY DEF NodeCancelled, Goes, Leaves, At
<1>5. /\ node' \in [Jobs -> [Executions -> [Nodes -> TaskStates]]]
      /\ At(j, e, n)' = "cancelled"
      /\ \A i \in Jobs, f \in Executions, m \in Nodes :
           <<i, f, m>> # <<j, e, n>> => At(i, f, m)' = At(i, f, m)
  BY <1>1, <1>3, <1>4, NodeSet
<1>6. \A i \in Jobs : JobInv(i)'
  BY <1>1, <1>2, <1>5, NodeTaskCancelled
<1>7. max_concurrency' = max_concurrency
  BY <1>2 DEF scalerVars
<1>8. PermitsHeld' /\ permits' \in Nat
  BY <1>1, <1>3, <1>4, <1>5, <1>7, HeldAfterMove
<1>9. UNCHANGED <<depends_on, checkpoint_store, job, outcomes, checkpoints, max_concurrency>>
  BY <1>2 DEF given, jobVars, scalerVars
<1>10. CASE At(j, e, n) \in Saving
  <2>1. PICK s \in Checkpointed : late_writes' = late_writes \cup {<<j, n, s>>}
    BY <1>10, PlacesOfTasks DEF NodeCancelled, Written, At, Checkpointed
  <2>2. late_writes' \subseteq Jobs \X Nodes \X Checkpointed
    BY <1>1, <2>1 DEF JobsTyped
  <2>3. JobsTyped'
    BY <1>1, <1>5, <1>8, <1>9, <2>2 DEF JobsTyped, TaskStates
  <2>4. checkpoint_store # "memory"
    BY <1>10, SavingIsSqlite
  <2> QED BY <1>6, <1>8, <1>9, <2>3, <2>4 DEF BackgroundIInv
<1>11. CASE At(j, e, n) \notin Saving
  <2>1. late_writes' = late_writes
    BY <1>11 DEF NodeCancelled, At
  <2>2. JobsTyped'
    BY <1>1, <1>5, <1>8, <1>9, <2>1 DEF JobsTyped, TaskStates
  <2> QED BY <1>6, <1>8, <1>9, <2>1, <2>2 DEF BackgroundIInv
<1> QED BY <1>10, <1>11

\* A late write changes checkpoints of the SQLite store only.
LEMMA LateWriteStep ==
  ASSUME BackgroundIInv, NEW w \in late_writes, LateWrite(w)
  PROVE  BackgroundIInv'
<1>1. JobsTyped /\ PermitsHeld /\ (\A i \in Jobs : JobInv(i)) /\ checkpoint_store # "memory"
  BY DEF BackgroundIInv
<1>2. w[1] \in Jobs /\ w[2] \in Nodes /\ w[3] \in Checkpointed
  BY <1>1 DEF JobsTyped
<1>3. UNCHANGED <<depends_on, checkpoint_store, job, outcomes, cancelling, node, permits,
                  max_concurrency>>
  BY DEF LateWrite, given, jobVars, scalerVars
<1>4. checkpoints' \in [Jobs -> [Nodes -> Checkpointed]]
  BY <1>1, <1>2, CheckpointSet DEF LateWrite, JobsTyped
<1>5. late_writes' \subseteq Jobs \X Nodes \X Checkpointed
  BY <1>1 DEF LateWrite, JobsTyped
<1>6. \A i \in Jobs, e \in Executions, n \in Nodes : At(i, e, n)' = At(i, e, n)
  BY <1>3 DEF At
<1>7. PermitsHeld'
  BY <1>1, <1>3, <1>6, HeldUnmoved
<1>8. ASSUME NEW i \in Jobs PROVE JobInv(i)'
  <2>1. JobOk(i)'
    BY <1>1, <1>3 DEF JobInv, JobOk, GraphOf
  <2>2. \A e \in Executions, n \in Nodes : TaskOk(i, e, n)'
    BY <1>1, <1>3, <1>6 DEF JobInv, TaskOk, GraphOf
  <2> QED BY <1>1, <1>3, <2>1, <2>2 DEF JobInv
<1>9. JobsTyped'
  BY <1>1, <1>3, <1>4, <1>5 DEF JobsTyped
<1> QED BY <1>1, <1>3, <1>7, <1>8, <1>9 DEF BackgroundIInv

-----------------------------------------------------------------------------
(* Steps of job tasks and of the runtime's callers.                        *)

\* A step of one job leaves what is known of the others.
LEMMA OtherJobs ==
  ASSUME NEW i \in Jobs, JobInv(i), UNCHANGED given,
         job'[i] = job[i], outcomes'[i] = outcomes[i], checkpoints'[i] = checkpoints[i],
         \A e \in Executions : <<i, e>> \in cancelling' <=> <<i, e>> \in cancelling,
         \A e \in Executions, n \in Nodes : At(i, e, n)' = At(i, e, n)
  PROVE  JobInv(i)'
<1>1. UNCHANGED <<depends_on, checkpoint_store>>
  BY DEF given
<1>2. JobOk(i)'
  BY <1>1 DEF JobInv, JobOk, GraphOf
<1>3. ASSUME NEW e \in Executions, NEW n \in Nodes PROVE TaskOk(i, e, n)'
  BY <1>1, <1>3 DEF JobInv, TaskOk, GraphOf
<1>4. ASSUME NEW e \in Executions, NEW n \in Nodes, checkpoint_store = "memory"
      PROVE  MemoryOk(i, e, n)'
  BY <1>1, <1>4 DEF JobInv, MemoryOk
<1> QED BY <1>1, <1>2, <1>3, <1>4 DEF JobInv

\* A step that changes the record of one job, and its outcomes, and moves no task.
LEMMA JobSteps ==
  ASSUME BackgroundIInv, NEW j \in Jobs, NEW next \in JobRecords, NEW out \in [Nodes -> OutcomeStatuses],
         job' = [job EXCEPT ![j] = next], outcomes' = [outcomes EXCEPT ![j] = out],
         \A i \in Jobs \ {j}, e \in Executions : <<i, e>> \in cancelling' <=> <<i, e>> \in cancelling,
         UNCHANGED <<given, node, checkpoints, late_writes>>,
         JobInv(j)', PermitsHeld', permits' \in Nat, max_concurrency' \in Nat
  PROVE  BackgroundIInv'
<1>1. JobsTyped /\ (\A i \in Jobs : JobInv(i))
  BY DEF BackgroundIInv
<1>2. /\ job' \in [Jobs -> JobRecords] /\ \A i \in Jobs : i # j => job'[i] = job[i]
      /\ outcomes' \in [Jobs -> [Nodes -> OutcomeStatuses]]
      /\ \A i \in Jobs : i # j => outcomes'[i] = outcomes[i]
  BY <1>1 DEF JobsTyped
<1>3. JobsTyped'
  BY <1>1, <1>2 DEF JobsTyped, given
<1>4. \A e \in Executions, n \in Nodes, i \in Jobs : At(i, e, n)' = At(i, e, n)
  BY DEF At
<1>5. ASSUME NEW i \in Jobs, i # j PROVE JobInv(i)'
  <2>1. \A e \in Executions : <<i, e>> \in cancelling' <=> <<i, e>> \in cancelling
    BY <1>5
  <2> QED BY <1>1, <1>2, <1>4, <1>5, <2>1, OtherJobs
<1>6. checkpoint_store' = "memory" => late_writes' = {}
  BY DEF BackgroundIInv, given
<1> QED BY <1>3, <1>5, <1>6 DEF BackgroundIInv

JobPlaces == {"none", "created", "listing", "gathering", "done"}

\* Replacing one field of a job's record.
LEMMA RecordFields ==
  ASSUME NEW r \in JobRecords, NEW s \in JobStatuses, NEW a \in JobPlaces
  PROVE  /\ [r EXCEPT !.status = s] \in JobRecords /\ [r EXCEPT !.at = a] \in JobRecords
         /\ [r EXCEPT !.cancel = TRUE] \in JobRecords
         /\ [r EXCEPT !.status = s].status = s /\ [r EXCEPT !.status = s].cancel = r.cancel
         /\ [r EXCEPT !.status = s].execution = r.execution
         /\ [r EXCEPT !.at = a].at = a /\ [r EXCEPT !.at = a].cancel = r.cancel
         /\ [r EXCEPT !.at = a].execution = r.execution /\ [r EXCEPT !.at = a].status = r.status
         /\ [r EXCEPT !.cancel = TRUE].cancel /\ [r EXCEPT !.cancel = TRUE].at = r.at
         /\ [r EXCEPT !.cancel = TRUE].execution = r.execution
         /\ [r EXCEPT !.cancel = TRUE].status = r.status
BY DEF JobRecords, JobPlaces

RecordGets(j, s, a) == job' = [job EXCEPT ![j].status = s, ![j].at = a]

\* Replacing a job's status and place.
LEMMA RecordSet ==
  ASSUME JobsTyped, NEW j \in Jobs, NEW s \in JobStatuses, NEW a \in JobPlaces,
         RecordGets(j, s, a)
  PROVE  \E next \in JobRecords :
           /\ next.status = s /\ next.at = a /\ next.execution = job[j].execution
           /\ next.cancel = job[j].cancel /\ job' = [job EXCEPT ![j] = next]
<1>1. job[j] \in JobRecords /\ job \in [Jobs -> JobRecords]
  BY DEF JobsTyped
<1> DEFINE mid == [job[j] EXCEPT !.status = s]
           next == [mid EXCEPT !.at = a]
<1>2. /\ mid \in JobRecords /\ mid.status = s /\ mid.execution = job[j].execution
      /\ mid.cancel = job[j].cancel
  BY <1>1, RecordFields
<1>3. job' = [job EXCEPT ![j] = next]
  BY <1>1 DEF RecordGets
<1> HIDE DEF mid
<1>4. /\ next \in JobRecords /\ next.status = s /\ next.execution = job[j].execution
      /\ next.cancel = job[j].cancel /\ next.at = a
  BY <1>2, RecordFields
<1> HIDE DEF next
<1> QED BY <1>3, <1>4

\* No outcomes are outcomes.
LEMMA NoOutcomesTyped == NoOutcomes \in [Nodes -> OutcomeStatuses]
BY DEF NoOutcomes, OutcomeStatuses

\* The scaler grows the pool by as many permits as it adds to its size.
LEMMA EvaluateStep ==
  ASSUME JobsTyped, PermitsHeld, Evaluate, UNCHANGED node
  PROVE  PermitsHeld' /\ permits' \in Nat /\ max_concurrency' \in Nat
<1>1. /\ permits \in Nat /\ max_concurrency \in Nat /\ MaxConcurrency \in Nat
      /\ MinConcurrency \in Nat /\ ScaleUpStep \in Nat /\ ScaleUpStep > 0
  BY BackgroundAssumption DEF JobsTyped
<1>2. Held' = Held
  BY DEF Held, PlaceOf, NodeTasks
<1>3. IsFiniteSet(Held) /\ Cardinality(Held) \in Nat
        /\ permits + Cardinality(Held) = max_concurrency
        /\ max_concurrency <= IF PoolSize > MaxConcurrency THEN PoolSize ELSE MaxConcurrency
  BY FS_CardinalityType DEF PermitsHeld
<1>4. CASE ScalesUp
  <2>1. Normalized \in Nat /\ Normalized >= max_concurrency /\ Normalized < MaxConcurrency
    BY <1>1, <1>4 DEF Normalized, ScalesUp
  <2>2. Target \in Nat /\ Target >= max_concurrency /\ Target <= MaxConcurrency
    BY <1>1, <2>1 DEF Target
  <2>3. max_concurrency' = Target /\ permits' = permits + (Target - max_concurrency)
    BY <1>4 DEF Evaluate
  <2>4. PoolSize \in Nat
    BY BackgroundAssumption
  <2>5. PICK t \in Nat : t = Target
    BY <2>2
  <2>6. PICK c \in Nat : c = Cardinality(Held) /\ c = Cardinality(Held')
    BY <1>2, <1>3
  <2>7. permits' + c = max_concurrency' /\ permits' \in Nat /\ max_concurrency' \in Nat
        /\ max_concurrency' <= IF PoolSize > MaxConcurrency THEN PoolSize ELSE MaxConcurrency
    BY <1>1, <1>3, <2>2, <2>3, <2>4, <2>5, <2>6
  <2> QED BY <1>2, <1>3, <2>6, <2>7 DEF PermitsHeld
<1>5. CASE ~ScalesUp
  BY <1>1, <1>2, <1>3, <1>5 DEF Evaluate, PermitsHeld
<1> QED BY <1>4, <1>5

\* A submission may grow the pool, and starts a job that has no tasks.
LEMMA SubmitStep ==
  ASSUME BackgroundIInv, NEW j \in Jobs, Submit(j)
  PROVE  BackgroundIInv'
<1>1. JobsTyped /\ PermitsHeld /\ (\A i \in Jobs : JobInv(i))
  BY DEF BackgroundIInv
<1>2. PermitsHeld' /\ permits' \in Nat /\ max_concurrency' \in Nat
  BY <1>1, EvaluateStep DEF Submit
<1>3. UNCHANGED <<given, outcomes, node, cancelling, checkpoints, late_writes>>
  BY DEF Submit
<1>4. outcomes[j] \in [Nodes -> OutcomeStatuses] /\ outcomes' = [outcomes EXCEPT ![j] = outcomes[j]]
  BY <1>1, <1>3 DEF JobsTyped
<1>5. CASE UNCHANGED job
  <2>1. job[j] \in JobRecords /\ job' = [job EXCEPT ![j] = job[j]]
    BY <1>1, <1>5 DEF JobsTyped
  <2>2. JobInv(j)'
    BY <1>1, <1>3, <1>5, OtherJobs DEF At
  <2> QED BY <1>2, <1>3, <1>4, <2>1, <2>2, JobSteps
<1>6. CASE job' # job
  <2>1. MaxExecutions \in Nat /\ MaxExecutions >= 1
    BY BackgroundAssumption
  <2>2. PICK next \in JobRecords :
          /\ next.status = "pending" /\ next.execution = 1 /\ next.at = "created" /\ ~next.cancel
          /\ job' = [job EXCEPT ![j] = next]
    <3> DEFINE new == [status |-> "pending", execution |-> 1, at |-> "created", cancel |-> FALSE]
    <3>1. new \in JobRecords /\ new.status = "pending" /\ new.execution = 1 /\ new.at = "created"
          /\ ~new.cancel
      BY <2>1 DEF JobRecords, JobStatuses
    <3>2. job' = [job EXCEPT ![j] = new]
      BY <1>6 DEF Submit
    <3> QED BY <3>1, <3>2
  <2>3. job[j].execution = 0 /\ j \in DOMAIN depends_on
    BY <1>1 DEF Submit, JobInv, JobOk
  <2>4. job'[j] = next
    BY <1>1, <2>2 DEF JobsTyped
  <2>5. \A e \in Executions : e \in Nat /\ e > 0 /\ e >= 1
    BY <2>1 DEF Executions
  <2>6. \A e \in Executions, n \in Nodes : At(j, e, n) = "idle" /\ At(j, e, n)' = "idle"
    <3> SUFFICES ASSUME NEW e \in Executions, NEW n \in Nodes
                 PROVE  At(j, e, n) = "idle" /\ At(j, e, n)' = "idle"
      OBVIOUS
    <3>1. At(j, e, n) = "idle"
      BY <1>1, <2>3, <2>5 DEF JobInv, TaskOk
    <3> QED BY <1>3, <3>1 DEF At
  <2>7. \A e \in Executions : <<j, e>> \notin cancelling /\ <<j, e>> \notin cancelling'
    BY <1>1, <1>3, <2>3, <2>5 DEF JobInv, JobOk
  <2>8. JobOk(j)'
    <3>1. 1 \in Executions
      BY <2>1 DEF Executions
    <3> QED BY <1>1, <1>3, <2>2, <2>3, <2>4, <2>7, <3>1 DEF JobInv, JobOk, GraphOf, given
  <2>9. \A e \in Executions, n \in Nodes : TaskOk(j, e, n)'
    BY <2>6, PlacesOfTasks DEF TaskOk
  <2>10. \A e \in Executions, n \in Nodes : MemoryOk(j, e, n)'
    BY <2>6, PlacesOfTasks DEF MemoryOk
  <2>11. JobInv(j)'
    BY <2>8, <2>9, <2>10 DEF JobInv
  <2> QED BY <1>2, <1>3, <1>4, <2>2, <2>11, JobSteps
<1> QED BY <1>5, <1>6

\* In the current, gathering execution a task at work is of the wave that gather awaits.
LEMMA WorkingInWave ==
  ASSUME NEW j \in Jobs, NEW n \in Nodes, JobInv(j), job[j].at = "gathering",
         At(j, job[j].execution, n) \in Working
  PROVE  n \in Wave(j) /\ ~WaveOver(j)
<1>1. job[j].execution \in Executions
  BY DEF JobInv, JobOk
<1>2. n \in GraphOf(j) /\ outcomes[j][n] \notin {"completed", "failed"}
  BY <1>1 DEF JobInv, TaskOk
<1>3. At(j, job[j].execution, n) # "idle" /\ At(j, job[j].execution, n) \notin Ended
  BY PlacesOfTasks
<1> QED BY <1>2, <1>3 DEF Wave, WaveOver, At

\* After cancel_job no task of the in-memory store's job works unless it is being cancelled.
LEMMA CancelJobStep ==
  ASSUME BackgroundIInv, NEW j \in Jobs, CancelJob(j)
  PROVE  BackgroundIInv'
<1>1. JobsTyped /\ PermitsHeld /\ JobInv(j)
  BY DEF BackgroundIInv
<1>2. /\ UNCHANGED <<given, outcomes, node, checkpoints, late_writes, permits, scalerVars>>
      /\ ~job[j].cancel /\ job[j].at # "done" /\ job[j].status \in {"pending", "running"}
  BY DEF CancelJob
<1>3. PICK next \in JobRecords :
        /\ next.status = job[j].status /\ next.at = job[j].at /\ next.cancel
        /\ next.execution = job[j].execution /\ job' = [job EXCEPT ![j] = next]
  <2>1. job[j] \in JobRecords
    BY <1>1 DEF JobsTyped
  <2>2. job' = [job EXCEPT ![j] = [job[j] EXCEPT !.cancel = TRUE]]
    BY DEF CancelJob
  <2>3. job[j].status \in JobStatuses /\ job[j].at \in JobPlaces
    BY <2>1 DEF JobRecords, JobPlaces
  <2> QED BY <2>1, <2>2, <2>3, RecordFields
<1>4. job'[j] = next
  BY <1>1, <1>3 DEF JobsTyped
<1>5. job[j].at # "none" /\ job[j].execution \in Executions
  BY <1>1, <1>2 DEF JobInv, JobOk
<1>6. \/ job[j].at = "gathering" /\ cancelling' = cancelling \cup {<<j, job[j].execution>>}
      \/ cancelling' = cancelling /\ (job[j].at # "gathering" \/ WaveOver(j) \/ Raised(j))
  BY DEF CancelJob
<1>7. \A i \in Jobs, e \in Executions : <<i, e>> \in cancelling' =>
        <<i, e>> \in cancelling \/ (i = j /\ e = job[j].execution)
  BY <1>6
<1>8. cancelling \subseteq cancelling'
  BY <1>6
<1>9. \A e \in Executions, n \in Nodes : At(j, e, n)' = At(j, e, n)
  BY <1>2 DEF At
<1>10. UNCHANGED <<depends_on, checkpoint_store, permits, max_concurrency>>
  BY <1>2 DEF given, scalerVars
<1>11. JobOk(j)'
  <2>1. job[j].execution \in Nat /\ \A e \in Executions : e \in Nat
    BY <1>5, BackgroundAssumption DEF Executions
  <2>2. JobOk(j)
    BY <1>1 DEF JobInv
  <2>3. \A e \in Executions : <<j, e>> \in cancelling' =>
          e <= job'[j].execution /\ (e = job'[j].execution => job'[j].cancel)
    BY <1>3, <1>4, <1>7, <2>1, <2>2 DEF JobOk
  <2> QED BY <1>2, <1>3, <1>4, <1>10, <2>2, <2>3 DEF JobOk, GraphOf
<1>12. ASSUME NEW e \in Executions, NEW n \in Nodes PROVE TaskOk(j, e, n)'
  <2>1. TaskOk(j, e, n)
    BY <1>1 DEF JobInv
  <2> QED BY <1>2, <1>3, <1>4, <1>8, <1>9, <1>10, <2>1 DEF TaskOk, GraphOf
<1>13. ASSUME NEW e \in Executions, NEW n \in Nodes, checkpoint_store = "memory"
       PROVE  MemoryOk(j, e, n)'
  <2>1. MemoryOk(j, e, n)
    BY <1>1, <1>13 DEF JobInv
  <2>2. ~(<<j, e>> \notin cancelling' /\ At(j, e, n) \in Working)
    <3> SUFFICES ASSUME <<j, e>> \notin cancelling', At(j, e, n) \in Working PROVE FALSE
      OBVIOUS
    <3>1. e = job[j].execution /\ job[j].at = "gathering"
      BY <1>8, <2>1 DEF MemoryOk
    <3>2. ~WaveOver(j)
      BY <1>1, <3>1, WorkingInWave
    <3>3. ~Raised(j)
      <4>1. \A m \in Nodes : At(j, e, m) # "raised"
        BY <1>1, <1>13 DEF JobInv, MemoryOk
      <4>2. GraphOf(j) \subseteq Nodes
        BY <1>1, <1>5, BackgroundAssumption DEF JobInv, JobOk, JobsTyped, GraphOf
      <4> QED BY <3>1, <4>1, <4>2 DEF Raised, Wave, At
    <3> QED BY <1>6, <3>1, <3>2, <3>3
  <2> QED BY <1>2, <1>3, <1>4, <1>9, <2>1, <2>2 DEF MemoryOk
<1>14. JobInv(j)'
  BY <1>10, <1>11, <1>12, <1>13 DEF JobInv
<1>15. outcomes[j] \in [Nodes -> OutcomeStatuses] /\ outcomes' = [outcomes EXCEPT ![j] = outcomes[j]]
  BY <1>1, <1>2 DEF JobsTyped
<1>16. PermitsHeld' /\ permits' \in Nat /\ max_concurrency' \in Nat
  BY <1>1, <1>2, <1>10, HeldUnmoved DEF At, JobsTyped
<1>17. \A i \in Jobs \ {j}, e \in Executions : <<i, e>> \in cancelling' <=> <<i, e>> \in cancelling
  BY <1>7, <1>8
<1> QED BY <1>2, <1>3, <1>14, <1>15, <1>16, <1>17, JobSteps

\* A resumed job starts an execution that has no tasks.
LEMMA ResumeStep ==
  ASSUME BackgroundIInv, NEW j \in Jobs, ResumeJob(j)
  PROVE  BackgroundIInv'
<1>1. JobsTyped /\ PermitsHeld /\ JobInv(j)
  BY DEF BackgroundIInv
<1>2. /\ UNCHANGED <<given, node, cancelling, checkpoints, late_writes, permits, scalerVars>>
      /\ outcomes' = [outcomes EXCEPT ![j] = NoOutcomes]
      /\ job[j].status \in {"failed", "cancelled"} /\ job[j].execution < MaxExecutions
  BY DEF ResumeJob
<1>3. job[j].at = "done" /\ job[j].execution \in Executions /\ j \in DOMAIN depends_on
  BY <1>1, <1>2 DEF JobInv, JobOk
<1>4. /\ MaxExecutions \in Nat /\ job[j].execution \in Nat /\ job[j].execution + 1 \in Executions
      /\ \A e \in Executions : e \in Nat
  BY <1>2, <1>3, BackgroundAssumption DEF Executions
<1>5. PICK next \in JobRecords :
        /\ next.status = "pending" /\ next.execution = job[j].execution + 1
        /\ next.at = "created" /\ ~next.cancel /\ job' = [job EXCEPT ![j] = next]
  <2> DEFINE new == [status |-> "pending", execution |-> job[j].execution + 1,
                     at |-> "created", cancel |-> FALSE]
  <2>1. /\ new \in JobRecords /\ new.status = "pending" /\ new.execution = job[j].execution + 1
        /\ new.at = "created" /\ ~new.cancel
    BY <1>2, <1>4 DEF JobRecords, JobStatuses
  <2>2. job' = [job EXCEPT ![j] = new]
    BY DEF ResumeJob
  <2> QED BY <2>1, <2>2
<1>6. job'[j] = next /\ outcomes'[j] = NoOutcomes
  BY <1>1, <1>2, <1>5 DEF JobsTyped
<1>7. \A n \in Nodes : outcomes'[j][n] = "none"
  BY <1>6 DEF NoOutcomes
<1>8. UNCHANGED <<depends_on, checkpoint_store, permits, max_concurrency>>
  BY <1>2 DEF given, scalerVars
<1>9. \A e \in Executions, n \in Nodes : At(j, e, n)' = At(j, e, n)
  BY <1>2 DEF At
<1>10. JobOk(j)'
  <2>1. JobOk(j)
    BY <1>1 DEF JobInv
  <2>2. \A e \in Executions : <<j, e>> \in cancelling =>
          e <= job[j].execution + 1 /\ e # job[j].execution + 1
    BY <1>4, <2>1 DEF JobOk
  <2> QED BY <1>2, <1>3, <1>4, <1>5, <1>6, <1>7, <1>8, <2>2 DEF JobOk
<1>11. ASSUME NEW e \in Executions, NEW n \in Nodes PROVE TaskOk(j, e, n)'
  <2>1. TaskOk(j, e, n)
    BY <1>1 DEF JobInv
  <2>2. e >= job[j].execution + 1 => At(j, e, n) = "idle"
    BY <1>4, <2>1 DEF TaskOk
  <2>3. /\ e > job'[j].execution => e >= job[j].execution + 1
        /\ e = job'[j].execution => e >= job[j].execution + 1
    BY <1>4, <1>5, <1>6
  <2>4. At(j, e, n)' = "cancelled" => <<j, e>> \in cancelling'
    BY <1>2, <1>9, <2>1 DEF TaskOk
  <2> QED BY <1>5, <1>6, <1>9, <2>2, <2>3, <2>4 DEF TaskOk
<1>12. ASSUME NEW e \in Executions, NEW n \in Nodes, checkpoint_store = "memory"
       PROVE  MemoryOk(j, e, n)'
  <2>1. MemoryOk(j, e, n) /\ TaskOk(j, e, n)
    BY <1>1, <1>12 DEF JobInv
  <2>2. e = job'[j].execution => At(j, e, n) = "idle"
    BY <1>4, <1>5, <1>6, <2>1 DEF TaskOk
  <2>3. ~(<<j, e>> \notin cancelling /\ At(j, e, n) \in Working)
    BY <1>3, <2>1 DEF MemoryOk
  <2> QED BY <1>2, <1>9, <2>1, <2>2, <2>3 DEF MemoryOk
<1>13. JobInv(j)'
  BY <1>8, <1>10, <1>11, <1>12 DEF JobInv
<1>14. PermitsHeld' /\ permits' \in Nat /\ max_concurrency' \in Nat
  BY <1>1, <1>2, <1>8, HeldUnmoved DEF At, JobsTyped
<1> QED BY <1>2, <1>5, <1>13, <1>14, NoOutcomesTyped, JobSteps

\* The task of a job ends, with no task of an execution that has not been cancelled left behind
\* where the store is in memory.
LEMMA JobRests ==
  ASSUME BackgroundIInv, NEW j \in Jobs, NEW next \in JobRecords,
         NEW out \in [Nodes -> OutcomeStatuses],
         job' = [job EXCEPT ![j] = next], outcomes' = [outcomes EXCEPT ![j] = out],
         UNCHANGED <<given, node, cancelling, checkpoints, late_writes, permits, scalerVars>>,
         job[j].at # "none", next.at = "done", next.status # "none",
         next.execution = job[j].execution, next.cancel = job[j].cancel,
         (\E n \in Nodes : out[n] = "cancelled") => \E m \in Nodes : out[m] = "failed",
         next.status = "completed" => \A n \in GraphOf(j) : out[n] = "completed",
         checkpoint_store = "memory" =>
           /\ \A n \in Nodes : out[n] = "completed" => checkpoints[j][n] = "completed"
           /\ \A e \in Executions, n \in Nodes :
                <<j, e>> \notin cancelling => At(j, e, n) \notin Working
  PROVE  BackgroundIInv'
<1>1. JobsTyped /\ PermitsHeld /\ JobInv(j)
  BY DEF BackgroundIInv
<1>2. UNCHANGED <<depends_on, checkpoint_store, permits, max_concurrency>>
  BY DEF given, scalerVars
<1>3. job'[j] = next /\ outcomes'[j] = out
  BY <1>1 DEF JobsTyped
<1>4. \A e \in Executions, n \in Nodes : At(j, e, n)' = At(j, e, n)
  BY DEF At
<1>5. JobOk(j)'
  <2>1. JobOk(j)
    BY <1>1 DEF JobInv
  <2> QED BY <1>2, <1>3, <2>1 DEF JobOk, GraphOf
<1>6. ASSUME NEW e \in Executions, NEW n \in Nodes PROVE TaskOk(j, e, n)'
  <2>1. TaskOk(j, e, n)
    BY <1>1 DEF JobInv
  <2> QED BY <1>3, <1>4, <2>1 DEF TaskOk
<1>7. ASSUME NEW e \in Executions, NEW n \in Nodes, checkpoint_store = "memory"
      PROVE  MemoryOk(j, e, n)'
  <2>1. MemoryOk(j, e, n)
    BY <1>1, <1>7 DEF JobInv
  <2> QED BY <1>3, <1>4, <1>7, <2>1 DEF MemoryOk
<1>8. JobInv(j)'
  BY <1>2, <1>5, <1>6, <1>7 DEF JobInv
<1>9. PermitsHeld' /\ permits' \in Nat /\ max_concurrency' \in Nat
  BY <1>1, <1>2, HeldUnmoved DEF At, JobsTyped
<1> QED BY <1>8, <1>9, JobSteps

\* A task cancelled before its first step ends.
LEMMA NeverStartsStep ==
  ASSUME BackgroundIInv, NEW j \in Jobs, JobNeverStarts(j)
  PROVE  BackgroundIInv'
<1>1. JobsTyped /\ JobInv(j) /\ job[j] \in JobRecords
  BY DEF BackgroundIInv, JobsTyped
<1>2. job[j].status \in JobStatuses /\ "done" \in JobPlaces
  BY <1>1 DEF JobRecords, JobPlaces
<1>3. job' = [job EXCEPT ![j] = [job[j] EXCEPT !.at = "done"]]
  BY DEF JobNeverStarts
<1>4. PICK next \in JobRecords :
        /\ next.status = job[j].status /\ next.at = "done" /\ next.cancel = job[j].cancel
        /\ next.execution = job[j].execution /\ job' = [job EXCEPT ![j] = next]
  BY <1>1, <1>2, <1>3, RecordFields
<1>5. PICK out \in [Nodes -> OutcomeStatuses] : out = outcomes[j]
  BY <1>1 DEF JobsTyped
<1>6. /\ job[j].at = "created" /\ outcomes' = [outcomes EXCEPT ![j] = out]
      /\ UNCHANGED <<given, node, cancelling, checkpoints, late_writes, permits, scalerVars>>
  BY <1>1, <1>5 DEF JobNeverStarts, JobsTyped
<1>7. JobOk(j)
  BY <1>1 DEF JobInv
<1>8. /\ next.status # "none"
      /\ (\E n \in Nodes : out[n] = "cancelled") => \E m \in Nodes : out[m] = "failed"
      /\ next.status = "completed" => \A n \in GraphOf(j) : out[n] = "completed"
      /\ checkpoint_store = "memory" =>
           \A n \in Nodes : out[n] = "completed" => checkpoints[j][n] = "completed"
  BY <1>4, <1>5, <1>6, <1>7 DEF JobOk
<1>9. checkpoint_store = "memory" =>
        \A e \in Executions, n \in Nodes : <<j, e>> \notin cancelling => At(j, e, n) \notin Working
  BY <1>1, <1>6 DEF JobInv, MemoryOk
<1> QED BY <1>4, <1>6, <1>8, <1>9, JobRests

\* An execution that ends with an exception leaves no outcomes; with the in-memory store only a
\* cancellation ends one.
LEMMA RaisesStep ==
  ASSUME BackgroundIInv, NEW j \in Jobs, JobRaises(j) \/ JobCancelled(j)
  PROVE  BackgroundIInv'
<1>1. JobsTyped /\ JobInv(j) /\ JobOk(j)
  BY DEF BackgroundIInv, JobInv
<1>2. PICK s \in {"failed", "cancelled"} : Ends(j, s)
  BY DEF JobRaises, JobCancelled
<1>3. s \in JobStatuses /\ "done" \in JobPlaces
  BY DEF JobStatuses, JobPlaces
<1>4. PICK next \in JobRecords :
        /\ next.status = s /\ next.at = "done" /\ next.cancel = job[j].cancel
        /\ next.execution = job[j].execution /\ job' = [job EXCEPT ![j] = next]
  <2>1. RecordGets(j, s, "done")
    BY <1>2 DEF Ends, RecordGets
  <2> QED BY <1>1, <1>3, <2>1, RecordSet
<1>5. PICK out \in [Nodes -> OutcomeStatuses] : out = NoOutcomes
  BY NoOutcomesTyped
<1>6. \A n \in Nodes : out[n] = "none"
  BY <1>5 DEF NoOutcomes
<1>7. /\ job[j].at \in {"listing", "gathering"} /\ outcomes' = [outcomes EXCEPT ![j] = out]
      /\ UNCHANGED <<given, node, cancelling, checkpoints, late_writes, permits, scalerVars>>
  BY <1>5 DEF JobRaises, JobCancelled
<1>8. job[j].execution \in Executions /\ GraphOf(j) \subseteq Nodes
  BY <1>1, <1>7, BackgroundAssumption DEF JobOk, JobsTyped, GraphOf
<1>9. checkpoint_store = "memory" => JobCancelled(j) /\ job[j].cancel
  <2> SUFFICES ASSUME checkpoint_store = "memory" PROVE ~JobRaises(j)
    BY DEF JobCancelled
  <2>1. job[j].at # "listing"
    BY <1>1 DEF JobOk
  <2>2. \A m \in Nodes : At(j, job[j].execution, m) # "raised"
    BY <1>1, <1>8 DEF JobInv, MemoryOk
  <2>3. ~Raised(j)
    BY <1>8, <2>2 DEF Raised, Wave, At
  <2> QED BY <2>1, <2>3 DEF JobRaises
<1>10. checkpoint_store = "memory" =>
         \A e \in Executions, n \in Nodes : <<j, e>> \notin cancelling => At(j, e, n) \notin Working
  BY <1>1, <1>9 DEF JobInv, MemoryOk
<1> QED BY <1>2, <1>4, <1>6, <1>7, <1>10, JobRests

\* When nothing is ready and nothing failed, every node is completed: the first of the others,
\* which an acyclic graph has, would be ready.
LEMMA NothingReady ==
  ASSUME JobsTyped, NEW j \in DOMAIN depends_on, NEW out \in [Nodes -> OutcomeStatuses],
         Ready(j, out) = {}, \A n \in Nodes : out[n] # "failed",
         (\E n \in Nodes : out[n] = "cancelled") => \E m \in Nodes : out[m] = "failed"
  PROVE  \A n \in GraphOf(j) : out[n] = "completed"
<1>1. ValidGraph(depends_on[j]) /\ GraphOf(j) \subseteq Nodes
  BY BackgroundAssumption DEF JobsTyped, GraphOf
<1> DEFINE S == {n \in GraphOf(j) : out[n] # "completed"}
<1> SUFFICES ASSUME S # {} PROVE FALSE
  OBVIOUS
<1>2. S \in (SUBSET DOMAIN depends_on[j]) \ {{}}
  BY DEF GraphOf
<1>3. PICK n \in S : depends_on[j][n] \cap S = {}
  BY <1>1, <1>2 DEF ValidGraph
<1>4. depends_on[j][n] \subseteq GraphOf(j)
  BY <1>1, <1>3 DEF ValidGraph, GraphOf
<1>5. \A d \in depends_on[j][n] : out[d] = "completed"
  BY <1>3, <1>4
<1>6. n \in GraphOf(j) /\ out[n] \notin {"completed", "failed", "cancelled"}
  BY <1>1, <1>3
<1> QED BY <1>5, <1>6 DEF Ready

\* The head of the scheduler's loop, reached with no task of the execution at work.
LEMMA NextWaveStep ==
  ASSUME BackgroundIInv, NEW j \in Jobs, NEW out \in [Nodes -> OutcomeStatuses], NextWave(j, out),
         UNCHANGED <<given, cancelling, checkpoints, late_writes, permits, scalerVars>>,
         job[j].at # "none", ~job[j].cancel,
         \A n \in Nodes : At(j, job[j].execution, n) \notin Working,
         (\E n \in Nodes : out[n] = "cancelled") => \E m \in Nodes : out[m] = "failed",
         checkpoint_store = "memory" =>
           \A n \in Nodes : out[n] = "completed" => checkpoints[j][n] = "completed"
  PROVE  BackgroundIInv'
<1>1. JobsTyped /\ PermitsHeld /\ JobInv(j) /\ JobOk(j) /\ \A i \in Jobs : JobInv(i)
  BY DEF BackgroundIInv, JobInv
<1>2. job[j].execution \in Executions /\ j \in DOMAIN depends_on
  BY <1>1 DEF JobOk
<1>3. outcomes' = [outcomes EXCEPT ![j] = out]
  BY DEF NextWave
<1>4. checkpoint_store = "memory" => \A e \in Executions, n \in Nodes :
        <<j, e>> \notin cancelling => At(j, e, n) \notin Working
  BY <1>1 DEF JobInv, MemoryOk
<1>5. CASE Ready(j, out) = {}
  <2>1. PICK s \in {"failed", "completed"} :
          /\ Ends(j, s)
          /\ s = "completed" => \A n \in Nodes : out[n] # "failed"
    BY <1>5 DEF NextWave
  <2>2. s \in JobStatuses /\ "done" \in JobPlaces /\ RecordGets(j, s, "done")
    BY <2>1 DEF JobStatuses, JobPlaces, Ends, RecordGets
  <2>3. PICK next \in JobRecords :
          /\ next.status = s /\ next.at = "done" /\ next.cancel = job[j].cancel
          /\ next.execution = job[j].execution /\ job' = [job EXCEPT ![j] = next]
    BY <1>1, <2>2, RecordSet
  <2>4. s = "completed" => \A n \in GraphOf(j) : out[n] = "completed"
    BY <1>1, <1>2, <1>5, <2>1, NothingReady
  <2>5. UNCHANGED node
    BY <1>5 DEF NextWave
  <2> QED BY <1>3, <1>4, <2>1, <2>3, <2>4, <2>5, JobRests
<1>6. CASE Ready(j, out) # {}
  <2>1. "running" \in JobStatuses /\ "gathering" \in JobPlaces
        /\ RecordGets(j, "running", "gathering")
    BY <1>6 DEF JobStatuses, JobPlaces, NextWave, RecordGets
  <2>2. PICK next \in JobRecords :
          /\ next.status = "running" /\ next.at = "gathering" /\ next.cancel = job[j].cancel
          /\ next.execution = job[j].execution /\ job' = [job EXCEPT ![j] = next]
    BY <1>1, <2>1, RecordSet
  <2>3. /\ job' \in [Jobs -> JobRecords] /\ job'[j] = next
        /\ \A i \in Jobs : i # j => job'[i] = job[i]
        /\ outcomes' \in [Jobs -> [Nodes -> OutcomeStatuses]] /\ outcomes'[j] = out
        /\ \A i \in Jobs : i # j => outcomes'[i] = outcomes[i]
    BY <1>1, <1>3, <2>2 DEF JobsTyped
  <2>4. PICK x : x = job[j].execution
    OBVIOUS
  <2> DEFINE row == [n \in Nodes |-> IF n \in Ready(j, out) THEN [IdleNode EXCEPT !.at = "waiting"]
                                     ELSE node[j][x][n]]
  <2>5. node' = [node EXCEPT ![j][x] = row]
    BY <1>6, <2>4 DEF NextWave
  <2>6. /\ node \in [Jobs -> [Executions -> [Nodes -> TaskStates]]]
        /\ node[j] \in [Executions -> [Nodes -> TaskStates]]
        /\ x \in Executions
    BY <1>1, <1>2, <2>4 DEF JobsTyped, TaskStates
  <2>7. [IdleNode EXCEPT !.at = "waiting"] \in TaskStates
        /\ [IdleNode EXCEPT !.at = "waiting"].at = "waiting"
    BY DEF IdleNode, TaskStates, NodePlaces
  <2>8. row \in [Nodes -> TaskStates]
    BY <2>6, <2>7
  <2>9. \A n \in Nodes : row[n].at = IF n \in Ready(j, out) THEN "waiting" ELSE At(j, x, n)
    BY <2>7 DEF At
  <2> HIDE DEF row
  <2>10. PICK table \in [Executions -> [Nodes -> TaskStates]] : table = [node[j] EXCEPT ![x] = row]
    BY <2>6, <2>8
  <2>11. table[x] = row /\ \A e \in Executions : e # x => table[e] = node[j][e]
    BY <2>6, <2>10
  <2>12. node' = [node EXCEPT ![j] = table]
    BY <2>5, <2>10
  <2>13. /\ node' \in [Jobs -> [Executions -> [Nodes -> TaskStates]]] /\ node'[j] = table
         /\ \A i \in Jobs : i # j => node'[i] = node[i]
    BY <2>6, <2>12
  <2>14. \A i \in Jobs, e \in Executions, n \in Nodes : i # j \/ e # x => At(i, e, n)' = At(i, e, n)
    BY <2>11, <2>13 DEF At
  <2>15. \A n \in Nodes : At(j, x, n)' = IF n \in Ready(j, out) THEN "waiting" ELSE At(j, x, n)
    BY <2>9, <2>11, <2>13 DEF At
  <2>16. UNCHANGED <<depends_on, checkpoint_store, permits, max_concurrency>>
    BY DEF given, scalerVars
  <2>17. JobsTyped'
    BY <1>1, <2>3, <2>13, <2>16 DEF JobsTyped, TaskStates
  <2>18. PermitsHeld'
    <3>1. \A i \in Jobs, e \in Executions, n \in Nodes :
            At(i, e, n)' \in Holding <=> At(i, e, n) \in Holding
      <4>1. ASSUME NEW n \in Nodes PROVE At(j, x, n)' \notin Holding /\ At(j, x, n) \notin Holding
        BY <2>4, <2>15, <4>1, PlacesOfTasks
      <4> QED BY <2>14, <4>1
    <3> QED BY <1>1, <2>16, <3>1, HeldUnmoved
  <2>19. ASSUME NEW i \in Jobs, i # j PROVE JobInv(i)'
    BY <1>1, <2>3, <2>14, <2>19, OtherJobs
  <2>20. JobOk(j)'
    BY <1>1, <1>2, <2>2, <2>3, <2>16 DEF JobOk
  <2>21. ASSUME NEW e \in Executions, NEW n \in Nodes PROVE TaskOk(j, e, n)'
    <3>1. TaskOk(j, e, n)
      BY <1>1 DEF JobInv
    <3>2. CASE e # x
      <4>1. At(j, e, n)' = At(j, e, n) /\ e # job'[j].execution
        BY <2>2, <2>3, <2>4, <2>14, <3>2
      <4> QED BY <2>2, <2>3, <3>1, <4>1 DEF TaskOk
    <3>3. CASE e = x
      <4>1. e \in Nat /\ e = job[j].execution /\ e = job'[j].execution /\ ~(e > job'[j].execution)
        BY <2>2, <2>3, <2>4, <3>3, BackgroundAssumption DEF Executions
      <4>2. At(j, e, n)' = "cancelled" => At(j, e, n) = "cancelled"
        BY <2>15, <3>3
      <4>3. At(j, e, n)' \in Working => n \in Ready(j, out)
        BY <2>4, <2>15, <3>3
      <4> QED BY <2>2, <2>3, <2>16, <3>1, <4>1, <4>2, <4>3 DEF TaskOk, Ready, GraphOf
    <3> QED BY <3>2, <3>3
  <2>22. ASSUME NEW e \in Executions, NEW n \in Nodes, checkpoint_store = "memory"
         PROVE  MemoryOk(j, e, n)'
    <3>1. MemoryOk(j, e, n)
      BY <1>1, <2>22 DEF JobInv
    <3>2. CASE e # x
      <4>1. At(j, e, n)' = At(j, e, n) /\ e # job'[j].execution
        BY <2>2, <2>3, <2>4, <2>14, <3>2
      <4> QED BY <1>4, <2>22, <3>1, <4>1 DEF MemoryOk
    <3>3. CASE e = x
      <4>1. e = job[j].execution /\ e = job'[j].execution
        BY <2>2, <2>3, <2>4, <3>3
      <4>2. At(j, e, n)' = "waiting" \/ At(j, e, n)' = At(j, e, n)
        BY <2>15, <3>3
      <4>3. "waiting" \notin Saving \cup {"raised"}
        BY PlacesOfTasks
      <4> QED BY <2>2, <2>3, <3>1, <4>1, <4>2, <4>3 DEF MemoryOk
    <3> QED BY <3>2, <3>3
  <2>23. JobInv(j)'
    BY <2>16, <2>20, <2>21, <2>22 DEF JobInv
  <2>24. checkpoint_store' = "memory" => late_writes' = {}
    BY <2>16 DEF BackgroundIInv
  <2> QED BY <2>17, <2>18, <2>19, <2>23, <2>24 DEF BackgroundIInv
<1> QED BY <1>5, <1>6

\* Only nodes without an outcome are cancelled downstream, and only if some node failed.
LEMMA DownstreamOfFailed ==
  ASSUME NEW j, NEW out, NEW failed, NEW n \in Downstream(j, out, failed)
  PROVE  out[n] = "none" /\ failed # {}
<1>1. out[n] = "none"
  BY DEF Downstream
<1>2. ASSUME failed = {} PROVE FALSE
  <2> DEFINE pending == {m \in GraphOf(j) : out[m] = "none"}
  <2>1. {} \in SUBSET pending /\ \A m \in pending : depends_on[j][m] \cap (failed \cup {}) = {}
    BY <1>2
  <2> QED BY <2>1 DEF Downstream
<1> QED BY <1>1, <1>2

\* The checkpoints are outcomes that a resumed execution may start from.
LEMMA CheckpointsAsOutcomes ==
  ASSUME JobsTyped, NEW j \in Jobs
  PROVE  checkpoints[j] \in [Nodes -> OutcomeStatuses]
         /\ \A n \in Nodes : checkpoints[j][n] # "cancelled"
<1>1. checkpoints[j] \in [Nodes -> Checkpointed]
  BY DEF JobsTyped
<1>2. Checkpointed \subseteq OutcomeStatuses /\ "cancelled" \notin Checkpointed
  BY DEF Checkpointed, OutcomeStatuses
<1> QED BY <1>1, <1>2

\* Before the first wave no task of the execution exists.
LEMMA NoTaskYet ==
  ASSUME NEW j \in Jobs, JobInv(j), job[j].at \in {"created", "listing"}, NEW n \in Nodes
  PROVE  At(j, job[j].execution, n) \notin Working
<1>1. job[j].execution \in Executions
  BY DEF JobInv, JobOk
<1>2. At(j, job[j].execution, n) = "idle"
  BY <1>1 DEF JobInv, TaskOk
<1> QED BY <1>2, PlacesOfTasks

\* A job's task starts, or has read the checkpoints.
LEMMA JobStartStep ==
  ASSUME BackgroundIInv, NEW j \in Jobs, JobStart(j) \/ JobListed(j)
  PROVE  BackgroundIInv'
<1>1. JobsTyped /\ PermitsHeld /\ JobInv(j) /\ JobOk(j)
  BY DEF BackgroundIInv, JobInv
<1>2. /\ job[j].at \in {"created", "listing"} /\ ~job[j].cancel
      /\ UNCHANGED <<given, cancelling, checkpoints, late_writes, permits, scalerVars>>
  BY DEF JobStart, JobListed
<1>3. \A n \in Nodes : At(j, job[j].execution, n) \notin Working
  BY <1>1, <1>2, NoTaskYet
<1>4. CASE \E out \in {checkpoints[j], NoOutcomes} : NextWave(j, out)
  <2>1. PICK out \in {checkpoints[j], NoOutcomes} : NextWave(j, out)
    BY <1>4
  <2>2. /\ out \in [Nodes -> OutcomeStatuses] /\ \A n \in Nodes : out[n] # "cancelled"
        /\ \A n \in Nodes : out[n] = "completed" => checkpoints[j][n] = "completed"
    <3>1. CASE out = checkpoints[j]
      BY <1>1, <3>1, CheckpointsAsOutcomes
    <3>2. CASE out = NoOutcomes
      BY <3>2, NoOutcomesTyped DEF NoOutcomes
    <3> QED BY <3>1, <3>2
  <2> QED BY <1>2, <1>3, <2>1, <2>2, NextWaveStep
<1>5. CASE /\ checkpoint_store = "sqlite" /\ UNCHANGED <<outcomes, node>>
           /\ RecordGets(j, "running", "listing") /\ job[j].at = "created"
  <2>1. "running" \in JobStatuses /\ "listing" \in JobPlaces
    BY DEF JobStatuses, JobPlaces
  <2>2. PICK next \in JobRecords :
          /\ next.status = "running" /\ next.at = "listing" /\ next.cancel = job[j].cancel
          /\ next.execution = job[j].execution /\ job' = [job EXCEPT ![j] = next]
    BY <1>1, <1>5, <2>1, RecordSet
  <2>3. job'[j] = next /\ outcomes[j] \in [Nodes -> OutcomeStatuses]
        /\ outcomes' = [outcomes EXCEPT ![j] = outcomes[j]]
    BY <1>1, <1>5, <2>2 DEF JobsTyped
  <2>4. UNCHANGED <<depends_on, checkpoint_store, permits, max_concurrency>>
    BY <1>2 DEF given, scalerVars
  <2>5. \A e \in Executions, n \in Nodes : At(j, e, n)' = At(j, e, n)
    BY <1>5 DEF At
  <2>6. JobOk(j)'
    BY <1>1, <1>2, <1>5, <2>2, <2>3, <2>4 DEF JobOk, GraphOf
  <2>7. ASSUME NEW e \in Executions, NEW n \in Nodes PROVE TaskOk(j, e, n)'
    <3>1. TaskOk(j, e, n)
      BY <1>1 DEF JobInv
    <3> QED BY <1>2, <1>5, <2>2, <2>3, <2>5, <3>1 DEF TaskOk
  <2>8. JobInv(j)'
    BY <1>5, <2>4, <2>6, <2>7 DEF JobInv
  <2>9. PermitsHeld' /\ permits' \in Nat /\ max_concurrency' \in Nat
    BY <1>1, <1>5, <2>4, HeldUnmoved DEF At, JobsTyped
  <2> QED BY <1>2, <1>5, <2>2, <2>3, <2>8, <2>9, JobSteps
<1>6. \/ \E out \in {checkpoints[j], NoOutcomes} : NextWave(j, out)
      \/ /\ checkpoint_store = "sqlite" /\ UNCHANGED <<outcomes, node>>
         /\ RecordGets(j, "running", "listing") /\ job[j].at = "created"
  BY DEF JobStart, JobListed, RecordGets
<1> QED BY <1>4, <1>5, <1>6

\* gather returns: every node of the wave has completed or failed.
LEMMA WaveDoneStep ==
  ASSUME BackgroundIInv, NEW j \in Jobs, WaveDone(j)
  PROVE  BackgroundIInv'
<1>1. JobsTyped /\ JobInv(j) /\ JobOk(j)
  BY DEF BackgroundIInv, JobInv
<1>2. /\ job[j].at = "gathering" /\ ~job[j].cancel /\ WaveOver(j) /\ ~Raised(j)
      /\ NextWave(j, Gathered(j))
      /\ UNCHANGED <<given, cancelling, checkpoints, late_writes, permits, scalerVars>>
  BY DEF WaveDone
<1>3. \A n \in Nodes : At(j, job[j].execution, n) \notin Working
  BY <1>1, <1>2, WorkingInWave
<1>4. job[j].execution \in Executions /\ GraphOf(j) \subseteq Nodes
  BY <1>1, <1>2, BackgroundAssumption DEF JobOk, JobsTyped, GraphOf
<1>5. ASSUME NEW n \in Wave(j)
      PROVE  n \in Nodes /\ At(j, job[j].execution, n) \in {"completed", "failed"}
  <2>1. n \in Nodes
    BY <1>4, <1>5 DEF Wave
  <2>2. At(j, job[j].execution, n) \in {"completed", "failed", "raised", "cancelled"}
    BY <1>2, <1>5 DEF WaveOver, At, Ended
  <2>3. At(j, job[j].execution, n) # "raised"
    BY <1>2, <1>5 DEF Raised, At
  <2>4. At(j, job[j].execution, n) # "cancelled"
    BY <1>1, <1>2, <1>4, <2>1 DEF JobInv, JobOk, TaskOk
  <2> QED BY <2>1, <2>2, <2>3, <2>4
<1> DEFINE ended == [n \in Nodes |-> IF n \in Wave(j) THEN node[j][job[j].execution][n].at
                                     ELSE outcomes[j][n]]
           failed == {n \in Wave(j) : ended[n] = "failed"}
           out == [n \in Nodes |-> IF n \in Downstream(j, ended, failed) THEN "cancelled"
                                   ELSE ended[n]]
<1>6. Gathered(j) = out
  BY DEF Gathered
<1>7. ASSUME NEW n \in Nodes
      PROVE  /\ ended[n] \in OutcomeStatuses
             /\ n \in Wave(j) => ended[n] = At(j, job[j].execution, n)
             /\ n \notin Wave(j) => ended[n] = outcomes[j][n]
  BY <1>1, <1>5 DEF JobsTyped, OutcomeStatuses, At
<1> HIDE DEF ended
<1>8. /\ out \in [Nodes -> OutcomeStatuses]
      /\ \A n \in Nodes : out[n] = IF n \in Downstream(j, ended, failed) THEN "cancelled"
                                   ELSE ended[n]
  BY <1>7 DEF OutcomeStatuses
<1> HIDE DEF out
<1>9. \A m \in Nodes : ended[m] = "failed" => out[m] = "failed"
  BY <1>8, DownstreamOfFailed
<1>10. ASSUME NEW n \in Nodes, out[n] = "cancelled" PROVE \E m \in Nodes : out[m] = "failed"
  <2>1. CASE n \in Downstream(j, ended, failed)
    <3>1. PICK m \in Wave(j) : ended[m] = "failed"
      BY <2>1, DownstreamOfFailed
    <3> QED BY <1>5, <1>9, <3>1
  <2>2. CASE n \notin Downstream(j, ended, failed)
    <3>1. ended[n] = "cancelled"
      BY <1>8, <1>10, <2>2
    <3>2. n \notin Wave(j) /\ outcomes[j][n] = "cancelled"
      BY <1>5, <1>7, <3>1
    <3>3. PICK m \in Nodes : outcomes[j][m] = "failed"
      BY <1>1, <3>2 DEF JobOk
    <3>4. m \notin Wave(j)
      BY <3>3 DEF Wave
    <3> QED BY <1>7, <1>9, <3>3, <3>4
  <2> QED BY <2>1, <2>2
<1>11. ASSUME NEW n \in Nodes, out[n] = "completed", checkpoint_store = "memory"
       PROVE  checkpoints[j][n] = "completed"
  <2>1. ended[n] = "completed"
    BY <1>8, <1>11
  <2>2. CASE n \in Wave(j)
    BY <1>1, <1>4, <1>7, <1>11, <2>1, <2>2 DEF JobInv, MemoryOk
  <2>3. CASE n \notin Wave(j)
    BY <1>1, <1>7, <1>11, <2>1, <2>3 DEF JobOk
  <2> QED BY <2>2, <2>3
<1>12. NextWave(j, out)
  BY <1>2, <1>6
<1> QED BY <1>2, <1>3, <1>8, <1>10, <1>11, <1>12, NextWaveStep

-----------------------------------------------------------------------------
\* The idle runtime satisfies the inductive invariant.
LEMMA BackgroundInitIInv == BackgroundInit => BackgroundIInv
<1> SUFFICES ASSUME BackgroundInit PROVE BackgroundIInv
  OBVIOUS
<1>1. NoJob \in JobRecords /\ IdleNode \in TaskStates /\ NoOutcomes \in [Nodes -> OutcomeStatuses]
      /\ NoOutcomes \in [Nodes -> Checkpointed] /\ PoolSize \in Nat
  BY BackgroundAssumption DEF NoJob, JobRecords, JobStatuses, IdleNode, TaskStates, NodePlaces,
     NoOutcomes, OutcomeStatuses, Checkpointed
<1>2. JobsTyped
  BY <1>1 DEF JobsTyped, BackgroundInit, TaskStates
<1>3. \A j \in Jobs, e \in Executions, n \in Nodes : At(j, e, n) = "idle"
  BY DEF BackgroundInit, At, IdleNode
<1>4. ASSUME NEW j \in Jobs PROVE JobInv(j)
  <2>1. /\ job[j].status = "none" /\ job[j].at = "none" /\ job[j].execution = 0
        /\ \A n \in Nodes : outcomes[j][n] = "none"
        /\ \A e \in Executions : <<j, e>> \notin cancelling
    BY DEF BackgroundInit, NoJob, NoOutcomes
  <2>2. JobOk(j)
    BY <2>1 DEF JobOk
  <2>3. \A e \in Executions, n \in Nodes : TaskOk(j, e, n) /\ MemoryOk(j, e, n)
    BY <1>3, PlacesOfTasks DEF TaskOk, MemoryOk
  <2> QED BY <2>2, <2>3 DEF JobInv
<1>5. Held = {}
  <2>1. ASSUME NEW t \in NodeTasks PROVE PlaceOf(t) \notin Holding
    <3>1. t[1] \in Jobs /\ t[2] \in Executions /\ t[3] \in Nodes
      BY DEF NodeTasks
    <3>2. PlaceOf(t) = "idle"
      BY <1>3, <3>1 DEF PlaceOf, At
    <3> QED BY <3>2, PlacesOfTasks
  <2> QED BY <2>1 DEF Held
<1>6. PermitsHeld
  <2>1. permits = PoolSize /\ max_concurrency = PoolSize /\ MaxConcurrency \in Nat
    BY BackgroundAssumption DEF BackgroundInit
  <2>2. IsFiniteSet(Held) /\ Cardinality(Held) = 0
    BY <1>5, FS_EmptySet
  <2> QED BY <1>1, <2>1, <2>2 DEF PermitsHeld
<1> QED BY <1>2, <1>4, <1>6 DEF BackgroundIInv, BackgroundInit

\* Steps of others leave the invariant alone.
LEMMA BackgroundUnchanged ==
  ASSUME BackgroundIInv, UNCHANGED backgroundVars
  PROVE  BackgroundIInv'
<1>1. UNCHANGED <<depends_on, checkpoint_store, job, outcomes, cancelling, node, checkpoints,
                  late_writes, permits, max_concurrency>>
  BY DEF backgroundVars, given, jobVars, scalerVars
<1>2. JobsTyped /\ PermitsHeld /\ (\A i \in Jobs : JobInv(i))
  BY DEF BackgroundIInv
<1>3. \A i \in Jobs : JobInv(i)'
  BY <1>1, <1>2, OtherJobs DEF At, given
<1>4. PermitsHeld' /\ JobsTyped'
  BY <1>1, <1>2, HeldUnmoved DEF At, JobsTyped
<1> QED BY <1>1, <1>3, <1>4 DEF BackgroundIInv

\* Every step of the runtime keeps the inductive invariant.
LEMMA BackgroundStep == BackgroundIInv /\ [BackgroundNext]_backgroundVars => BackgroundIInv'
<1> SUFFICES ASSUME BackgroundIInv, [BackgroundNext]_backgroundVars PROVE BackgroundIInv'
  OBVIOUS
<1>1. CASE UNCHANGED backgroundVars
  BY <1>1, BackgroundUnchanged
<1>2. ASSUME NEW j \in Jobs, Submit(j) \/ CancelJob(j) \/ ResumeJob(j) PROVE BackgroundIInv'
  BY <1>2, SubmitStep, CancelJobStep, ResumeStep
<1>3. ASSUME NEW w \in late_writes, LateWrite(w) PROVE BackgroundIInv'
  BY <1>3, LateWriteStep
<1>4. ASSUME NEW j \in Jobs, JobStep(j) PROVE BackgroundIInv'
  BY <1>4, JobStartStep, NeverStartsStep, WaveDoneStep, RaisesStep DEF JobStep
<1>5. ASSUME NEW j \in Jobs, NEW e \in Executions, NEW n \in Nodes, NodeAcquire(j, e, n)
      PROVE  BackgroundIInv'
  BY <1>5, AcquireStep
<1>6. ASSUME NEW j \in Jobs, NEW e \in Executions, NEW n \in Nodes, NodeStep(j, e, n)
      PROVE  BackgroundIInv'
  <2>1. CASE NodeError(j, e, n)
    <3>1. At(j, e, n) \in Holding
      BY <2>1, PlacesOfTasks DEF NodeError, At
    <3> QED BY <2>1, <3>1, AttemptFailsStep DEF NodeError
  <2> QED BY <1>6, <2>1, OkStep, RetryStep, SavedStep, SaveFailsStep, CancelledStep DEF NodeStep
<1> QED BY <1>1, <1>2, <1>3, <1>4, <1>5, <1>6 DEF BackgroundNext, LoopStep

\* What holds of jobs and pool through retries, failures, cancellation at any await, tasks that
\* an execution leaves behind, and resumption: permits add up, a completed job has completed all
\* its nodes, nodes wait for their dependencies, and no two executions work on one node.
THEOREM JobsAreSound == BackgroundSpec => []JobsSound
<1>1. ASSUME BackgroundIInv PROVE JobsSound
  <2>1. JobsTyped /\ PermitsHeld /\ (\A i \in Jobs : JobInv(i))
    BY <1>1 DEF BackgroundIInv
  <2>2. PermitsExact
    BY <2>1 DEF PermitsHeld, PermitsExact, Held
  <2>3. CompletedMeansAll
    <3> SUFFICES ASSUME NEW j \in Jobs, job[j].status = "completed", NEW n \in GraphOf(j)
                 PROVE  /\ outcomes[j][n] = "completed"
                        /\ checkpoint_store = "memory" => checkpoints[j][n] = "completed"
      BY DEF CompletedMeansAll
    <3>1. JobOk(j)
      BY <2>1 DEF JobInv
    <3>2. n \in Nodes
      BY <2>1, <3>1, BackgroundAssumption DEF JobOk, JobsTyped, GraphOf
    <3> QED BY <3>1, <3>2 DEF JobOk
  <2>4. ASSUME checkpoint_store = "memory", NEW t \in NodeTasks, PlaceOf(t) \in Holding,
               <<t[1], t[2]>> \notin cancelling
        PROVE  /\ t[1] \in Jobs /\ t[2] \in Executions /\ t[3] \in Nodes
               /\ t[2] = job[t[1]].execution /\ job[t[1]].at = "gathering"
               /\ At(t[1], t[2], t[3]) \in Working
    <3>1. t[1] \in Jobs /\ t[2] \in Executions /\ t[3] \in Nodes
      BY DEF NodeTasks
    <3>2. At(t[1], t[2], t[3]) \in Working
      BY <2>4 DEF PlaceOf, At, Working
    <3>3. MemoryOk(t[1], t[2], t[3])
      BY <2>1, <2>4, <3>1 DEF JobInv
    <3> QED BY <2>4, <3>1, <3>2, <3>3 DEF MemoryOk
  <2>5. DependencyOrder
    <3> SUFFICES ASSUME checkpoint_store = "memory", NEW t \in NodeTasks, PlaceOf(t) \in Holding,
                        <<t[1], t[2]>> \notin cancelling, NEW d \in depends_on[t[1]][t[3]]
                 PROVE  checkpoints[t[1]][d] = "completed"
      BY DEF DependencyOrder
    <3>1. PICK j \in Jobs, e \in Executions, n \in Nodes : j = t[1] /\ e = t[2] /\ n = t[3]
      BY <2>4
    <3>2. e = job[j].execution /\ job[j].at = "gathering" /\ At(j, e, n) \in Working
      BY <2>4, <3>1
    <3>3. JobOk(j) /\ TaskOk(j, e, n)
      BY <2>1 DEF JobInv
    <3>4. n \in GraphOf(j) /\ outcomes[j][d] = "completed"
      BY <3>1, <3>2, <3>3 DEF TaskOk
    <3>5. d \in Nodes
      <4>1. j \in DOMAIN depends_on
        BY <3>2, <3>3 DEF JobOk
      <4>2. ValidGraph(depends_on[j]) /\ GraphOf(j) \subseteq Nodes
        BY <2>1, <4>1, BackgroundAssumption DEF JobsTyped, GraphOf
      <4> QED BY <3>1, <3>4, <4>2 DEF ValidGraph, GraphOf
    <3> QED BY <3>1, <3>3, <3>4, <3>5 DEF JobOk
  <2>6. NodeRunsOnce
    <3> SUFFICES ASSUME checkpoint_store = "memory", NEW t \in NodeTasks, NEW u \in NodeTasks,
                        PlaceOf(t) \in Holding, PlaceOf(u) \in Holding,
                        t[1] = u[1], t[3] = u[3], t[2] < u[2], <<t[1], t[2]>> \notin cancelling
                 PROVE  FALSE
      BY DEF NodeRunsOnce
    <3>1. t[1] \in Jobs /\ t[2] = job[t[1]].execution
      BY <2>4
    <3>2. u[2] \in Executions /\ u[3] \in Nodes
      BY DEF NodeTasks
    <3>3. TaskOk(t[1], u[2], u[3])
      BY <2>1, <3>1, <3>2 DEF JobInv
    <3>4. t[2] \in Nat /\ u[2] \in Nat
      BY BackgroundAssumption DEF NodeTasks, Executions
    <3>5. u[2] > job[t[1]].execution
      BY <3>1, <3>4
    <3>6. PlaceOf(u) = "idle"
      BY <3>3, <3>5 DEF TaskOk, PlaceOf, At
    <3> QED BY <3>6, PlacesOfTasks
  <2> QED BY <2>2, <2>3, <2>5, <2>6 DEF JobsSound
<1> QED BY <1>1, BackgroundInitIInv, BackgroundStep, PTL DEF BackgroundSpec
=============================================================================
