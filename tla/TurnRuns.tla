------------------------------ MODULE TurnRuns ------------------------------
(***************************************************************************)
(* The life of a turn in the API process and its record in the             *)
(* RunControlRegistry.  A turn comes in over SSE, through the              *)
(* OpenAI-compatible gateway, or as a message on one WebSocket; it is      *)
(* admitted under the tenant's active-run cap, streams events, and ends.   *)
(* Clients cancel over the WebSocket or go away; administrators cancel any *)
(* run.  The event loop is single-threaded: a step runs from one await to  *)
(* the next.                                                               *)
(*                                                                         *)
(* One tenant; a run id is used for one turn.  Sessions, entitlements,     *)
(* ingress gates and the rate limit come before admission and only reduce  *)
(* the number of turns.                                                    *)
(***************************************************************************)
EXTENDS Naturals, Sequences, FiniteSets

CONSTANTS
  Runs,            \* run ids, one for each turn
  Transports,      \* among "sse", "gateway" and "websocket"
  MaxActiveRuns,   \* max_active_runs_per_tenant; 0 for no cap
  MaxTerminal      \* max_terminal_records_per_tenant; 0 keeps all

ASSUME TurnAssumption ==
  /\ Transports \in SUBSET {"sse", "gateway", "websocket"}
  /\ MaxActiveRuns \in Nat /\ MaxTerminal \in Nat
  /\ IsFiniteSet(Runs)

VARIABLES
  records,         \* _records: run -> status, cancel_requested, and whether call ids are known
  finish_order,    \* the runs marked terminal, by finished_at_utc
  turn,            \* what the coroutine of each turn is doing
  socket,          \* the WebSocket: open, lost by the client, closed by the server
  awaiting,        \* the run whose task the cancel handler awaits, if any
  active_tasks,    \* active_tasks of the WebSocket: runs whose task it knows
  tool_calls,      \* active_run_tool_calls: runs with call ids
  cancel_asked,    \* history: runs for which a cancellation was requested
  replied          \* history: runs for which run_cancelled was sent

registryVars == <<records, finish_order, cancel_asked>>
socketVars == <<socket, awaiting, active_tasks, tool_calls, replied>>
turnVars == <<registryVars, turn, socketVars>>

Nobody == "nobody"
Absent == [status |-> "absent", cancel |-> FALSE, calls |-> FALSE]
ActiveStatuses == {"running", "cancel_requested"}
TerminalStatuses == {"completed", "errored", "cancelled"}   \* _TERMINAL_STATUSES
Statuses == ActiveStatuses \cup TerminalStatuses \cup {"interrupted", "absent"}

\* created: the response or task exists and has not run; streaming: the turn waits for the
\* next event of _stream_turn; handing: it waits until an event has been taken or sent;
\* closing: it waits until its cancellation events have been taken or sent.
Places == {"new", "rejected", "created", "streaming", "handing", "closing", "ended"}
NewTurn == [at |-> "new", transport |-> "none", calls |-> FALSE,
            outcome |-> "none", cancelled |-> FALSE]

TurnInit ==
  /\ records = [r \in Runs |-> Absent]
  /\ finish_order = <<>>
  /\ turn = [r \in Runs |-> NewTurn]
  /\ socket = "open"
  /\ awaiting = Nobody
  /\ active_tasks = {}
  /\ tool_calls = {}
  /\ cancel_asked = {}
  /\ replied = {}

-----------------------------------------------------------------------------
(* RunControlRegistry.  Its methods are operators on the records, since    *)
(* one step of a turn may call several.                                    *)

Started(recs, r) == [recs EXCEPT ![r] = [Absent EXCEPT !.status = "running"]]

ToolCallRecorded(recs, r) ==
  IF recs[r] = Absent THEN recs ELSE [recs EXCEPT ![r].calls = TRUE]

\* Mutation: a request for cancellation is noted whatever the status.
CancelRequestedAlways(recs, r) ==
  IF recs[r] = Absent THEN recs
  ELSE [recs EXCEPT ![r].cancel = TRUE, ![r].status = "cancel_requested"]

CancelRequested(recs, r) ==
  IF recs[r] = Absent THEN recs
  ELSE [recs EXCEPT ![r].cancel = TRUE,
          ![r].status = IF @ \in TerminalStatuses THEN @ ELSE "cancel_requested"]

\* The runs of rs, in some order, have been marked and are the last to have finished.
Reordered(order, rs) ==
  {SelectSeq(order, LAMBDA x : x \notin rs) \o s :
     s \in {q \in [1..Cardinality(rs) -> rs] : \A r \in rs : \E i \in DOMAIN q : q[i] = r}}

Prunable(recs) == {r \in Runs : recs[r].status \in TerminalStatuses}

\* _prune_memory_terminals_unlocked: the finished runs beyond the cap, oldest first.
BeyondCap(recs, order) ==
  LET done == SelectSeq(order, LAMBDA x : x \in Prunable(recs))
      excess == IF MaxTerminal = 0 \/ Cardinality(Prunable(recs)) <= MaxTerminal THEN 0
                ELSE Cardinality(Prunable(recs)) - MaxTerminal
  IN  {r \in Prunable(recs) : \E i \in 1..excess : done[i] = r}

Pruned(recs, gone) == [r \in Runs |-> IF r \in gone THEN Absent ELSE recs[r]]

\* mark_terminal on each run of rs that has a record, after the changes in recs.
MarkTerminal(recs, rs, status) ==
  LET marked == {r \in rs : recs[r] # Absent}
      after == [r \in Runs |-> IF r \in marked THEN [recs[r] EXCEPT !.status = status] ELSE recs[r]]
  IN \E order \in Reordered(finish_order, marked) :
       IF marked = {} THEN records' = recs /\ finish_order' = finish_order
       ELSE LET gone == BeyondCap(after, order)
            IN  /\ records' = Pruned(after, gone)
                /\ finish_order' = SelectSeq(order, LAMBDA x : x \notin gone)

\* _mark_cancelled_if_running
MarkCancelledIfRunning(recs, rs) ==
  MarkTerminal(recs, {r \in rs : recs[r].status \notin TerminalStatuses}, "cancelled")

OnlyRecords(recs) == records' = recs /\ UNCHANGED finish_order

\* count_active_runs
ActiveRuns == {r \in Runs : records[r].status \in ActiveStatuses}

-----------------------------------------------------------------------------
(* Admission: the cap is read and the run recorded without an await in     *)
(* between.                                                                *)

\* Mutation: one run more is let in.
HasCapacityOffByOne == MaxActiveRuns = 0 \/ Cardinality(ActiveRuns) <= MaxActiveRuns

HasCapacity == MaxActiveRuns = 0 \/ Cardinality(ActiveRuns) < MaxActiveRuns

Goto(r, place) == turn' = [turn EXCEPT ![r].at = place]

\* A turn without its session, or refused by entitlement, an ingress gate, the rate limit
\* or the cap, leaves no trace here.
Refused(r) == Goto(r, "rejected") /\ UNCHANGED <<records, finish_order>>

Accepted(r, transport, place) ==
  /\ HasCapacity
  /\ OnlyRecords(Started(records, r))
  /\ turn' = [turn EXCEPT ![r].transport = transport, ![r].at = place]

\* submit_turn_sse returns a response, which will iterate the generator.
SubmitSse(r) ==
  /\ "sse" \in Transports /\ turn[r].at = "new"
  /\ Refused(r) \/ Accepted(r, "sse", "created")
  /\ UNCHANGED <<cancel_asked, socketVars>>

\* A turn of the gateway streams as soon as it is admitted.
SubmitGateway(r) ==
  /\ "gateway" \in Transports /\ turn[r].at = "new"
  /\ Refused(r) \/ Accepted(r, "gateway", "streaming")
  /\ UNCHANGED <<cancel_asked, socketVars>>

\* A turn message on the WebSocket creates a task.
TurnMessage(r) ==
  /\ "websocket" \in Transports /\ turn[r].at = "new"
  /\ socket = "open" /\ awaiting = Nobody
  /\ \/ Refused(r) /\ UNCHANGED active_tasks
     \/ Accepted(r, "websocket", "created") /\ active_tasks' = active_tasks \cup {r}
  /\ UNCHANGED <<cancel_asked, socket, awaiting, tool_calls, replied>>

\* The generator or task runs for the first time.
Begin(r) ==
  /\ turn[r].at = "created" /\ ~turn[r].cancelled
  /\ Goto(r, "streaming")
  /\ UNCHANGED <<registryVars, socketVars>>

\* The client goes away before the response is iterated: the generator, and with it its
\* finally clause, never runs.
AbandonResponse(r) ==
  /\ turn[r].at = "created" /\ turn[r].transport = "sse"
  /\ Goto(r, "ended")
  /\ UNCHANGED <<registryVars, socketVars>>

-----------------------------------------------------------------------------
(* Events of SSE and gateway turns.                                        *)

Kinds == {"output_delta", "tool_call", "run_complete", "error"}

OutcomeAfter(r, kind) ==
  CASE kind = "run_complete" -> "completed"
    [] kind = "error" -> "errored"
    [] OTHER -> turn[r].outcome

RecordsAfter(r, kind) == IF kind = "tool_call" THEN ToolCallRecorded(records, r) ELSE records

\* An SSE turn that has seen calls and finds its run cancelled reports them as cancelled
\* and breaks; the gateway does not look.
HttpEvent(r, kind) ==
  LET calls == turn[r].calls \/ kind = "tool_call"
      breaks == turn[r].transport = "sse" /\ records[r].cancel /\ calls
  IN /\ turn[r].at = "streaming" /\ turn[r].transport \in {"sse", "gateway"}
     /\ OnlyRecords(RecordsAfter(r, kind))
     /\ turn' = [turn EXCEPT ![r].at = IF breaks THEN "closing" ELSE "handing",
                             ![r].calls = calls,
                             ![r].outcome = IF breaks THEN @ ELSE OutcomeAfter(r, kind)]
     /\ UNCHANGED <<cancel_asked, socketVars>>

HttpTaken(r) ==
  /\ turn[r].at = "handing" /\ turn[r].transport \in {"sse", "gateway"}
  /\ Goto(r, "streaming")
  /\ UNCHANGED <<registryVars, socketVars>>

FinalStatus(r, forwarded) ==
  IF turn[r].outcome # "none" THEN turn[r].outcome
  ELSE IF records[r].cancel \/ forwarded THEN "cancelled"
  ELSE "interrupted"

\* The finally clause, when the stream has ended, after a break, or when the client has
\* gone.  forwarded: the execution adapter accepted the cancellation of a call.
HttpClose(r, forwarded) ==
  /\ turn[r].at \in {"streaming", "handing", "closing"}
  /\ turn[r].transport \in {"sse", "gateway"}
  /\ forwarded => turn[r].calls /\ turn[r].outcome = "none"
  /\ MarkTerminal(IF forwarded THEN CancelRequested(records, r) ELSE records,
                  {r}, FinalStatus(r, forwarded))
  /\ cancel_asked' = IF forwarded THEN cancel_asked \cup {r} ELSE cancel_asked
  /\ Goto(r, "ended")
  /\ UNCHANGED socketVars

-----------------------------------------------------------------------------
(* run_turn_task of the WebSocket.                                         *)

OnSocket(r, place) ==
  turn[r].at = place /\ turn[r].transport = "websocket" /\ ~turn[r].cancelled

\* The task forgets its entries as it ends.
Forget(r) == active_tasks' = active_tasks \ {r} /\ tool_calls' = tool_calls \ {r}

\* The finally clause marks the run only if a terminal event was seen.
TaskEnds(r, recs) ==
  /\ IF turn[r].outcome # "none" THEN MarkTerminal(recs, {r}, turn[r].outcome)
     ELSE OnlyRecords(recs)
  /\ Goto(r, "ended")
  /\ Forget(r)

\* An event; a cancelled run reports its calls, is marked cancelled and ends.
SocketEvent(r, kind) ==
  LET known == IF kind = "tool_call" THEN tool_calls \cup {r} ELSE tool_calls
      recs == RecordsAfter(r, kind)
  IN /\ OnSocket(r, "streaming")
     /\ IF ~records[r].cancel
          THEN /\ OnlyRecords(recs)
               /\ turn' = [turn EXCEPT ![r].at = "handing", ![r].outcome = OutcomeAfter(r, kind)]
               /\ tool_calls' = known
               /\ UNCHANGED active_tasks
        ELSE IF r \in known
          THEN /\ OnlyRecords(recs)
               /\ Goto(r, "closing")
               /\ tool_calls' = known
               /\ UNCHANGED active_tasks
        ELSE /\ MarkCancelledIfRunning(recs, {r})
             /\ Goto(r, "ended")
             /\ Forget(r)
     /\ UNCHANGED <<cancel_asked, socket, awaiting, replied>>

SocketSent(r) ==
  /\ socket = "open"
  /\ \/ /\ OnSocket(r, "handing")
        /\ Goto(r, "streaming")
        /\ UNCHANGED <<records, finish_order, active_tasks, tool_calls>>
     \/ /\ OnSocket(r, "closing")
        /\ MarkCancelledIfRunning(records, {r})
        /\ Goto(r, "ended")
        /\ Forget(r)
  /\ UNCHANGED <<cancel_asked, socket, awaiting, replied>>

\* send_json raises, or the stream has ended.
SocketTurnStops(r) ==
  /\ \/ socket # "open" /\ (OnSocket(r, "handing") \/ OnSocket(r, "closing"))
     \/ OnSocket(r, "streaming")
  /\ TaskEnds(r, records)
  /\ UNCHANGED <<cancel_asked, socket, awaiting, replied>>

\* The task is resumed with CancelledError; one that never ran does nothing at all.
SocketTurnCancelled(r) ==
  /\ turn[r].cancelled /\ turn[r].at # "ended"
  /\ IF turn[r].at = "created"
       THEN Goto(r, "ended") /\ UNCHANGED <<records, finish_order, active_tasks, tool_calls>>
       ELSE /\ MarkTerminal(records, {r},
                 IF turn[r].outcome # "none" THEN turn[r].outcome ELSE "cancelled")
            /\ Goto(r, "ended")
            /\ Forget(r)
  /\ UNCHANGED <<cancel_asked, socket, awaiting, replied>>

-----------------------------------------------------------------------------
(* The receive loop of the WebSocket.                                      *)

TaskRunning(r) == r \in active_tasks /\ turn[r].at # "ended"

CancelAsked(rs) == cancel_asked' = cancel_asked \cup {r \in rs : records[r] # Absent}

CancelReplied(r, recs) ==
  /\ Forget(r)
  /\ MarkCancelledIfRunning(recs, {r})
  /\ replied' = replied \cup {r}

\* A cancel message for any run that has been submitted: the request is recorded and the task, if
\* this socket has it, cancelled and awaited; otherwise the reply follows at once.
CancelMessage(r) ==
  /\ socket = "open" /\ awaiting = Nobody
  /\ turn[r].at # "new"
  /\ CancelAsked({r})
  /\ IF TaskRunning(r)
       THEN /\ OnlyRecords(CancelRequested(records, r))
            /\ turn' = [turn EXCEPT ![r].cancelled = TRUE]
            /\ awaiting' = r
            /\ UNCHANGED <<active_tasks, tool_calls, replied>>
       ELSE CancelReplied(r, CancelRequested(records, r)) /\ UNCHANGED <<turn, awaiting>>
  /\ UNCHANGED socket

\* Mutation: the task is not awaited.
CancelReplyAtOnce ==
  /\ awaiting # Nobody
  /\ CancelReplied(awaiting, records)
  /\ awaiting' = Nobody
  /\ UNCHANGED <<cancel_asked, turn, socket>>

CancelReply ==
  /\ awaiting # Nobody /\ turn[awaiting].at = "ended"
  /\ CancelReplied(awaiting, records)
  /\ awaiting' = Nobody
  /\ UNCHANGED <<cancel_asked, turn, socket>>

\* The cancellation events cannot be sent: the handler ends before it marks the run.
CancelReplyFails ==
  /\ awaiting # Nobody /\ turn[awaiting].at = "ended"
  /\ socket = "lost"
  /\ Forget(awaiting)
  /\ awaiting' = Nobody
  /\ UNCHANGED <<registryVars, turn, socket, replied>>

LoseSocket ==
  /\ socket = "open"
  /\ socket' = "lost"
  /\ UNCHANGED <<registryVars, turn, awaiting, active_tasks, tool_calls, replied>>

\* Mutation: only the tasks that have begun are cancelled.
DoomedBegun == {r \in active_tasks : turn[r].at \in {"streaming", "handing", "closing"}}

Doomed == {r \in active_tasks : TaskRunning(r)}

\* WebSocketDisconnect: the tasks are cancelled, not awaited.
Disconnect ==
  /\ socket = "lost" /\ awaiting = Nobody
  /\ socket' = "closed"
  /\ CancelAsked(Doomed)
  /\ turn' = [r \in Runs |-> IF r \in Doomed THEN [turn[r] EXCEPT !.cancelled = TRUE] ELSE turn[r]]
  /\ MarkCancelledIfRunning(
       [r \in Runs |-> IF r \in Doomed THEN CancelRequested(records, r)[r] ELSE records[r]], Doomed)
  /\ tool_calls' = tool_calls \ Doomed
  /\ UNCHANGED <<awaiting, active_tasks, replied>>

\* cancel_runtime_run: the run is marked if the adapter accepts the cancellation of one of
\* its calls.
AdminCancel(r, forwarded) ==
  /\ forwarded => records[r].calls
  /\ CancelAsked({r})
  /\ IF forwarded THEN MarkTerminal(CancelRequested(records, r), {r}, "cancelled")
     ELSE OnlyRecords(CancelRequested(records, r))
  /\ UNCHANGED <<turn, socketVars>>

-----------------------------------------------------------------------------
TurnStep(r) ==
  \/ Begin(r) \/ HttpTaken(r) \/ SocketSent(r) \/ SocketTurnStops(r) \/ SocketTurnCancelled(r)
  \/ AbandonResponse(r)
  \/ \E kind \in Kinds : HttpEvent(r, kind) \/ SocketEvent(r, kind)
  \/ \E forwarded \in BOOLEAN : HttpClose(r, forwarded)

TurnNext ==
  \/ \E r \in Runs :
       \/ TurnStep(r)
       \/ CancelMessage(r)
       \/ SubmitSse(r) \/ SubmitGateway(r) \/ TurnMessage(r)
       \/ \E forwarded \in BOOLEAN : AdminCancel(r, forwarded)
  \/ CancelReply \/ CancelReplyFails \/ LoseSocket \/ Disconnect

TurnSpec == TurnInit /\ [][TurnNext]_turnVars

\* The event loop resumes cancelled tasks and the handler that awaits one, and reports a
\* lost connection.  Nothing is assumed about events, clients or administrators.
TurnFairness ==
  /\ \A r \in Runs : WF_turnVars(SocketTurnCancelled(r))
  /\ WF_turnVars(CancelReply \/ CancelReplyFails)
  /\ WF_turnVars(Disconnect)

TurnLiveSpec == TurnSpec /\ TurnFairness

-----------------------------------------------------------------------------
(* Properties.                                                             *)

\* Type invariant of the registry, the turns and the socket.
TurnTypeOK ==
  /\ records \in [Runs -> [status : Statuses, cancel : BOOLEAN, calls : BOOLEAN]]
  /\ finish_order \in Seq(Runs)
  /\ turn \in [Runs -> [at : Places, transport : Transports \cup {"none"}, calls : BOOLEAN,
                        outcome : {"none", "completed", "errored"}, cancelled : BOOLEAN]]
  /\ socket \in {"open", "lost", "closed"}
  /\ awaiting \in Runs \cup {Nobody}
  /\ active_tasks \in SUBSET Runs /\ tool_calls \in SUBSET Runs
  /\ cancel_asked \in SUBSET Runs /\ replied \in SUBSET Runs

Live(r) == turn[r].at \in {"created", "streaming", "handing", "closing"}

\* The cap bounds the turns that really run, not only the records: of the live turns that
\* nobody has asked to cancel there are never more than max_active_runs_per_tenant, and
\* each has an active record, so that an administrator finds it.
CapEnforced ==
  LET uncancelled == {r \in Runs : Live(r) /\ r \notin cancel_asked}
  IN /\ \A r \in uncancelled : records[r].status \in ActiveStatuses
     /\ MaxActiveRuns # 0 => Cardinality(uncancelled) <= MaxActiveRuns

\* A turn that reported a terminal event and ended has that outcome in its record, or was
\* cancelled, or its record was pruned; no cancellation, disconnect or late clean-up makes
\* it active again or gives it another outcome.
OutcomeKept ==
  \A r \in Runs : turn[r].at = "ended" /\ turn[r].outcome # "none" =>
    records[r].status \in {turn[r].outcome, "cancelled", "absent"}

\* When a client is told that a turn of its socket is cancelled, the turn is over, nothing
\* more of it is sent, and its run is not active.
CancelledStops ==
  \A r \in replied : turn[r].transport = "websocket" =>
    ~Live(r) /\ records[r].status \notin ActiveStatuses

\* "On disconnect: any in-flight turn task is automatically cancelled": after the client is
\* lost all turns of the socket end, whatever their streams do, and a handler that awaits a
\* cancelled task does not wait for ever.
DisconnectEndsTurns ==
  /\ socket = "lost" ~> \A r \in Runs : turn[r].transport = "websocket" => ~Live(r)
  /\ awaiting # Nobody ~> awaiting = Nobody

-----------------------------------------------------------------------------
\* "active run tracking": a run whose turn has ended does not count as active.
EndedNotActive == \A r \in Runs : turn[r].at = "ended" => records[r].status \notin ActiveStatuses

\* Together, what the registry is for: it bounds the turns that run, says how they ended, and a
\* cancellation that is confirmed has happened.
TurnsControlled == CapEnforced /\ OutcomeKept /\ CancelledStops
=============================================================================
