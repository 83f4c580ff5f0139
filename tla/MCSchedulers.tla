---------------------------- MODULE MCSchedulers ----------------------------
(* What decides when work runs: the turns over the transports, and the background jobs.  They     *)
(* share no state and never wait for each other, so every behaviour follows one of them, which    *)
(* focus names, and the other stands still.                                                       *)
(*                                                                                                *)
(* Background: one job of three nodes, b after a and c beside them, of which b is retried once;   *)
(* or a job of one node and one without nodes.                                                    *)
EXTENDS TurnRuns, BackgroundJobs

CONSTANTS j1, j2

VARIABLE focus

schedulerVars == <<focus, turnVars, backgroundVars>>

MCGraphs ==
  {[j \in {j1} |-> [n \in {"a", "b", "c"} |-> IF n = "b" THEN {"a"} ELSE {}]],
   [j \in {j1, j2} |-> [n \in IF j = j1 THEN {"b"} ELSE {} |-> {}]]}
MCRetries == [n \in {"a", "b", "c"} |-> IF n = "b" THEN 1 ELSE 0]

\* The settings of a component that is not in focus are fixed.
Fixed(S) == CHOOSE x \in S : TRUE

SchedulersInit ==
  /\ focus \in {"turns", "background"}
  /\ TurnInit
  /\ BackgroundInit
  /\ focus # "background" => depends_on = Fixed(Workloads) /\ checkpoint_store = Fixed(Stores)

SchedulersNext ==
  \/ focus = "turns" /\ TurnNext /\ UNCHANGED <<focus, backgroundVars>>
  \/ focus = "background" /\ BackgroundNext /\ UNCHANGED <<focus, turnVars>>

\* TurnFairness and BackgroundFairness, each of the component in focus.
SchedulersSpec ==
  /\ SchedulersInit /\ [][SchedulersNext]_schedulerVars
  /\ \A r \in Runs : WF_turnVars(focus = "turns" /\ SocketTurnCancelled(r))
  /\ WF_turnVars(focus = "turns" /\ (CancelReply \/ CancelReplyFails))
  /\ WF_turnVars(focus = "turns" /\ Disconnect)
  /\ WF_backgroundVars(focus = "background" /\ LoopStep)
=============================================================================
