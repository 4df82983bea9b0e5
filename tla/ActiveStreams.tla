---- MODULE ActiveStreams ----
(***************************************************************************)
(* The registry of live agent runs, agent/active_streams.py, for ONE       *)
(* conversation: the one-run-per-conversation claim, the registered stop   *)
(* and inject handle, and the parked stop.  Entries of different           *)
(* conversations live under different dictionary keys and never interact.  *)
(*                                                                         *)
(* Every "async with _lock" body is one step.  A body holds no await, so   *)
(* it cannot be interleaved; two bodies of the same coroutine can.         *)
(*                                                                         *)
(* This module has the state and the operations.  ConversationRuns gives   *)
(* the tasks that call them.                                               *)
(***************************************************************************)
EXTENDS Integers, FiniteSets

CONSTANTS Tasks,        \* asyncio tasks that may run this conversation
          NoTask

ASSUME NoTaskAssumption == NoTask \notin Tasks

VARIABLES claim,        \* _claims[cid]: who owns the conversation
          stream,       \* _streams[cid]: whose handle is registered
          handle,       \* the ActiveStream object of each task
          pendingStop,  \* cid \in _pending_stops, and not older than its TTL
          over          \* tasks for which task.done() holds

registryVars == <<claim, stream, handle, pendingStop>>

(* A task claims as "route" (the chat or Slack handler) and as "agent"     *)
(* (stream_agent): two run ids, minted by the same task.                   *)
RunIds == {"route", "agent"}
NoClaim == [task |-> NoTask, run |-> "none"]
Claims == [task : Tasks, run : RunIds] \cup {NoClaim}

Handles == [state : {"none", "live", "ended"}, stop : BOOLEAN,
            closing : BOOLEAN, pending : Nat, superseded : Tasks \cup {NoTask}]
NoHandle == [state |-> "none", stop |-> FALSE, closing |-> FALSE,
             pending |-> 0, superseded |-> NoTask]

RegistryTypeOK ==
    /\ claim \in Claims
    /\ stream \in Tasks \cup {NoTask}
    /\ handle \in [Tasks -> Handles]
    /\ pendingStop \in BOOLEAN
    /\ over \subseteq Tasks

RegistryInit ==
    /\ claim = NoClaim
    /\ stream = NoTask
    /\ handle = [t \in Tasks |-> NoHandle]
    /\ pendingStop = FALSE
    /\ over = {}

----------------------------------------------------------------------------
(* The claim. *)

(* RunClaim.live: not released, and its task has not finished. *)
ClaimLive == claim # NoClaim /\ claim.task \notin over

(* try_claim succeeds for the task that holds the claim already, under
   whichever run id; the outer claim is then kept. *)
CanClaim(t) == ClaimLive => claim.task = t

TryClaim(t, run) ==
    /\ CanClaim(t)
    /\ claim' = IF ClaimLive THEN claim ELSE [task |-> t, run |-> run]

(* Mutant: whoever releases, the claim is gone. *)
ReleaseAnyClaim(t, run) == claim' = NoClaim

(* release_claim leaves a claim of another run id alone. *)
ReleaseClaim(t, run) ==
    claim' = IF claim = [task |-> t, run |-> run] THEN NoClaim ELSE claim

----------------------------------------------------------------------------
(* The handle. *)

StreamLive(t) == handle[t].state = "live" /\ t \notin over

Register(t) ==
    /\ handle' = [handle EXCEPT ![t] =
         [state |-> "live", stop |-> pendingStop, closing |-> FALSE, pending |-> 0,
          superseded |-> IF stream # NoTask /\ StreamLive(stream)
                         THEN stream ELSE NoTask]]
    /\ stream' = t
    /\ pendingStop' = FALSE

RequestPendingStop == pendingStop' = TRUE

(* Mutant: whatever is registered is removed. *)
UnregisterWhatever(t) ==
    /\ handle' = [handle EXCEPT ![t].state = "ended", ![t].closing = TRUE]
    /\ stream' = NoTask
    /\ pendingStop' = FALSE

(* Mutant: the stop flag goes with the handle, before the run has read it. *)
UnregisterForgetsStop(t) ==
    /\ handle' = [handle EXCEPT ![t] = [NoHandle EXCEPT !.state = "ended"]]
    /\ stream' = IF stream # t THEN stream ELSE NoTask
    /\ pendingStop' = (pendingStop /\ stream # t)

(* Only t's own handle is removed; a live displaced handle comes back, and a
   parked stop goes with the last handle. *)
Unregister(t) ==
    LET previous == handle[t].superseded
        restored == previous # NoTask /\ StreamLive(previous)
    IN  /\ handle' = [handle EXCEPT ![t].state = "ended", ![t].closing = TRUE]
        /\ stream' = IF stream # t THEN stream
                     ELSE IF restored THEN previous ELSE NoTask
        /\ pendingStop' = (pendingStop /\ (stream # t \/ restored))

(* ActiveStream.interrupt: the stop flag, on the handle and on the one it
   displaced. *)
Interrupted(s) ==
    LET displaced == handle[s].superseded
        hit == {s} \cup
               IF displaced # NoTask /\ handle[displaced].state = "live"
               THEN {displaced} ELSE {}
    IN  [u \in Tasks |-> [handle[u] EXCEPT !.stop = @ \/ u \in hit]]

Closed(t) == [handle EXCEPT ![t].closing = TRUE]

(* inject: count the message, unless the run is finishing. *)
CanInject == stream # NoTask /\ ~handle[stream].closing /\ StreamLive(stream)
InjectionCounted == [handle EXCEPT ![stream].pending = @ + 1]

(* max(0, ...): the turn may have consumed the count already. *)
InjectionFailed(s) == [handle EXCEPT ![s].pending = IF @ > 0 THEN @ - 1 ELSE 0]

(* Mutant: every turn result may end the run. *)
FinishesAtAnyResult(t, mayFinish) == mayFinish /\ handle[t].pending \in Nat

(* end_turn: a waiting injection is answered by the next turn, so this result
   consumes it; otherwise the run may finish. *)
EndTurnFinishes(t, mayFinish) == handle[t].pending = 0 /\ mayFinish
EndTurn(t, mayFinish) ==
    IF handle[t].pending > 0 THEN [handle EXCEPT ![t].pending = @ - 1]
    ELSE IF mayFinish THEN Closed(t)
    ELSE handle

============================================================================
