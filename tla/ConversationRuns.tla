---- MODULE ConversationRuns ----
(***************************************************************************)
(* The runs of one conversation: the dashboard chat, inject and interrupt  *)
(* handlers of api/routes.py and the Claude run loop of agent/client.py,   *)
(* over the registry of ActiveStreams.                                     *)
(*                                                                         *)
(* A task carries one message.  A chat task claims the conversation before *)
(* it records the message; if the conversation is busy it tries to inject  *)
(* the message into the live run.  A headless task (webhook, recovery,     *)
(* scheduled flow) goes straight to stream_agent and waits its turn there. *)
(*                                                                         *)
(* External: the Claude CLI behind the SDK client.  It answers the         *)
(* messages written to it in order, one turn or several messages per       *)
(* result, and runs one follow-up turn when a background Agent task ends.  *)
(***************************************************************************)
EXTENDS ActiveStreams, Sequences

CONSTANTS Chats,        \* tasks of the dashboard chat route; the rest are headless
          Mortal,       \* tasks that may die in the middle of their run
          MaxAttempts,  \* MAX_ACCOUNT_RETRIES
          MaxStops      \* bound on the user's Stop presses

ASSUME ChatsAssumption == Chats \subseteq Tasks
ASSUME MortalAssumption == Mortal \subseteq Tasks
ASSUME AttemptsAssumption == MaxAttempts \in Nat \ {0}
ASSUME StopsAssumption == MaxStops \in Nat

VARIABLES pc,           \* where each task is
          attempt,      \* index of the account attempt, from 1
          verdict,      \* why the current attempt left the receive loop
          inbox,        \* messages written to the task's client, not answered yet
          sub,          \* an Agent sub-agent of the run: "no", "pending", "ended"
          aim,          \* the run and attempt an injection was counted on
          status,       \* conversations.status
          stops,        \* Stop presses so far
          stopReq,      \* the interrupt request in progress
          answered,     \* history: tasks whose message got a turn result
          outcome,      \* history: status each run ended its conversation with
          asked         \* history: runs whose handle a Stop reached

runVars == <<pc, attempt, verdict, inbox, sub, aim>>
docVars == <<status, outcome>>
stopVars == <<stops, stopReq, asked>>
vars == <<registryVars, over, runVars, docVars, stopVars, answered>>

Steps == {"idle", "busy", "injecting", "injected", "prep", "entering",
          "waiting", "warming", "reading", "closing", "releasing", "settling",
          "leaving", "routeLeaving", "abandoned", "done"}
Statuses == {"none", "running", "completed", "interrupted", "error"}
Verdicts == {"none", "normal", "retry", "error"}
NoAim == [task |-> NoTask, attempt |-> 0]
FollowUp == NoTask      \* the turn the CLI runs for an ended background task
Asks == [task : Tasks, attempt : 0..MaxAttempts]
NoStop == "none"

TypeOK ==
    /\ RegistryTypeOK
    /\ pc \in [Tasks -> Steps]
    /\ attempt \in [Tasks -> 0..MaxAttempts]
    /\ verdict \in [Tasks -> Verdicts]
    /\ inbox \in [Tasks -> Seq(Tasks \cup {FollowUp})]
    /\ sub \in [Tasks -> {"no", "pending", "ended"}]
    /\ aim \in [Tasks -> [task : Tasks \cup {NoTask}, attempt : 0..MaxAttempts]]
    /\ status \in Statuses
    /\ outcome \in [Tasks -> Statuses]
    /\ stops \in 0..MaxStops
    /\ stopReq \in {"none", "looking", "parking"}
    /\ answered \subseteq Tasks
    /\ asked \subseteq Asks

Init ==
    /\ RegistryInit
    /\ pc = [t \in Tasks |-> "idle"]
    /\ attempt = [t \in Tasks |-> 0]
    /\ verdict = [t \in Tasks |-> "none"]
    /\ inbox = [t \in Tasks |-> <<>>]
    /\ sub = [t \in Tasks |-> "no"]
    /\ aim = [t \in Tasks |-> NoAim]
    /\ status = "none"
    /\ outcome = [t \in Tasks |-> "none"]
    /\ stops = 0
    /\ stopReq = NoStop
    /\ answered = {} /\ asked = {}

Goto(t, step) == pc' = [pc EXCEPT ![t] = step]
From(t, step, next) == pc[t] = step /\ Goto(t, next)

----------------------------------------------------------------------------
(* The chat route: claim, or offer the message to the live run. *)

ChatClaims(t) ==
    /\ t \in Chats
    /\ From(t, "idle", "prep")
    /\ TryClaim(t, "route")
    /\ UNCHANGED <<stream, handle, pendingStop, over, attempt, verdict, inbox, sub,
                   aim, docVars, stopVars, answered>>

ChatFindsBusy(t) ==
    /\ t \in Chats
    /\ From(t, "idle", "busy")
    /\ ~CanClaim(t)
    /\ UNCHANGED <<registryVars, over, attempt, verdict, inbox, sub, aim,
                   docVars, stopVars, answered>>

(* 409 without injection: files attached, a duplicate, another user's run,
   expired connector tokens, a runtime without injection, or a closing run.
   The dashboard (external) keeps the message and sends it again. *)
BusyRefuses(t) ==
    /\ From(t, "busy", "idle")
    /\ UNCHANGED <<registryVars, over, attempt, verdict, inbox, sub, aim,
                   docVars, stopVars, answered>>

InjectCounts(t) ==
    /\ From(t, "busy", "injecting")
    /\ CanInject
    /\ handle' = InjectionCounted
    /\ aim' = [aim EXCEPT ![t] = [task |-> stream, attempt |-> attempt[stream]]]
    /\ UNCHANGED <<claim, stream, pendingStop, over, attempt, verdict, inbox, sub,
                   docVars, stopVars, answered>>

SameAttempt(t) == aim[t].task \in Tasks /\ attempt[aim[t].task] = aim[t].attempt

(* client.query returned: read by the run loop, or written to a client whose
   loop has stopped reading and which is not disconnected yet. *)
InjectDelivers(t) ==
    /\ From(t, "injecting", "injected")
    /\ SameAttempt(t)
    /\ \/ /\ pc[aim[t].task] = "reading"
          /\ inbox' = [inbox EXCEPT ![aim[t].task] = Append(@, t)]
       \/ /\ pc[aim[t].task] \in {"closing", "releasing", "abandoned"}
          /\ UNCHANGED inbox
    /\ over' = over \cup {t}
    /\ UNCHANGED <<registryVars, attempt, verdict, sub, aim, docVars,
                   stopVars, answered>>

(* client.query raised: the count is taken back, the caller answers 409. *)
InjectFails(t) ==
    /\ From(t, "injecting", "idle")
    /\ handle' = IF SameAttempt(t) THEN InjectionFailed(aim[t].task) ELSE handle
    /\ aim' = [aim EXCEPT ![t] = NoAim]
    /\ UNCHANGED <<claim, stream, pendingStop, over, attempt, verdict, inbox, sub,
                   docVars, stopVars, answered>>

(* observer.resume or observer.start records the message. *)
ChatRecords(t) ==
    /\ From(t, "prep", "entering")
    /\ status' = "running"
    /\ UNCHANGED <<registryVars, over, attempt, verdict, inbox, sub, aim,
                   outcome, stopVars, answered>>

(* An early return (no such agent, ...) before the message was recorded. *)
ChatGivesUp(t) ==
    /\ From(t, "prep", "routeLeaving")
    /\ UNCHANGED <<registryVars, over, attempt, verdict, inbox, sub, aim,
                   docVars, stopVars, answered>>

(* A webhook, a flow or recovery resumes the conversation whatever runs on it. *)
HeadlessArrives(t) ==
    /\ t \notin Chats
    /\ From(t, "idle", "entering")
    /\ status' = "running"
    /\ UNCHANGED <<registryVars, over, attempt, verdict, inbox, sub, aim,
                   outcome, stopVars, answered>>

----------------------------------------------------------------------------
(* stream_agent and the receive loop of _stream_agent. *)

EnterAgent(t) ==
    /\ From(t, "entering", "warming")
    /\ TryClaim(t, "agent")
    /\ attempt' = [attempt EXCEPT ![t] = 1]
    /\ UNCHANGED <<stream, handle, pendingStop, over, verdict, inbox, sub, aim, docVars, stopVars, answered>>

AgentWaits(t) ==
    /\ From(t, "entering", "waiting")
    /\ ~CanClaim(t)
    /\ UNCHANGED <<registryVars, over, attempt, verdict, inbox, sub, aim,
                   docVars, stopVars, answered>>

(* wait_for_release returned and the claim is free; resume(record_prompt=False)
   flips the status back. *)
AgentWakes(t) ==
    /\ From(t, "waiting", "warming")
    /\ TryClaim(t, "agent")
    /\ attempt' = [attempt EXCEPT ![t] = 1]
    /\ status' = "running"
    /\ UNCHANGED <<stream, handle, pendingStop, over, verdict, inbox, sub, aim, outcome, stopVars, answered>>

(* No client: an error on the first attempt; on a retry the loop just returns. *)
AcquireFails(t) ==
    /\ From(t, "warming", "leaving")
    /\ IF attempt[t] = 1
       THEN status' = "error" /\ outcome' = [outcome EXCEPT ![t] = "error"]
       ELSE UNCHANGED docVars
    /\ UNCHANGED <<registryVars, over, attempt, verdict, inbox, sub, aim,
                   stopVars, answered>>

(* client.query(full_prompt), then register; a parked stop aborts the turn,
   whose result ends the run. *)
QueryAndRegister(t) ==
    /\ From(t, "warming", "reading")
    /\ Register(t)
    /\ inbox' = [inbox EXCEPT ![t] = <<t>>]
    /\ sub' = [sub EXCEPT ![t] = "no"]
    /\ UNCHANGED <<claim, over, attempt, verdict, aim, docVars, stopVars, answered>>

(* An Agent call starts; later its result, or its terminal task message with a
   follow-up turn, is read. *)
SubagentStarts(t) ==
    /\ pc[t] = "reading" /\ sub[t] = "no" /\ inbox[t] # <<>>
    /\ sub' = [sub EXCEPT ![t] = "pending"]
    /\ UNCHANGED <<registryVars, over, pc, attempt, verdict, inbox, aim,
                   docVars, stopVars, answered>>

SubagentEnds(t) ==
    /\ pc[t] = "reading" /\ sub[t] = "pending"
    /\ sub' = [sub EXCEPT ![t] = "ended"]
    /\ \/ UNCHANGED inbox
       \/ inbox' = [inbox EXCEPT ![t] = Append(@, FollowUp)]
    /\ UNCHANGED <<registryVars, over, pc, attempt, verdict, aim, docVars,
                   stopVars, answered>>

MayFinish(t) == sub[t] # "pending"

(* A ResultMessage: the turn answered the first n messages. *)
TurnResult(t) ==
    /\ pc[t] = "reading"
    /\ \E n \in 1..Len(inbox[t]) :
         /\ inbox' = [inbox EXCEPT ![t] = SubSeq(@, n + 1, Len(@))]
         /\ answered' = answered \cup ({inbox[t][i] : i \in 1..n} \ {FollowUp})
    /\ IF handle[t].stop \/ EndTurnFinishes(t, MayFinish(t))
       THEN /\ handle' = Closed(t)
            /\ verdict' = [verdict EXCEPT ![t] = "normal"]
            /\ Goto(t, "closing")
       ELSE /\ handle' = EndTurn(t, MayFinish(t))
            /\ UNCHANGED <<verdict, pc>>
    /\ UNCHANGED <<claim, stream, pendingStop, over, attempt, sub, aim, docVars,
                   stopVars>>

(* Mutant: the wait has no bound, only a Stop closes the stream. *)
StreamStopsOnStop(t) ==
    /\ handle[t].stop
    /\ From(t, "reading", "closing")
    /\ handle' = Closed(t)
    /\ verdict' = [verdict EXCEPT ![t] = "normal"]
    /\ UNCHANGED <<claim, stream, pendingStop, over, attempt, inbox, sub, aim, docVars, stopVars, answered>>

(* The bounded wait ran out, or the CLI closed its message stream. *)
StreamStops(t) ==
    /\ From(t, "reading", "closing")
    /\ handle' = Closed(t)
    /\ verdict' = [verdict EXCEPT ![t] = "normal"]
    /\ UNCHANGED <<claim, stream, pendingStop, over, attempt, inbox, sub, aim, docVars, stopVars, answered>>

(* The turn limit, or a rate limit or authentication error of the account. *)
LoopBreaks(t) ==
    /\ From(t, "reading", "closing")
    /\ \E v \in {"normal", "retry"} : verdict' = [verdict EXCEPT ![t] = v]
    /\ UNCHANGED <<registryVars, over, attempt, inbox, sub, aim, docVars,
                   stopVars, answered>>

(* Any other exception: record_error, then the finally block. *)
RunFails(t) ==
    /\ From(t, "reading", "closing")
    /\ verdict' = [verdict EXCEPT ![t] = "error"]
    /\ status' = "error"
    /\ outcome' = [outcome EXCEPT ![t] = "error"]
    /\ UNCHANGED <<registryVars, over, attempt, inbox, sub, aim, stopVars,
                   answered>>

(* finally: unregister ... *)
UnregisterHandle(t) ==
    /\ From(t, "closing", "releasing")
    /\ Unregister(t)
    /\ inbox' = [inbox EXCEPT ![t] = <<>>]
    /\ sub' = [sub EXCEPT ![t] = "no"]
    /\ UNCHANGED <<claim, over, attempt, verdict, aim, docVars,
                   stopVars, answered>>

(* ... then pool.release, which disconnects the client.  A rate-limited
   attempt starts over with the full prompt on another account. *)
ReleaseClient(t) ==
    /\ pc[t] = "releasing"
    /\ verdict' = [verdict EXCEPT ![t] = "none"]
    /\ \/ /\ verdict[t] = "retry" /\ attempt[t] < MaxAttempts
          /\ attempt' = [attempt EXCEPT ![t] = @ + 1]
          /\ Goto(t, "warming")
          /\ UNCHANGED docVars
       \/ /\ verdict[t] = "retry" /\ attempt[t] = MaxAttempts
          /\ Goto(t, "leaving")
          /\ status' = "error"
          /\ outcome' = [outcome EXCEPT ![t] = "error"]
          /\ UNCHANGED attempt
       \/ /\ verdict[t] = "error"
          /\ Goto(t, "leaving")
          /\ UNCHANGED <<attempt, docVars>>
       \/ /\ verdict[t] = "normal"
          /\ Goto(t, "settling")
          /\ UNCHANGED <<attempt, docVars>>
    /\ UNCHANGED <<registryVars, over, inbox, sub, aim, stopVars, answered>>

(* record_usage, then mark_interrupted or finish. *)
Settle(t) ==
    /\ From(t, "settling", "leaving")
    /\ status' = IF handle[t].stop THEN "interrupted" ELSE "completed"
    /\ outcome' = [outcome EXCEPT ![t] = status']
    /\ UNCHANGED <<registryVars, over, attempt, verdict, inbox, sub, aim,
                   stopVars, answered>>

(* stream_agent's finally; a chat then releases the route's claim as well. *)
LeaveAgent(t) ==
    /\ From(t, "leaving", IF t \in Chats THEN "routeLeaving" ELSE "done")
    /\ ReleaseClaim(t, "agent")
    /\ over' = IF t \in Chats THEN over ELSE over \cup {t}
    /\ UNCHANGED <<stream, handle, pendingStop, attempt, verdict, inbox, sub, aim, docVars, stopVars, answered>>

LeaveRoute(t) ==
    /\ From(t, "routeLeaving", "done")
    /\ ReleaseClaim(t, "route")
    /\ over' = over \cup {t}
    /\ UNCHANGED <<stream, handle, pendingStop, attempt, verdict, inbox, sub, aim, docVars, stopVars, answered>>

(* The task ends while the generator is suspended at a yield: the route's own
   finally runs, the generator's finally blocks run later, in another task. *)
Abandon(t) ==
    /\ t \in Mortal
    /\ From(t, "reading", "abandoned")
    /\ over' = over \cup {t}
    /\ ReleaseClaim(t, "route")
    /\ UNCHANGED <<stream, handle, pendingStop, attempt, verdict, inbox, sub, aim, docVars, stopVars, answered>>

LateFinally(t) ==
    /\ From(t, "abandoned", "done")
    /\ Unregister(t)
    /\ ReleaseClaim(t, "agent")
    /\ inbox' = [inbox EXCEPT ![t] = <<>>]
    /\ sub' = [sub EXCEPT ![t] = "no"]
    /\ UNCHANGED <<over, attempt, verdict, aim, docVars, stopVars,
                   answered>>

----------------------------------------------------------------------------
(* The interrupt route. *)

(* get_for_user found a handle: stop it. *)
StopHandle ==
    /\ stops < MaxStops /\ stopReq = NoStop
    /\ stream # NoTask
    /\ handle' = Interrupted(stream)
    /\ stops' = stops + 1
    /\ asked' = asked \cup {[task |-> stream, attempt |-> attempt[stream]]}
    /\ UNCHANGED <<claim, stream, pendingStop, over, runVars, docVars, answered, stopReq>>

(* get_for_user answers None: no handle is registered, or the one of a run that
   somebody else started, which the owner or an administrator asks to stop.  The
   handler goes on to read the conversation.  The dashboard (external) offers
   Stop while the conversation is running. *)
StopFindsNoHandle ==
    /\ stops < MaxStops /\ stopReq = NoStop
    /\ status = "running"
    /\ stopReq' = "looking"
    /\ stops' = stops + 1
    /\ UNCHANGED <<registryVars, over, runVars, docVars, answered, asked>>

(* find_one: only a running conversation gets the stop parked. *)
StopReadsStatus ==
    /\ stopReq = "looking"
    /\ stopReq' = IF status = "running" THEN "parking" ELSE NoStop
    /\ UNCHANGED <<registryVars, over, runVars, docVars, answered, stops, asked>>

StopParks ==
    /\ stopReq = "parking"
    /\ RequestPendingStop
    /\ stopReq' = NoStop
    /\ UNCHANGED <<claim, stream, handle, over, runVars, docVars, answered, stops, asked>>

(* PENDING_STOP_TTL_SECONDS went by: register would ignore the stop. *)
PendingStopExpires ==
    /\ pendingStop
    /\ pendingStop' = FALSE
    /\ UNCHANGED <<claim, stream, handle, over, runVars, docVars, answered, stopVars>>

----------------------------------------------------------------------------
Arrival(t) == ChatClaims(t) \/ ChatFindsBusy(t) \/ HeadlessArrives(t)

(* What the handler of a request goes on to do. *)
ChatStep(t) ==
    \/ BusyRefuses(t) \/ InjectCounts(t) \/ InjectDelivers(t) \/ InjectFails(t)
    \/ ChatRecords(t) \/ ChatGivesUp(t)

(* What the run's own coroutine and the CLI it drives keep doing. *)
RunStep(t) ==
    \/ EnterAgent(t) \/ AgentWaits(t) \/ AgentWakes(t) \/ QueryAndRegister(t)
    \/ TurnResult(t) \/ StreamStops(t) \/ UnregisterHandle(t) \/ ReleaseClient(t)
    \/ Settle(t) \/ LeaveAgent(t) \/ LeaveRoute(t)

(* LateFinally has no deadline: it waits for the garbage collector. *)
Mishap(t) ==
    \/ AcquireFails(t) \/ LoopBreaks(t) \/ RunFails(t) \/ Abandon(t) \/ LateFinally(t)

StopStep ==
    \/ StopHandle \/ StopFindsNoHandle \/ StopReadsStatus \/ StopParks
    \/ PendingStopExpires

(* Every task is through: nothing more happens in this instance. *)
Finished ==
    /\ \A t \in Tasks : pc[t] \in {"done", "injected"}
    /\ UNCHANGED vars

TaskStep(t) ==
    \/ Arrival(t) \/ ChatStep(t) \/ RunStep(t) \/ Mishap(t)
    \/ SubagentStarts(t) \/ SubagentEnds(t)

Next == (\E t \in Tasks : TaskStep(t)) \/ StopStep \/ Finished

Spec == Init /\ [][Next]_vars

(* asyncio resumes every ready coroutine, and the CLI answers or its stream
   ends.  Nothing makes a user write, press Stop, or a run fail. *)
Fairness == \A t \in Tasks : WF_vars(ChatStep(t)) /\ WF_vars(RunStep(t))

FairSpec == Spec /\ Fairness

----------------------------------------------------------------------------
(* Properties. *)

InAgent == {"warming", "reading", "closing", "releasing", "settling", "leaving"}
Owns(t) ==
    \/ pc[t] \in InAgent
    \/ t \in Chats /\ pc[t] \in {"prep", "entering", "routeLeaving"}

(* One run at a time per conversation (active_streams.py:14-18): no two tasks
   are between their claim and its release, although a dead task's claim is
   taken over and its late finally blocks run beside the next run. *)
OneRun == \A t, u \in Tasks : Owns(t) /\ Owns(u) => t = u

(* Why OneRun holds: a live claim belongs to a task between its claim and its
   release, and whoever is there holds it; a chat holds it under the run id of
   its route, so that stream_agent's own release leaves it alone. *)
ClaimInv ==
    /\ \A t \in Tasks : t \in over <=> pc[t] \in {"injected", "abandoned", "done"}
    /\ \A t \in Tasks : pc[t] \in {"busy", "injecting", "injected", "prep", "routeLeaving"}
                          => t \in Chats
    /\ \A t \in Tasks : pc[t] = "waiting" => t \notin Chats
    /\ claim # NoClaim => claim.run = IF claim.task \in Chats THEN "route" ELSE "agent"
    /\ \A t \in Tasks : Owns(t) => claim.task = t
    /\ ClaimLive => Owns(claim.task)

(* Why a live handle is never displaced: only a run that owns the conversation
   is reading, and its handle is the registered one. *)
HandleInv ==
    /\ \A t \in Tasks : handle[t].superseded = NoTask
    /\ \A t \in Tasks : handle[t].state = "live"
                          => pc[t] \in {"reading", "closing", "abandoned"}
    /\ \A t \in Tasks : pc[t] \in {"reading", "closing"} => stream = t

(* The same as a refinement: the conversation is a lock that each task holds
   once, whoever claims under which run id, dies, or finalises late. *)
LetGoOf == {t \in Tasks : pc[t] \in {"abandoned", "done"}}
Lock == INSTANCE ConversationLock WITH
            holder <- IF ClaimLive THEN claim.task ELSE NoTask,
            retired <- LetGoOf
ImplementsLock == Lock!LockSpec

(* A live run's handle is always the registered one, so Stop and inject reach
   it, whatever stale handles are unregistered meanwhile. *)
StopReachesLiveRun ==
    \A t \in Tasks : pc[t] \in {"reading", "closing"} => stream = t

(* register never displaces a live handle ("try_claim should make this
   impossible", active_streams.py:147). *)
NeverDisplaced == \A t \in Tasks : handle[t].superseded = NoTask

(* Both together: a lookup by Stop or inject finds the live run, and no other. *)
HandleIsReachable == StopReachesLiveRun /\ NeverDisplaced

(* A run that decides to finish at a turn result, and had no Agent call, has
   answered every message injected into it and has none on the way. *)
InjectedInto(t) == {i \in Tasks : aim[i] = [task |-> t, attempt |-> attempt[t]]}
FinishAnswersInjections ==
    [][\A t \in Tasks :
         (TurnResult(t) /\ pc'[t] = "closing" /\ ~handle[t].stop /\ sub[t] = "no")
           => \A i \in InjectedInto(t) : pc[i] = "injected" /\ i \in answered']_vars

(* A run queued behind a busy conversation eventually starts, even when the
   run it waits for died without releasing its claim. *)
WaitingRunStarts == \A t \in Tasks : pc[t] = "waiting" ~> pc[t] # "waiting"

(* A stop that found the handle of a run under way is honoured: unless the run
   starts over on another account, it does not end as completed, even when the
   stop comes after the loop decided to finish. *)
HandleStopHonoured ==
    \A a \in asked : attempt[a.task] = a.attempt => outcome[a.task] # "completed"

============================================================================
