---- MODULE ConversationRunsProofs ----
(***************************************************************************)
(* Theorems about ConversationRuns, for any set of tasks, any number of    *)
(* account attempts and any number of Stop presses; and, after them, about *)
(* the devices that conversations lease: DeviceLeases, for any sets of     *)
(* sessions and devices and any number of faults.                          *)
(***************************************************************************)
EXTENDS ConversationRuns, DeviceLeases, TLAPS, SequenceTheorems, FiniteSetTheorems

USE NoTaskAssumption, ChatsAssumption, MortalAssumption, AttemptsAssumption,
    StopsAssumption DEF NoTaskAssumption, ChatsAssumption, MortalAssumption,
    AttemptsAssumption, StopsAssumption

(* Registered handles stay well formed under every registry operation. *)
LEMMA HandleOperations ==
    ASSUME RegistryTypeOK, NEW t \in Tasks, NEW b \in BOOLEAN
    PROVE  /\ Closed(t) \in [Tasks -> Handles]
           /\ EndTurn(t, b) \in [Tasks -> Handles]
           /\ \A s \in Tasks : InjectionFailed(s) \in [Tasks -> Handles]
           /\ Interrupted(t) \in [Tasks -> Handles]
           /\ stream # NoTask => InjectionCounted \in [Tasks -> Handles]
<1>1. Closed(t) \in [Tasks -> Handles]
  BY DEF RegistryTypeOK, Handles, Closed
<1>2. EndTurn(t, b) \in [Tasks -> Handles]
  BY <1>1 DEF RegistryTypeOK, Handles, EndTurn
<1>3. \A s \in Tasks : InjectionFailed(s) \in [Tasks -> Handles]
  BY DEF RegistryTypeOK, Handles, InjectionFailed
<1>4. Interrupted(t) \in [Tasks -> Handles]
  <2>1. ASSUME NEW u \in Tasks, NEW hit \in BOOLEAN
        PROVE  [handle[u] EXCEPT !.stop = @ \/ hit] \in Handles
    BY DEF RegistryTypeOK, Handles
  <2>2. \A u \in Tasks : Interrupted(t)[u] \in Handles
    BY <2>1, Zenon DEF Interrupted
  <2>3. Interrupted(t) = [u \in Tasks |-> Interrupted(t)[u]]
    BY Zenon DEF Interrupted
  <2> QED BY <2>2, <2>3, Zenon
<1>5. ASSUME stream # NoTask PROVE InjectionCounted \in [Tasks -> Handles]
  BY <1>5 DEF RegistryTypeOK, Handles, InjectionCounted
<1> QED BY <1>1, <1>2, <1>3, <1>4, <1>5

LEMMA RegistryOperations ==
    ASSUME RegistryTypeOK, NEW t \in Tasks
    PROVE  /\ Register(t) => /\ handle' \in [Tasks -> Handles]
                             /\ stream' \in Tasks \cup {NoTask}
                             /\ pendingStop' \in BOOLEAN
           /\ Unregister(t) => /\ handle' \in [Tasks -> Handles]
                               /\ stream' \in Tasks \cup {NoTask}
                               /\ pendingStop' \in BOOLEAN
           /\ \A r \in RunIds : (TryClaim(t, r) \/ ReleaseClaim(t, r)) => claim' \in Claims
<1>1. ASSUME Register(t)
      PROVE  /\ handle' \in [Tasks -> Handles]
             /\ stream' \in Tasks \cup {NoTask}
             /\ pendingStop' \in BOOLEAN
  <2> DEFINE old == IF stream # NoTask /\ StreamLive(stream) THEN stream ELSE NoTask
             new == [state |-> "live", stop |-> pendingStop, closing |-> FALSE,
                     pending |-> 0, superseded |-> old]
  <2>1. old \in Tasks \cup {NoTask} /\ pendingStop \in BOOLEAN
    BY DEF RegistryTypeOK
  <2>2. new \in Handles
    BY <2>1, Zenon DEF Handles
  <2>3. handle' = [handle EXCEPT ![t] = new] /\ stream' = t /\ pendingStop' = FALSE
    BY <1>1, Zenon DEF Register
  <2> HIDE DEF new
  <2> QED BY <2>2, <2>3 DEF RegistryTypeOK
<1>2. ASSUME Unregister(t)
      PROVE  /\ handle' \in [Tasks -> Handles]
             /\ stream' \in Tasks \cup {NoTask}
             /\ pendingStop' \in BOOLEAN
  <2>1. handle' \in [Tasks -> Handles]
    BY <1>2 DEF RegistryTypeOK, Handles, Unregister
  <2>2. stream' \in Tasks \cup {NoTask}
    BY <1>2 DEF RegistryTypeOK, Handles, Unregister
  <2>3. pendingStop' \in BOOLEAN
    BY <1>2, Zenon DEF Unregister
  <2> QED BY <2>1, <2>2, <2>3
<1>3. \A r \in RunIds : (TryClaim(t, r) \/ ReleaseClaim(t, r)) => claim' \in Claims
  BY DEF RegistryTypeOK, Claims, RunIds, TryClaim, ReleaseClaim, NoClaim
<1> QED BY <1>1, <1>2, <1>3

(* TypeOK is inductive. *)
LEMMA TypeStep == TypeOK /\ [Next]_vars => TypeOK'
<1> SUFFICES ASSUME TypeOK, [Next]_vars PROVE TypeOK'
  OBVIOUS
<1> USE DEF TypeOK, Goto, From, Steps, Statuses, Verdicts, runVars, docVars, stopVars,
            registryVars
<1>1. ASSUME NEW t \in Tasks, ChatClaims(t) PROVE TypeOK'
  <2>1. claim' \in Claims
    BY <1>1, RegistryOperations DEF ChatClaims, RunIds
  <2> QED BY <1>1, <2>1 DEF ChatClaims, RegistryTypeOK
<1>2. ASSUME NEW t \in Tasks, ChatFindsBusy(t) PROVE TypeOK'
  BY <1>2, HandleOperations, RegistryOperations DEF ChatFindsBusy, RegistryTypeOK
<1>3. ASSUME NEW t \in Tasks, HeadlessArrives(t) PROVE TypeOK'
  BY <1>3, HandleOperations, RegistryOperations DEF HeadlessArrives, RegistryTypeOK
<1>4. ASSUME NEW t \in Tasks, BusyRefuses(t) PROVE TypeOK'
  BY <1>4, HandleOperations, RegistryOperations DEF BusyRefuses, RegistryTypeOK
<1>5. ASSUME NEW t \in Tasks, InjectCounts(t) PROVE TypeOK'
  <2>1. stream \in Tasks
    BY <1>5 DEF InjectCounts, CanInject, RegistryTypeOK
  <2>2. handle' \in [Tasks -> Handles]
    BY <1>5, <2>1, HandleOperations DEF InjectCounts
  <2>3. [task |-> stream, attempt |-> attempt[stream]]
           \in [task : Tasks \cup {NoTask}, attempt : 0..MaxAttempts]
    BY <2>1
  <2> QED BY <1>5, <2>2, <2>3 DEF InjectCounts, RegistryTypeOK
<1>6. ASSUME NEW t \in Tasks, InjectDelivers(t) PROVE TypeOK'
  <2>1. aim[t].task \in Tasks
    BY <1>6 DEF InjectDelivers, SameAttempt
  <2>2. Append(inbox[aim[t].task], t) \in Seq(Tasks \cup {FollowUp})
    BY <2>1
  <2>3. \/ inbox' = [inbox EXCEPT ![aim[t].task] = Append(@, t)]
        \/ inbox' = inbox
    BY <1>6 DEF InjectDelivers
  <2>4. inbox' \in [Tasks -> Seq(Tasks \cup {FollowUp})]
    BY <2>2, <2>3
  <2> QED BY <1>6, <2>4 DEF InjectDelivers, RegistryTypeOK
<1>7. ASSUME NEW t \in Tasks, InjectFails(t) PROVE TypeOK'
  <2>1. handle' \in [Tasks -> Handles]
    BY <1>7, HandleOperations DEF InjectFails, SameAttempt, RegistryTypeOK
  <2>2. NoAim \in [task : Tasks \cup {NoTask}, attempt : 0..MaxAttempts]
    BY DEF NoAim
  <2> QED BY <1>7, <2>1, <2>2 DEF InjectFails, RegistryTypeOK
<1>8. ASSUME NEW t \in Tasks, ChatRecords(t) PROVE TypeOK'
  BY <1>8, HandleOperations, RegistryOperations DEF ChatRecords, RegistryTypeOK
<1>9. ASSUME NEW t \in Tasks, ChatGivesUp(t) PROVE TypeOK'
  BY <1>9, HandleOperations, RegistryOperations DEF ChatGivesUp, RegistryTypeOK
<1>10. ASSUME NEW t \in Tasks, EnterAgent(t) PROVE TypeOK'
  <2>1. claim' \in Claims
    BY <1>10, RegistryOperations DEF EnterAgent, RunIds
  <2> QED BY <1>10, <2>1 DEF EnterAgent, RegistryTypeOK
<1>11. ASSUME NEW t \in Tasks, AgentWaits(t) PROVE TypeOK'
  BY <1>11, HandleOperations, RegistryOperations DEF AgentWaits, RegistryTypeOK
<1>12. ASSUME NEW t \in Tasks, AgentWakes(t) PROVE TypeOK'
  <2>1. claim' \in Claims
    BY <1>12, RegistryOperations DEF AgentWakes, RunIds
  <2> QED BY <1>12, <2>1 DEF AgentWakes, RegistryTypeOK
<1>13. ASSUME NEW t \in Tasks, QueryAndRegister(t) PROVE TypeOK'
  BY <1>13, HandleOperations, RegistryOperations DEF QueryAndRegister, RegistryTypeOK
<1>14. ASSUME NEW t \in Tasks, TurnResult(t) PROVE TypeOK'
  <2> MayFinish(t) \in BOOLEAN
    BY DEF MayFinish
  <2> EndTurn(t, MayFinish(t)) \in [Tasks -> Handles] /\ Closed(t) \in [Tasks -> Handles]
    BY HandleOperations
  <2> handle' = Closed(t) \/ handle' = EndTurn(t, MayFinish(t))
    BY <1>14 DEF TurnResult
  <2>1. handle' \in [Tasks -> Handles]
    OBVIOUS
  <2>2. PICK n \in 1..Len(inbox[t]) :
           /\ inbox' = [inbox EXCEPT ![t] = SubSeq(@, n + 1, Len(@))]
           /\ answered' = answered \cup ({inbox[t][i] : i \in 1..n} \ {FollowUp})
    BY <1>14 DEF TurnResult
  <2>3. SubSeq(inbox[t], n + 1, Len(inbox[t])) \in Seq(Tasks \cup {FollowUp})
    OBVIOUS
  <2>4. \A i \in 1..n : inbox[t][i] \in Tasks \cup {FollowUp}
    OBVIOUS
  <2>5. answered' \subseteq Tasks
    BY <2>2, <2>4 DEF FollowUp
  <2>6. inbox' \in [Tasks -> Seq(Tasks \cup {FollowUp})]
    BY <2>2, <2>3
  <2> QED BY <1>14, <2>1, <2>5, <2>6 DEF TurnResult, RegistryTypeOK
<1>15. ASSUME NEW t \in Tasks, StreamStops(t) PROVE TypeOK'
  BY <1>15, HandleOperations, RegistryOperations DEF StreamStops, RegistryTypeOK
<1>16. ASSUME NEW t \in Tasks, UnregisterHandle(t) PROVE TypeOK'
  BY <1>16, HandleOperations, RegistryOperations DEF UnregisterHandle, RegistryTypeOK
<1>17. ASSUME NEW t \in Tasks, ReleaseClient(t) PROVE TypeOK'
  <2>1. UNCHANGED <<registryVars, over, inbox, sub, aim, stopVars, answered>>
    BY <1>17 DEF ReleaseClient
  <2>2. verdict' \in [Tasks -> Verdicts]
    BY <1>17 DEF ReleaseClient
  <2>3. /\ pc' \in [Tasks -> Steps]
        /\ attempt' \in [Tasks -> 0..MaxAttempts]
        /\ status' \in Statuses
        /\ outcome' \in [Tasks -> Statuses]
    <3>1. \/ attempt' = attempt
          \/ attempt[t] < MaxAttempts /\ attempt' = [attempt EXCEPT ![t] = attempt[t] + 1]
      BY <1>17 DEF ReleaseClient
    <3>2. \E step \in {"warming", "leaving", "settling"} : pc' = [pc EXCEPT ![t] = step]
      BY <1>17 DEF ReleaseClient
    <3>3. \/ status' = status /\ outcome' = outcome
          \/ status' = "error" /\ outcome' = [outcome EXCEPT ![t] = "error"]
      BY <1>17 DEF ReleaseClient
    <3>4. attempt' \in [Tasks -> 0..MaxAttempts]
      <4>1. attempt[t] < MaxAttempts => attempt[t] + 1 \in 0..MaxAttempts
        OBVIOUS
      <4> QED BY <3>1, <4>1
    <3>5. pc' \in [Tasks -> Steps]
      BY <3>2
    <3>6. status' \in Statuses /\ outcome' \in [Tasks -> Statuses]
      BY <3>3
    <3> QED BY <3>4, <3>5, <3>6
  <2> QED BY <2>1, <2>2, <2>3 DEF RegistryTypeOK
<1>18. ASSUME NEW t \in Tasks, Settle(t) PROVE TypeOK'
  BY <1>18, HandleOperations, RegistryOperations DEF Settle, RegistryTypeOK
<1>19. ASSUME NEW t \in Tasks, LeaveAgent(t) PROVE TypeOK'
  <2>1. claim' \in Claims
    BY <1>19, RegistryOperations DEF LeaveAgent, RunIds
  <2> QED BY <1>19, <2>1 DEF LeaveAgent, RegistryTypeOK
<1>20. ASSUME NEW t \in Tasks, LeaveRoute(t) PROVE TypeOK'
  <2>1. claim' \in Claims
    BY <1>20, RegistryOperations DEF LeaveRoute, RunIds
  <2> QED BY <1>20, <2>1 DEF LeaveRoute, RegistryTypeOK
<1>21. ASSUME NEW t \in Tasks, LateFinally(t) PROVE TypeOK'
  <2>1. claim' \in Claims
    BY <1>21, RegistryOperations DEF LateFinally, RunIds
  <2>2. /\ handle' \in [Tasks -> Handles]
        /\ stream' \in Tasks \cup {NoTask}
        /\ pendingStop' \in BOOLEAN
    BY <1>21, RegistryOperations DEF LateFinally
  <2>3. /\ inbox' \in [Tasks -> Seq(Tasks \cup {FollowUp})]
        /\ sub' \in [Tasks -> {"no", "pending", "ended"}]
        /\ pc' \in [Tasks -> Steps]
        /\ UNCHANGED <<over, attempt, verdict, aim, docVars, stopVars, answered>>
    BY <1>21 DEF LateFinally
  <2> QED BY <2>1, <2>2, <2>3 DEF RegistryTypeOK
<1>22. ASSUME NEW t \in Tasks, AcquireFails(t) PROVE TypeOK'
  BY <1>22, HandleOperations, RegistryOperations DEF AcquireFails, RegistryTypeOK
<1>23. ASSUME NEW t \in Tasks, LoopBreaks(t) PROVE TypeOK'
  BY <1>23, HandleOperations, RegistryOperations DEF LoopBreaks, RegistryTypeOK
<1>24. ASSUME NEW t \in Tasks, RunFails(t) PROVE TypeOK'
  BY <1>24, HandleOperations, RegistryOperations DEF RunFails, RegistryTypeOK
<1>25. ASSUME NEW t \in Tasks, Abandon(t) PROVE TypeOK'
  <2>1. claim' \in Claims
    BY <1>25, RegistryOperations DEF Abandon, RunIds
  <2> QED BY <1>25, <2>1 DEF Abandon, RegistryTypeOK
<1>26. ASSUME NEW t \in Tasks, SubagentStarts(t) PROVE TypeOK'
  BY <1>26, HandleOperations, RegistryOperations DEF SubagentStarts, RegistryTypeOK
<1>27. ASSUME NEW t \in Tasks, SubagentEnds(t) PROVE TypeOK'
  <2>1. Append(inbox[t], FollowUp) \in Seq(Tasks \cup {FollowUp})
    OBVIOUS
  <2>2. \/ inbox' = inbox
        \/ inbox' = [inbox EXCEPT ![t] = Append(@, FollowUp)]
    BY <1>27 DEF SubagentEnds
  <2>3. inbox' \in [Tasks -> Seq(Tasks \cup {FollowUp})]
    BY <2>1, <2>2
  <2> QED BY <1>27, <2>3 DEF SubagentEnds, RegistryTypeOK
<1>28. ASSUME StopHandle PROVE TypeOK'
  <2>1. stream \in Tasks
    BY <1>28 DEF StopHandle, RegistryTypeOK
  <2>2. handle' \in [Tasks -> Handles]
    BY <1>28, <2>1, HandleOperations DEF StopHandle
  <2>3. [task |-> stream, attempt |-> attempt[stream]] \in Asks
    BY <2>1 DEF Asks
  <2>4. asked' \subseteq Asks
    BY <1>28, <2>3 DEF StopHandle
  <2> QED BY <1>28, <2>2, <2>4 DEF StopHandle, RegistryTypeOK
<1>29. ASSUME StopFindsNoHandle PROVE TypeOK'
  BY <1>29 DEF StopFindsNoHandle, RegistryTypeOK
<1>30. ASSUME StopReadsStatus PROVE TypeOK'
  BY <1>30 DEF StopReadsStatus, NoStop, RegistryTypeOK
<1>31. ASSUME StopParks PROVE TypeOK'
  <2>1. pendingStop' \in BOOLEAN
    BY <1>31 DEF StopParks, RequestPendingStop
  <2> QED BY <1>31, <2>1 DEF StopParks, NoStop, RegistryTypeOK
<1>32. ASSUME PendingStopExpires PROVE TypeOK'
  BY <1>32, HandleOperations DEF PendingStopExpires, RegistryTypeOK
<1>33. ASSUME UNCHANGED vars PROVE TypeOK'
  BY <1>33 DEF vars, RegistryTypeOK
<1> QED
  BY <1>1, <1>2, <1>3, <1>4, <1>5, <1>6, <1>7, <1>8, <1>9, <1>10, <1>11, <1>12, <1>13, <1>14,
     <1>15, <1>16, <1>17, <1>18, <1>19, <1>20, <1>21, <1>22, <1>23, <1>24, <1>25, <1>26, <1>27, <1>28, <1>29, <1>30, <1>31, <1>32, <1>33
     DEF Next, TaskStep, Arrival, ChatStep, RunStep, Mishap, StopStep, Finished

(* The initial state is well typed. *)
LEMMA TypeInit == Init => TypeOK
<1> SUFFICES ASSUME Init PROVE TypeOK
  OBVIOUS
<1>1. NoHandle \in Handles /\ NoClaim \in Claims
  BY DEF NoHandle, NoClaim, Handles, Claims
<1>2. RegistryTypeOK
  BY <1>1 DEF Init, RegistryInit, RegistryTypeOK
<1>3. NoAim \in [task : Tasks \cup {NoTask}, attempt : 0..MaxAttempts]
  BY DEF NoAim
<1>4. NoStop \in {"none", "looking", "parking"}
  BY DEF NoStop
<1>5. inbox \in [Tasks -> Seq(Tasks \cup {FollowUp})]
  BY <1>1 DEF Init
<1> QED
  BY <1>1, <1>2, <1>3, <1>4, <1>5 DEF Init, TypeOK, Steps, Statuses, Verdicts

(* Every state is well typed, whatever the constants. *)
THEOREM TypeCorrect == Spec => []TypeOK
<1> QED BY TypeInit, TypeStep, PTL DEF Spec

(* ClaimInv is inductive. *)
LEMMA ClaimStep == TypeOK /\ ClaimInv /\ [Next]_vars => ClaimInv'
<1> SUFFICES ASSUME TypeOK, ClaimInv, [Next]_vars PROVE ClaimInv'
  OBVIOUS
<1> USE DEF ClaimInv, Owns, InAgent, ClaimLive, NoClaim, Goto, From, registryVars
<1>a. /\ claim \in Claims
      /\ pc \in [Tasks -> Steps]
      /\ over \subseteq Tasks
  BY DEF TypeOK, RegistryTypeOK
<1> USE DEF Claims, RunIds
<1>1. ASSUME NEW t \in Tasks, ChatClaims(t) PROVE ClaimInv'
  BY <1>a, <1>1 DEF ChatClaims, TryClaim, CanClaim
<1>2. ASSUME NEW t \in Tasks, ChatFindsBusy(t) PROVE ClaimInv'
  BY <1>a, <1>2 DEF ChatFindsBusy, CanClaim
<1>3. ASSUME NEW t \in Tasks, HeadlessArrives(t) PROVE ClaimInv'
  BY <1>a, <1>3 DEF HeadlessArrives
<1>4. ASSUME NEW t \in Tasks, BusyRefuses(t) PROVE ClaimInv'
  BY <1>a, <1>4 DEF BusyRefuses
<1>5. ASSUME NEW t \in Tasks, InjectCounts(t) PROVE ClaimInv'
  BY <1>a, <1>5 DEF InjectCounts
<1>6. ASSUME NEW t \in Tasks, InjectDelivers(t) PROVE ClaimInv'
  BY <1>a, <1>6 DEF InjectDelivers
<1>7. ASSUME NEW t \in Tasks, InjectFails(t) PROVE ClaimInv'
  BY <1>a, <1>7 DEF InjectFails
<1>8. ASSUME NEW t \in Tasks, ChatRecords(t) PROVE ClaimInv'
  BY <1>a, <1>8 DEF ChatRecords
<1>9. ASSUME NEW t \in Tasks, ChatGivesUp(t) PROVE ClaimInv'
  BY <1>a, <1>9 DEF ChatGivesUp
<1>10. ASSUME NEW t \in Tasks, EnterAgent(t) PROVE ClaimInv'
  BY <1>a, <1>10 DEF EnterAgent, TryClaim, CanClaim
<1>11. ASSUME NEW t \in Tasks, AgentWaits(t) PROVE ClaimInv'
  BY <1>a, <1>11 DEF AgentWaits, CanClaim
<1>12. ASSUME NEW t \in Tasks, AgentWakes(t) PROVE ClaimInv'
  BY <1>a, <1>12 DEF AgentWakes, TryClaim, CanClaim
<1>13. ASSUME NEW t \in Tasks, QueryAndRegister(t) PROVE ClaimInv'
  BY <1>a, <1>13 DEF QueryAndRegister
<1>14. ASSUME NEW t \in Tasks, TurnResult(t) PROVE ClaimInv'
  BY <1>a, <1>14 DEF TurnResult
<1>15. ASSUME NEW t \in Tasks, StreamStops(t) PROVE ClaimInv'
  BY <1>a, <1>15 DEF StreamStops
<1>16. ASSUME NEW t \in Tasks, UnregisterHandle(t) PROVE ClaimInv'
  BY <1>a, <1>16 DEF UnregisterHandle
<1>17. ASSUME NEW t \in Tasks, ReleaseClient(t) PROVE ClaimInv'
  BY <1>a, <1>17 DEF ReleaseClient
<1>18. ASSUME NEW t \in Tasks, Settle(t) PROVE ClaimInv'
  BY <1>a, <1>18 DEF Settle
<1>19. ASSUME NEW t \in Tasks, LeaveAgent(t) PROVE ClaimInv'
  BY <1>a, <1>19 DEF LeaveAgent, ReleaseClaim
<1>20. ASSUME NEW t \in Tasks, LeaveRoute(t) PROVE ClaimInv'
  BY <1>a, <1>20 DEF LeaveRoute, ReleaseClaim
<1>21. ASSUME NEW t \in Tasks, LateFinally(t) PROVE ClaimInv'
  BY <1>a, <1>21 DEF LateFinally, ReleaseClaim
<1>22. ASSUME NEW t \in Tasks, AcquireFails(t) PROVE ClaimInv'
  BY <1>a, <1>22 DEF AcquireFails
<1>23. ASSUME NEW t \in Tasks, LoopBreaks(t) PROVE ClaimInv'
  BY <1>a, <1>23 DEF LoopBreaks
<1>24. ASSUME NEW t \in Tasks, RunFails(t) PROVE ClaimInv'
  BY <1>a, <1>24 DEF RunFails
<1>25. ASSUME NEW t \in Tasks, Abandon(t) PROVE ClaimInv'
  BY <1>a, <1>25 DEF Abandon, ReleaseClaim
<1>26. ASSUME NEW t \in Tasks, SubagentStarts(t) PROVE ClaimInv'
  BY <1>a, <1>26 DEF SubagentStarts
<1>27. ASSUME NEW t \in Tasks, SubagentEnds(t) PROVE ClaimInv'
  BY <1>a, <1>27 DEF SubagentEnds
<1>28. ASSUME StopStep PROVE ClaimInv'
  BY <1>28 DEF StopStep, StopHandle, StopFindsNoHandle, StopReadsStatus, StopParks,
                PendingStopExpires, runVars
<1>29. ASSUME UNCHANGED vars PROVE ClaimInv'
  BY <1>29 DEF vars, runVars
<1> QED
  BY <1>1, <1>2, <1>3, <1>4, <1>5, <1>6, <1>7, <1>8, <1>9, <1>10, <1>11, <1>12, <1>13, <1>14,
     <1>15, <1>16, <1>17, <1>18, <1>19, <1>20, <1>21, <1>22, <1>23, <1>24, <1>25, <1>26, <1>27, <1>28, <1>29
     DEF Next, TaskStep, Arrival, ChatStep, RunStep, Mishap, Finished

(* HandleInv is inductive, given ClaimInv. *)
LEMMA HandleStep == TypeOK /\ ClaimInv /\ HandleInv /\ [Next]_vars => HandleInv'
<1> SUFFICES ASSUME TypeOK, ClaimInv, HandleInv, [Next]_vars PROVE HandleInv'
  OBVIOUS
<1> USE DEF HandleInv, Goto, From, registryVars
<1>a. /\ handle \in [Tasks -> Handles]
      /\ pc \in [Tasks -> Steps]
      /\ stream \in Tasks \cup {NoTask}
  BY DEF TypeOK, RegistryTypeOK
<1>b. \A t, u \in Tasks : /\ pc[t] \in {"warming", "reading", "closing"}
                          /\ pc[u] \in {"warming", "reading", "closing"}
                          => t = u
  BY DEF ClaimInv, Owns, InAgent
<1>c. \A t \in Tasks : pc[t] = "abandoned" => t \in over
  BY DEF ClaimInv
<1> USE DEF Handles
<1>1. ASSUME NEW t \in Tasks, ChatClaims(t) PROVE HandleInv'
  BY <1>a, <1>1 DEF ChatClaims
<1>2. ASSUME NEW t \in Tasks, ChatFindsBusy(t) PROVE HandleInv'
  BY <1>a, <1>2 DEF ChatFindsBusy
<1>3. ASSUME NEW t \in Tasks, HeadlessArrives(t) PROVE HandleInv'
  BY <1>a, <1>3 DEF HeadlessArrives
<1>4. ASSUME NEW t \in Tasks, BusyRefuses(t) PROVE HandleInv'
  BY <1>a, <1>4 DEF BusyRefuses
<1>5. ASSUME NEW t \in Tasks, InjectCounts(t) PROVE HandleInv'
  BY <1>a, <1>5 DEF InjectCounts, InjectionCounted, CanInject
<1>6. ASSUME NEW t \in Tasks, InjectDelivers(t) PROVE HandleInv'
  BY <1>a, <1>6 DEF InjectDelivers
<1>7. ASSUME NEW t \in Tasks, InjectFails(t) PROVE HandleInv'
  BY <1>a, <1>7 DEF InjectFails, InjectionFailed, SameAttempt
<1>8. ASSUME NEW t \in Tasks, ChatRecords(t) PROVE HandleInv'
  BY <1>a, <1>8 DEF ChatRecords
<1>9. ASSUME NEW t \in Tasks, ChatGivesUp(t) PROVE HandleInv'
  BY <1>a, <1>9 DEF ChatGivesUp
<1>10. ASSUME NEW t \in Tasks, EnterAgent(t) PROVE HandleInv'
  BY <1>a, <1>10 DEF EnterAgent
<1>11. ASSUME NEW t \in Tasks, AgentWaits(t) PROVE HandleInv'
  BY <1>a, <1>11 DEF AgentWaits
<1>12. ASSUME NEW t \in Tasks, AgentWakes(t) PROVE HandleInv'
  BY <1>a, <1>12 DEF AgentWakes
<1>13. ASSUME NEW t \in Tasks, QueryAndRegister(t) PROVE HandleInv'
  BY <1>a, <1>b, <1>c, <1>13 DEF QueryAndRegister, Register, StreamLive
<1>14. ASSUME NEW t \in Tasks, TurnResult(t) PROVE HandleInv'
  <2>1. handle' \in {Closed(t), EndTurn(t, MayFinish(t))}
    BY <1>14 DEF TurnResult
  <2>2. \A u \in Tasks : handle'[u].superseded = handle[u].superseded
                         /\ handle'[u].state = handle[u].state
    BY <1>a, <2>1 DEF EndTurn, Closed
  <2>3. UNCHANGED stream /\ pc[t] = "reading" /\ pc' \in {pc, [pc EXCEPT ![t] = "closing"]}
    BY <1>14 DEF TurnResult
  <2> QED BY <1>a, <2>2, <2>3
<1>15. ASSUME NEW t \in Tasks, StreamStops(t) PROVE HandleInv'
  BY <1>a, <1>15 DEF StreamStops, Closed
<1>16. ASSUME NEW t \in Tasks, UnregisterHandle(t) PROVE HandleInv'
  BY <1>a, <1>b, <1>c, <1>16 DEF UnregisterHandle, Unregister, StreamLive
<1>17. ASSUME NEW t \in Tasks, ReleaseClient(t) PROVE HandleInv'
  BY <1>a, <1>17 DEF ReleaseClient
<1>18. ASSUME NEW t \in Tasks, Settle(t) PROVE HandleInv'
  BY <1>a, <1>18 DEF Settle
<1>19. ASSUME NEW t \in Tasks, LeaveAgent(t) PROVE HandleInv'
  BY <1>a, <1>19 DEF LeaveAgent
<1>20. ASSUME NEW t \in Tasks, LeaveRoute(t) PROVE HandleInv'
  BY <1>a, <1>20 DEF LeaveRoute
<1>21. ASSUME NEW t \in Tasks, LateFinally(t) PROVE HandleInv'
  BY <1>a, <1>b, <1>c, <1>21 DEF LateFinally, Unregister, StreamLive
<1>22. ASSUME NEW t \in Tasks, AcquireFails(t) PROVE HandleInv'
  BY <1>a, <1>22 DEF AcquireFails
<1>23. ASSUME NEW t \in Tasks, LoopBreaks(t) PROVE HandleInv'
  BY <1>a, <1>23 DEF LoopBreaks
<1>24. ASSUME NEW t \in Tasks, RunFails(t) PROVE HandleInv'
  BY <1>a, <1>24 DEF RunFails
<1>25. ASSUME NEW t \in Tasks, Abandon(t) PROVE HandleInv'
  BY <1>a, <1>25 DEF Abandon
<1>26. ASSUME NEW t \in Tasks, SubagentStarts(t) PROVE HandleInv'
  BY <1>a, <1>26 DEF SubagentStarts
<1>27. ASSUME NEW t \in Tasks, SubagentEnds(t) PROVE HandleInv'
  BY <1>a, <1>27 DEF SubagentEnds
<1>28. ASSUME StopHandle PROVE HandleInv'
  BY <1>a, <1>28 DEF StopHandle, Interrupted, runVars
<1>29. ASSUME StopFindsNoHandle \/ StopReadsStatus \/ StopParks \/ PendingStopExpires
      PROVE  HandleInv'
  BY <1>29 DEF StopFindsNoHandle, StopReadsStatus, StopParks, PendingStopExpires, runVars
<1>30. ASSUME UNCHANGED vars PROVE HandleInv'
  BY <1>30 DEF vars, runVars
<1> QED
  BY <1>1, <1>2, <1>3, <1>4, <1>5, <1>6, <1>7, <1>8, <1>9, <1>10, <1>11, <1>12, <1>13, <1>14,
     <1>15, <1>16, <1>17, <1>18, <1>19, <1>20, <1>21, <1>22, <1>23, <1>24, <1>25, <1>26, <1>27, <1>28, <1>29, <1>30
     DEF Next, TaskStep, Arrival, ChatStep, RunStep, Mishap, StopStep, Finished

(* A run that has been given a client, and may have been asked to stop. *)
Started == InAgent \cup {"routeLeaving", "abandoned", "done"}

(* Why a stop is honoured: the registered handle is that of a run that has not
   given it back, the flag stays on the handle until the run has settled, and
   what was asked of an earlier attempt is told apart by its number. *)
StopInv ==
    /\ stream # NoTask => pc[stream] \in {"reading", "closing", "abandoned"}
    /\ \A t \in Tasks : outcome[t] = "completed" => pc[t] \in {"leaving", "routeLeaving", "done"}
    /\ \A a \in asked :
         /\ pc[a.task] \in Started
         /\ a.attempt <= attempt[a.task]
         /\ pc[a.task] = "warming" => a.attempt < attempt[a.task]
         /\ attempt[a.task] = a.attempt =>
              /\ outcome[a.task] # "completed"
              /\ pc[a.task] \in {"reading", "closing", "releasing", "settling"}
                   => handle[a.task].stop

(* StopInv is inductive, given HandleInv. *)
LEMMA StopStepKeeps == TypeOK /\ HandleInv /\ StopInv /\ [Next]_vars => StopInv'
<1> SUFFICES ASSUME TypeOK, HandleInv, StopInv, [Next]_vars PROVE StopInv'
  OBVIOUS
<1> USE DEF StopInv, Started, InAgent, Goto, From, registryVars, docVars, stopVars
<1>a. /\ handle \in [Tasks -> Handles]
      /\ pc \in [Tasks -> Steps] /\ attempt \in [Tasks -> 0..MaxAttempts]
      /\ outcome \in [Tasks -> Statuses]
      /\ stream \in Tasks \cup {NoTask}
      /\ \A a \in asked : a.task \in Tasks /\ a.attempt \in 0..MaxAttempts
      /\ \A t \in Tasks : handle[t].superseded = NoTask
      /\ \A t \in Tasks : pc[t] \in {"reading", "closing"} => stream = t
  BY DEF TypeOK, RegistryTypeOK, Asks, HandleInv
<1> USE DEF Handles
<1>1. ASSUME NEW t \in Tasks, ChatClaims(t) PROVE StopInv'
  BY <1>a, <1>1 DEF ChatClaims
<1>2. ASSUME NEW t \in Tasks, ChatFindsBusy(t) PROVE StopInv'
  BY <1>a, <1>2 DEF ChatFindsBusy
<1>3. ASSUME NEW t \in Tasks, HeadlessArrives(t) PROVE StopInv'
  BY <1>a, <1>3 DEF HeadlessArrives
<1>4. ASSUME NEW t \in Tasks, BusyRefuses(t) PROVE StopInv'
  BY <1>a, <1>4 DEF BusyRefuses
<1>5. ASSUME NEW t \in Tasks, InjectCounts(t) PROVE StopInv'
  BY <1>a, <1>5 DEF InjectCounts, InjectionCounted, CanInject
<1>6. ASSUME NEW t \in Tasks, InjectDelivers(t) PROVE StopInv'
  BY <1>a, <1>6 DEF InjectDelivers, SameAttempt
<1>7. ASSUME NEW t \in Tasks, InjectFails(t) PROVE StopInv'
  BY <1>a, <1>7 DEF InjectFails, InjectionFailed, SameAttempt
<1>8. ASSUME NEW t \in Tasks, ChatRecords(t) PROVE StopInv'
  BY <1>a, <1>8 DEF ChatRecords
<1>9. ASSUME NEW t \in Tasks, ChatGivesUp(t) PROVE StopInv'
  BY <1>a, <1>9 DEF ChatGivesUp
<1>10. ASSUME NEW t \in Tasks, EnterAgent(t) PROVE StopInv'
  BY <1>a, <1>10 DEF EnterAgent
<1>11. ASSUME NEW t \in Tasks, AgentWaits(t) PROVE StopInv'
  BY <1>a, <1>11 DEF AgentWaits
<1>12. ASSUME NEW t \in Tasks, AgentWakes(t) PROVE StopInv'
  BY <1>a, <1>12 DEF AgentWakes
<1>13. ASSUME NEW t \in Tasks, QueryAndRegister(t) PROVE StopInv'
  BY <1>a, <1>13 DEF QueryAndRegister, Register, StreamLive
<1>14. ASSUME NEW t \in Tasks, TurnResult(t) PROVE StopInv'
  <2>1. handle' \in {Closed(t), EndTurn(t, MayFinish(t))}
    BY <1>14 DEF TurnResult
  <2>2. \A u \in Tasks : handle'[u].stop = handle[u].stop
    BY <1>a, <2>1 DEF Closed, EndTurn
  <2>3. /\ pc[t] = "reading" /\ pc' \in {pc, [pc EXCEPT ![t] = "closing"]}
        /\ UNCHANGED <<stream, attempt, outcome, asked>>
    BY <1>14 DEF TurnResult
  <2> QED BY <1>a, <2>2, <2>3
<1>15. ASSUME NEW t \in Tasks, StreamStops(t) PROVE StopInv'
  BY <1>a, <1>15 DEF StreamStops, Closed
<1>16. ASSUME NEW t \in Tasks, UnregisterHandle(t) PROVE StopInv'
  BY <1>a, <1>16 DEF UnregisterHandle, Unregister
<1>17. ASSUME NEW t \in Tasks, ReleaseClient(t) PROVE StopInv'
  BY <1>a, <1>17 DEF ReleaseClient
<1>18. ASSUME NEW t \in Tasks, Settle(t) PROVE StopInv'
  BY <1>a, <1>18 DEF Settle
<1>19. ASSUME NEW t \in Tasks, LeaveAgent(t) PROVE StopInv'
  BY <1>a, <1>19 DEF LeaveAgent
<1>20. ASSUME NEW t \in Tasks, LeaveRoute(t) PROVE StopInv'
  BY <1>a, <1>20 DEF LeaveRoute
<1>21. ASSUME NEW t \in Tasks, LateFinally(t) PROVE StopInv'
  BY <1>a, <1>21 DEF LateFinally, Unregister
<1>22. ASSUME NEW t \in Tasks, AcquireFails(t) PROVE StopInv'
  BY <1>a, <1>22 DEF AcquireFails
<1>23. ASSUME NEW t \in Tasks, LoopBreaks(t) PROVE StopInv'
  BY <1>a, <1>23 DEF LoopBreaks
<1>24. ASSUME NEW t \in Tasks, RunFails(t) PROVE StopInv'
  BY <1>a, <1>24 DEF RunFails
<1>25. ASSUME NEW t \in Tasks, Abandon(t) PROVE StopInv'
  BY <1>a, <1>25 DEF Abandon
<1>26. ASSUME NEW t \in Tasks, SubagentStarts(t) PROVE StopInv'
  BY <1>a, <1>26 DEF SubagentStarts
<1>27. ASSUME NEW t \in Tasks, SubagentEnds(t) PROVE StopInv'
  BY <1>a, <1>27 DEF SubagentEnds
<1>28. ASSUME StopHandle PROVE StopInv'
  <2>1. /\ stream \in Tasks /\ UNCHANGED <<pc, attempt, outcome, stream>>
        /\ asked' = asked \cup {[task |-> stream, attempt |-> attempt[stream]]}
    BY <1>a, <1>28 DEF StopHandle, runVars
  <2>2. handle' = [u \in Tasks |-> [handle[u] EXCEPT !.stop = @ \/ u = stream]]
    BY <1>a, <1>28, Zenon DEF StopHandle, Interrupted
  <2>3. ASSUME NEW h \in Handles, NEW b \in BOOLEAN PROVE [h EXCEPT !.stop = b].stop = b
    OBVIOUS
  <2>4. \A u \in Tasks : handle'[u].stop = (handle[u].stop \/ u = stream)
    BY <1>a, <2>2, <2>3, Zenon
  <2>5. handle'[stream].stop
    BY <2>1, <2>4, Zenon
  <2>6. \A u \in Tasks : handle[u].stop => handle'[u].stop
    BY <2>4, Zenon
  <2>7. pc[stream] \in {"reading", "closing", "abandoned"} /\ outcome[stream] # "completed"
    BY <1>a, <2>1
  <2> QED BY <1>a, <2>1, <2>5, <2>6, <2>7
<1>29. ASSUME StopFindsNoHandle \/ StopReadsStatus \/ StopParks \/ PendingStopExpires
      PROVE  StopInv'
  BY <1>29 DEF StopFindsNoHandle, StopReadsStatus, StopParks, PendingStopExpires, runVars
<1>30. ASSUME UNCHANGED vars PROVE StopInv'
  BY <1>30 DEF vars, runVars
<1> QED
  BY <1>1, <1>2, <1>3, <1>4, <1>5, <1>6, <1>7, <1>8, <1>9, <1>10, <1>11, <1>12, <1>13, <1>14,
     <1>15, <1>16, <1>17, <1>18, <1>19, <1>20, <1>21, <1>22, <1>23, <1>24, <1>25, <1>26, <1>27, <1>28, <1>29, <1>30
     DEF Next, TaskStep, Arrival, ChatStep, RunStep, Mishap, StopStep, Finished

(* Where an injection was counted, and by whom. *)
Here(t) == [task |-> t, attempt |-> attempt[t]]
AimInv ==
    \A i \in Tasks : aim[i].task \in Tasks =>
        /\ pc[i] \in {"injecting", "injected"}
        /\ pc[aim[i].task] \in Started
        /\ aim[i].attempt <= attempt[aim[i].task]
        /\ pc[aim[i].task] = "warming" => aim[i].attempt < attempt[aim[i].task]

(* AimInv is inductive, given StopInv: a registered handle is that of a run
   that has started. *)
LEMMA AimStepKeeps == TypeOK /\ StopInv /\ AimInv /\ [Next]_vars => AimInv'
<1> SUFFICES ASSUME TypeOK, StopInv, AimInv, [Next]_vars PROVE AimInv'
  OBVIOUS
<1> USE DEF AimInv, Started, InAgent, Goto, From
<1>a. /\ pc \in [Tasks -> Steps] /\ attempt \in [Tasks -> 0..MaxAttempts]
      /\ stream \in Tasks \cup {NoTask}
      /\ aim \in [Tasks -> [task : Tasks \cup {NoTask}, attempt : 0..MaxAttempts]]
      /\ stream # NoTask => pc[stream] \in {"reading", "closing", "abandoned"}
  BY DEF TypeOK, RegistryTypeOK, StopInv
<1>1. ASSUME NEW t \in Tasks, ChatClaims(t) PROVE AimInv'
  BY <1>a, <1>1 DEF ChatClaims
<1>2. ASSUME NEW t \in Tasks, ChatFindsBusy(t) PROVE AimInv'
  BY <1>a, <1>2 DEF ChatFindsBusy
<1>3. ASSUME NEW t \in Tasks, HeadlessArrives(t) PROVE AimInv'
  BY <1>a, <1>3 DEF HeadlessArrives
<1>4. ASSUME NEW t \in Tasks, BusyRefuses(t) PROVE AimInv'
  BY <1>a, <1>4 DEF BusyRefuses
<1>5. ASSUME NEW t \in Tasks, InjectCounts(t) PROVE AimInv'
  BY <1>a, <1>5 DEF InjectCounts, CanInject
<1>6. ASSUME NEW t \in Tasks, InjectDelivers(t) PROVE AimInv'
  BY <1>a, <1>6 DEF InjectDelivers
<1>7. ASSUME NEW t \in Tasks, InjectFails(t) PROVE AimInv'
  BY <1>a, <1>7 DEF InjectFails, NoAim
<1>8. ASSUME NEW t \in Tasks, ChatRecords(t) PROVE AimInv'
  BY <1>a, <1>8 DEF ChatRecords
<1>9. ASSUME NEW t \in Tasks, ChatGivesUp(t) PROVE AimInv'
  BY <1>a, <1>9 DEF ChatGivesUp
<1>10. ASSUME NEW t \in Tasks, EnterAgent(t) PROVE AimInv'
  BY <1>a, <1>10 DEF EnterAgent
<1>11. ASSUME NEW t \in Tasks, AgentWaits(t) PROVE AimInv'
  BY <1>a, <1>11 DEF AgentWaits
<1>12. ASSUME NEW t \in Tasks, AgentWakes(t) PROVE AimInv'
  BY <1>a, <1>12 DEF AgentWakes
<1>13. ASSUME NEW t \in Tasks, QueryAndRegister(t) PROVE AimInv'
  BY <1>a, <1>13 DEF QueryAndRegister
<1>14. ASSUME NEW t \in Tasks, TurnResult(t) PROVE AimInv'
  BY <1>a, <1>14 DEF TurnResult
<1>15. ASSUME NEW t \in Tasks, StreamStops(t) PROVE AimInv'
  BY <1>a, <1>15 DEF StreamStops
<1>16. ASSUME NEW t \in Tasks, UnregisterHandle(t) PROVE AimInv'
  BY <1>a, <1>16 DEF UnregisterHandle
<1>17. ASSUME NEW t \in Tasks, ReleaseClient(t) PROVE AimInv'
  BY <1>a, <1>17 DEF ReleaseClient
<1>18. ASSUME NEW t \in Tasks, Settle(t) PROVE AimInv'
  BY <1>a, <1>18 DEF Settle
<1>19. ASSUME NEW t \in Tasks, LeaveAgent(t) PROVE AimInv'
  BY <1>a, <1>19 DEF LeaveAgent
<1>20. ASSUME NEW t \in Tasks, LeaveRoute(t) PROVE AimInv'
  BY <1>a, <1>20 DEF LeaveRoute
<1>21. ASSUME NEW t \in Tasks, LateFinally(t) PROVE AimInv'
  BY <1>a, <1>21 DEF LateFinally
<1>22. ASSUME NEW t \in Tasks, AcquireFails(t) PROVE AimInv'
  BY <1>a, <1>22 DEF AcquireFails
<1>23. ASSUME NEW t \in Tasks, LoopBreaks(t) PROVE AimInv'
  BY <1>a, <1>23 DEF LoopBreaks
<1>24. ASSUME NEW t \in Tasks, RunFails(t) PROVE AimInv'
  BY <1>a, <1>24 DEF RunFails
<1>25. ASSUME NEW t \in Tasks, Abandon(t) PROVE AimInv'
  BY <1>a, <1>25 DEF Abandon
<1>26. ASSUME NEW t \in Tasks, SubagentStarts(t) PROVE AimInv'
  BY <1>a, <1>26 DEF SubagentStarts
<1>27. ASSUME NEW t \in Tasks, SubagentEnds(t) PROVE AimInv'
  BY <1>a, <1>27 DEF SubagentEnds
<1>28. ASSUME StopStep PROVE AimInv'
  BY <1>28 DEF StopStep, StopHandle, StopFindsNoHandle, StopReadsStatus, StopParks,
                PendingStopExpires, runVars
<1>29. ASSUME UNCHANGED vars PROVE AimInv'
  BY <1>29 DEF vars, runVars
<1> QED
  BY <1>1, <1>2, <1>3, <1>4, <1>5, <1>6, <1>7, <1>8, <1>9, <1>10, <1>11, <1>12, <1>13, <1>14,
     <1>15, <1>16, <1>17, <1>18, <1>19, <1>20, <1>21, <1>22, <1>23, <1>24, <1>25, <1>26, <1>27, <1>28, <1>29
     DEF Next, TaskStep, Arrival, ChatStep, RunStep, Mishap, Finished

(* An injection that was delivered to a reading run is in its inbox or answered. *)
Received(i, t) == i \in answered \/ \E k \in 1..Len(inbox[t]) : inbox[t][k] = i
ReceiptInv ==
    \A t, i \in Tasks : pc[t] = "reading" /\ pc[i] = "injected" /\ aim[i] = Here(t)
                          => Received(i, t)

(* A turn takes the messages it answers from the inbox, and leaves the rest. *)
LEMMA TurnKeepsReceipts ==
    ASSUME TypeOK, NEW t \in Tasks, TurnResult(t)
    PROVE  \A i, u \in Tasks : Received(i, u) => Received(i, u)'
<1>1. inbox \in [Tasks -> Seq(Tasks \cup {FollowUp})]
  BY DEF TypeOK
<1>2. PICK n \in 1..Len(inbox[t]) :
         /\ inbox' = [inbox EXCEPT ![t] = SubSeq(@, n + 1, Len(@))]
         /\ answered' = answered \cup ({inbox[t][i] : i \in 1..n} \ {FollowUp})
  BY DEF TurnResult
<1>3. SUFFICES ASSUME NEW i \in Tasks, NEW u \in Tasks, Received(i, u) PROVE Received(i, u)'
  OBVIOUS
<1>4. CASE i \in answered
  BY <1>2, <1>4 DEF Received
<1>5. CASE u # t
  BY <1>1, <1>2, <1>3, <1>5 DEF Received
<1>6. ASSUME i \notin answered, u = t PROVE Received(i, u)'
  <2>1. PICK k \in 1..Len(inbox[t]) : inbox[t][k] = i
    BY <1>3, <1>6 DEF Received
  <2>2. CASE k <= n
    <3>1. i \in {inbox[t][j] : j \in 1..n} \ {FollowUp}
      BY <2>1, <2>2 DEF FollowUp
    <3> QED BY <1>2, <3>1 DEF Received
  <2>3. CASE k > n
    <3> DEFINE q == inbox[t]
    <3>1. q \in Seq(Tasks \cup {FollowUp}) /\ k \in 1..Len(q) /\ n \in 1..Len(q)
      BY <1>1, <2>1
    <3>2. inbox'[t] = SubSeq(q, n + 1, Len(q))
      BY <1>1, <1>2
    <3>3. /\ Len(SubSeq(q, n + 1, Len(q))) = Len(q) - n
          /\ SubSeq(q, n + 1, Len(q))[k - n] = q[k]
          /\ k - n \in 1..(Len(q) - n)
      <4> HIDE DEF q
      <4> QED BY <2>3, <3>1, SubSeqProperties
    <3> QED BY <1>6, <2>1, <3>2, <3>3 DEF Received
  <2> QED BY <2>2, <2>3
<1> QED BY <1>4, <1>5, <1>6

(* ReceiptInv is inductive: a new attempt has no injection yet, a turn answers
   the messages it takes from the inbox. *)
LEMMA ReceiptStepKeeps == TypeOK /\ AimInv /\ ReceiptInv /\ [Next]_vars => ReceiptInv'
<1> SUFFICES ASSUME TypeOK, AimInv, ReceiptInv, [Next]_vars PROVE ReceiptInv'
  OBVIOUS
<1> USE DEF ReceiptInv, Received, Here, Goto, From
<1>a. /\ pc \in [Tasks -> Steps] /\ attempt \in [Tasks -> 0..MaxAttempts]
      /\ inbox \in [Tasks -> Seq(Tasks \cup {FollowUp})]
      /\ aim \in [Tasks -> [task : Tasks \cup {NoTask}, attempt : 0..MaxAttempts]]
  BY DEF TypeOK
<1>b. \A i, t \in Tasks : pc[t] = "warming" => aim[i] # [task |-> t, attempt |-> attempt[t]]
  <2> SUFFICES ASSUME NEW i \in Tasks, NEW t \in Tasks, pc[t] = "warming",
                      aim[i] = [task |-> t, attempt |-> attempt[t]]
               PROVE  FALSE
    OBVIOUS
  <2>1. aim[i].task = t /\ aim[i].attempt = attempt[t] /\ attempt[t] \in Nat
    BY <1>a
  <2> QED BY <2>1 DEF AimInv
<1>1. ASSUME NEW t \in Tasks, ChatClaims(t) PROVE ReceiptInv'
  BY <1>a, <1>1 DEF ChatClaims
<1>2. ASSUME NEW t \in Tasks, ChatFindsBusy(t) PROVE ReceiptInv'
  BY <1>a, <1>2 DEF ChatFindsBusy
<1>3. ASSUME NEW t \in Tasks, HeadlessArrives(t) PROVE ReceiptInv'
  BY <1>a, <1>3 DEF HeadlessArrives
<1>4. ASSUME NEW t \in Tasks, BusyRefuses(t) PROVE ReceiptInv'
  BY <1>a, <1>4 DEF BusyRefuses
<1>5. ASSUME NEW t \in Tasks, InjectCounts(t) PROVE ReceiptInv'
  BY <1>a, <1>5 DEF InjectCounts
<1>6. ASSUME NEW t \in Tasks, InjectDelivers(t) PROVE ReceiptInv'
  <2>1. /\ pc[t] = "injecting" /\ pc' = [pc EXCEPT ![t] = "injected"]
        /\ UNCHANGED <<attempt, aim, answered>> /\ aim[t].task \in Tasks
    BY <1>6 DEF InjectDelivers, SameAttempt
  <2>2. CASE pc[aim[t].task] = "reading" /\ inbox' = [inbox EXCEPT ![aim[t].task] = Append(@, t)]
    <3>1. PICK u \in Tasks : u = aim[t].task
      BY <2>1
    <3>2. inbox'[u] = Append(inbox[u], t) /\ \A v \in Tasks \ {u} : inbox'[v] = inbox[v]
      BY <1>a, <2>2, <3>1
    <3>3. /\ Len(inbox[u]) \in Nat /\ Len(inbox'[u]) = Len(inbox[u]) + 1
          /\ inbox'[u][Len(inbox[u]) + 1] = t
          /\ \A k \in 1..Len(inbox[u]) : inbox'[u][k] = inbox[u][k]
      <4>1. /\ inbox[u] \in Seq(Tasks \cup {FollowUp}) /\ Len(inbox[u]) \in Nat
            /\ Len(Append(inbox[u], t)) = Len(inbox[u]) + 1
            /\ Append(inbox[u], t)[Len(inbox[u]) + 1] = t
            /\ \A k \in 1..Len(inbox[u]) : Append(inbox[u], t)[k] = inbox[u][k]
        BY <1>a, <2>1
      <4> QED BY <3>2, <4>1, Zenon
    <3>4. Received(t, u)'
      <4>1. Len(inbox[u]) + 1 \in 1..Len(inbox'[u])
        BY <3>3
      <4> QED BY <3>3, <4>1
    <3>5. \A i, v \in Tasks : Received(i, v) => Received(i, v)'
      <4> SUFFICES ASSUME NEW i \in Tasks, NEW v \in Tasks, Received(i, v) PROVE Received(i, v)'
        OBVIOUS
      <4>1. CASE v # u
        BY <2>1, <3>2, <4>1
      <4>2. ASSUME NEW k \in 1..Len(inbox[u]), inbox[u][k] = i PROVE Received(i, u)'
        <5>1. k \in 1..Len(inbox'[u]) /\ inbox'[u][k] = i
          BY <3>3, <4>2
        <5> QED BY <5>1
      <4>3. CASE v = u
        BY <2>1, <4>2, <4>3
      <4> QED BY <4>1, <4>3
    <3> HIDE DEF Received
    <3> QED BY <1>a, <2>1, <3>4, <3>5, <3>1
  <2>3. CASE pc[aim[t].task] # "reading" /\ UNCHANGED inbox
    BY <1>a, <2>1, <2>3
  <2> QED BY <1>6, <2>2, <2>3 DEF InjectDelivers
<1>7. ASSUME NEW t \in Tasks, InjectFails(t) PROVE ReceiptInv'
  BY <1>a, <1>7 DEF InjectFails, NoAim
<1>8. ASSUME NEW t \in Tasks, ChatRecords(t) PROVE ReceiptInv'
  BY <1>a, <1>8 DEF ChatRecords
<1>9. ASSUME NEW t \in Tasks, ChatGivesUp(t) PROVE ReceiptInv'
  BY <1>a, <1>9 DEF ChatGivesUp
<1>10. ASSUME NEW t \in Tasks, EnterAgent(t) PROVE ReceiptInv'
  BY <1>a, <1>10 DEF EnterAgent
<1>11. ASSUME NEW t \in Tasks, AgentWaits(t) PROVE ReceiptInv'
  BY <1>a, <1>11 DEF AgentWaits
<1>12. ASSUME NEW t \in Tasks, AgentWakes(t) PROVE ReceiptInv'
  BY <1>a, <1>12 DEF AgentWakes
<1>13. ASSUME NEW t \in Tasks, QueryAndRegister(t) PROVE ReceiptInv'
  <2>1. /\ pc[t] = "warming" /\ pc' = [pc EXCEPT ![t] = "reading"]
        /\ inbox' = [inbox EXCEPT ![t] = <<t>>]
        /\ UNCHANGED <<attempt, aim, answered>>
    BY <1>13 DEF QueryAndRegister
  <2>2. \A i, u \in Tasks : u # t => (Received(i, u) => Received(i, u)')
    BY <1>a, <2>1
  <2> HIDE DEF Received
  <2> QED BY <1>a, <1>b, <2>1, <2>2
<1>14. ASSUME NEW t \in Tasks, TurnResult(t) PROVE ReceiptInv'
  <2>1. /\ pc[t] = "reading" /\ pc' \in {pc, [pc EXCEPT ![t] = "closing"]}
        /\ UNCHANGED <<attempt, aim>>
    BY <1>14 DEF TurnResult
  <2>2. \A i, u \in Tasks : Received(i, u) => Received(i, u)'
    BY <1>14, TurnKeepsReceipts
  <2> HIDE DEF Received
  <2> QED BY <1>a, <2>1, <2>2
<1>15. ASSUME NEW t \in Tasks, StreamStops(t) PROVE ReceiptInv'
  BY <1>a, <1>15 DEF StreamStops
<1>16. ASSUME NEW t \in Tasks, UnregisterHandle(t) PROVE ReceiptInv'
  BY <1>a, <1>16 DEF UnregisterHandle
<1>17. ASSUME NEW t \in Tasks, ReleaseClient(t) PROVE ReceiptInv'
  <2>1. /\ \A u \in Tasks : pc'[u] = "reading" => u # t /\ pc[u] = "reading"
        /\ \A u \in Tasks : pc'[u] = "injected" => pc[u] = "injected"
        /\ \A u \in Tasks \ {t} : attempt'[u] = attempt[u]
        /\ UNCHANGED <<aim, inbox, answered>>
    BY <1>a, <1>17 DEF ReleaseClient
  <2> QED BY <2>1
<1>18. ASSUME NEW t \in Tasks, Settle(t) PROVE ReceiptInv'
  BY <1>a, <1>18 DEF Settle
<1>19. ASSUME NEW t \in Tasks, LeaveAgent(t) PROVE ReceiptInv'
  BY <1>a, <1>19 DEF LeaveAgent
<1>20. ASSUME NEW t \in Tasks, LeaveRoute(t) PROVE ReceiptInv'
  BY <1>a, <1>20 DEF LeaveRoute
<1>21. ASSUME NEW t \in Tasks, LateFinally(t) PROVE ReceiptInv'
  BY <1>a, <1>21 DEF LateFinally
<1>22. ASSUME NEW t \in Tasks, AcquireFails(t) PROVE ReceiptInv'
  BY <1>a, <1>22 DEF AcquireFails
<1>23. ASSUME NEW t \in Tasks, LoopBreaks(t) PROVE ReceiptInv'
  BY <1>a, <1>23 DEF LoopBreaks
<1>24. ASSUME NEW t \in Tasks, RunFails(t) PROVE ReceiptInv'
  BY <1>a, <1>24 DEF RunFails
<1>25. ASSUME NEW t \in Tasks, Abandon(t) PROVE ReceiptInv'
  BY <1>a, <1>25 DEF Abandon
<1>26. ASSUME NEW t \in Tasks, SubagentStarts(t) PROVE ReceiptInv'
  BY <1>a, <1>26 DEF SubagentStarts
<1>27. ASSUME NEW t \in Tasks, SubagentEnds(t) PROVE ReceiptInv'
  <2>1. UNCHANGED <<pc, attempt, aim, answered>>
    BY <1>27 DEF SubagentEnds
  <2>2. \A i, u \in Tasks : Received(i, u) => Received(i, u)'
    <3>1. CASE UNCHANGED inbox
      BY <2>1, <3>1
    <3>2. CASE inbox' = [inbox EXCEPT ![t] = Append(@, FollowUp)]
      BY <1>a, <2>1, <3>2
    <3> QED BY <1>27, <3>1, <3>2 DEF SubagentEnds
  <2> HIDE DEF Received
  <2> QED BY <1>a, <2>1, <2>2
<1>28. ASSUME StopStep PROVE ReceiptInv'
  BY <1>28 DEF StopStep, StopHandle, StopFindsNoHandle, StopReadsStatus, StopParks,
                PendingStopExpires, runVars
<1>29. ASSUME UNCHANGED vars PROVE ReceiptInv'
  BY <1>29 DEF vars, runVars
<1> QED
  BY <1>1, <1>2, <1>3, <1>4, <1>5, <1>6, <1>7, <1>8, <1>9, <1>10, <1>11, <1>12, <1>13, <1>14,
     <1>15, <1>16, <1>17, <1>18, <1>19, <1>20, <1>21, <1>22, <1>23, <1>24, <1>25, <1>26, <1>27, <1>28, <1>29
     DEF Next, TaskStep, Arrival, ChatStep, RunStep, Mishap, Finished

(* Injections counted on the current attempt of t whose message is on its way. *)
OnTheWay(t) == {i \in Tasks : pc[i] = "injecting" /\ aim[i] = Here(t)}

(* Why a turn result that finishes has answered everything: as long as the run
   had no Agent call, what is on the way and what is in the inbox is at most the
   prompt and the injections counted on the handle. *)
Counted(t) ==
    pc[t] = "reading" /\ sub[t] = "no" =>
        /\ IsFiniteSet(OnTheWay(t))
        /\ Cardinality(OnTheWay(t)) + Len(inbox[t]) <= handle[t].pending + 1
CountInv == \A t \in Tasks : Counted(t)

(* A step that injects nothing, answers nothing and starts no attempt. *)
Quiet ==
    /\ UNCHANGED aim
    /\ \A i \in Tasks : pc'[i] = "injecting" <=> pc[i] = "injecting"
    /\ \A t \in Tasks : pc'[t] = "reading" /\ sub'[t] = "no" =>
         /\ pc[t] = "reading" /\ sub[t] = "no"
         /\ attempt'[t] = attempt[t] /\ inbox'[t] = inbox[t]
         /\ handle'[t].pending = handle[t].pending

LEMMA QuietKeepsCount == CountInv /\ Quiet => CountInv'
<1> SUFFICES ASSUME CountInv, Quiet, NEW t \in Tasks, pc'[t] = "reading", sub'[t] = "no"
             PROVE  Counted(t)'
  BY DEF CountInv, Counted
<1>1. /\ pc[t] = "reading" /\ sub[t] = "no"
      /\ attempt'[t] = attempt[t] /\ inbox'[t] = inbox[t]
      /\ handle'[t].pending = handle[t].pending
  BY DEF Quiet
<1>2. OnTheWay(t)' = OnTheWay(t)
  BY <1>1, Zenon DEF OnTheWay, Here, Quiet
<1> QED BY <1>1, <1>2 DEF CountInv, Counted

(* What is left of a set of messages on the way after one of them arrived, and
   the set with one more. *)
LEMMA OneMoreOrLess ==
    ASSUME NEW S, IsFiniteSet(S), NEW x
    PROVE  /\ IsFiniteSet(S \cup {x}) /\ IsFiniteSet(S \ {x}) /\ Cardinality(S) \in Nat
           /\ x \notin S => Cardinality(S \cup {x}) = Cardinality(S) + 1
           /\ x \in S => Cardinality(S \ {x}) = Cardinality(S) - 1
<1> QED BY FS_AddElement, FS_RemoveElement, FS_CardinalityType

(* CountInv is inductive, given StopInv and AimInv. *)
LEMMA CountStepKeeps == TypeOK /\ StopInv /\ AimInv /\ CountInv /\ [Next]_vars => CountInv'
<1> SUFFICES ASSUME TypeOK, StopInv, AimInv, CountInv, [Next]_vars PROVE CountInv'
  OBVIOUS
<1> USE DEF Goto, From, registryVars
<1>a. /\ pc \in [Tasks -> Steps] /\ attempt \in [Tasks -> 0..MaxAttempts]
      /\ sub \in [Tasks -> {"no", "pending", "ended"}]
      /\ inbox \in [Tasks -> Seq(Tasks \cup {FollowUp})]
      /\ aim \in [Tasks -> [task : Tasks \cup {NoTask}, attempt : 0..MaxAttempts]]
      /\ handle \in [Tasks -> Handles] /\ stream \in Tasks \cup {NoTask}
      /\ \A t \in Tasks : handle[t].pending \in Nat
  BY DEF TypeOK, RegistryTypeOK, Handles
<1>1. ASSUME NEW t \in Tasks, ChatClaims(t) PROVE CountInv'
  BY <1>a, <1>1, QuietKeepsCount DEF Quiet, ChatClaims
<1>2. ASSUME NEW t \in Tasks, ChatFindsBusy(t) PROVE CountInv'
  BY <1>a, <1>2, QuietKeepsCount DEF Quiet, ChatFindsBusy
<1>3. ASSUME NEW t \in Tasks, HeadlessArrives(t) PROVE CountInv'
  BY <1>a, <1>3, QuietKeepsCount DEF Quiet, HeadlessArrives
<1>4. ASSUME NEW t \in Tasks, BusyRefuses(t) PROVE CountInv'
  BY <1>a, <1>4, QuietKeepsCount DEF Quiet, BusyRefuses
<1>5. ASSUME NEW t \in Tasks, InjectCounts(t) PROVE CountInv'
  <2>1. /\ stream \in Tasks /\ pc[t] = "busy" /\ pc' = [pc EXCEPT ![t] = "injecting"]
        /\ aim' = [aim EXCEPT ![t] = Here(stream)] /\ handle' = InjectionCounted
        /\ UNCHANGED <<attempt, inbox, sub>>
    BY <1>a, <1>5, QuietKeepsCount DEF Quiet, InjectCounts, CanInject, Here
  <2>2. SUFFICES ASSUME NEW u \in Tasks, pc[u] = "reading", sub[u] = "no", u # t
                 PROVE  Counted(u)'
    BY <1>a, <2>1 DEF CountInv, Counted
  <2>3. CASE u # stream
    <3>1. OnTheWay(u)' = OnTheWay(u) /\ handle'[u] = handle[u]
      BY <1>a, <2>1, <2>2, <2>3 DEF OnTheWay, Here, InjectionCounted
    <3> QED BY <2>1, <2>2, <3>1 DEF CountInv, Counted
  <2>4. CASE u = stream
    <3>1. OnTheWay(u)' = OnTheWay(u) \cup {t} /\ t \notin OnTheWay(u)
      BY <1>a, <2>1, <2>2, <2>4 DEF OnTheWay, Here
    <3>2. handle'[u].pending = handle[u].pending + 1 /\ inbox'[u] = inbox[u]
      BY <1>a, <2>1, <2>4 DEF InjectionCounted, Handles
    <3>3. IsFiniteSet(OnTheWay(u))
          /\ Cardinality(OnTheWay(u)) + Len(inbox[u]) <= handle[u].pending + 1
      BY <2>2 DEF CountInv, Counted
    <3>4. /\ IsFiniteSet(OnTheWay(u)') /\ Cardinality(OnTheWay(u)) \in Nat
          /\ Cardinality(OnTheWay(u)') = Cardinality(OnTheWay(u)) + 1
      BY <3>1, <3>3, OneMoreOrLess
    <3>5. Len(inbox[u]) \in Nat /\ handle[u].pending \in Nat
      BY <1>a
    <3>6. Cardinality(OnTheWay(u)') + Len(inbox'[u]) <= handle'[u].pending + 1
      BY <3>2, <3>3, <3>4, <3>5
    <3> QED BY <3>4, <3>6 DEF Counted
  <2> QED BY <2>3, <2>4
<1>6. ASSUME NEW t \in Tasks, InjectDelivers(t) PROVE CountInv'
  <2>1. /\ aim[t].task \in Tasks /\ aim[t] = Here(aim[t].task)
        /\ pc[t] = "injecting" /\ pc' = [pc EXCEPT ![t] = "injected"]
        /\ UNCHANGED <<aim, attempt, handle, sub>>
        /\ \A u \in Tasks \ {aim[t].task} : inbox'[u] = inbox[u]
        /\ pc[aim[t].task] = "reading"
             => inbox'[aim[t].task] = Append(inbox[aim[t].task], t)
    BY <1>a, <1>6, QuietKeepsCount DEF Quiet, InjectDelivers, SameAttempt, Here
  <2>2. SUFFICES ASSUME NEW u \in Tasks, pc[u] = "reading", sub[u] = "no", u # t
                 PROVE  Counted(u)'
    BY <1>a, <2>1 DEF CountInv, Counted
  <2>3. CASE u # aim[t].task
    <3>1. OnTheWay(u)' = OnTheWay(u) /\ inbox'[u] = inbox[u]
      BY <1>a, <2>1, <2>2, <2>3 DEF OnTheWay, Here
    <3> QED BY <2>1, <2>2, <3>1 DEF CountInv, Counted
  <2>4. CASE u = aim[t].task
    <3>1. OnTheWay(u)' = OnTheWay(u) \ {t} /\ t \in OnTheWay(u)
      BY <1>a, <2>1, <2>2, <2>4 DEF OnTheWay, Here
    <3>2. Len(inbox'[u]) = Len(inbox[u]) + 1 /\ Len(inbox[u]) \in Nat
      BY <1>a, <2>1, <2>2, <2>4
    <3>3. IsFiniteSet(OnTheWay(u))
          /\ Cardinality(OnTheWay(u)) + Len(inbox[u]) <= handle[u].pending + 1
      BY <2>2 DEF CountInv, Counted
    <3>4. /\ IsFiniteSet(OnTheWay(u)') /\ Cardinality(OnTheWay(u)) \in Nat
          /\ Cardinality(OnTheWay(u)') = Cardinality(OnTheWay(u)) - 1
      BY <3>1, <3>3, OneMoreOrLess
    <3>5. Cardinality(OnTheWay(u)') + Len(inbox'[u]) <= handle'[u].pending + 1
      BY <1>a, <2>1, <3>2, <3>3, <3>4
    <3> QED BY <3>4, <3>5 DEF Counted
  <2> QED BY <2>3, <2>4
<1>7. ASSUME NEW t \in Tasks, InjectFails(t) PROVE CountInv'
  <2>1. /\ pc[t] = "injecting" /\ pc' = [pc EXCEPT ![t] = "idle"]
        /\ UNCHANGED <<attempt, inbox, sub>> /\ aim' = [aim EXCEPT ![t] = NoAim]
        /\ handle' = IF SameAttempt(t) THEN InjectionFailed(aim[t].task) ELSE handle
    BY <1>7 DEF InjectFails
  <2>2. SUFFICES ASSUME NEW u \in Tasks, pc[u] = "reading", sub[u] = "no", u # t
                 PROVE  Counted(u)'
    BY <1>a, <2>1 DEF CountInv, Counted
  <2>3. CASE aim[t] # Here(u)
    <3>1. OnTheWay(u)' = OnTheWay(u)
      BY <1>a, <2>1, <2>2, <2>3 DEF OnTheWay, Here
    <3>2. handle'[u] = handle[u]
      <4>1. SameAttempt(t) => aim[t].task # u
        BY <1>a, <2>3 DEF SameAttempt, Here
      <4> QED BY <1>a, <2>1, <4>1 DEF InjectionFailed, SameAttempt
    <3> QED BY <2>1, <2>2, <3>1, <3>2 DEF CountInv, Counted
  <2>4. CASE aim[t] = Here(u)
    <3>1. OnTheWay(u)' = OnTheWay(u) \ {t} /\ t \in OnTheWay(u)
      BY <1>a, <2>1, <2>2, <2>4 DEF OnTheWay, Here, NoAim
    <3>2. handle'[u].pending = IF handle[u].pending > 0 THEN handle[u].pending - 1 ELSE 0
      <4>1. SameAttempt(t) /\ aim[t].task = u
        BY <2>4 DEF SameAttempt, Here
      <4> QED BY <1>a, <2>1, <4>1 DEF InjectionFailed, Handles
    <3>3. IsFiniteSet(OnTheWay(u))
          /\ Cardinality(OnTheWay(u)) + Len(inbox[u]) <= handle[u].pending + 1
      BY <2>2 DEF CountInv, Counted
    <3>4. /\ IsFiniteSet(OnTheWay(u)') /\ Cardinality(OnTheWay(u)) \in Nat
          /\ Cardinality(OnTheWay(u)') = Cardinality(OnTheWay(u)) - 1
      BY <3>1, <3>3, OneMoreOrLess
    <3>5. Len(inbox[u]) \in Nat /\ handle[u].pending \in Nat
      BY <1>a
    <3>6. inbox'[u] = inbox[u]
      BY <2>1
    <3>7. Cardinality(OnTheWay(u)') + Len(inbox'[u]) <= handle'[u].pending + 1
      BY <3>2, <3>3, <3>4, <3>5, <3>6
    <3> QED BY <3>4, <3>7 DEF Counted
  <2> QED BY <2>3, <2>4
<1>8. ASSUME NEW t \in Tasks, ChatRecords(t) PROVE CountInv'
  BY <1>a, <1>8, QuietKeepsCount DEF Quiet, ChatRecords
<1>9. ASSUME NEW t \in Tasks, ChatGivesUp(t) PROVE CountInv'
  BY <1>a, <1>9, QuietKeepsCount DEF Quiet, ChatGivesUp
<1>10. ASSUME NEW t \in Tasks, EnterAgent(t) PROVE CountInv'
  BY <1>a, <1>10, QuietKeepsCount DEF Quiet, EnterAgent
<1>11. ASSUME NEW t \in Tasks, AgentWaits(t) PROVE CountInv'
  BY <1>a, <1>11, QuietKeepsCount DEF Quiet, AgentWaits
<1>12. ASSUME NEW t \in Tasks, AgentWakes(t) PROVE CountInv'
  BY <1>a, <1>12, QuietKeepsCount DEF Quiet, AgentWakes
<1>13. ASSUME NEW t \in Tasks, QueryAndRegister(t) PROVE CountInv'
  <2>1. /\ pc[t] = "warming" /\ pc' = [pc EXCEPT ![t] = "reading"]
        /\ inbox' = [inbox EXCEPT ![t] = <<t>>] /\ sub' = [sub EXCEPT ![t] = "no"]
        /\ UNCHANGED <<attempt, aim>>
    BY <1>13 DEF QueryAndRegister
  <2>2. \A u \in Tasks \ {t} : handle'[u] = handle[u]
    BY <1>a, <1>13, QuietKeepsCount DEF Quiet, QueryAndRegister, Register
  <2>3. handle'[t].pending = 0
    BY <1>a, <1>13, QuietKeepsCount DEF Quiet, QueryAndRegister, Register
  <2>4. \A u \in Tasks : OnTheWay(u)' = OnTheWay(u)
    BY <1>a, <2>1 DEF OnTheWay, Here
  <2>5. OnTheWay(t) = {}
    <3>1. SUFFICES ASSUME NEW i \in Tasks, aim[i] = Here(t) PROVE FALSE
      BY DEF OnTheWay
    <3>2. aim[i].task = t /\ aim[i].attempt = attempt[t] /\ attempt[t] \in Nat
      BY <1>a, <3>1 DEF Here
    <3> QED BY <2>1, <3>2 DEF AimInv
  <2>6. Counted(t)'
    <3>1. Len(inbox'[t]) = 1
      BY <1>a, <2>1
    <3>2. IsFiniteSet({}) /\ Cardinality({}) = 0
      BY FS_EmptySet
    <3> QED BY <2>3, <2>4, <2>5, <3>1, <3>2 DEF Counted
  <2>7. ASSUME NEW u \in Tasks, u # t PROVE Counted(u)'
    <3>1. pc'[u] = pc[u] /\ sub'[u] = sub[u] /\ inbox'[u] = inbox[u] /\ handle'[u] = handle[u]
      BY <1>a, <2>1, <2>2, <2>7
    <3> QED BY <2>4, <3>1 DEF CountInv, Counted
  <2> QED BY <2>6, <2>7 DEF CountInv
<1>14. ASSUME NEW t \in Tasks, TurnResult(t) PROVE CountInv'
  <2>1. /\ pc[t] = "reading" /\ pc' \in {pc, [pc EXCEPT ![t] = "closing"]}
        /\ UNCHANGED <<attempt, aim, sub>>
        /\ pc'[t] = "reading" /\ sub[t] = "no" =>
             ~EndTurnFinishes(t, TRUE) /\ handle' = EndTurn(t, TRUE)
    BY <1>a, <1>14, QuietKeepsCount DEF Quiet, TurnResult, MayFinish
  <2>2. PICK n \in 1..Len(inbox[t]) : inbox' = [inbox EXCEPT ![t] = SubSeq(@, n + 1, Len(@))]
    BY <1>14 DEF TurnResult
  <2>3. \A u \in Tasks : OnTheWay(u)' = OnTheWay(u)
    BY <1>a, <2>1 DEF OnTheWay, Here
  <2>4. ASSUME NEW u \in Tasks, u # t PROVE Counted(u)'
    <3>1. handle' \in {Closed(t), EndTurn(t, MayFinish(t))}
      BY <1>14 DEF TurnResult
    <3>2. pc'[u] = pc[u] /\ inbox'[u] = inbox[u] /\ handle'[u] = handle[u]
      BY <1>a, <2>1, <2>2, <2>4, <3>1 DEF Closed, EndTurn
    <3> QED BY <2>1, <2>3, <3>2 DEF CountInv, Counted
  <2>5. ASSUME pc'[t] = "reading", sub[t] = "no" PROVE Counted(t)'
    <3>1. handle[t].pending \in Nat /\ handle[t].pending # 0
          /\ handle'[t].pending = handle[t].pending - 1
      BY <1>a, <2>1, <2>5 DEF EndTurnFinishes, EndTurn, Handles
    <3>2. Len(inbox'[t]) = Len(inbox[t]) - n /\ Len(inbox[t]) \in Nat
      BY <1>a, <2>2
    <3>3. IsFiniteSet(OnTheWay(t))
          /\ Cardinality(OnTheWay(t)) + Len(inbox[t]) <= handle[t].pending + 1
      BY <2>1, <2>5 DEF CountInv, Counted
    <3>4. Cardinality(OnTheWay(t)) \in Nat
      BY <3>3, FS_CardinalityType
    <3>5. Cardinality(OnTheWay(t)) + Len(inbox'[t]) <= handle'[t].pending + 1
      BY <3>1, <3>2, <3>3, <3>4
    <3> QED BY <2>3, <3>3, <3>5 DEF Counted
  <2> QED BY <2>1, <2>4, <2>5 DEF CountInv, Counted
<1>15. ASSUME NEW t \in Tasks, StreamStops(t) PROVE CountInv'
  <2>1. \A u \in Tasks : handle'[u].pending = handle[u].pending
    BY <1>a, <1>15, QuietKeepsCount DEF Quiet, StreamStops, Closed, Handles
  <2> QED BY <1>a, <1>15, <2>1, QuietKeepsCount DEF Quiet, StreamStops
<1>16. ASSUME NEW t \in Tasks, UnregisterHandle(t) PROVE CountInv'
  <2>1. \A u \in Tasks : handle'[u].pending = handle[u].pending
    BY <1>a, <1>16, QuietKeepsCount DEF Quiet, UnregisterHandle, Unregister, Handles
  <2> QED BY <1>a, <1>16, <2>1, QuietKeepsCount DEF Quiet, UnregisterHandle
<1>17. ASSUME NEW t \in Tasks, ReleaseClient(t) PROVE CountInv'
  BY <1>a, <1>17, QuietKeepsCount DEF Quiet, ReleaseClient
<1>18. ASSUME NEW t \in Tasks, Settle(t) PROVE CountInv'
  BY <1>a, <1>18, QuietKeepsCount DEF Quiet, Settle
<1>19. ASSUME NEW t \in Tasks, LeaveAgent(t) PROVE CountInv'
  BY <1>a, <1>19, QuietKeepsCount DEF Quiet, LeaveAgent
<1>20. ASSUME NEW t \in Tasks, LeaveRoute(t) PROVE CountInv'
  BY <1>a, <1>20, QuietKeepsCount DEF Quiet, LeaveRoute
<1>21. ASSUME NEW t \in Tasks, LateFinally(t) PROVE CountInv'
  <2>1. \A u \in Tasks : handle'[u].pending = handle[u].pending
    BY <1>a, <1>21, QuietKeepsCount DEF Quiet, LateFinally, Unregister, Handles
  <2> QED BY <1>a, <1>21, <2>1, QuietKeepsCount DEF Quiet, LateFinally
<1>22. ASSUME NEW t \in Tasks, AcquireFails(t) PROVE CountInv'
  BY <1>a, <1>22, QuietKeepsCount DEF Quiet, AcquireFails
<1>23. ASSUME NEW t \in Tasks, LoopBreaks(t) PROVE CountInv'
  BY <1>a, <1>23, QuietKeepsCount DEF Quiet, LoopBreaks
<1>24. ASSUME NEW t \in Tasks, RunFails(t) PROVE CountInv'
  BY <1>a, <1>24, QuietKeepsCount DEF Quiet, RunFails
<1>25. ASSUME NEW t \in Tasks, Abandon(t) PROVE CountInv'
  BY <1>a, <1>25, QuietKeepsCount DEF Quiet, Abandon
<1>26. ASSUME NEW t \in Tasks, SubagentStarts(t) PROVE CountInv'
  BY <1>a, <1>26, QuietKeepsCount DEF Quiet, SubagentStarts
<1>27. ASSUME NEW t \in Tasks, SubagentEnds(t) PROVE CountInv'
  BY <1>a, <1>27, QuietKeepsCount DEF Quiet, SubagentEnds
<1>28. ASSUME StopStep PROVE CountInv'
  <2>1. \A u \in Tasks : handle'[u].pending = handle[u].pending
    <3>1. CASE UNCHANGED handle
      BY <3>1
    <3>2. ASSUME NEW s \in Tasks, handle' = Interrupted(s)
          PROVE  \A u \in Tasks : handle'[u].pending = handle[u].pending
      BY <1>a, <3>2 DEF Interrupted, Handles
    <3> QED BY <1>a, <1>28, <3>1, <3>2 DEF StopStep, StopHandle, StopFindsNoHandle,
               StopReadsStatus, StopParks, PendingStopExpires
  <2>2. UNCHANGED runVars
    BY <1>28 DEF StopStep, StopHandle, StopFindsNoHandle, StopReadsStatus, StopParks,
                  PendingStopExpires
  <2> QED BY <2>1, <2>2, QuietKeepsCount DEF Quiet, runVars
<1>29. ASSUME UNCHANGED vars PROVE CountInv'
  BY <1>29, QuietKeepsCount DEF Quiet, vars, runVars
<1> QED
  BY <1>1, <1>2, <1>3, <1>4, <1>5, <1>6, <1>7, <1>8, <1>9, <1>10, <1>11, <1>12, <1>13, <1>14,
     <1>15, <1>16, <1>17, <1>18, <1>19, <1>20, <1>21, <1>22, <1>23, <1>24, <1>25, <1>26, <1>27, <1>28, <1>29
     DEF Next, TaskStep, Arrival, ChatStep, RunStep, Mishap, Finished

LEMMA Invariants == Spec => [](TypeOK /\ ClaimInv /\ HandleInv)
<1>1. Init => ClaimInv /\ HandleInv
  BY DEF Init, RegistryInit, ClaimInv, HandleInv, Owns, InAgent, ClaimLive, NoHandle
<1> QED BY <1>1, TypeInit, TypeStep, ClaimStep, HandleStep, PTL DEF Spec

LEMMA MessageInvariants == Spec => [](StopInv /\ AimInv /\ ReceiptInv /\ CountInv)
<1>1. Init => StopInv /\ AimInv
  BY DEF Init, RegistryInit, StopInv, AimInv, NoAim
<1>2. Init => ReceiptInv /\ CountInv
  BY DEF Init, ReceiptInv, CountInv, Counted
<1> QED
  BY <1>1, <1>2, Invariants, StopStepKeeps, AimStepKeeps, ReceiptStepKeeps, CountStepKeeps,
     PTL DEF Spec

(* At most one task runs the conversation at a time, for any number of tasks,
   attempts and stops, with tasks dying in the middle of their run. *)
THEOREM MutualExclusion == Spec => []OneRun
<1>1. ClaimInv => OneRun
  BY DEF ClaimInv, OneRun
<1> QED BY <1>1, Invariants, PTL

(* No live handle is ever displaced, and the handle of a live run is the one
   that Stop and inject find. *)
THEOREM HandlesReachable == Spec => []HandleIsReachable
<1>1. HandleInv => HandleIsReachable
  BY DEF HandleInv, HandleIsReachable, NeverDisplaced, StopReachesLiveRun
<1> QED BY <1>1, Invariants, PTL

(* A stop that found the handle of a run is honoured, whatever the run was doing
   and however late the stop comes: unless the run starts over on another
   account, it does not end as completed. *)
THEOREM StopsHonoured == Spec => []HandleStopHonoured
<1>1. StopInv => HandleStopHonoured
  BY DEF StopInv, HandleStopHonoured
<1> QED BY <1>1, MessageInvariants, PTL

(* A run without Agent calls that finishes at a turn result has answered every
   message counted on it, for any number of messages, failed deliveries and
   turns that answer several messages at once. *)
THEOREM FinishesAnswered == Spec => FinishAnswersInjections
<1>1. ASSUME TypeOK, AimInv, ReceiptInv, CountInv, NEW t \in Tasks, TurnResult(t),
             pc'[t] = "closing", ~handle[t].stop, sub[t] = "no",
             NEW i \in InjectedInto(t)
      PROVE  pc[i] = "injected" /\ i \in answered'
  <2>1. i \in Tasks /\ aim[i] = Here(t) /\ pc[t] = "reading"
    BY <1>1 DEF InjectedInto, Here, TurnResult
  <2>2. handle[t].pending = 0
    <3>1. pc'[t] # "closing" \/ handle[t].stop \/ EndTurnFinishes(t, MayFinish(t))
      BY <1>1, <2>1 DEF TurnResult
    <3> QED BY <1>1, <3>1 DEF EndTurnFinishes
  <2>3. PICK n \in 1..Len(inbox[t]) :
           answered' = answered \cup ({inbox[t][k] : k \in 1..n} \ {FollowUp})
    BY <1>1 DEF TurnResult
  <2>4. /\ IsFiniteSet(OnTheWay(t)) /\ Len(inbox[t]) \in Nat
        /\ Cardinality(OnTheWay(t)) + Len(inbox[t]) <= 1
    BY <1>1, <2>1, <2>2 DEF CountInv, Counted, TypeOK
  <2>5. Cardinality(OnTheWay(t)) = 0 /\ Len(inbox[t]) = 1 /\ n = 1
    <3>1. Cardinality(OnTheWay(t)) \in Nat
      BY <2>4, FS_CardinalityType
    <3>2. n \in Nat /\ 1 <= n /\ n <= Len(inbox[t])
      BY <2>4
    <3>3. ASSUME NEW c \in Nat, NEW l \in Nat, c + l <= 1, 1 <= n, n <= l, n \in Nat
          PROVE  c = 0 /\ l = 1 /\ n = 1
      BY <3>3
    <3> QED BY <2>4, <3>1, <3>2, <3>3
  <2>6. OnTheWay(t) = {}
    BY <2>4, <2>5, FS_EmptySet
  <2>7. pc[i] = "injected"
    <3>1. aim[i].task \in Tasks
      BY <2>1 DEF Here
    <3>2. pc[i] \in {"injecting", "injected"}
      BY <1>1, <2>1, <3>1 DEF AimInv
    <3> QED BY <2>1, <2>6, <3>2 DEF OnTheWay
  <2>8. Received(i, t)
    BY <1>1, <2>1, <2>7 DEF ReceiptInv
  <2>9. i \in answered \/ inbox[t][1] = i
    BY <2>5, <2>8 DEF Received
  <2> QED BY <2>1, <2>3, <2>5, <2>7, <2>9 DEF FollowUp
<1>2. TypeOK /\ AimInv /\ ReceiptInv /\ CountInv /\ [Next]_vars =>
        [\A t \in Tasks :
           (TurnResult(t) /\ pc'[t] = "closing" /\ ~handle[t].stop /\ sub[t] = "no")
             => \A i \in InjectedInto(t) : pc[i] = "injected" /\ i \in answered']_vars
  BY <1>1
<1> QED BY <1>2, Invariants, MessageInvariants, PTL DEF FinishAnswersInjections, Spec

(* The registry implements the lock of ConversationLock: a conversation is held
   by one task at a time and never twice by the same task. *)
THEOREM RefinesLock == Spec => ImplementsLock
<1> USE DEF Lock!LockInit, Lock!LockNext, Lock!Acquire, Lock!LetGo, Lock!lockVars
<1>1. Init => Lock!LockInit
  BY DEF Init, RegistryInit, ClaimLive, LetGoOf
<1>2. ASSUME TypeOK, ClaimInv, [Next]_vars
      PROVE  [Lock!LockNext]_(Lock!lockVars)
  <2> USE DEF LetGoOf, ClaimLive, NoClaim, Goto, From, registryVars
  <2>a. claim \in Claims /\ pc \in [Tasks -> Steps] /\ over \subseteq Tasks
    BY <1>2 DEF TypeOK, RegistryTypeOK
  <2>b. /\ \A t \in Tasks : t \in over <=> pc[t] \in {"injected", "abandoned", "done"}
        /\ \A t \in Tasks : Owns(t) => claim.task = t
        /\ claim # NoClaim => claim.run = IF claim.task \in Chats THEN "route" ELSE "agent"
        /\ ClaimLive => Owns(claim.task)
        /\ \A t \in Tasks : pc[t] = "waiting" => t \notin Chats
        /\ \A t \in Tasks : pc[t] \in {"busy", "injecting", "injected", "prep", "routeLeaving"}
                              => t \in Chats
    BY <1>2 DEF ClaimInv
  <2> USE DEF Claims, RunIds, Owns, InAgent
  <2>1. ASSUME NEW t \in Tasks, ChatClaims(t) PROVE [Lock!LockNext]_(Lock!lockVars)
    BY <2>a, <2>b, <2>1 DEF ChatClaims, TryClaim, CanClaim
  <2>2. ASSUME NEW t \in Tasks, EnterAgent(t) PROVE [Lock!LockNext]_(Lock!lockVars)
    BY <2>a, <2>b, <2>2 DEF EnterAgent, TryClaim, CanClaim
  <2>3. ASSUME NEW t \in Tasks, AgentWakes(t) PROVE [Lock!LockNext]_(Lock!lockVars)
    BY <2>a, <2>b, <2>3 DEF AgentWakes, TryClaim, CanClaim
  <2>4. ASSUME NEW t \in Tasks, LeaveAgent(t) PROVE [Lock!LockNext]_(Lock!lockVars)
    BY <2>a, <2>b, <2>4 DEF LeaveAgent, ReleaseClaim
  <2>5. ASSUME NEW t \in Tasks, LeaveRoute(t) PROVE [Lock!LockNext]_(Lock!lockVars)
    BY <2>a, <2>b, <2>5 DEF LeaveRoute, ReleaseClaim
  <2>6. ASSUME NEW t \in Tasks, Abandon(t) PROVE [Lock!LockNext]_(Lock!lockVars)
    BY <2>a, <2>b, <2>6 DEF Abandon, ReleaseClaim
  <2>7. ASSUME NEW t \in Tasks, LateFinally(t) PROVE [Lock!LockNext]_(Lock!lockVars)
    BY <2>a, <2>b, <2>7 DEF LateFinally, ReleaseClaim
  <2>8. ASSUME NEW t \in Tasks, InjectDelivers(t) PROVE [Lock!LockNext]_(Lock!lockVars)
    BY <2>a, <2>b, <2>8 DEF InjectDelivers
  <2>9. ASSUME NEW t \in Tasks, ChatFindsBusy(t) PROVE [Lock!LockNext]_(Lock!lockVars)
    BY <2>a, <2>9 DEF ChatFindsBusy
  <2>10. ASSUME NEW t \in Tasks, HeadlessArrives(t) PROVE [Lock!LockNext]_(Lock!lockVars)
    BY <2>a, <2>10 DEF HeadlessArrives
  <2>11. ASSUME NEW t \in Tasks, BusyRefuses(t) PROVE [Lock!LockNext]_(Lock!lockVars)
    BY <2>a, <2>11 DEF BusyRefuses
  <2>12. ASSUME NEW t \in Tasks, InjectCounts(t) PROVE [Lock!LockNext]_(Lock!lockVars)
    BY <2>a, <2>12 DEF InjectCounts
  <2>13. ASSUME NEW t \in Tasks, InjectFails(t) PROVE [Lock!LockNext]_(Lock!lockVars)
    BY <2>a, <2>13 DEF InjectFails
  <2>14. ASSUME NEW t \in Tasks, ChatRecords(t) PROVE [Lock!LockNext]_(Lock!lockVars)
    BY <2>a, <2>14 DEF ChatRecords
  <2>15. ASSUME NEW t \in Tasks, ChatGivesUp(t) PROVE [Lock!LockNext]_(Lock!lockVars)
    BY <2>a, <2>15 DEF ChatGivesUp
  <2>16. ASSUME NEW t \in Tasks, AgentWaits(t) PROVE [Lock!LockNext]_(Lock!lockVars)
    BY <2>a, <2>16 DEF AgentWaits
  <2>17. ASSUME NEW t \in Tasks, QueryAndRegister(t) PROVE [Lock!LockNext]_(Lock!lockVars)
    BY <2>a, <2>17 DEF QueryAndRegister
  <2>18. ASSUME NEW t \in Tasks, TurnResult(t) PROVE [Lock!LockNext]_(Lock!lockVars)
    BY <2>a, <2>18 DEF TurnResult
  <2>19. ASSUME NEW t \in Tasks, StreamStops(t) PROVE [Lock!LockNext]_(Lock!lockVars)
    BY <2>a, <2>19 DEF StreamStops
  <2>20. ASSUME NEW t \in Tasks, UnregisterHandle(t) PROVE [Lock!LockNext]_(Lock!lockVars)
    BY <2>a, <2>20 DEF UnregisterHandle
  <2>21. ASSUME NEW t \in Tasks, ReleaseClient(t) PROVE [Lock!LockNext]_(Lock!lockVars)
    BY <2>a, <2>21 DEF ReleaseClient
  <2>22. ASSUME NEW t \in Tasks, Settle(t) PROVE [Lock!LockNext]_(Lock!lockVars)
    BY <2>a, <2>22 DEF Settle
  <2>23. ASSUME NEW t \in Tasks, AcquireFails(t) PROVE [Lock!LockNext]_(Lock!lockVars)
    BY <2>a, <2>23 DEF AcquireFails
  <2>24. ASSUME NEW t \in Tasks, LoopBreaks(t) PROVE [Lock!LockNext]_(Lock!lockVars)
    BY <2>a, <2>24 DEF LoopBreaks
  <2>25. ASSUME NEW t \in Tasks, RunFails(t) PROVE [Lock!LockNext]_(Lock!lockVars)
    BY <2>a, <2>25 DEF RunFails
  <2>26. ASSUME NEW t \in Tasks, SubagentStarts(t) PROVE [Lock!LockNext]_(Lock!lockVars)
    BY <2>a, <2>26 DEF SubagentStarts
  <2>27. ASSUME NEW t \in Tasks, SubagentEnds(t) PROVE [Lock!LockNext]_(Lock!lockVars)
    BY <2>a, <2>27 DEF SubagentEnds
  <2>28. ASSUME StopStep PROVE [Lock!LockNext]_(Lock!lockVars)
    BY <2>28 DEF StopStep, StopHandle, StopFindsNoHandle, StopReadsStatus, StopParks,
                  PendingStopExpires, runVars
  <2>29. ASSUME UNCHANGED vars PROVE [Lock!LockNext]_(Lock!lockVars)
    BY <2>29 DEF vars, runVars
  <2> QED
    BY <1>2, <2>1, <2>2, <2>3, <2>4, <2>5, <2>6, <2>7, <2>8, <2>9, <2>10, <2>11, <2>12, <2>13,
       <2>14, <2>15, <2>16, <2>17, <2>18, <2>19, <2>20, <2>21, <2>22, <2>23, <2>24, <2>25, <2>26, <2>27, <2>28, <2>29
       DEF Next, TaskStep, Arrival, ChatStep, RunStep, Mishap, Finished
<1> QED BY <1>1, <1>2, Invariants, PTL DEF Spec, ImplementsLock, Lock!LockSpec

-----------------------------------------------------------------------------
(* Device leases.  `LeasesAreKept` is inductive with three additions: a session
   waits for the call its tool call is about, and for no other (WaitInv); who
   waits for the use of a device owns it in force, unless the lease was deleted
   under the call (OwnInv); and a run that leaves does nothing any more and still
   has its leases on its list (EndInv).  Only finite sets of calls are ever given
   up, so that the counts of late calls are numbers (FiniteCalls). *)

USE TemplateAssumption, AbsenceAssumption, BoundAssumption
    DEF TemplateAssumption, AbsenceAssumption, BoundAssumption

FiniteCalls == IsFiniteSet(calls)

(* What the code does with leases, tool calls and frames keeps their types. *)
LEMMA LeasesTyped ==
    ASSUME LeaseTypeOK
    PROVE  /\ \A s \in Sessions, d \in Devices :
                 Taken(s, d) \in [Devices -> Lease \cup {None}]
           /\ \A D \in SUBSET Devices :
                 /\ Without(D) \in [Devices -> Lease \cup {None}]
                 /\ Dropping(D) \in [Sessions -> ToolCall]
           /\ \A s \in Sessions : HeldBy(s) \subseteq Held
<1>1. ASSUME NEW s \in Sessions, NEW d \in Devices
      PROVE  Taken(s, d) \in [Devices -> Lease \cup {None}]
  <2> DEFINE b == lease[d] # None /\ lease[d].booted
  <2>1. lease[d] \in Lease \cup {None}
    BY DEF LeaseTypeOK
  <2>2. b \in BOOLEAN
    BY <2>1, Zenon
  <2>3. [s |-> s, lapsed |-> FALSE, booted |-> b] \in Lease
    BY <2>2, Zenon DEF Lease
  <2> HIDE DEF b
  <2> QED BY <2>3 DEF LeaseTypeOK, Taken, b
<1>2. ASSUME NEW D \in SUBSET Devices
      PROVE  /\ Without(D) \in [Devices -> Lease \cup {None}]
             /\ Dropping(D) \in [Sessions -> ToolCall]
  <2>1. Without(D) \in [Devices -> Lease \cup {None}]
    BY DEF LeaseTypeOK, Without
  <2>2. ASSUME NEW s \in Sessions
        PROVE  /\ task[s].st = "calling" => [task[s] EXCEPT !.lost = TRUE] \in ToolCall
               /\ task[s] \in ToolCall
    <3>1. task[s] \in ToolCall
      BY DEF LeaseTypeOK
    <3>2. CASE task[s].st = "calling"
      <4>1. task[s] \in [st : TaskStates \ {"idle"}, d : Devices, fresh : BOOLEAN, lost : BOOLEAN]
        BY <3>1, <3>2 DEF ToolCall, Idle
      <4>2. [task[s] EXCEPT !.lost = TRUE]
                \in [st : TaskStates \ {"idle"}, d : Devices, fresh : BOOLEAN, lost : BOOLEAN]
        BY <4>1
      <4> QED BY <3>1, <4>2, Zenon DEF ToolCall
    <3> QED BY <3>1, <3>2
  <2>3. Dropping(D) \in [Sessions -> ToolCall]
    BY <2>2, Zenon DEF Dropping
  <2> QED BY <2>1, <2>3
<1>3. \A s \in Sessions : HeldBy(s) \subseteq Held
  BY DEF HeldBy
<1> QED BY <1>1, <1>2, <1>3

(* Sending, giving up and losing calls keep them typed, and finite. *)
LEMMA FramesTyped ==
    ASSUME LeaseTypeOK, FiniteCalls
    PROVE  /\ \A s \in Sessions, d \in Devices, op \in {"use", "boot", "shutdown"} :
                 Send(NewCall(s, d, op)) =>
                    calls' \subseteq Call /\ IsFiniteSet(calls') /\ late' \in [Late -> Nat]
           /\ \A D \in SUBSET calls : GiveUp(D) =>
                    calls' \subseteq Call /\ IsFiniteSet(calls') /\ late' \in [Late -> Nat]
           /\ Losing => calls' \subseteq Call /\ IsFiniteSet(calls') /\ late' \in [Late -> Nat]
<1>1. ASSUME NEW s \in Sessions, NEW d \in Devices, NEW op \in {"use", "boot", "shutdown"},
             Send(NewCall(s, d, op))
      PROVE  calls' \subseteq Call /\ IsFiniteSet(calls') /\ late' \in [Late -> Nat]
  <2>1. NewCall(s, d, op) \in Call
    BY DEF NewCall, Call
  <2>2. IsFiniteSet(calls \cup {NewCall(s, d, op)})
    BY FS_AddElement DEF FiniteCalls
  <2> QED BY <1>1, <2>1, <2>2 DEF Send, LeaseTypeOK
<1>2. ASSUME NEW D \in SUBSET calls, GiveUp(D)
      PROVE  calls' \subseteq Call /\ IsFiniteSet(calls') /\ late' \in [Late -> Nat]
  <2>1. IsFiniteSet(calls \ D)
    BY FS_Difference DEF FiniteCalls
  <2>2. IsFiniteSet(D)
    BY FS_Subset DEF FiniteCalls
  <2>3. ASSUME NEW k \in Late
        PROVE  Cardinality({c \in D : c.at = "sent" /\ <<c.d, c.op>> = k}) \in Nat
    <3>1. IsFiniteSet({c \in D : c.at = "sent" /\ <<c.d, c.op>> = k})
      BY <2>2, FS_Subset
    <3> QED BY <3>1, FS_CardinalityType
  <2>4. ASSUME NEW n \in Nat, NEW m \in Nat
        PROVE  n + m \in Nat
    OBVIOUS
  <2>5. late \in [Late -> Nat]
    BY DEF LeaseTypeOK
  <2>6. late' \in [Late -> Nat]
    BY <1>2, <2>3, <2>4, <2>5, Zenon DEF GiveUp
  <2> QED BY <1>2, <2>1, <2>6 DEF GiveUp, LeaseTypeOK
<1>3. ASSUME Losing
      PROVE  calls' \subseteq Call /\ IsFiniteSet(calls') /\ late' \in [Late -> Nat]
  <2>1. IsFiniteSet({[c EXCEPT !.at = "lost"] : c \in calls})
    <3> DEFINE T == {[c EXCEPT !.at = "lost"] : c \in calls}
               f == [c \in calls |-> [c EXCEPT !.at = "lost"]]
    <3>1. f \in Surjection(calls, T)
      BY DEF Surjection
    <3> HIDE DEF f, T
    <3>2. IsFiniteSet(T)
      BY <3>1, FS_Surjection DEF FiniteCalls
    <3> QED BY <3>2 DEF T
  <2>2. {[c EXCEPT !.at = "lost"] : c \in calls} \subseteq Call
    BY DEF LeaseTypeOK, Call
  <2> QED BY <1>3, <2>1, <2>2 DEF Losing
<1> QED BY <1>1, <1>2, <1>3

(* What the runner executes is a call some session waits for, or one given up. *)
LEMMA ArrivedTyped ==
    ASSUME LeaseTypeOK, NEW c \in Arrived
    PROVE  /\ c.d \in Devices /\ c.op \in {"use", "boot", "shutdown"}
           /\ c.s # None => c \in calls /\ c.s \in Sessions
           /\ c.s = None => <<c.d, c.op>> \in Late /\ late[<<c.d, c.op>>] > 0
<1>1. CASE c \in calls
  BY <1>1 DEF LeaseTypeOK, Call
<1>2. CASE c \notin calls
  <2>1. PICK k \in Late : /\ late[k] > 0
                          /\ c = [s |-> None, d |-> k[1], op |-> k[2], at |-> "sent"]
    BY <1>2 DEF Arrived
  <2>2. k = <<c.d, c.op>> /\ k[1] \in Devices /\ k[2] \in {"boot", "shutdown"}
    BY <2>1 DEF Late
  <2> QED BY <2>1, <2>2
<1> QED BY <1>1, <1>2

(* A tool call that goes on is one of ToolCall again. *)
LEMMA ToolCallsTyped ==
    ASSUME LeaseTypeOK, NEW s \in Sessions
    PROVE  /\ Idle \in ToolCall
           /\ task[s] \in ToolCall
           /\ \A d \in Devices : \A st \in {"resolved", "booting"} :
                 [Idle EXCEPT !.st = st, !.d = d] \in ToolCall
           /\ task[s].st # "idle" =>
                 /\ task[s].d \in Devices
                 /\ task[s].fresh \in BOOLEAN
                 /\ Onward(s) \subseteq ToolCall
                 /\ \A fresh \in BOOLEAN :
                       [task[s] EXCEPT !.st = "booted", !.fresh = fresh] \in ToolCall
                 /\ [task[s] EXCEPT !.st = "calling", !.lost = FALSE] \in ToolCall
                 /\ [task[s] EXCEPT !.st = "mark"] \in ToolCall
<1>1. task[s] \in ToolCall
  BY DEF LeaseTypeOK
<1>2. \A d \in Devices : \A st \in {"resolved", "booting"} :
         [Idle EXCEPT !.st = st, !.d = d] \in ToolCall
  BY DEF ToolCall, TaskStates, Idle
<1>3. ASSUME task[s].st # "idle"
      PROVE  /\ task[s].d \in Devices
             /\ task[s].fresh \in BOOLEAN
             /\ \A fresh \in BOOLEAN :
                   [task[s] EXCEPT !.st = "booted", !.fresh = fresh] \in ToolCall
             /\ [task[s] EXCEPT !.st = "calling", !.lost = FALSE] \in ToolCall
             /\ [task[s] EXCEPT !.st = "mark"] \in ToolCall
  <2>1. task[s] \in [st : TaskStates \ {"idle"}, d : Devices, fresh : BOOLEAN, lost : BOOLEAN]
    BY <1>1, <1>3 DEF ToolCall, Idle
  <2>2. /\ \A fresh \in BOOLEAN :
               [task[s] EXCEPT !.st = "booted", !.fresh = fresh] \in ToolCall
        /\ [task[s] EXCEPT !.st = "calling", !.lost = FALSE] \in ToolCall
        /\ [task[s] EXCEPT !.st = "mark"] \in ToolCall
    BY <2>1 DEF ToolCall, TaskStates
  <2> QED BY <2>1, <2>2
<1>4. ASSUME task[s].st # "idle"
      PROVE  Onward(s) \subseteq ToolCall
  <2>1. [Idle EXCEPT !.st = "resolved", !.d = task[s].d] \in ToolCall
    BY <1>2, <1>3, <1>4
  <2>2. Idle \in ToolCall
    BY Zenon DEF ToolCall
  <2> QED BY <2>1, <2>2, Zenon DEF Onward
<1> QED BY <1>1, <1>2, <1>3, <1>4 DEF ToolCall

(* Who waits for what: a session waits for at most one call of the agent's, which
   is the one its tool call is about. *)
WaitInv ==
    \A c \in calls :
        /\ c.op = "use" => task[c.s].st = "calling" /\ task[c.s].d = c.d
        /\ c.op = "boot" => task[c.s].st = "booting"
        /\ \A e \in calls : (c.op # "shutdown" /\ e.op = c.op /\ e.s = c.s) => e = c

(* The end of a call, by an answer, a timeout or a lost connection. *)
LEMMA AnswersTyped ==
    ASSUME LeaseTypeOK, WaitInv
    PROVE  /\ FailPending => /\ task' \in [Sessions -> ToolCall]
                             /\ ending' \in [Sessions -> Devices \cup {None}]
           /\ \A c \in calls : \A after :
                 Answered(c, after) /\ (c.op = "shutdown" \/ after \in ToolCall) =>
                             /\ task' \in [Sessions -> ToolCall]
                             /\ ending' \in [Sessions -> Devices \cup {None}]
           /\ \A c \in Arrived, fresh \in BOOLEAN : Answer(c, fresh) =>
                             /\ task' \in [Sessions -> ToolCall]
                             /\ ending' \in [Sessions -> Devices \cup {None}]
<1>1. ASSUME FailPending
      PROVE  /\ task' \in [Sessions -> ToolCall]
             /\ ending' \in [Sessions -> Devices \cup {None}]
  <2>1. ending' \in [Sessions -> Devices \cup {None}]
    BY <1>1 DEF FailPending, LeaseTypeOK
  <2>2. PICK more \in SUBSET {c.s : c \in {e \in calls : e.op = "use"}} :
           task' = [s \in Sessions |->
                      IF task[s].st \notin {"calling", "booting"} THEN task[s]
                      ELSE IF s \in more
                      THEN [Idle EXCEPT !.st = "resolved", !.d = task[s].d]
                      ELSE Idle]
    BY <1>1 DEF FailPending
  <2>3. ASSUME NEW s \in Sessions
        PROVE  /\ task[s] \in ToolCall /\ Idle \in ToolCall
               /\ task[s].st \in {"calling", "booting"} =>
                     [Idle EXCEPT !.st = "resolved", !.d = task[s].d] \in ToolCall
    BY ToolCallsTyped
  <2> HIDE DEF Idle
  <2> QED BY <2>1, <2>2, <2>3
<1>2. ASSUME NEW c \in calls, NEW after, Answered(c, after),
             c.op = "shutdown" \/ after \in ToolCall
      PROVE  /\ task' \in [Sessions -> ToolCall]
             /\ ending' \in [Sessions -> Devices \cup {None}]
  BY <1>2 DEF Answered, LeaseTypeOK
<1>3. ASSUME NEW c \in Arrived, NEW fresh \in BOOLEAN, Answer(c, fresh)
      PROVE  /\ task' \in [Sessions -> ToolCall]
             /\ ending' \in [Sessions -> Devices \cup {None}]
  <2>1. CASE c.s = None
    BY <1>3, <2>1 DEF Answer, LeaseTypeOK
  <2>2. CASE c.s # None
    <3>1. c \in calls /\ c.s \in Sessions /\ c.op \in {"use", "boot", "shutdown"}
      BY <2>2, ArrivedTyped
    <3>2. c.op # "shutdown" => task[c.s].st # "idle"
      BY <3>1 DEF WaitInv
    <3>3. PICK after : Answered(c, after) /\ (c.op = "shutdown" \/ after \in ToolCall)
      <4>1. CASE c.op = "boot"
        <5>1. PICK after : /\ Answered(c, after)
                           /\ after = [task[c.s] EXCEPT !.st = "booted", !.fresh = fresh]
          BY <1>3, <2>2, <4>1, Zenon DEF Answer
        <5>2. after \in ToolCall
          BY <3>1, <3>2, <4>1, <5>1, ToolCallsTyped
        <5> QED BY <5>1, <5>2
      <4>2. CASE c.op # "boot"
        <5>1. PICK after \in Onward(c.s) : Answered(c, after)
          BY <1>3, <2>2, <4>2, Zenon DEF Answer
        <5>2. c.op = "shutdown" \/ after \in ToolCall
          BY <3>1, <3>2, <4>2, <5>1, ToolCallsTyped
        <5> QED BY <5>1, <5>2
      <4> QED BY <4>1, <4>2
    <3> QED BY <3>1, <3>3, <1>2
  <2> QED BY <2>1, <2>2
<1> QED BY <1>1, <1>2, <1>3

(* What hub.revoke does to the calls. *)
LEMMA RevocationTyped ==
    ASSUME LeaseTypeOK, FiniteCalls, WaitInv, HubRevoke
    PROVE  /\ calls' \subseteq Call /\ IsFiniteSet(calls') /\ late' \in [Late -> Nat]
           /\ task' \in [Sessions -> ToolCall] /\ ending' \in [Sessions -> Devices \cup {None}]
           /\ srv' \in {"none", "fresh", "up"} /\ rnr' \in {"off", "joining", "on", "exit"}
<1>1. calls' \subseteq Call /\ IsFiniteSet(calls') /\ late' \in [Late -> Nat]
  BY FramesTyped, FS_EmptySet DEF HubRevoke
<1>2. task' \in [Sessions -> ToolCall] /\ ending' \in [Sessions -> Devices \cup {None}]
  BY AnswersTyped DEF HubRevoke
<1> QED BY <1>1, <1>2 DEF HubRevoke, LeaseTypeOK

(* Types are kept, one step per action; that a call fits the tool call that waits
   for it is needed where the tool call goes on. *)
LEMMA LeaseTypeStep ==
    LeaseTypeOK /\ FiniteCalls /\ WaitInv /\ [LeaseNext]_leaseVars => LeaseTypeOK' /\ FiniteCalls'
<1> SUFFICES ASSUME LeaseTypeOK, FiniteCalls, WaitInv, [LeaseNext]_leaseVars
             PROVE  LeaseTypeOK' /\ FiniteCalls'
  OBVIOUS
<1>1. ASSUME NEW d \in Devices, Lapse(d)
      PROVE  LeaseTypeOK' /\ FiniteCalls'
  <2>1. lease[d] \in Lease
    BY <1>1 DEF Lapse, InForce, LeaseTypeOK
  <2>2. [lease[d] EXCEPT !.lapsed = TRUE] \in Lease
    BY <2>1 DEF Lease
  <2>3. lease' = [lease EXCEPT ![d] = [lease[d] EXCEPT !.lapsed = TRUE]]
    BY <1>1 DEF Lapse
  <2>4. lease' \in [Devices -> Lease \cup {None}]
    BY <2>2, <2>3 DEF LeaseTypeOK
  <2> QED BY <1>1, <2>4 DEF Lapse, LeaseTypeOK, FiniteCalls, wire
<1>2. ASSUME NEW s \in Sessions, NEW d \in Devices, Use(s, d)
      PROVE  LeaseTypeOK' /\ FiniteCalls'
  <2>1. task' \in [Sessions -> ToolCall]
    BY <1>2, ToolCallsTyped DEF Use, LeaseTypeOK
  <2> QED BY <1>2, <2>1 DEF Use, LeaseTypeOK, FiniteCalls, wire
<1>3. ASSUME NEW s \in Sessions, Dispatch(s)
      PROVE  LeaseTypeOK' /\ FiniteCalls'
  <2>1. task[s].st = "resolved" /\ task[s].d \in Devices
    BY <1>3, ToolCallsTyped DEF Dispatch
  <2>2. [task[s] EXCEPT !.st = "calling", !.lost = FALSE] \in ToolCall /\ Idle \in ToolCall
    BY <2>1, ToolCallsTyped
  <2>3. \/ task' = [task EXCEPT ![s] = Idle]
        \/ task' = [task EXCEPT ![s] = [task[s] EXCEPT !.st = "calling", !.lost = FALSE]]
    BY <1>3 DEF Dispatch, LeaseTypeOK
  <2>4. task' \in [Sessions -> ToolCall]
    BY <2>2, <2>3 DEF LeaseTypeOK
  <2>5. lease' \in [Devices -> Lease \cup {None}]
    BY <1>3, <2>1, LeasesTyped DEF Dispatch, LeaseTypeOK
  <2>6. calls' \subseteq Call /\ IsFiniteSet(calls') /\ late' \in [Late -> Nat]
    BY <1>3, <2>1, FramesTyped DEF Dispatch, LeaseTypeOK, FiniteCalls, wire
  <2> QED BY <1>3, <2>4, <2>5, <2>6 DEF Dispatch, LeaseTypeOK, FiniteCalls
<1>4. ASSUME NEW s \in Sessions, NEW d \in Devices, LeaseDevice(s, d)
      PROVE  LeaseTypeOK' /\ FiniteCalls'
  <2>1. task' \in [Sessions -> ToolCall] /\ lease' \in [Devices -> Lease \cup {None}]
    BY <1>4, ToolCallsTyped, LeasesTyped DEF LeaseDevice, LeaseTypeOK
  <2> QED BY <1>4, <2>1 DEF LeaseDevice, LeaseTypeOK, FiniteCalls, wire
<1>5. ASSUME NEW s \in Sessions, Boot(s)
      PROVE  LeaseTypeOK' /\ FiniteCalls'
  <2>1. task' \in [Sessions -> ToolCall]
    BY <1>5, ToolCallsTyped DEF Boot, LeaseTypeOK
  <2>2. calls' \subseteq Call /\ IsFiniteSet(calls') /\ late' \in [Late -> Nat]
    BY <1>5, FramesTyped DEF Boot
  <2> QED BY <1>5, <2>1, <2>2 DEF Boot, LeaseTypeOK, FiniteCalls
<1>6. ASSUME NEW s \in Sessions, BootTake(s)
      PROVE  LeaseTypeOK' /\ FiniteCalls'
  <2>1. [task[s] EXCEPT !.st = "mark"] \in ToolCall /\ Idle \in ToolCall
    BY <1>6, ToolCallsTyped DEF BootTake
  <2>2. \/ task' = [task EXCEPT ![s] = Idle]
        \/ task' = [task EXCEPT ![s] = [task[s] EXCEPT !.st = "mark"]]
    BY <1>6 DEF BootTake, TaskIs, LeaseTypeOK
  <2>3. task' \in [Sessions -> ToolCall]
    BY <2>1, <2>2 DEF LeaseTypeOK
  <2>4. lease' \in [Devices -> Lease \cup {None}]
    BY <1>6, LeasesTyped DEF BootTake, LeaseTypeOK
  <2> QED BY <1>6, <2>3, <2>4 DEF BootTake, LeaseTypeOK, FiniteCalls, wire
<1>7. ASSUME NEW s \in Sessions, BootMark(s)
      PROVE  LeaseTypeOK' /\ FiniteCalls'
  <2>1. [Idle EXCEPT !.st = "resolved", !.d = Template] \in ToolCall /\ task[s].fresh \in BOOLEAN
    BY <1>7, ToolCallsTyped DEF BootMark
  <2>2. task' \in [Sessions -> ToolCall]
    BY <1>7, <2>1 DEF BootMark, LeaseTypeOK
  <2>3. ASSUME NEW b \in BOOLEAN, lease[Template] # None
        PROVE  [lease[Template] EXCEPT !.booted = b] \in Lease
    BY <2>3 DEF LeaseTypeOK, Lease
  <2>4. lease' \in [Devices -> Lease \cup {None}]
    <3>1. CASE lease[Template] = None
      BY <1>7, <3>1 DEF BootMark, LeaseTypeOK
    <3>2. CASE lease[Template] # None
      <4> DEFINE new == [lease[Template] EXCEPT !.booted = task[s].fresh]
      <4>1. new \in Lease
        BY <2>1, <2>3, <3>2
      <4>2. lease' = [lease EXCEPT ![Template] = new]
        BY <1>7, <3>2, Zenon DEF BootMark
      <4> HIDE DEF new
      <4> QED BY <4>1, <4>2 DEF LeaseTypeOK
    <3> QED BY <3>1, <3>2
  <2> QED BY <1>7, <2>2, <2>4 DEF BootMark, LeaseTypeOK, FiniteCalls, wire
<1>8. ASSUME NEW c \in calls, TimedOut(c)
      PROVE  LeaseTypeOK' /\ FiniteCalls'
  <2>1. events' \in 0..MaxEvents
    BY <1>8 DEF TimedOut, Event, LeaseTypeOK
  <2>2. calls' \subseteq Call /\ IsFiniteSet(calls') /\ late' \in [Late -> Nat]
    BY <1>8, FramesTyped DEF TimedOut
  <2>3. c.s \in Sessions /\ c.op \in {"use", "boot", "shutdown"}
    BY DEF LeaseTypeOK, Call
  <2>4. c.op # "shutdown" => task[c.s].st # "idle"
    BY <2>3 DEF WaitInv
  <2>5. PICK after : Answered(c, after) /\ (c.op = "shutdown" \/ after \in ToolCall)
    BY <1>8, <2>3, <2>4, ToolCallsTyped DEF TimedOut
  <2>6. task' \in [Sessions -> ToolCall] /\ ending' \in [Sessions -> Devices \cup {None}]
    BY <2>5, AnswersTyped
  <2> QED BY <1>8, <2>1, <2>2, <2>6 DEF TimedOut, LeaseTypeOK, FiniteCalls
<1>9. ASSUME NEW s \in Sessions, NEW d \in Devices, Release(s, d)
      PROVE  LeaseTypeOK' /\ FiniteCalls'
  <2>1. ending' \in [Sessions -> Devices \cup {None}]
    BY <1>9 DEF Release, LeaseTypeOK
  <2>2. /\ Without({d}) \in [Devices -> Lease \cup {None}]
        /\ Dropping({d}) \in [Sessions -> ToolCall]
    BY LeasesTyped
  <2> QED BY <1>9, <2>1, <2>2 DEF Release, LeaseTypeOK, FiniteCalls, wire
<1>10. ASSUME NEW s \in Sessions, ReleaseAll(s)
      PROVE  LeaseTypeOK' /\ FiniteCalls'
  BY <1>10, LeasesTyped DEF ReleaseAll, LeaseTypeOK, FiniteCalls, wire
<1>11. ASSUME NEW s \in Sessions, NEW h \in left[s], ReleaseOne(s, h)
      PROVE  LeaseTypeOK' /\ FiniteCalls'
  <2>1. h.d \in Devices
    BY <1>11 DEF LeaseTypeOK, Held
  <2>2. /\ Without({h.d}) \in [Devices -> Lease \cup {None}]
        /\ Dropping({h.d}) \in [Sessions -> ToolCall]
    BY <2>1, LeasesTyped
  <2>3. lease' \in [Devices -> Lease \cup {None}] /\ task' \in [Sessions -> ToolCall]
    BY <1>11, <2>2 DEF ReleaseOne, LeaseTypeOK
  <2>4. ending' \in [Sessions -> Devices \cup {None}] /\ left' \in [Sessions -> SUBSET Held]
    BY <1>11, <2>1 DEF ReleaseOne, LeaseTypeOK
  <2> QED BY <1>11, <2>3, <2>4 DEF ReleaseOne, LeaseTypeOK, FiniteCalls, wire
<1>12. ASSUME NEW s \in Sessions, Shutdown(s)
      PROVE  LeaseTypeOK' /\ FiniteCalls'
  <2>1. ending[s] \in Devices
    BY <1>12 DEF Shutdown, LeaseTypeOK
  <2>2. calls' \subseteq Call /\ IsFiniteSet(calls') /\ late' \in [Late -> Nat]
    BY <1>12, <2>1, FramesTyped DEF Shutdown, LeaseTypeOK, FiniteCalls, wire
  <2>3. ending' \in [Sessions -> Devices \cup {None}]
    BY <1>12 DEF Shutdown, LeaseTypeOK
  <2> QED BY <1>12, <2>2, <2>3 DEF Shutdown, LeaseTypeOK, FiniteCalls
<1>13. ASSUME NEW s \in Sessions, Close(s)
      PROVE  LeaseTypeOK' /\ FiniteCalls'
  <2>1. calls' \subseteq Call /\ IsFiniteSet(calls') /\ late' \in [Late -> Nat]
    BY <1>13, FramesTyped DEF Close, LeaseTypeOK, FiniteCalls, wire
  <2>2. task' \in [Sessions -> ToolCall]
    BY <1>13, ToolCallsTyped DEF Close, LeaseTypeOK
  <2>3. stray' \subseteq Sessions /\ left' \in [Sessions -> SUBSET Held]
    BY <1>13, LeasesTyped DEF Close, LeaseTypeOK
  <2>4. run' \in [Sessions -> {"on", "closing", "over"}]
    BY <1>13 DEF Close, LeaseTypeOK
  <2> QED BY <1>13, <2>1, <2>2, <2>3, <2>4 DEF Close, LeaseTypeOK, FiniteCalls
<1>14. ASSUME NEW s \in Sessions, CloseReturns(s)
      PROVE  LeaseTypeOK' /\ FiniteCalls'
  BY <1>14 DEF CloseReturns, LeaseTypeOK, FiniteCalls, wire
<1>15. ASSUME NEW d \in Devices, ForceRelease(d)
      PROVE  LeaseTypeOK' /\ FiniteCalls'
  <2>1. /\ Without({d}) \in [Devices -> Lease \cup {None}]
        /\ Dropping({d}) \in [Sessions -> ToolCall]
    BY LeasesTyped
  <2>2. events' \in 0..MaxEvents
    BY <1>15 DEF ForceRelease, Event, LeaseTypeOK
  <2> QED BY <1>15, <2>1, <2>2 DEF ForceRelease, LeaseTypeOK, FiniteCalls, wire
<1>16. ASSUME ServerDrops
      PROVE  LeaseTypeOK' /\ FiniteCalls'
  <2>1. calls' \subseteq Call /\ IsFiniteSet(calls') /\ late' \in [Late -> Nat]
    BY <1>16, FramesTyped DEF ServerDrops
  <2>2. task' \in [Sessions -> ToolCall] /\ ending' \in [Sessions -> Devices \cup {None}]
    BY <1>16, AnswersTyped DEF ServerDrops
  <2> QED BY <1>16, <2>1, <2>2 DEF ServerDrops, Event, LeaseTypeOK, FiniteCalls
<1>17. ASSUME RunnerDrops
      PROVE  LeaseTypeOK' /\ FiniteCalls'
  <2>1. calls' \subseteq Call /\ IsFiniteSet(calls') /\ late' \in [Late -> Nat]
    BY <1>17, FramesTyped DEF RunnerDrops
  <2>2. Starting \subseteq Devices
    <3>1. \A c \in Arrived : c.d \in Devices
      BY ArrivedTyped
    <3> QED BY <3>1 DEF Starting, LeaseTypeOK
  <2>3. events' \in 0..MaxEvents
    BY <1>17 DEF RunnerDrops, Event, LeaseTypeOK
  <2>4. up' \subseteq Devices /\ orphan' \subseteq Devices
    BY <1>17, <2>2 DEF RunnerDrops, LeaseTypeOK
  <2> QED BY <1>17, <2>1, <2>3, <2>4 DEF RunnerDrops, LeaseTypeOK, FiniteCalls
<1>18. ASSUME Join
      PROVE  LeaseTypeOK' /\ FiniteCalls'
  BY <1>18 DEF Join, LeaseTypeOK, FiniteCalls, wire
<1>19. ASSUME Attach
      PROVE  LeaseTypeOK' /\ FiniteCalls'
  <2>1. calls' \subseteq Call /\ IsFiniteSet(calls') /\ late' \in [Late -> Nat]
    BY <1>19, FramesTyped DEF Attach
  <2>2. task' \in [Sessions -> ToolCall] /\ ending' \in [Sessions -> Devices \cup {None}]
    BY <1>19, AnswersTyped DEF Attach
  <2> QED BY <1>19, <2>1, <2>2 DEF Attach, Event, LeaseTypeOK, FiniteCalls
<1>20. ASSUME Recheck
      PROVE  LeaseTypeOK' /\ FiniteCalls'
  <2>1. CASE revoking = "no"
    BY <1>20, <2>1 DEF Recheck, LeaseTypeOK, FiniteCalls, wire
  <2>2. CASE revoking # "no"
    <3>1. HubRevoke
      BY <1>20, <2>2 DEF Recheck
    <3> QED BY <1>20, <3>1, RevocationTyped DEF Recheck, LeaseTypeOK, FiniteCalls
  <2> QED BY <2>1, <2>2
<1>21. ASSUME RevokeMark
      PROVE  LeaseTypeOK' /\ FiniteCalls'
  BY <1>21 DEF RevokeMark, Event, LeaseTypeOK, FiniteCalls, wire
<1>22. ASSUME RevokeLeases
      PROVE  LeaseTypeOK' /\ FiniteCalls'
  BY <1>22, LeasesTyped DEF RevokeLeases, LeaseTypeOK, FiniteCalls, wire
<1>23. ASSUME RevokeHub
      PROVE  LeaseTypeOK' /\ FiniteCalls'
  BY <1>23, RevocationTyped DEF RevokeHub, LeaseTypeOK, FiniteCalls
<1>24. ASSUME NEW c \in Arrived, Execute(c)
      PROVE  LeaseTypeOK' /\ FiniteCalls'
  <2>1. PICK fresh \in BOOLEAN : Answer(c, fresh)
    BY <1>24 DEF Execute, RunsBoot, RunsShutdown, RunsUse
  <2>2. task' \in [Sessions -> ToolCall] /\ ending' \in [Sessions -> Devices \cup {None}]
    BY <2>1, AnswersTyped
  <2>3. up' \subseteq Devices /\ mine' \subseteq Devices
    BY <1>24, ArrivedTyped DEF Execute, RunsBoot, RunsShutdown, RunsUse, LeaseTypeOK
  <2>4. calls' \subseteq Call /\ IsFiniteSet(calls') /\ late' \in [Late -> Nat]
    <3>1. CASE c.s = None
      <4>1. <<c.d, c.op>> \in Late /\ late[<<c.d, c.op>>] > 0
        BY <3>1, ArrivedTyped
      <4>2. late' = [late EXCEPT ![<<c.d, c.op>>] = @ - 1] /\ calls' = calls
        BY <1>24, <3>1 DEF Execute, Done
      <4> QED BY <4>1, <4>2 DEF LeaseTypeOK, FiniteCalls
    <3>2. CASE c.s # None
      <4>1. calls' = calls \ {c} /\ late' = late
        BY <1>24, <3>2 DEF Execute, Done
      <4> QED BY <4>1, FS_Difference DEF LeaseTypeOK, FiniteCalls
    <3> QED BY <3>1, <3>2
  <2> QED BY <1>24, <2>2, <2>3, <2>4 DEF Execute, LeaseTypeOK, FiniteCalls
<1>25. ASSUME NEW d \in Devices, Reap(d)
      PROVE  LeaseTypeOK' /\ FiniteCalls'
  BY <1>25 DEF Reap, LeaseTypeOK, FiniteCalls, wire
<1>26. ASSUME Rest
      PROVE  LeaseTypeOK' /\ FiniteCalls'
  BY <1>26 DEF Rest, leaseVars, LeaseTypeOK, FiniteCalls, wire
<1>27. ASSUME UNCHANGED leaseVars
      PROVE  LeaseTypeOK' /\ FiniteCalls'
  BY <1>27 DEF leaseVars, LeaseTypeOK, FiniteCalls, wire
<1> QED
  BY <1>1, <1>2, <1>3, <1>4, <1>5, <1>6, <1>7, <1>8, <1>9, <1>10, <1>11, <1>12, <1>13, <1>14,
     <1>15, <1>16, <1>17, <1>18, <1>19, <1>20, <1>21, <1>22, <1>23, <1>24, <1>25, <1>26, <1>27
     DEF LeaseNext, Agent, Progress, Backend, Wire, Machine, Faults

(* A tool call that starts or goes on elsewhere has no call on the wire. *)
LEMMA WaitsForOne ==
    ASSUME LeaseTypeOK, WaitInv
    PROVE  \A c \in calls :
              /\ c.s \in Sessions /\ c.d \in Devices /\ c.op \in {"use", "boot", "shutdown"}
              /\ c.op # "shutdown" => task[c.s].st \in {"calling", "booting"}
BY DEF WaitInv, LeaseTypeOK, Call

(* Calls only end and the tool calls that wait go on waiting. *)
LEMMA WaitsOn ==
    ASSUME LeaseTypeOK, WaitInv, calls' \subseteq calls,
           \A c \in calls' : c.op # "shutdown" =>
              task'[c.s].st = task[c.s].st /\ task'[c.s].d = task[c.s].d
    PROVE  WaitInv'
BY WaitsForOne DEF WaitInv

(* Deleting leases marks the tool calls that lose theirs, and changes no more. *)
LEMMA DroppingKeeps ==
    ASSUME LeaseTypeOK, NEW D \in SUBSET Devices, NEW s \in Sessions
    PROVE  /\ Dropping(D)[s].st = task[s].st
           /\ Dropping(D)[s].d = task[s].d
           /\ task[s].lost => Dropping(D)[s].lost
           /\ task[s].st # "calling" => Dropping(D)[s] = task[s]
           /\ (task[s].st = "calling" /\ task[s].d \in D /\ lease[task[s].d] # None
                 /\ lease[task[s].d].s = s) => Dropping(D)[s].lost
<1>1. task[s] \in ToolCall
  BY DEF LeaseTypeOK
<1>2. CASE task[s].st = "calling"
  <2>1. task[s] \in [st : TaskStates \ {"idle"}, d : Devices, fresh : BOOLEAN, lost : BOOLEAN]
    BY <1>1, <1>2 DEF ToolCall, Idle
  <2>2. LET e == [task[s] EXCEPT !.lost = TRUE]
        IN  e.st = task[s].st /\ e.d = task[s].d /\ e.lost
    BY <2>1
  <2>3. Dropping(D)[s] \in {task[s], [task[s] EXCEPT !.lost = TRUE]}
    BY Zenon DEF Dropping
  <2>4. (task[s].d \in D /\ lease[task[s].d] # None /\ lease[task[s].d].s = s)
           => Dropping(D)[s] = [task[s] EXCEPT !.lost = TRUE]
    BY <1>2, Zenon DEF Dropping
  <2> QED BY <1>2, <2>2, <2>3, <2>4
<1>3. CASE task[s].st # "calling"
  BY <1>3, Zenon DEF Dropping
<1> QED BY <1>2, <1>3

(* One step per action: a call is sent by a tool call that begins to wait, and
   the tool call moves when its call is over. *)
LEMMA WaitStep == LeaseTypeOK /\ WaitInv /\ [LeaseNext]_leaseVars => WaitInv'
<1> SUFFICES ASSUME LeaseTypeOK, WaitInv, [LeaseNext]_leaseVars
             PROVE  WaitInv'
  OBVIOUS
<1> USE DEF wire
<1>1. ASSUME NEW d \in Devices, Lapse(d)
      PROVE  WaitInv'
  BY <1>1, WaitsOn DEF Lapse
<1>2. ASSUME NEW s \in Sessions, NEW d \in Devices, Use(s, d)
      PROVE  WaitInv'
  <2>1. task[s].st \notin {"calling", "booting"}
    BY <1>2 DEF Use, Idle
  <2>2. \A t \in Sessions : t # s => task'[t] = task[t]
    BY <1>2 DEF Use, TaskIs, LeaseTypeOK
  <2> QED BY <1>2, <2>1, <2>2, WaitsForOne, WaitsOn DEF Use
<1>3. ASSUME NEW s \in Sessions, Dispatch(s)
      PROVE  WaitInv'
  <2>1. task[s].st = "resolved" /\ task[s].d \in Devices
    BY <1>3, ToolCallsTyped DEF Dispatch
  <2>2. \A t \in Sessions : t # s => task'[t] = task[t]
    BY <1>3 DEF Dispatch, LeaseTypeOK
  <2>3. CASE calls' = calls
    BY <2>1, <2>2, <2>3, WaitsForOne, WaitsOn
  <2>4. CASE calls' # calls
    <3>1. /\ calls' = calls \cup {NewCall(s, task[s].d, "use")}
          /\ task' = [task EXCEPT ![s] = [@ EXCEPT !.st = "calling", !.lost = FALSE]]
      BY <1>3, <2>4 DEF Dispatch, Send
    <3>2. task'[s].st = "calling" /\ task'[s].d = task[s].d
      BY <2>1, <3>1 DEF LeaseTypeOK, ToolCall, Idle
    <3>3. LET c == NewCall(s, task[s].d, "use") IN c.s = s /\ c.d = task[s].d /\ c.op = "use"
      BY DEF NewCall
    <3> QED BY <2>1, <2>2, <3>1, <3>2, <3>3, WaitsForOne DEF WaitInv
  <2> QED BY <2>3, <2>4
<1>4. ASSUME NEW s \in Sessions, NEW d \in Devices, LeaseDevice(s, d)
      PROVE  WaitInv'
  <2>1. task[s].st \notin {"calling", "booting"}
    BY <1>4 DEF LeaseDevice, Idle
  <2>2. \A t \in Sessions : t # s => task'[t] = task[t]
    BY <1>4 DEF LeaseDevice, TaskIs, LeaseTypeOK
  <2> QED BY <1>4, <2>1, <2>2, WaitsForOne, WaitsOn DEF LeaseDevice
<1>5. ASSUME NEW s \in Sessions, Boot(s)
      PROVE  WaitInv'
  <2>1. task[s].st = "idle"
    BY <1>5 DEF Boot, Idle
  <2>2. /\ \A t \in Sessions : t # s => task'[t] = task[t]
        /\ task'[s].st = "booting"
    BY <1>5 DEF Boot, LeaseTypeOK, Idle
  <2>3. calls' = calls \cup {NewCall(s, Template, "boot")}
    BY <1>5 DEF Boot, Send
  <2>4. LET c == NewCall(s, Template, "boot") IN c.s = s /\ c.op = "boot"
    BY DEF NewCall
  <2> QED BY <2>1, <2>2, <2>3, <2>4, WaitsForOne DEF WaitInv
<1>6. ASSUME NEW s \in Sessions, BootTake(s)
      PROVE  WaitInv'
  <2>1. task[s].st \notin {"calling", "booting"}
    BY <1>6 DEF BootTake, Idle
  <2>2. \A t \in Sessions : t # s => task'[t] = task[t]
    BY <1>6 DEF BootTake, TaskIs, LeaseTypeOK
  <2> QED BY <1>6, <2>1, <2>2, WaitsForOne, WaitsOn DEF BootTake
<1>7. ASSUME NEW s \in Sessions, BootMark(s)
      PROVE  WaitInv'
  <2>1. task[s].st \notin {"calling", "booting"}
    BY <1>7 DEF BootMark, Idle
  <2>2. \A t \in Sessions : t # s => task'[t] = task[t]
    BY <1>7 DEF BootMark, TaskIs, LeaseTypeOK
  <2> QED BY <1>7, <2>1, <2>2, WaitsForOne, WaitsOn DEF BootMark
<1>8. ASSUME NEW c \in calls, TimedOut(c)
      PROVE  WaitInv'
  <2>1. calls' = calls \ {c}
    BY <1>8 DEF TimedOut, GiveUp
  <2>2. PICK after : Answered(c, after)
    BY <1>8, Zenon DEF TimedOut
  <2>3. \A t \in Sessions : (c.op = "shutdown" \/ t # c.s) => task'[t] = task[t]
    BY <2>2, WaitsForOne DEF Answered, LeaseTypeOK
  <2>4. \A e \in calls' : e.op # "shutdown" => c.op = "shutdown" \/ e.s # c.s
    BY <2>1, WaitsForOne DEF WaitInv
  <2> QED BY <2>1, <2>3, <2>4, WaitsForOne, WaitsOn
<1>9. ASSUME NEW s \in Sessions, NEW d \in Devices, Release(s, d)
      PROVE  WaitInv'
  <2>1. task' = task \/ task' = Dropping({d})
    BY <1>9 DEF Release
  <2>2. \A t \in Sessions : task'[t].st = task[t].st /\ task'[t].d = task[t].d
    BY <2>1, DroppingKeeps
  <2> QED BY <1>9, <2>2, WaitsForOne, WaitsOn DEF Release
<1>10. ASSUME NEW s \in Sessions, ReleaseAll(s)
      PROVE  WaitInv'
  BY <1>10, WaitsOn DEF ReleaseAll
<1>11. ASSUME NEW s \in Sessions, NEW h \in left[s], ReleaseOne(s, h)
      PROVE  WaitInv'
  <2>1. h.d \in Devices
    BY <1>11 DEF LeaseTypeOK, Held
  <2>2. task' = task \/ task' = Dropping({h.d})
    BY <1>11 DEF ReleaseOne
  <2>3. \A t \in Sessions : task'[t].st = task[t].st /\ task'[t].d = task[t].d
    BY <2>1, <2>2, DroppingKeeps
  <2> QED BY <1>11, <2>3, WaitsForOne, WaitsOn DEF ReleaseOne
<1>12. ASSUME NEW s \in Sessions, Shutdown(s)
      PROVE  WaitInv'
  <2>1. CASE calls' = calls
    BY <1>12, <2>1, WaitsOn DEF Shutdown
  <2>2. CASE calls' # calls
    <3>1. calls' = calls \cup {NewCall(s, ending[s], "shutdown")} /\ task' = task
      BY <1>12, <2>2 DEF Shutdown, Send
    <3>2. NewCall(s, ending[s], "shutdown").op = "shutdown"
      BY DEF NewCall
    <3> QED BY <3>1, <3>2 DEF WaitInv
  <2> QED BY <2>1, <2>2
<1>13. ASSUME NEW s \in Sessions, Close(s)
      PROVE  WaitInv'
  <2>1. CASE task' = task /\ calls' = calls
    BY <2>1, WaitsOn
  <2>2. CASE ~(task' = task /\ calls' = calls)
    <3>1. /\ calls' = calls \ {c \in calls : c.s = s /\ c.op # "shutdown"}
          /\ \A t \in Sessions : t # s => task'[t] = task[t]
      BY <1>13, <2>2 DEF Close, GiveUp, LeaseTypeOK
    <3> QED BY <3>1, WaitsForOne, WaitsOn
  <2> QED BY <2>1, <2>2
<1>14. ASSUME NEW s \in Sessions, CloseReturns(s)
      PROVE  WaitInv'
  BY <1>14, WaitsOn DEF CloseReturns
<1>15. ASSUME NEW d \in Devices, ForceRelease(d)
      PROVE  WaitInv'
  <2>1. task' = task \/ task' = Dropping({d})
    BY <1>15 DEF ForceRelease
  <2>2. \A t \in Sessions : task'[t].st = task[t].st /\ task'[t].d = task[t].d
    BY <2>1, DroppingKeeps
  <2> QED BY <1>15, <2>2, WaitsForOne, WaitsOn DEF ForceRelease
<1>16. ASSUME ServerDrops
      PROVE  WaitInv'
  <2>1. calls' = {}
    BY <1>16 DEF ServerDrops, GiveUp, HubRevoke
  <2> QED BY <2>1 DEF WaitInv
<1>17. ASSUME RunnerDrops
      PROVE  WaitInv'
  <2>1. task' = task /\ calls' = {[c EXCEPT !.at = "lost"] : c \in calls}
    BY <1>17 DEF RunnerDrops, Losing
  <2>2. ASSUME NEW c \in calls
        PROVE  LET e == [c EXCEPT !.at = "lost"] IN e.s = c.s /\ e.d = c.d /\ e.op = c.op
    BY DEF LeaseTypeOK, Call
  <2>3. \A e \in calls' : \E c \in calls :
           e = [c EXCEPT !.at = "lost"] /\ e.s = c.s /\ e.d = c.d /\ e.op = c.op
    BY <2>1, <2>2
  <2> QED BY <2>1, <2>3 DEF WaitInv
<1>18. ASSUME Join
      PROVE  WaitInv'
  BY <1>18, WaitsOn DEF Join
<1>19. ASSUME Attach
      PROVE  WaitInv'
  <2>1. calls' = {}
    BY <1>19 DEF Attach, GiveUp, HubRevoke
  <2> QED BY <2>1 DEF WaitInv
<1>20. ASSUME Recheck
      PROVE  WaitInv'
  <2>1. CASE revoking = "no"
    BY <1>20, <2>1, WaitsOn DEF Recheck
  <2>2. CASE revoking # "no"
    <3>1. calls' = {}
      BY <1>20, <2>2 DEF Recheck, GiveUp, HubRevoke
    <3> QED BY <3>1 DEF WaitInv
  <2> QED BY <2>1, <2>2
<1>21. ASSUME RevokeMark
      PROVE  WaitInv'
  BY <1>21, WaitsOn DEF RevokeMark
<1>22. ASSUME RevokeLeases
      PROVE  WaitInv'
  <2>1. task' = task \/ task' = Dropping(Devices)
    BY <1>22 DEF RevokeLeases
  <2>2. \A t \in Sessions : task'[t].st = task[t].st /\ task'[t].d = task[t].d
    BY <2>1, DroppingKeeps
  <2> QED BY <1>22, <2>2, WaitsForOne, WaitsOn DEF RevokeLeases
<1>23. ASSUME RevokeHub
      PROVE  WaitInv'
  <2>1. calls' = {}
    BY <1>23 DEF RevokeHub, GiveUp, HubRevoke
  <2> QED BY <2>1 DEF WaitInv
<1>24. ASSUME NEW c \in Arrived, Execute(c)
      PROVE  WaitInv'
  <2>1. CASE c.s = None
    <3>1. calls' = calls /\ task' = task
      BY <1>24, <2>1 DEF Execute, Done, RunsBoot, RunsShutdown, RunsUse, Answer
    <3> QED BY <3>1, WaitsOn
  <2>2. CASE c.s # None
    <3>1. c \in calls /\ calls' = calls \ {c}
      BY <1>24, <2>2, ArrivedTyped DEF Execute, Done
    <3>2. PICK after : Answered(c, after)
      BY <1>24, <2>2, Zenon DEF Execute, RunsBoot, RunsShutdown, RunsUse, Answer
    <3>3. \A t \in Sessions : (c.op = "shutdown" \/ t # c.s) => task'[t] = task[t]
      BY <3>1, <3>2, WaitsForOne DEF Answered, LeaseTypeOK
    <3>4. \A e \in calls' : e.op # "shutdown" => c.op = "shutdown" \/ e.s # c.s
      BY <3>1, WaitsForOne DEF WaitInv
    <3> QED BY <3>1, <3>3, <3>4, WaitsForOne, WaitsOn
  <2> QED BY <2>1, <2>2
<1>25. ASSUME NEW d \in Devices, Reap(d)
      PROVE  WaitInv'
  BY <1>25, WaitsOn DEF Reap
<1>26. ASSUME Rest
      PROVE  WaitInv'
  BY <1>26, WaitsOn DEF Rest, leaseVars
<1>27. ASSUME UNCHANGED leaseVars
      PROVE  WaitInv'
  BY <1>27, WaitsOn DEF leaseVars
<1> QED
  BY <1>1, <1>2, <1>3, <1>4, <1>5, <1>6, <1>7, <1>8, <1>9, <1>10, <1>11, <1>12, <1>13, <1>14,
     <1>15, <1>16, <1>17, <1>18, <1>19, <1>20, <1>21, <1>22, <1>23, <1>24, <1>25, <1>26, <1>27
     DEF LeaseNext, Agent, Progress, Backend, Wire, Machine, Faults

(* Whoever uses a device owns it, unless the lease was deleted under the call. *)
OwnsDevice(s, d) == InForce(d) /\ lease[d].s = s
OwnInv == \A c \in calls : c.op = "use" => task[c.s].lost \/ OwnsDevice(c.s, c.d)

(* What a call needs to keep its device: its session goes on waiting, and the lease
   stays or is lost under it. *)
LEMMA OwnsDeviceOn ==
    ASSUME OwnInv, calls' \subseteq calls,
           \A c \in calls' : c.op = "use" =>
              \/ task'[c.s].lost
              \/ ~task[c.s].lost /\ (OwnsDevice(c.s, c.d) => OwnsDevice(c.s, c.d)')
    PROVE  OwnInv'
BY DEF OwnInv

(* Taking a lease that may be taken gives it, and takes none that is in force
   from another session. *)
LEMMA TakingGives ==
    ASSUME LeaseTypeOK, NEW s \in Sessions, NEW d \in Devices,
           Takeable(s, d), lease' = Taken(s, d)
    PROVE  /\ OwnsDevice(s, d)'
           /\ \A t \in Sessions, e \in Devices : OwnsDevice(t, e) => OwnsDevice(t, e)'
<1>1. OwnsDevice(s, d)'
  <2> DEFINE b == lease[d] # None /\ lease[d].booted
             new == [s |-> s, lapsed |-> FALSE, booted |-> b]
  <2>1. new.s = s /\ ~new.lapsed
    BY Zenon
  <2>2. lease' = [lease EXCEPT ![d] = new]
    BY Zenon DEF Taken
  <2>3. lease[d] \in Lease \cup {None}
    BY DEF LeaseTypeOK
  <2>4. b \in BOOLEAN
    BY <2>3, Zenon
  <2>5. new \in Lease
    BY <2>4, Zenon DEF Lease
  <2>6. new # None
    BY <2>5
  <2> HIDE DEF new
  <2> QED BY <2>1, <2>2, <2>6 DEF OwnsDevice, InForce, LeaseTypeOK
<1>2. ASSUME NEW t \in Sessions, NEW e \in Devices, OwnsDevice(t, e)
      PROVE  OwnsDevice(t, e)'
  <2>1. CASE e = d
    BY <1>1, <1>2, <2>1 DEF OwnsDevice, Takeable
  <2>2. CASE e # d
    BY <1>2, <2>2 DEF OwnsDevice, InForce, Taken, LeaseTypeOK
  <2> QED BY <2>1, <2>2
<1> QED BY <1>1, <1>2

(* The unfiltered update of `booted` leaves the owner and the expiry. *)
LEMMA MarkingKeeps ==
    ASSUME LeaseTypeOK, NEW s \in Sessions, BootMark(s)
    PROVE  /\ \A t \in Sessions, e \in Devices : OwnsDevice(t, e) => OwnsDevice(t, e)'
           /\ \A d \in Devices : lease'[d] # None => lease[d] # None /\ lease'[d].s = lease[d].s
<1>1. CASE lease[Template] = None
  BY <1>1 DEF BootMark, OwnsDevice, InForce
<1>2. CASE lease[Template] # None
  <2> DEFINE new == [lease[Template] EXCEPT !.booted = task[s].fresh]
  <2>1. lease[Template] \in Lease
    BY <1>2 DEF LeaseTypeOK
  <2>2. new.s = lease[Template].s /\ new.lapsed = lease[Template].lapsed
    BY <2>1 DEF Lease
  <2>3. new # None
    <3>1. task[s].fresh \in BOOLEAN
      BY ToolCallsTyped DEF BootMark
    <3>2. new \in Lease
      BY <2>1, <3>1 DEF Lease
    <3> QED BY <3>2
  <2>4. lease' = [lease EXCEPT ![Template] = new]
    BY <1>2, Zenon DEF BootMark
  <2> HIDE DEF new
  <2> QED BY <1>2, <2>2, <2>3, <2>4 DEF OwnsDevice, InForce, LeaseTypeOK
<1> QED BY <1>1, <1>2

(* Who loses a lease under a call is marked. *)
LEMMA DeletingKeeps ==
    ASSUME LeaseTypeOK, WaitInv, OwnInv, NEW D \in SUBSET Devices, calls' = calls,
           \/ lease' = lease /\ task' = task
           \/ lease' = Without(D) /\ task' = Dropping(D)
    PROVE  OwnInv'
<1>1. CASE lease' = lease /\ task' = task
  BY <1>1, OwnsDeviceOn DEF OwnsDevice, InForce
<1>2. CASE lease' = Without(D) /\ task' = Dropping(D)
  <2>1. ASSUME NEW c \in calls, c.op = "use", ~task'[c.s].lost
        PROVE  ~task[c.s].lost /\ (OwnsDevice(c.s, c.d) => OwnsDevice(c.s, c.d)')
    <3>1. c.s \in Sessions /\ c.d \in Devices /\ task[c.s].st = "calling" /\ task[c.s].d = c.d
      BY <2>1, WaitsForOne DEF WaitInv
    <3>2. ~task[c.s].lost /\ (OwnsDevice(c.s, c.d) => c.d \notin D)
      BY <1>2, <2>1, <3>1, DroppingKeeps DEF OwnsDevice, InForce
    <3> QED BY <1>2, <3>1, <3>2 DEF Without, OwnsDevice, InForce
  <2> QED BY <2>1, OwnsDeviceOn
<1> QED BY <1>1, <1>2

(* One step per action: expiry spares the calls, a lease in force is renewed by
   its owner only, and each deletion marks the calls it hits. *)
LEMMA OwnStep == LeaseTypeOK /\ WaitInv /\ OwnInv /\ [LeaseNext]_leaseVars => OwnInv'
<1> SUFFICES ASSUME LeaseTypeOK, WaitInv, OwnInv, [LeaseNext]_leaseVars
             PROVE  OwnInv'
  OBVIOUS
<1> USE DEF wire
<1>1. ASSUME NEW d \in Devices, Lapse(d)
      PROVE  OwnInv'
  <2>1. \A c \in calls : (c.op = "use" /\ OwnsDevice(c.s, c.d)) => c.d # d
    BY <1>1, WaitsForOne DEF Lapse, OwnsDevice, WaitInv
  <2>2. \A c \in calls : c.d # d => lease'[c.d] = lease[c.d]
    BY <1>1, WaitsForOne DEF Lapse, LeaseTypeOK
  <2> QED BY <1>1, <2>1, <2>2, OwnsDeviceOn DEF Lapse, OwnsDevice, InForce
<1>2. ASSUME NEW s \in Sessions, NEW d \in Devices, Use(s, d)
      PROVE  OwnInv'
  <2>1. task[s].st \notin {"calling", "booting"}
    BY <1>2 DEF Use, Idle
  <2>2. calls' = calls /\ \A t \in Sessions : t # s => task'[t] = task[t]
    BY <1>2 DEF Use, TaskIs, LeaseTypeOK
  <2>3. \A t \in Sessions, e \in Devices : OwnsDevice(t, e) => OwnsDevice(t, e)'
    BY <1>2 DEF Use, OwnsDevice, InForce
  <2> QED BY <2>1, <2>2, <2>3, WaitsForOne, OwnsDeviceOn
<1>3. ASSUME NEW s \in Sessions, Dispatch(s)
      PROVE  OwnInv'
  <2>1. task[s].st = "resolved" /\ task[s].d \in Devices
    BY <1>3, ToolCallsTyped DEF Dispatch
  <2>2. \A t \in Sessions : t # s => task'[t] = task[t]
    BY <1>3 DEF Dispatch, LeaseTypeOK
  <2>3. \A t \in Sessions, e \in Devices : OwnsDevice(t, e) => OwnsDevice(t, e)'
    <3>1. CASE Takeable(s, task[s].d)
      BY <1>3, <2>1, <3>1, TakingGives DEF Dispatch
    <3>2. CASE ~Takeable(s, task[s].d)
      BY <1>3, <3>2 DEF Dispatch, OwnsDevice, InForce
    <3> QED BY <3>1, <3>2
  <2>4. CASE calls' = calls
    BY <2>1, <2>2, <2>3, <2>4, WaitsForOne, OwnsDeviceOn
  <2>5. CASE calls' # calls
    <3>1. /\ calls' = calls \cup {NewCall(s, task[s].d, "use")}
          /\ Takeable(s, task[s].d) /\ lease' = Taken(s, task[s].d)
      BY <1>3, <2>5 DEF Dispatch, Send
    <3>2. \A c \in {NewCall(s, task[s].d, "use")} : OwnsDevice(c.s, c.d)'
      <4>1. PICK d \in Devices : d = task[s].d
        BY <2>1
      <4>2. OwnsDevice(s, d)'
        BY <3>1, <4>1, TakingGives
      <4>3. \A c \in {NewCall(s, d, "use")} : OwnsDevice(c.s, c.d)'
        BY <4>2 DEF NewCall
      <4> QED BY <3>1, <4>1, <4>3
    <3> QED BY <2>1, <2>2, <2>3, <3>1, <3>2, WaitsForOne DEF OwnInv
  <2> QED BY <2>4, <2>5
<1>4. ASSUME NEW s \in Sessions, NEW d \in Devices, LeaseDevice(s, d)
      PROVE  OwnInv'
  <2>1. task[s].st \notin {"calling", "booting"}
    BY <1>4 DEF LeaseDevice, Idle
  <2>2. calls' = calls /\ \A t \in Sessions : t # s => task'[t] = task[t]
    BY <1>4 DEF LeaseDevice, TaskIs, LeaseTypeOK
  <2>3. \A t \in Sessions, e \in Devices : OwnsDevice(t, e) => OwnsDevice(t, e)'
    BY <1>4, TakingGives DEF LeaseDevice
  <2> QED BY <2>1, <2>2, <2>3, WaitsForOne, OwnsDeviceOn
<1>5. ASSUME NEW s \in Sessions, Boot(s)
      PROVE  OwnInv'
  <2>1. task[s].st = "idle"
    BY <1>5 DEF Boot, Idle
  <2>2. \A t \in Sessions : t # s => task'[t] = task[t]
    BY <1>5 DEF Boot, LeaseTypeOK
  <2>3. calls' = calls \cup {NewCall(s, Template, "boot")} /\ lease' = lease
    BY <1>5 DEF Boot, Send
  <2>4. NewCall(s, Template, "boot").op = "boot"
    BY DEF NewCall
  <2> QED BY <2>1, <2>2, <2>3, <2>4, WaitsForOne DEF OwnInv, OwnsDevice, InForce
<1>6. ASSUME NEW s \in Sessions, BootTake(s)
      PROVE  OwnInv'
  <2>1. task[s].st \notin {"calling", "booting"}
    BY <1>6 DEF BootTake, Idle
  <2>2. calls' = calls /\ \A t \in Sessions : t # s => task'[t] = task[t]
    BY <1>6 DEF BootTake, TaskIs, LeaseTypeOK
  <2>3. \A t \in Sessions, e \in Devices : OwnsDevice(t, e) => OwnsDevice(t, e)'
    <3>1. CASE Takeable(s, Template)
      BY <1>6, <3>1, TakingGives DEF BootTake
    <3>2. CASE ~Takeable(s, Template)
      BY <1>6, <3>2 DEF BootTake, OwnsDevice, InForce
    <3> QED BY <3>1, <3>2
  <2> QED BY <2>1, <2>2, <2>3, WaitsForOne, OwnsDeviceOn
<1>7. ASSUME NEW s \in Sessions, BootMark(s)
      PROVE  OwnInv'
  <2>1. task[s].st \notin {"calling", "booting"}
    BY <1>7 DEF BootMark, Idle
  <2>2. calls' = calls /\ \A t \in Sessions : t # s => task'[t] = task[t]
    BY <1>7 DEF BootMark, TaskIs, LeaseTypeOK
  <2>3. \A t \in Sessions, e \in Devices : OwnsDevice(t, e) => OwnsDevice(t, e)'
    BY <1>7, MarkingKeeps
  <2> QED BY <2>1, <2>2, <2>3, WaitsForOne, OwnsDeviceOn
<1>8. ASSUME NEW c \in calls, TimedOut(c)
      PROVE  OwnInv'
  <2>1. calls' = calls \ {c} /\ lease' = lease
    BY <1>8 DEF TimedOut, GiveUp
  <2>2. PICK after : Answered(c, after)
    BY <1>8, Zenon DEF TimedOut
  <2>3. \A t \in Sessions : (c.op = "shutdown" \/ t # c.s) => task'[t] = task[t]
    BY <2>2, WaitsForOne DEF Answered, LeaseTypeOK
  <2>4. \A e \in calls' : e.op # "shutdown" => c.op = "shutdown" \/ e.s # c.s
    BY <2>1, WaitsForOne DEF WaitInv
  <2> QED BY <2>1, <2>3, <2>4, WaitsForOne, OwnsDeviceOn DEF OwnsDevice, InForce
<1>9. ASSUME NEW s \in Sessions, NEW d \in Devices, Release(s, d)
      PROVE  OwnInv'
  <2>1. /\ calls' = calls
        /\ \/ lease' = lease /\ task' = task
           \/ lease' = Without({d}) /\ task' = Dropping({d})
    BY <1>9 DEF Release
  <2> QED BY <2>1, DeletingKeeps
<1>10. ASSUME NEW s \in Sessions, ReleaseAll(s)
      PROVE  OwnInv'
  BY <1>10, OwnsDeviceOn DEF ReleaseAll, OwnsDevice, InForce
<1>11. ASSUME NEW s \in Sessions, NEW h \in left[s], ReleaseOne(s, h)
      PROVE  OwnInv'
  <2>1. h.d \in Devices
    BY <1>11 DEF LeaseTypeOK, Held
  <2>2. /\ calls' = calls
        /\ \/ lease' = lease /\ task' = task
           \/ lease' = Without({h.d}) /\ task' = Dropping({h.d})
    BY <1>11 DEF ReleaseOne
  <2> QED BY <2>2, <2>1, DeletingKeeps
<1>12. ASSUME NEW s \in Sessions, Shutdown(s)
      PROVE  OwnInv'
  <2>1. CASE calls' = calls
    BY <1>12, <2>1, OwnsDeviceOn DEF Shutdown, OwnsDevice, InForce
  <2>2. CASE calls' # calls
    <3>1. /\ calls' = calls \cup {NewCall(s, ending[s], "shutdown")}
          /\ task' = task /\ lease' = lease
      BY <1>12, <2>2 DEF Shutdown, Send
    <3>2. NewCall(s, ending[s], "shutdown").op = "shutdown"
      BY DEF NewCall
    <3> QED BY <3>1, <3>2 DEF OwnInv, OwnsDevice, InForce
  <2> QED BY <2>1, <2>2
<1>13. ASSUME NEW s \in Sessions, Close(s)
      PROVE  OwnInv'
  <2>1. lease' = lease
    BY <1>13 DEF Close
  <2>2. CASE task' = task /\ calls' = calls
    BY <2>1, <2>2, OwnsDeviceOn DEF OwnsDevice, InForce
  <2>3. CASE ~(task' = task /\ calls' = calls)
    <3>1. /\ calls' = calls \ {c \in calls : c.s = s /\ c.op # "shutdown"}
          /\ \A t \in Sessions : t # s => task'[t] = task[t]
      BY <1>13, <2>3 DEF Close, GiveUp, LeaseTypeOK
    <3> QED BY <2>1, <3>1, WaitsForOne, OwnsDeviceOn DEF OwnsDevice, InForce
  <2> QED BY <2>2, <2>3
<1>14. ASSUME NEW s \in Sessions, CloseReturns(s)
      PROVE  OwnInv'
  BY <1>14, OwnsDeviceOn DEF CloseReturns, OwnsDevice, InForce
<1>15. ASSUME NEW d \in Devices, ForceRelease(d)
      PROVE  OwnInv'
  <2>1. /\ calls' = calls
        /\ \/ lease' = lease /\ task' = task
           \/ lease' = Without({d}) /\ task' = Dropping({d})
    BY <1>15 DEF ForceRelease
  <2> QED BY <2>1, DeletingKeeps
<1>16. ASSUME ServerDrops
      PROVE  OwnInv'
  <2>1. calls' = {}
    BY <1>16 DEF ServerDrops, GiveUp, HubRevoke
  <2> QED BY <2>1 DEF OwnInv
<1>17. ASSUME RunnerDrops
      PROVE  OwnInv'
  <2>1. task' = task /\ lease' = lease /\ calls' = {[c EXCEPT !.at = "lost"] : c \in calls}
    BY <1>17 DEF RunnerDrops, Losing
  <2>2. ASSUME NEW c \in calls
        PROVE  LET e == [c EXCEPT !.at = "lost"] IN e.s = c.s /\ e.d = c.d /\ e.op = c.op
    BY DEF LeaseTypeOK, Call
  <2>3. \A e \in calls' : \E c \in calls : e.s = c.s /\ e.d = c.d /\ e.op = c.op
    BY <2>1, <2>2
  <2> QED BY <2>1, <2>3 DEF OwnInv, OwnsDevice, InForce
<1>18. ASSUME Join
      PROVE  OwnInv'
  BY <1>18, OwnsDeviceOn DEF Join, OwnsDevice, InForce
<1>19. ASSUME Attach
      PROVE  OwnInv'
  <2>1. calls' = {}
    BY <1>19 DEF Attach, GiveUp, HubRevoke
  <2> QED BY <2>1 DEF OwnInv
<1>20. ASSUME Recheck
      PROVE  OwnInv'
  <2>1. CASE revoking = "no"
    BY <1>20, <2>1, OwnsDeviceOn DEF Recheck, OwnsDevice, InForce
  <2>2. CASE revoking # "no"
    <3>1. calls' = {}
      BY <1>20, <2>2 DEF Recheck, GiveUp, HubRevoke
    <3> QED BY <3>1 DEF OwnInv
  <2> QED BY <2>1, <2>2
<1>21. ASSUME RevokeMark
      PROVE  OwnInv'
  BY <1>21, OwnsDeviceOn DEF RevokeMark, OwnsDevice, InForce
<1>22. ASSUME RevokeLeases
      PROVE  OwnInv'
  <2>1. /\ calls' = calls
        /\ \/ lease' = lease /\ task' = task
           \/ lease' = Without(Devices) /\ task' = Dropping(Devices)
    BY <1>22 DEF RevokeLeases
  <2> QED BY <2>1, DeletingKeeps
<1>23. ASSUME RevokeHub
      PROVE  OwnInv'
  <2>1. calls' = {}
    BY <1>23 DEF RevokeHub, GiveUp, HubRevoke
  <2> QED BY <2>1 DEF OwnInv
<1>24. ASSUME NEW c \in Arrived, Execute(c)
      PROVE  OwnInv'
  <2>1. lease' = lease
    BY <1>24 DEF Execute
  <2>2. CASE c.s = None
    <3>1. calls' = calls /\ task' = task
      BY <1>24, <2>2 DEF Execute, Done, RunsBoot, RunsShutdown, RunsUse, Answer
    <3> QED BY <2>1, <3>1, OwnsDeviceOn DEF OwnsDevice, InForce
  <2>3. CASE c.s # None
    <3>1. c \in calls /\ calls' = calls \ {c}
      BY <1>24, <2>3, ArrivedTyped DEF Execute, Done
    <3>2. PICK after : Answered(c, after)
      BY <1>24, <2>3, Zenon DEF Execute, RunsBoot, RunsShutdown, RunsUse, Answer
    <3>3. \A t \in Sessions : (c.op = "shutdown" \/ t # c.s) => task'[t] = task[t]
      BY <3>1, <3>2, WaitsForOne DEF Answered, LeaseTypeOK
    <3>4. \A e \in calls' : e.op # "shutdown" => c.op = "shutdown" \/ e.s # c.s
      BY <3>1, WaitsForOne DEF WaitInv
    <3> QED BY <2>1, <3>1, <3>3, <3>4, WaitsForOne, OwnsDeviceOn DEF OwnsDevice, InForce
  <2> QED BY <2>2, <2>3
<1>25. ASSUME NEW d \in Devices, Reap(d)
      PROVE  OwnInv'
  BY <1>25, OwnsDeviceOn DEF Reap, OwnsDevice, InForce
<1>26. ASSUME Rest
      PROVE  OwnInv'
  BY <1>26, OwnsDeviceOn DEF Rest, leaseVars, OwnsDevice, InForce
<1>27. ASSUME UNCHANGED leaseVars
      PROVE  OwnInv'
  BY <1>27, OwnsDeviceOn DEF leaseVars, OwnsDevice, InForce
<1> QED
  BY <1>1, <1>2, <1>3, <1>4, <1>5, <1>6, <1>7, <1>8, <1>9, <1>10, <1>11, <1>12, <1>13, <1>14,
     <1>15, <1>16, <1>17, <1>18, <1>19, <1>20, <1>21, <1>22, <1>23, <1>24, <1>25, <1>26, <1>27
     DEF LeaseNext, Agent, Progress, Backend, Wire, Machine, Faults

(* A run that has ended, unless it was stopped over a tool call that went on, does
   nothing any more, and its leases are on the list of what it has yet to delete. *)
Leaving(s) == run[s] # "on" /\ s \notin stray
Leases(s, d) == lease[d] # None /\ lease[d].s = s
EndInv ==
    \A s \in Sessions : Leaving(s) =>
        /\ task[s] = Idle
        /\ \A d \in Devices : Leases(s, d) => run[s] = "closing" /\ \E h \in left[s] : h.d = d

(* What keeps it as long as no run ends: whoever leaves starts nothing, and takes no lease. *)
LEMMA EndsOn ==
    ASSUME EndInv, run' = run, stray' = stray,
           \A s \in Sessions : Leaving(s) /\ task[s] = Idle =>
              /\ left'[s] = left[s]
              /\ task'[s] = Idle
              /\ \A d \in Devices : Leases(s, d)' => Leases(s, d)
    PROVE  EndInv'
BY DEF EndInv, Leaving

(* A lease that is taken is taken for the taker. *)
LEMMA TakingKeeps ==
    ASSUME LeaseTypeOK, NEW s \in Sessions, NEW d \in Devices, lease' = Taken(s, d)
    PROVE  \A t \in Sessions, e \in Devices : t # s => (Leases(t, e)' => Leases(t, e))
<1> DEFINE b == lease[d] # None /\ lease[d].booted
           new == [s |-> s, lapsed |-> FALSE, booted |-> b]
<1>1. new.s = s
  BY Zenon
<1>2. lease' = [lease EXCEPT ![d] = new]
  BY Zenon DEF Taken
<1> HIDE DEF new
<1> QED BY <1>1, <1>2 DEF Leases, LeaseTypeOK

(* Lost connections and answers move only tool calls that wait. *)
LEMMA FailingKeeps ==
    ASSUME LeaseTypeOK, FailPending
    PROVE  \A s \in Sessions : task[s] = Idle => task'[s] = Idle
<1>1. PICK more \in SUBSET {c.s : c \in {e \in calls : e.op = "use"}} :
         task' = [s \in Sessions |->
                    IF task[s].st \notin {"calling", "booting"} THEN task[s]
                    ELSE IF s \in more
                    THEN [Idle EXCEPT !.st = "resolved", !.d = task[s].d]
                    ELSE Idle]
  BY DEF FailPending
<1>2. Idle.st = "idle"
  BY DEF Idle
<1> HIDE DEF Idle
<1>3. ASSUME NEW s \in Sessions, task[s] = Idle
      PROVE  task'[s] = Idle
  BY <1>1, <1>2, <1>3
<1> QED BY <1>3

LEMMA AnsweredKeeps ==
    ASSUME LeaseTypeOK, WaitInv, NEW c \in calls, NEW after, Answered(c, after)
    PROVE  \A s \in Sessions : task[s] = Idle => task'[s] = Idle
<1>1. c.op # "shutdown" => task[c.s] # Idle
  BY WaitsForOne DEF Idle
<1> QED BY <1>1 DEF Answered, LeaseTypeOK

(* One step per action: a run that ends lists its leases and ends its tool call,
   or is stray; the list shrinks by what is deleted. *)
LEMMA EndStep == LeaseTypeOK /\ WaitInv /\ EndInv /\ [LeaseNext]_leaseVars => EndInv'
<1> SUFFICES ASSUME LeaseTypeOK, WaitInv, EndInv, [LeaseNext]_leaseVars
             PROVE  EndInv'
  OBVIOUS
<1> USE DEF wire
<1>1. ASSUME NEW d \in Devices, Lapse(d)
      PROVE  EndInv'
  <2>1. \A e \in Devices : lease'[e] # None => lease[e] # None /\ lease'[e].s = lease[e].s
    <3>1. lease[d] \in Lease
      BY <1>1 DEF Lapse, InForce, LeaseTypeOK
    <3>2. [lease[d] EXCEPT !.lapsed = TRUE].s = lease[d].s
      BY <3>1 DEF Lease
    <3>3. lease' = [lease EXCEPT ![d] = [lease[d] EXCEPT !.lapsed = TRUE]]
      BY <1>1 DEF Lapse
    <3> HIDE DEF Lease
    <3> QED BY <1>1, <3>2, <3>3 DEF LeaseTypeOK, Lapse, InForce
  <2> QED BY <1>1, <2>1, EndsOn DEF Lapse, Leases
<1>2. ASSUME NEW s \in Sessions, NEW d \in Devices, Use(s, d)
      PROVE  EndInv'
  <2>1. run[s] = "on"
    BY <1>2 DEF Use, Idle
  <2>2. /\ run' = run /\ stray' = stray /\ left' = left
        /\ \A t \in Sessions : t # s => task'[t] = task[t]
    BY <1>2 DEF Use, TaskIs, LeaseTypeOK
  <2>3. lease' = lease
    BY <1>2 DEF Use
  <2> QED BY <2>1, <2>2, <2>3, EndsOn DEF Leaving, Leases
<1>3. ASSUME NEW s \in Sessions, Dispatch(s)
      PROVE  EndInv'
  <2>1. task[s] # Idle
    BY <1>3 DEF Dispatch, Idle
  <2>2. /\ run' = run /\ stray' = stray /\ left' = left
        /\ \A t \in Sessions : t # s => task'[t] = task[t]
    BY <1>3 DEF Dispatch, TaskIs, LeaseTypeOK
  <2>3. \A t \in Sessions, e \in Devices : t # s => (Leases(t, e)' => Leases(t, e))
    <3>1. task[s].d \in Devices /\ (lease' = lease \/ lease' = Taken(s, task[s].d))
      BY <1>3, ToolCallsTyped DEF Dispatch
    <3> QED BY <3>1, TakingKeeps DEF Leases
  <2> QED BY <2>1, <2>2, <2>3, EndsOn DEF Leaving, Leases
<1>4. ASSUME NEW s \in Sessions, NEW d \in Devices, LeaseDevice(s, d)
      PROVE  EndInv'
  <2>1. run[s] = "on"
    BY <1>4 DEF LeaseDevice, Idle
  <2>2. /\ run' = run /\ stray' = stray /\ left' = left
        /\ \A t \in Sessions : t # s => task'[t] = task[t]
    BY <1>4 DEF LeaseDevice, TaskIs, LeaseTypeOK
  <2>3. \A t \in Sessions, e \in Devices : t # s => (Leases(t, e)' => Leases(t, e))
    <3>1. d \in Devices /\ (lease' = lease \/ lease' = Taken(s, d))
      BY <1>4, ToolCallsTyped DEF LeaseDevice
    <3> QED BY <3>1, TakingKeeps DEF Leases
  <2> QED BY <2>1, <2>2, <2>3, EndsOn DEF Leaving, Leases
<1>5. ASSUME NEW s \in Sessions, Boot(s)
      PROVE  EndInv'
  <2>1. run[s] = "on"
    BY <1>5 DEF Boot, Idle
  <2>2. /\ run' = run /\ stray' = stray /\ left' = left
        /\ \A t \in Sessions : t # s => task'[t] = task[t]
    BY <1>5 DEF Boot, TaskIs, LeaseTypeOK
  <2>3. lease' = lease
    BY <1>5 DEF Boot
  <2> QED BY <2>1, <2>2, <2>3, EndsOn DEF Leaving, Leases
<1>6. ASSUME NEW s \in Sessions, BootTake(s)
      PROVE  EndInv'
  <2>1. task[s] # Idle
    BY <1>6 DEF BootTake, Idle
  <2>2. /\ run' = run /\ stray' = stray /\ left' = left
        /\ \A t \in Sessions : t # s => task'[t] = task[t]
    BY <1>6 DEF BootTake, TaskIs, LeaseTypeOK
  <2>3. \A t \in Sessions, e \in Devices : t # s => (Leases(t, e)' => Leases(t, e))
    <3>1. Template \in Devices /\ (lease' = lease \/ lease' = Taken(s, Template))
      BY <1>6, ToolCallsTyped DEF BootTake
    <3> QED BY <3>1, TakingKeeps DEF Leases
  <2> QED BY <2>1, <2>2, <2>3, EndsOn DEF Leaving, Leases
<1>7. ASSUME NEW s \in Sessions, BootMark(s)
      PROVE  EndInv'
  <2>1. task[s] # Idle
    BY <1>7 DEF BootMark, Idle
  <2>2. /\ run' = run /\ stray' = stray /\ left' = left
        /\ \A t \in Sessions : t # s => task'[t] = task[t]
    BY <1>7 DEF BootMark, TaskIs, LeaseTypeOK
  <2>3. \A e \in Devices : lease'[e] # None => lease[e] # None /\ lease'[e].s = lease[e].s
    BY <1>7, MarkingKeeps
  <2> QED BY <2>1, <2>2, <2>3, EndsOn DEF Leaving, Leases
<1>8. ASSUME NEW c \in calls, TimedOut(c)
      PROVE  EndInv'
  <2>1. PICK after : Answered(c, after)
    BY <1>8, Zenon DEF TimedOut
  <2>2. \A t \in Sessions : task[t] = Idle => task'[t] = Idle
    BY <2>1, AnsweredKeeps
  <2> QED BY <1>8, <2>2, EndsOn DEF TimedOut, Leases
<1>9. ASSUME NEW s \in Sessions, NEW d \in Devices, Release(s, d)
      PROVE  EndInv'
  <2>1. /\ lease' = Without({d}) /\ task' = Dropping({d})
        /\ run' = run /\ stray' = stray /\ left' = left
    BY <1>9 DEF Release
  <2>2. \A t \in Sessions : task[t] = Idle => Dropping({d})[t] = Idle
    BY DroppingKeeps DEF Idle
  <2>3. \A t \in Sessions, e \in Devices : Leases(t, e)' => Leases(t, e)
    BY <2>1 DEF Leases, Without
  <2> QED BY <2>1, <2>2, <2>3, EndsOn
<1>10. ASSUME NEW s \in Sessions, ReleaseAll(s)
      PROVE  EndInv'
  BY <1>10, EndsOn DEF ReleaseAll, Leases, Leaving, LeaseTypeOK
<1>11. ASSUME NEW s \in Sessions, NEW h \in left[s], ReleaseOne(s, h)
      PROVE  EndInv'
  <2>1. h.d \in Devices
    BY DEF LeaseTypeOK, Held
  <2>2. run' = run /\ stray' = stray /\ left' = [left EXCEPT ![s] = @ \ {h}]
    BY <1>11 DEF ReleaseOne
  <2>3. \A t \in Sessions : task[t] = Idle => task'[t] = Idle
    BY <1>11, <2>1, DroppingKeeps DEF ReleaseOne, Idle
  <2>4. \A t \in Sessions, e \in Devices : Leases(t, e)' => Leases(t, e)
    BY <1>11 DEF ReleaseOne, Leases, Without
  <2>5. ~Leases(s, h.d)'
    BY <1>11, <2>1 DEF ReleaseOne, Leases, Without
  <2>6. \A t \in Sessions : t # s => left'[t] = left[t]
    BY <2>2 DEF LeaseTypeOK
  <2>7. \A g \in left[s] : g = h \/ g \in left'[s]
    BY <2>2 DEF LeaseTypeOK
  <2> QED BY <2>2, <2>3, <2>4, <2>5, <2>6, <2>7 DEF EndInv, Leaving
<1>12. ASSUME NEW s \in Sessions, Shutdown(s)
      PROVE  EndInv'
  BY <1>12, EndsOn DEF Shutdown, Leases
<1>13. ASSUME NEW s \in Sessions, Close(s)
      PROVE  EndInv'
  <2>1. /\ run' = [run EXCEPT ![s] = "closing"] /\ left' = [left EXCEPT ![s] = HeldBy(s)]
        /\ lease' = lease
    BY <1>13 DEF Close
  <2>2. \A t \in Sessions : t # s => /\ run'[t] = run[t] /\ left'[t] = left[t]
                                    /\ task'[t] = task[t] /\ (t \in stray' <=> t \in stray)
    BY <1>13 DEF Close, LeaseTypeOK
  <2>3. run'[s] = "closing" /\ left'[s] = HeldBy(s) /\ (task'[s] = Idle \/ s \in stray')
    BY <1>13, <2>1 DEF Close, LeaseTypeOK
  <2>4. ASSUME NEW d \in Devices, Leases(s, d)
        PROVE  \E h \in HeldBy(s) : h.d = d
    <3> DEFINE h == [d |-> d, booted |-> lease[d].booted]
    <3>1. lease[d] \in Lease
      BY <2>4 DEF Leases, LeaseTypeOK
    <3>2. h \in Held /\ h.d = d /\ h.booted = lease[d].booted
      BY <3>1 DEF Lease, Held
    <3> HIDE DEF h
    <3> QED BY <2>4, <3>2 DEF HeldBy, Leases
  <2>5. ASSUME NEW t \in Sessions, Leaving(t)'
        PROVE  /\ task'[t] = Idle
               /\ \A d \in Devices : Leases(t, d)' =>
                     run'[t] = "closing" /\ \E h \in left'[t] : h.d = d
    <3>1. CASE t = s
      BY <2>1, <2>3, <2>4, <2>5, <3>1 DEF Leases, Leaving
    <3>2. CASE t # s
      BY <2>1, <2>2, <2>5, <3>2 DEF EndInv, Leases, Leaving
    <3> QED BY <3>1, <3>2
  <2> QED BY <2>5 DEF EndInv
<1>14. ASSUME NEW s \in Sessions, CloseReturns(s)
      PROVE  EndInv'
  <2>1. /\ run[s] = "closing" /\ left[s] = {} /\ lease' = lease /\ task' = task
        /\ left' = left /\ stray' = stray /\ run' = [run EXCEPT ![s] = "over"]
    BY <1>14 DEF CloseReturns
  <2>2. \A t \in Sessions : Leaving(t)' => Leaving(t)
    BY <2>1 DEF Leaving, LeaseTypeOK
  <2>3. \A t \in Sessions : t # s => run'[t] = run[t]
    BY <2>1 DEF LeaseTypeOK
  <2> QED BY <2>1, <2>2, <2>3 DEF EndInv, Leases
<1>15. ASSUME NEW d \in Devices, ForceRelease(d)
      PROVE  EndInv'
  <2>1. /\ lease' = Without({d}) /\ task' = Dropping({d})
        /\ run' = run /\ stray' = stray /\ left' = left
    BY <1>15 DEF ForceRelease
  <2>2. \A t \in Sessions : task[t] = Idle => Dropping({d})[t] = Idle
    BY DroppingKeeps DEF Idle
  <2>3. \A t \in Sessions, e \in Devices : Leases(t, e)' => Leases(t, e)
    BY <2>1 DEF Leases, Without
  <2> QED BY <2>1, <2>2, <2>3, EndsOn
<1>16. ASSUME ServerDrops
      PROVE  EndInv'
  <2>1. FailPending
    BY <1>16 DEF ServerDrops, HubRevoke
  <2> QED BY <1>16, <2>1, FailingKeeps, EndsOn DEF ServerDrops, Leases
<1>17. ASSUME RunnerDrops
      PROVE  EndInv'
  BY <1>17, EndsOn DEF RunnerDrops, Leases
<1>18. ASSUME Join
      PROVE  EndInv'
  BY <1>18, EndsOn DEF Join, Leases
<1>19. ASSUME Attach
      PROVE  EndInv'
  <2>1. FailPending
    BY <1>19 DEF Attach, HubRevoke
  <2> QED BY <1>19, <2>1, FailingKeeps, EndsOn DEF Attach, Leases
<1>20. ASSUME Recheck
      PROVE  EndInv'
  <2>1. CASE revoking = "no"
    BY <1>20, <2>1, EndsOn DEF Recheck, Leases
  <2>2. CASE revoking # "no"
    <3>1. FailPending
      BY <1>20, <2>2 DEF Recheck, HubRevoke
    <3> QED BY <1>20, <3>1, FailingKeeps, EndsOn DEF Recheck, Leases
  <2> QED BY <2>1, <2>2
<1>21. ASSUME RevokeMark
      PROVE  EndInv'
  BY <1>21, EndsOn DEF RevokeMark, Leases
<1>22. ASSUME RevokeLeases
      PROVE  EndInv'
  <2>1. /\ lease' = Without(Devices) /\ task' = Dropping(Devices)
        /\ run' = run /\ stray' = stray /\ left' = left
    BY <1>22 DEF RevokeLeases
  <2>2. \A t \in Sessions : task[t] = Idle => Dropping(Devices)[t] = Idle
    BY DroppingKeeps DEF Idle
  <2>3. \A t \in Sessions, e \in Devices : Leases(t, e)' => Leases(t, e)
    BY <2>1 DEF Leases, Without
  <2> QED BY <2>1, <2>2, <2>3, EndsOn
<1>23. ASSUME RevokeHub
      PROVE  EndInv'
  <2>1. FailPending
    BY <1>23 DEF RevokeHub, HubRevoke
  <2> QED BY <1>23, <2>1, FailingKeeps, EndsOn DEF RevokeHub, Leases
<1>24. ASSUME NEW c \in Arrived, Execute(c)
      PROVE  EndInv'
  <2>1. CASE c.s = None
    <3>1. task' = task
      BY <1>24, <2>1 DEF Execute, RunsBoot, RunsShutdown, RunsUse, Answer
    <3> QED BY <1>24, <3>1, EndsOn DEF Execute, Leases
  <2>2. CASE c.s # None
    <3>1. c \in calls
      BY <2>2, ArrivedTyped
    <3>2. PICK after : Answered(c, after)
      BY <1>24, <2>2, Zenon DEF Execute, RunsBoot, RunsShutdown, RunsUse, Answer
    <3>3. \A t \in Sessions : task[t] = Idle => task'[t] = Idle
      BY <3>1, <3>2, AnsweredKeeps
    <3> QED BY <1>24, <3>3, EndsOn DEF Execute, Leases
  <2> QED BY <2>1, <2>2
<1>25. ASSUME NEW d \in Devices, Reap(d)
      PROVE  EndInv'
  BY <1>25, EndsOn DEF Reap, Leases
<1>26. ASSUME Rest
      PROVE  EndInv'
  BY <1>26, EndsOn DEF Rest, leaseVars, Leases
<1>27. ASSUME UNCHANGED leaseVars
      PROVE  EndInv'
  BY <1>27, EndsOn DEF leaseVars, Leases
<1> QED
  BY <1>1, <1>2, <1>3, <1>4, <1>5, <1>6, <1>7, <1>8, <1>9, <1>10, <1>11, <1>12, <1>13, <1>14,
     <1>15, <1>16, <1>17, <1>18, <1>19, <1>20, <1>21, <1>22, <1>23, <1>24, <1>25, <1>26, <1>27
     DEF LeaseNext, Agent, Progress, Backend, Wire, Machine, Faults

(* A connection that is attached during a revocation is looked up again. *)
LEMMA RevokedStep == LeaseTypeOK /\ RevokedIsCutOff /\ [LeaseNext]_leaseVars => RevokedIsCutOff'
<1> SUFFICES ASSUME LeaseTypeOK, RevokedIsCutOff, [LeaseNext]_leaseVars, revoking' = "done"
             PROVE  srv' # "up"
  BY DEF RevokedIsCutOff
<1>1. \/ ServerDrops \/ Attach \/ Recheck \/ RevokeMark \/ RevokeLeases \/ RevokeHub
      \/ UNCHANGED <<srv, revoking>>
  BY DEF LeaseNext, Agent, Progress, Backend, Wire, Machine, Faults, Lapse, Use, Dispatch,
         LeaseDevice, Boot, BootTake, BootMark, TimedOut, Release, ReleaseAll, ReleaseOne,
         Shutdown, Close, CloseReturns, ForceRelease, RunnerDrops, Join, Execute, Reap, Rest, leaseVars
<1> QED BY <1>1 DEF RevokedIsCutOff, ServerDrops, Attach, Recheck, RevokeMark, RevokeLeases,
                    RevokeHub, HubRevoke

(* The invariant of the leases. *)
LeaseInv == LeaseTypeOK /\ FiniteCalls /\ WaitInv /\ OwnInv /\ EndInv /\ RevokedIsCutOff

(* The invariant holds in every state. *)
LEMMA LeaseInvariant == LeaseSpec => []LeaseInv
<1>1. LeaseInit => LeaseInv
  <2> SUFFICES ASSUME LeaseInit
               PROVE  LeaseInv
    OBVIOUS
  <2>1. LeaseTypeOK
    <3>1. task \in [Sessions -> ToolCall]
      BY Zenon DEF LeaseInit, ToolCall
    <3> QED BY <3>1 DEF LeaseInit, LeaseTypeOK
  <2>2. FiniteCalls
    BY FS_EmptySet DEF LeaseInit, FiniteCalls
  <2> QED BY <2>1, <2>2 DEF LeaseInit, LeaseInv, WaitInv, OwnInv, EndInv, Leaving, RevokedIsCutOff
<1>2. LeaseInv /\ [LeaseNext]_leaseVars => LeaseInv'
  BY LeaseTypeStep, WaitStep, OwnStep, EndStep, RevokedStep DEF LeaseInv
<1> QED BY <1>1, <1>2, PTL DEF LeaseSpec

(* No two operations share a device unless one lost its lease under it; a revoked
   runner is cut off; an ended run holds no device, unless it was stopped over a
   tool call that went on: for any sessions, devices and number of faults. *)
THEOREM DevicesKept == LeaseSpec => []LeasesAreKept
<1>1. LeaseInv => SharedOnlyIfLetGo
  BY DEF LeaseInv, OwnInv, OwnsDevice, SharedOnlyIfLetGo
<1>2. LeaseInv => EndedRunHoldsNothing
  <2> SUFFICES ASSUME LeaseInv, NEW d \in Devices, lease[d] # None, run[lease[d].s] = "over"
               PROVE  lease[d].s \in stray
    BY DEF EndedRunHoldsNothing
  <2>1. PICK s \in Sessions : s = lease[d].s
    BY DEF LeaseInv, LeaseTypeOK, Lease
  <2> QED BY <2>1 DEF LeaseInv, EndInv, Leaving, Leases
<1> QED BY <1>1, <1>2, LeaseInvariant, PTL DEF LeaseInv, LeasesAreKept
====
