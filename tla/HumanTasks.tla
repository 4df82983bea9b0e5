---- MODULE HumanTasks ----
(***************************************************************************)
(* Human handoffs of one source conversation: api/human_tasks.py (create,  *)
(* reassign, respond), the worker of api/human_task_worker.py that tells   *)
(* the assignee, continues the source once after an answer and tells the   *)
(* requester, and what the recovery sweep makes of a continuation that was *)
(* cut short.                                                              *)
(*                                                                         *)
(* The database survives a restart; the worker's list, its dispatches, the *)
(* claim on the source and the drain flag do not.  What a person decides   *)
(* and writes is left out: no step of the code depends on it.              *)
(***************************************************************************)
EXTENDS Naturals, FiniteSets

CONSTANTS Requests,     \* request keys of the source conversation
          People,       \* colleagues a request may be assigned to
          None,
          MaxVersion,   \* bound: versions of a request
          MaxRunning,   \* dispatches at a time (4 in schedule())
          MaxTurns,     \* bound: ordinary runs of the source, recovered ones included
          MaxDrains,    \* bound: deploys announced
          MaxMishaps    \* bound: process deaths and failing writes of the worker

ASSUME NamesAssumption == Requests \cap {"chat", "recovered", "ordinary"} = {}
ASSUME BoundsAssumption ==
    /\ MaxVersion \in Nat \ {0, 1}
    /\ MaxRunning \in Nat \ {0}
    /\ {MaxTurns, MaxDrains, MaxMishaps} \subseteq Nat

VARIABLES task,         \* human_task documents
          assigned,     \* assignment notifications, by dedupe key
          result,       \* result notification of each request
          source,       \* the source conversation
          claim,        \* who holds the source's run claim
          turn,         \* the ordinary runs of the source
          listed,       \* the documents of the current tick still to be handled
          current,      \* the one being handled, and the step it is at
          dispatch,     \* where the dispatch of each request is
          ending,       \* resume_state the dispatch is about to record
          found,        \* the stale conversation the recovery sweep has read
          server,       \* the process and its drain flag
          count,        \* what the bounds count
          begun,        \* history: requests whose continuation started the agent
          finished,     \* history: requests whose agent run completed
          lastRun,      \* history: whose run last set the source running
          unrecorded    \* history: dispatches whose last write failed

docVars == <<task, assigned, result>>
sourceVars == <<source, claim, turn, lastRun>>
sweepVars == <<listed, current>>
dispatchVars == <<dispatch, ending, begun, finished, unrecorded>>
vars == <<docVars, sourceVars, sweepVars, dispatchVars, found, server, count>>

Ordinary == {"chat", "recovered"}
Versions == 1..MaxVersion
Docs == [state : {"pending", "answered"}, version : Versions, assignee : People,
         notice : {"pending", "sent"},
         resume : {"waiting", "queued", "running", "completed", "needs_review"},
         told : BOOLEAN]
Notices == [req : Requests, version : Versions, to : People]
Endings == {"completed", "needs_review"}
TickSteps == {"notify", "flag", "resume", "tell"}
DispatchSteps == {"no", "starting", "taking", "checking", "marking",
                  "resuming", "entering", "agent", "reading", "recording", "leaving"}
SourceStatus == {"running", "completed", "interrupted", "error", "queued"}
AtSteps == [req : Requests, step : TickSteps]
Finds == [marker : Requests \cup {None}, last : Requests \cup {"ordinary"}]

ASSUME NoneAssumption ==
    None \notin Requests \cup Ordinary \cup Endings \cup Docs \cup AtSteps \cup Finds

TypeOK ==
    /\ task \in [Requests -> Docs \cup {None}]
    /\ assigned \subseteq Notices
    /\ result \in [Requests -> Endings \cup {None}]
    /\ source \in [status : SourceStatus, marker : Requests \cup {None},
                   stopped : BOOLEAN]
    /\ claim \in Requests \cup Ordinary \cup {None}
    /\ turn \in [Ordinary -> {"idle", "waiting", "running"}]
    /\ listed \in [Requests -> Docs \cup {None}]
    /\ current \in AtSteps \cup {None}
    /\ dispatch \in [Requests -> DispatchSteps]
    /\ ending \in [Requests -> Endings \cup {None}]
    /\ found \in Finds \cup {None}
    /\ server \in [up : BOOLEAN, draining : BOOLEAN, recovered : BOOLEAN]
    /\ count \in [turns : 0..MaxTurns, drains : 0..MaxDrains, mishaps : 0..MaxMishaps]
    /\ begun \subseteq Requests /\ finished \subseteq Requests /\ unrecorded \subseteq Requests
    /\ lastRun \in Requests \cup {"ordinary"}

(* The last process died under an ordinary run of the source. *)
Init ==
    /\ task = [r \in Requests |-> None]
    /\ assigned = {}
    /\ result = [r \in Requests |-> None]
    /\ source = [status |-> "running", marker |-> None, stopped |-> FALSE]
    /\ claim = None
    /\ turn = [t \in Ordinary |-> "idle"]
    /\ listed = [r \in Requests |-> None]
    /\ current = None
    /\ dispatch = [r \in Requests |-> "no"]
    /\ ending = [r \in Requests |-> None]
    /\ found = None
    /\ server = [up |-> TRUE, draining |-> FALSE, recovered |-> FALSE]
    /\ count = [turns |-> 0, drains |-> 0, mishaps |-> 0]
    /\ begun = {} /\ finished = {} /\ unrecorded = {}
    /\ lastRun = "ordinary"

Created == {r \in Requests : task[r] # None}

----------------------------------------------------------------------------
(* Requests: the agent's tool creates and reassigns, the assignee responds. *)

(* create_staged_task under an _id made from the request key: a retry finds the
   first document and changes nothing. *)
InsertsOnce(r, doc) ==
    /\ r \notin Created
    /\ task' = [task EXCEPT ![r] = doc]

Create(r, p) ==
    /\ InsertsOnce(r, [state |-> "pending", version |-> 1, assignee |-> p,
                       notice |-> "pending", resume |-> "waiting", told |-> FALSE])
    /\ UNCHANGED <<assigned, result, sourceVars, sweepVars, dispatchVars,
                   found, server, count>>

(* update_one filtered by state and version: an assignment made with an older
   version is a conflict and changes nothing. *)
Assign(r, p, version) ==
    /\ r \in Created
    /\ task[r].state = "pending" /\ task[r].version = version
    /\ version < MaxVersion - 1
    /\ task' = [task EXCEPT ![r] = [@ EXCEPT !.assignee = p, !.notice = "pending",
                                             !.version = version + 1]]
    /\ UNCHANGED <<assigned, result, sourceVars, sweepVars, dispatchVars,
                   found, server, count>>

(* respond's filter: the answer counts for the version its page shows, while its
   author is the assignee. *)
MayAnswer(p, r, version) ==
    /\ task[r].state = "pending"
    /\ task[r].version = version
    /\ task[r].assignee = p

Respond(p, r, version) ==
    /\ server.up
    /\ r \in Created /\ MayAnswer(p, r, version)
    /\ task' = [task EXCEPT ![r] = [@ EXCEPT !.state = "answered", !.resume = "queued",
                                             !.version = version + 1]]
    /\ UNCHANGED <<assigned, result, sourceVars, sweepVars, dispatchVars, found,
                   server, count>>

----------------------------------------------------------------------------
(* tick: one list of documents, handled one after the other. *)

NeedsTick(d) ==
    \/ d.notice = "pending"
    \/ d.resume \in {"queued", "completed", "needs_review"} /\ ~d.told

TickReads ==
    /\ server.up /\ server.recovered
    /\ current = None /\ \A r \in Requests : listed[r] = None
    /\ \E r \in Created : NeedsTick(task[r])
    /\ listed' = [r \in Requests |->
                    IF r \in Created /\ NeedsTick(task[r]) THEN task[r] ELSE None]
    /\ UNCHANGED <<docVars, sourceVars, current, dispatchVars, found, server, count>>

(* The steps of a document follow from what the list says of it. *)
AfterNotice(d) == IF d.resume = "queued" THEN "resume" ELSE "tell"
FirstStep(d) == IF d.notice = "pending" THEN "notify" ELSE AfterNotice(d)

AtTick(r, step) ==
    \/ current = [req |-> r, step |-> step]
    \/ current = None /\ listed[r] # None /\ step = FirstStep(listed[r])
TickGoesOn(r, step) == current' = [req |-> r, step |-> step] /\ UNCHANGED listed
TickDrops(r) == current' = None /\ listed' = [listed EXCEPT ![r] = None]

(* create_notification under the dedupe key of the listed version. *)
Notifies(r) ==
    /\ AtTick(r, "notify")
    /\ LET d == listed[r]
       IN assigned' = IF \E n \in assigned : n.req = r /\ n.version = d.version
                      THEN assigned
                      ELSE assigned \cup {[req |-> r, version |-> d.version, to |-> d.assignee]}
    /\ TickGoesOn(r, "flag")
    /\ UNCHANGED <<task, result, sourceVars, dispatchVars, found, server, count>>

(* A bug this rules out: the flag set whatever version the document has now. *)
FlagsAnyVersion(r) == TRUE

(* The notice counts as sent only for the version that was listed. *)
FlagsNotice(r) ==
    task[r].version = listed[r].version

MarksNotified(r) ==
    /\ AtTick(r, "flag")
    /\ task' = [task EXCEPT ![r].notice = IF FlagsNotice(r) THEN "sent" ELSE @]
    /\ IF listed[r].resume \in {"waiting", "running"}
       THEN TickDrops(r) ELSE TickGoesOn(r, AfterNotice(listed[r]))
    /\ UNCHANGED <<assigned, result, sourceVars, dispatchVars, found, server, count>>

(* schedule: nothing for a request already being dispatched, or when full. *)
Schedules(r) ==
    /\ AtTick(r, "resume")
    /\ dispatch' = IF dispatch[r] = "no" /\ Cardinality({q \in Requests : dispatch[q] # "no"}) < MaxRunning
                   THEN [dispatch EXCEPT ![r] = "starting"] ELSE dispatch
    /\ TickDrops(r)
    /\ UNCHANGED <<docVars, sourceVars, ending, begun, finished, unrecorded, found, server, count>>

(* create_notification under the key of the request, then result_notice. *)
Tells(r) ==
    /\ AtTick(r, "tell")
    /\ IF result[r] = None
       THEN result' = [result EXCEPT ![r] = listed[r].resume] /\ UNCHANGED <<task, sweepVars>>
       ELSE task' = [task EXCEPT ![r].told = TRUE] /\ TickDrops(r) /\ UNCHANGED result
    /\ UNCHANGED <<assigned, sourceVars, dispatchVars, found, server, count>>

(* A write of the tick raised: on to the next document. *)
TickFails(r) ==
    /\ \E step \in TickSteps : AtTick(r, step)
    /\ count.mishaps < MaxMishaps
    /\ count' = [count EXCEPT !.mishaps = @ + 1]
    /\ TickDrops(r)
    /\ UNCHANGED <<docVars, sourceVars, dispatchVars, found, server>>

----------------------------------------------------------------------------
(* dispatch and run_source of one request. *)

At(r, step, next) == dispatch[r] = step /\ dispatch' = [dispatch EXCEPT ![r] = next]

(* is_draining, then try_claim, with no suspension in between. *)
DispatchClaims(r) ==
    /\ IF ~server.draining /\ claim = None
       THEN At(r, "starting", "taking") /\ claim' = r
       ELSE At(r, "starting", "no") /\ UNCHANGED claim
    /\ UNCHANGED <<docVars, source, turn, lastRun, sweepVars, ending, begun, finished, unrecorded,
                   found, server, count>>

(* A bug this rules out: the claim of the document trusts the list. *)
TakeableAsListed(r) == TRUE

(* update_one queued -> running: the document may be further than the list said. *)
Takeable(r) == task[r].resume = "queued"

DispatchTakes(r) ==
    /\ dispatch[r] = "taking"
    /\ IF Takeable(r)
       THEN At(r, "taking", "checking") /\ task' = [task EXCEPT ![r].resume = "running"]
       ELSE At(r, "taking", "leaving") /\ UNCHANGED task
    /\ UNCHANGED <<assigned, result, sourceVars, sweepVars, ending, begun, finished, unrecorded,
                   found, server, count>>

(* The source was stopped by its owner; or source_for or run_source's own checks
   find it deleted, its owner changed, its flow disabled, ... (external). *)
ChecksSource(r) ==
    /\ \/ /\ ~source.stopped
          /\ At(r, "checking", "marking")
          /\ UNCHANGED ending
       \/ /\ At(r, "checking", "recording")
          /\ ending' = [ending EXCEPT ![r] = "needs_review"]
    /\ UNCHANGED <<docVars, sourceVars, sweepVars, begun, finished, unrecorded, found, server, count>>

(* A bug this rules out: the source resumed without its marker. *)
SkipsMarker(r) ==
    /\ At(r, "marking", "resuming")
    /\ UNCHANGED <<docVars, sourceVars, sweepVars, ending, begun, finished, unrecorded,
                   found, server, count>>

(* metadata.human_task_resume_id, written before the source counts as running. *)
MarksSource(r) ==
    /\ At(r, "marking", "resuming")
    /\ source' = [source EXCEPT !.marker = r]
    /\ UNCHANGED <<docVars, claim, turn, lastRun, sweepVars, ending, begun, finished, unrecorded,
                   found, server, count>>

ResumesSource(r) ==
    /\ At(r, "resuming", "entering")
    /\ source' = [source EXCEPT !.status = "running"]
    /\ lastRun' = r
    /\ UNCHANGED <<docVars, claim, turn, sweepVars, ending, begun, finished, unrecorded,
                   found, server, count>>

(* stream_agent takes the claim of its own task and starts. *)
StartsAgent(r) ==
    /\ At(r, "entering", "agent")
    /\ begun' = begun \cup {r}
    /\ UNCHANGED <<docVars, sourceVars, sweepVars, ending, finished, unrecorded, found, server, count>>

(* finish clears the stored error, mark_interrupted and record_error replace
   it; a run that finds no account on a retry leaves the status alone. *)
RunEndsWith(status, stopped) ==
    source' = [source EXCEPT !.status = status,
                             !.stopped = IF status = "running" THEN @ ELSE stopped]
RunEnds ==
    \/ \E s \in {"running", "completed", "error"} : RunEndsWith(s, FALSE)
    \/ RunEndsWith("interrupted", TRUE)

AgentEnds(r) ==
    /\ At(r, "agent", "reading")
    /\ RunEnds
    /\ finished' = IF source'.status = "completed" THEN finished \cup {r} ELSE finished
    /\ UNCHANGED <<docVars, claim, turn, lastRun, sweepVars, ending, begun, unrecorded, found, server, count>>

(* A bug this rules out: a run that returned is taken for one that completed. *)
EndingAssumed == "completed"

(* The continuation counts as completed only if the conversation says so. *)
EndingRead == IF source.status = "completed" THEN "completed" ELSE "needs_review"

ReadsStatus(r) ==
    /\ At(r, "reading", "recording")
    /\ ending' = [ending EXCEPT ![r] = EndingRead]
    /\ UNCHANGED <<docVars, sourceVars, sweepVars, begun, finished, unrecorded, found, server, count>>

Records(r) ==
    /\ At(r, "recording", "leaving")
    /\ task' = [task EXCEPT ![r].resume = ending[r]]
    /\ ending' = [ending EXCEPT ![r] = None]
    /\ UNCHANGED <<assigned, result, sourceVars, sweepVars, begun, finished, unrecorded,
                   found, server, count>>

(* The last write raised: the request stays running until the next boot. *)
RecordFails(r) ==
    /\ At(r, "recording", "leaving")
    /\ count.mishaps < MaxMishaps
    /\ count' = [count EXCEPT !.mishaps = @ + 1]
    /\ ending' = [ending EXCEPT ![r] = None]
    /\ unrecorded' = unrecorded \cup {r}
    /\ UNCHANGED <<docVars, sourceVars, sweepVars, begun, finished, found, server>>

DispatchLeaves(r) ==
    /\ At(r, "leaving", "no")
    /\ claim' = None
    /\ UNCHANGED <<docVars, source, turn, lastRun, sweepVars, ending, begun, finished, unrecorded,
                   found, server, count>>

----------------------------------------------------------------------------
(* The source's ordinary runs, and the recovery sweep. *)

ChatStarts ==
    /\ server.up /\ ~server.draining
    /\ count.turns < MaxTurns
    /\ claim = None
    /\ claim' = "chat"
    /\ turn' = [turn EXCEPT !["chat"] = "running"]
    /\ source' = [source EXCEPT !.status = "running"]
    /\ lastRun' = "ordinary"
    /\ count' = [count EXCEPT !.turns = @ + 1]
    /\ UNCHANGED <<docVars, sweepVars, dispatchVars, found, server>>

TurnEnds(t) ==
    /\ turn[t] = "running"
    /\ turn' = [turn EXCEPT ![t] = "idle"]
    /\ claim' = None
    /\ RunEnds
    /\ UNCHANGED <<docVars, lastRun, sweepVars, dispatchVars, found, server, count>>

(* An observer's heartbeat runs from resume to the end of its run. *)
Beating ==
    \/ \E r \in Requests : dispatch[r] \in {"entering", "agent"}
    \/ \E t \in Ordinary : turn[t] # "idle"

SweepFinds ==
    /\ server.up /\ found = None
    /\ source.status = "running" /\ ~Beating
    /\ found' = [marker |-> source.marker, last |-> lastRun]
    /\ UNCHANGED <<docVars, sourceVars, sweepVars, dispatchVars, server, count>>

(* A marked conversation is a handoff: interrupted, never run again. *)
SweepMarksHandoff ==
    /\ found # None /\ found.marker # None
    /\ source' = [source EXCEPT !.status = "interrupted", !.stopped = FALSE]
    /\ found' = None
    /\ UNCHANGED <<docVars, claim, turn, lastRun, sweepVars, dispatchVars, server, count>>

(* A dashboard chat, or one beyond the recovery window. *)
SweepInterrupts ==
    /\ found # None /\ found.marker = None
    /\ source' = [source EXCEPT !.status = "interrupted", !.stopped = FALSE]
    /\ found' = None
    /\ UNCHANGED <<docVars, claim, turn, lastRun, sweepVars, dispatchVars, server, count>>

SweepResumes ==
    /\ found # None /\ found.marker = None
    /\ turn["recovered"] = "idle" /\ count.turns < MaxTurns
    /\ count' = [count EXCEPT !.turns = @ + 1]
    /\ turn' = [turn EXCEPT !["recovered"] = "waiting"]
    /\ source' = [source EXCEPT !.status = "running"]
    /\ lastRun' = "ordinary"
    /\ found' = None
    /\ UNCHANGED <<docVars, claim, sweepVars, dispatchVars, server>>

(* stream_agent of the recovered run gets the claim ... *)
RecoveredRuns ==
    /\ turn["recovered"] = "waiting" /\ claim = None
    /\ turn' = [turn EXCEPT !["recovered"] = "running"]
    /\ claim' = "recovered"
    /\ source' = [source EXCEPT !.status = "running"]
    /\ lastRun' = "ordinary"
    /\ UNCHANGED <<docVars, sweepVars, dispatchVars, found, server, count>>

(* ... or, if it had to wait and a deploy began, queues it for the next server. *)
RecoveredQueued ==
    /\ turn["recovered"] = "waiting" /\ claim = None /\ server.draining
    /\ turn' = [turn EXCEPT !["recovered"] = "idle"]
    /\ source' = [source EXCEPT !.status = "queued"]
    /\ UNCHANGED <<docVars, claim, lastRun, sweepVars, dispatchVars, found, server, count>>

----------------------------------------------------------------------------
(* The process. *)

SetDrain ==
    /\ server.up /\ ~server.draining
    /\ count.drains < MaxDrains
    /\ server' = [server EXCEPT !.draining = TRUE]
    /\ count' = [count EXCEPT !.drains = @ + 1]
    /\ UNCHANGED <<docVars, sourceVars, sweepVars, dispatchVars, found>>

ClearDrain ==
    /\ server.draining
    /\ server' = [server EXCEPT !.draining = FALSE]
    /\ UNCHANGED <<docVars, sourceVars, sweepVars, dispatchVars, found, count>>

ProcessEnds ==
    /\ server' = [up |-> FALSE, draining |-> FALSE, recovered |-> FALSE]
    /\ claim' = None
    /\ turn' = [t \in Ordinary |-> "idle"]
    /\ listed' = [r \in Requests |-> None] /\ current' = None
    /\ dispatch' = [r \in Requests |-> "no"]
    /\ ending' = [r \in Requests |-> None]
    /\ found' = None
    /\ UNCHANGED <<docVars, lastRun, begun, finished, unrecorded>>

(* mark_all_running_interrupted, then the tasks are cancelled. *)
Redeploy ==
    /\ server.draining
    /\ ProcessEnds
    /\ source' = IF source.status = "running"
                 THEN [source EXCEPT !.status = "interrupted", !.stopped = FALSE] ELSE source
    /\ UNCHANGED count

Crash ==
    /\ server.up
    /\ count.mishaps < MaxMishaps
    /\ count' = [count EXCEPT !.mishaps = @ + 1]
    /\ ProcessEnds
    /\ UNCHANGED source

Boot ==
    /\ ~server.up
    /\ server' = [server EXCEPT !.up = TRUE]
    /\ UNCHANGED <<docVars, sourceVars, sweepVars, dispatchVars, found, count>>

(* The bug this rules out: the last process's dispatches are left as they are. *)
GivenUpNever(d) == d

(* Before its first tick the worker gives up what the last process dispatched. *)
GivenUp(d) == IF d.resume = "running" THEN [d EXCEPT !.resume = "needs_review"] ELSE d

WorkerRecovers ==
    /\ server.up /\ ~server.recovered
    /\ task' = [r \in Requests |-> IF r \in Created THEN GivenUp(task[r]) ELSE None]
    /\ server' = [server EXCEPT !.recovered = TRUE]
    /\ UNCHANGED <<assigned, result, sourceVars, sweepVars, dispatchVars, found, count>>

----------------------------------------------------------------------------
TickStep ==
    \/ TickReads
    \/ \E r \in Requests : Notifies(r) \/ MarksNotified(r) \/ Schedules(r) \/ Tells(r)

DispatchStep(r) ==
    \/ DispatchClaims(r) \/ DispatchTakes(r) \/ ChecksSource(r)
    \/ MarksSource(r) \/ ResumesSource(r) \/ StartsAgent(r) \/ AgentEnds(r)
    \/ ReadsStatus(r) \/ Records(r) \/ DispatchLeaves(r)

RecoveryStep ==
    SweepFinds \/ SweepMarksHandoff \/ SweepInterrupts \/ SweepResumes

OrdinaryStep ==
    RecoveredRuns \/ RecoveredQueued \/ \E t \in Ordinary : TurnEnds(t)

DeployStep == ClearDrain \/ Redeploy

PeopleStep ==
    \E r \in Requests, p \in People :
        \/ Create(r, p)
        \/ \E v \in Versions : Assign(r, p, v) \/ Respond(p, r, v)

Mishap ==
    \/ Crash
    \/ \E r \in Requests : TickFails(r) \/ RecordFails(r)

Next ==
    \/ PeopleStep \/ TickStep \/ \E r \in Requests : DispatchStep(r)
    \/ RecoveryStep \/ ChatStarts \/ OrdinaryStep
    \/ SetDrain \/ DeployStep \/ Boot \/ WorkerRecovers \/ Mishap

Spec == Init /\ [][Next]_vars

(* The worker loops, asyncio resumes what is ready, runs end, a drain ends in a
   restart or is called off, the container comes back.  Nobody has to answer. *)
Fairness ==
    /\ WF_vars(TickStep) /\ WF_vars(WorkerRecovers) /\ WF_vars(Boot)
    /\ \A r \in Requests : WF_vars(DispatchStep(r))
    /\ WF_vars(OrdinaryStep) /\ WF_vars(DeployStep)

FairSpec == Spec /\ Fairness

----------------------------------------------------------------------------
(* Properties. *)

(* A request whose assignment counts as notified has told its current assignee,
   under the version of that assignment: a notification under way while the
   request is reassigned is not taken for the new assignee's. *)
NoticeReachesAssignee ==
    \A r \in Created : task[r].notice = "sent" =>
        \E n \in assigned : n.req = r /\ n.to = task[r].assignee

(* docs/human-tasks.md:85-87: an answer continues the source at most once, over
   stale lists, restarts and failures alike. *)
ContinuesOnce == [][\A r \in Requests : StartsAgent(r) => r \notin begun]_vars

(* recovery.py:246-247: the sweep never runs a conversation again whose last
   run was the continuation of a handoff. *)
HandoffNotReplayed == [][SweepResumes => found.last \notin Requests]_vars

(* The requester reads that the agent continued only if its run completed; a
   failed, stopped or interrupted one is reported for review. *)
CompletedIsTrue == \A r \in Requests : result[r] = "completed" => r \in finished

AnsweredOf(S) == {r \in S : task[r].state = "answered"}
ToldOf(S) == {r \in S : task[r].told}

(* Every answered request is continued or given up, and its requester told,
   unless the write that records the outcome fails. *)
AnsweredIsSettled ==
    \A r \in Requests : r \in AnsweredOf(Created)
                          ~> r \in unrecorded \/ r \in ToldOf(Created)

----------------------------------------------------------------------------
(* What the proofs in HumanTasksProofs know of every reachable state. *)

(* Whoever is past its claim holds it. *)
ClaimInv ==
    /\ \A r \in Requests : dispatch[r] \notin {"no", "starting"} => claim = r
    /\ \A t \in Ordinary : turn[t] = "running" => claim = t

(* The tick works on documents as they once were, and knows what to do next. *)
Earlier(old, new) ==
    /\ old.version <= new.version
    /\ old.version = new.version => old.assignee = new.assignee

TickInv ==
    /\ \A r \in Requests : listed[r] # None =>
         r \in Created /\ Earlier(listed[r], task[r]) /\ NeedsTick(listed[r])
    /\ current # None =>
         /\ listed[current.req] # None
         /\ current.step = "tell" => listed[current.req].resume \in Endings

(* A request that was taken stays answered and never becomes queued again. *)
Taken(r) ==
    /\ r \in Created
    /\ task[r].state = "answered"
    /\ task[r].resume \in {"running", "completed", "needs_review"}

OnceInv ==
    /\ \A r \in Created :
         /\ task[r].resume # "waiting" => task[r].state = "answered"
         /\ task[r].state = "pending" => task[r].version < MaxVersion
    /\ \A r \in begun : Taken(r)
    /\ \A r \in Requests :
         /\ dispatch[r] # "no" => r \in Created
         /\ dispatch[r] \notin {"no", "starting", "taking", "leaving"} => Taken(r)
         /\ dispatch[r] \in {"checking", "marking", "resuming", "entering"} => r \notin begun
         /\ dispatch[r] = "recording" => ending[r] # None

(* Nothing says completed of a request whose run did not complete. *)
OutcomeInv ==
    \A r \in Requests :
        (\/ r \in Created /\ task[r].resume = "completed"
         \/ listed[r] # None /\ listed[r].resume = "completed"
         \/ ending[r] = "completed" \/ result[r] = "completed"
         \/ dispatch[r] = "reading" /\ source.status = "completed")
        => r \in finished

(* A notification tells of an assignment the request has or had. *)
TellsOf(n, d) == n.version = d.version => n.to = d.assignee

NoticeInv ==
    /\ \A n \in assigned :
         /\ n.req \in Created /\ n.version <= task[n.req].version
         /\ TellsOf(n, task[n.req])
         /\ listed[n.req] # None => TellsOf(n, listed[n.req])
    /\ current # None /\ current.step = "flag" =>
         \E n \in assigned : /\ n.req = current.req
                             /\ n.version = listed[current.req].version
    /\ NoticeReachesAssignee

(* A conversation last run by a handoff is marked, and so is what the sweep reads. *)
MarkerInv ==
    /\ lastRun \in Requests => source.marker # None
    /\ \A r \in Requests : dispatch[r] = "resuming" => source.marker # None
    /\ found # None /\ found.last \in Requests => found.marker # None

============================================================================
