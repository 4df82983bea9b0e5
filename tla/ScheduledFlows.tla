---- MODULE ScheduledFlows ----
(***************************************************************************)
(* ONE scheduled flow: its document in MongoDB, its job in the in-memory   *)
(* APScheduler, and the executions that the trigger, the owner and a boot  *)
(* start: scheduler/engine.py, scheduler/executor.py, the routes of        *)
(* api/flow_routes.py and, for the flow of a bounded work, those of        *)
(* api/bounded_work_routes.py, through drains, deploys and crashes.        *)
(*                                                                         *)
(* A step between two awaits is one action and a write takes effect when   *)
(* it is issued.  A flow runs once, at a time after which its trigger may  *)
(* still fire for 300 s, or recurs.                                        *)
(*                                                                         *)
(* No route checks a schedule, _add_job_for_flow swallows what it raises,  *)
(* and MongoDB returns times without their zone.  The schedule is "sound"  *)
(* when the job made of it is the one that was meant: the cron expression  *)
(* and the zone parse, there is no end_time, and the zone of a one-off     *)
(* time is UTC.  Of any other schedule there may or may not be a job, and  *)
(* it may fire at any time or end.                                         *)
(*                                                                         *)
(* External: APScheduler (fires a due job at once, drops one that is more  *)
(* than 300 s late, starts no second instance of a job), the agent and the *)
(* account checks (either may fail), the owner, and the deploy script.     *)
(***************************************************************************)
EXTENDS Naturals, FiniteSets

CONSTANTS Kinds,        \* schedule types in use
          Tasks,        \* executions that may be in progress at once
          Requests,     \* requests the owner may make
          Ops,          \* what they may ask
          Clearable,    \* whether a drain may be cancelled
          Failing,      \* whether checks and agents may fail
          MaxFires,     \* bound on the times a recurring trigger fires
          MaxDrains,    \* bound on drains
          MaxStops      \* bound on deploys and crashes

ASSUME KindsAssumption == Kinds \subseteq {"once", "recurring"}
ASSUME TasksAssumption == IsFiniteSet(Tasks)
ASSUME OpsAssumption ==
    Ops \subseteq {"pause", "resume", "reschedule", "patch", "delete", "run_now"}
ASSUME BoundsAssumption ==
    /\ Clearable \in BOOLEAN /\ Failing \in BOOLEAN
    /\ MaxFires \in Nat /\ MaxDrains \in Nat /\ MaxStops \in Nat

VARIABLES flow,         \* the flow document
          job,          \* the scheduler has a job for the flow that will fire
          clock,        \* of a sound one-off time: "before" it, in "grace", "past"
          server,       \* "up", "booting", "down"
          draining,
          task,         \* execute_flow coroutines
          req,          \* the owner's requests
          bounds,       \* how often the bounded events happened
          owed,         \* history: fired and neither run nor taken back by the owner
          moved,        \* history: the owner changed the schedule
          starts,       \* history: until then, one-off runs begun but the owner's own
          fired,        \* history: until then, the job of a one-off flow fired
          again,        \* history: until then, one-off jobs added after it had fired,
                        \* and runs of the owner's own that were deferred
          crossed,      \* history: requests overlapped, or one patched the status
          cut,          \* history: a stop hit an execution, or a boot half way
          undrained     \* history: a drain was cancelled while the flow was deferred

ghosts == <<owed, moved, starts, fired, again, crossed, cut, undrained>>
vars == <<flow, job, clock, server, draining, task, req, bounds, ghosts>>

Idle == [at |-> "idle", source |-> "none", kind |-> "none"]
NoRequest == [at |-> "none", op |-> "none", status |-> "none"]
Statuses == {"active", "paused", "completed", "deleted"}

TypeOK ==
    /\ flow \in [kind : Kinds, sound : BOOLEAN, bounded : BOOLEAN,
                status : Statuses, deferred : BOOLEAN]
    /\ job \in BOOLEAN /\ clock \in {"before", "grace", "past"}
    /\ server \in {"up", "booting", "down"} /\ draining \in BOOLEAN
    /\ task \in [Tasks -> [at : {"idle", "new", "checking", "running", "ending"},
                           source : {"none", "trigger", "deferred", "owner"},
                           kind : Kinds \cup {"none"}]]
    /\ req \in [Requests -> [at : {"none", "written", "over"}, op : Ops \cup {"none"},
                             status : Statuses \cup {"none"}]]
    /\ bounds \in [fires : 0..MaxFires, drains : 0..MaxDrains, stops : 0..MaxStops]
    /\ owed \in BOOLEAN /\ moved \in BOOLEAN /\ fired \in BOOLEAN
    /\ starts \in Nat /\ again \in Nat
    /\ crossed \in BOOLEAN /\ cut \in BOOLEAN /\ undrained \in BOOLEAN
    /\ server # "up" => ~draining /\ \A q \in Requests : req[q].at # "written"

Active == flow.status = "active"

(* What a schedule's time may be, as far as the clock tells. *)
Times(kind, sound) == IF kind = "once" /\ sound THEN {"before", "grace", "past"} ELSE {"before"}

(* _add_job_for_flow; a one-off job that is too late is dropped at once. *)
Added == IF flow.sound THEN {flow.kind = "once" => clock # "past"} ELSE BOOLEAN

(* A flow that was just created; that of a bounded work is not enabled yet. *)
Init ==
    /\ flow \in [kind : Kinds, sound : BOOLEAN, bounded : BOOLEAN,
                 status : {"active", "paused"}, deferred : {FALSE}]
    /\ flow.status = IF flow.bounded THEN "paused" ELSE "active"
    /\ flow.bounded => flow.kind = "recurring"
    /\ clock \in Times(flow.kind, flow.sound)
    /\ job \in IF Active THEN Added ELSE {FALSE}
    /\ server = "up" /\ draining = FALSE
    /\ task = [t \in Tasks |-> Idle] /\ req = [q \in Requests |-> NoRequest]
    /\ bounds = [fires |-> 0, drains |-> 0, stops |-> 0]
    /\ owed = FALSE /\ moved = FALSE /\ starts = 0 /\ fired = FALSE /\ again = 0
    /\ crossed = FALSE /\ cut = FALSE /\ undrained = FALSE

----------------------------------------------------------------------------
(* Helpers. *)

Counted(what) == bounds' = [bounds EXCEPT ![what] = @ + 1]
At(t, place) == task[t].at = place
Go(t, place) == task' = [task EXCEPT ![t].at = place]
End(t) == task' = [task EXCEPT ![t] = Idle]

(* asyncio.create_task(execute_flow(...)), or the scheduler's own call; tasks,
   and requests, are interchangeable, so any free one will do. *)
Spawn(t, source) ==
    /\ At(t, "idle") /\ t = CHOOSE u \in Tasks : At(u, "idle")
    /\ task' = [task EXCEPT ![t] = [at |-> "new", source |-> source, kind |-> "none"]]

(* A new schedule is written before the old job is replaced. *)
Replacing == \E q \in Requests : req[q].at = "written" /\ req[q].op = "reschedule"
Triggers == job /\ (flow.kind = "once" /\ flow.sound => clock = "grace" \/ Replacing)

(* The counts of runs and jobs end when the schedule is changed. *)
Plus(count) == IF moved THEN count ELSE count + 1

(* A one-off job was added although one had fired before. *)
AddsAgain == job' /\ flow.kind = "once" /\ fired

(* max_instances=1 *)
Busy == \E t \in Tasks : task[t].source = "trigger"

----------------------------------------------------------------------------
(* The scheduler. *)

(* The time of a one-off flow comes; while the process lives, its job fires
   before the grace period is over. *)
TimePasses ==
    /\ flow.kind = "once" /\ flow.sound
    /\ \/ clock = "before" /\ clock' = "grace"
       \/ clock = "grace" /\ ~(job /\ server # "down") /\ clock' = "past"
    /\ UNCHANGED <<flow, job, server, draining, task, req, bounds, ghosts>>

(* _process_jobs: a one-off job is used up.  An instance that still runs
   keeps the new one from starting. *)
Fire(t) ==
    /\ server # "down" /\ Triggers
    /\ IF flow.kind = "once" THEN job' = FALSE /\ UNCHANGED bounds
       ELSE bounds.fires < MaxFires /\ Counted("fires") /\ UNCHANGED job
    /\ fired' = (fired \/ (flow.kind = "once" /\ ~moved))
    /\ IF Busy THEN UNCHANGED <<task, owed>> ELSE Spawn(t, "trigger") /\ owed' = TRUE
    /\ UNCHANGED <<flow, clock, server, draining, req, moved, starts, again, crossed, cut, undrained>>

(* end_time passes; the flow stays active. *)
JobEnds ==
    /\ server # "down" /\ job /\ flow.kind = "recurring" /\ ~flow.sound
    /\ job' = FALSE
    /\ UNCHANGED <<flow, clock, server, draining, task, req, bounds, ghosts>>

----------------------------------------------------------------------------
(* execute_flow. *)

(* A deploy's drain holds every flow back but that of a bounded work. *)
Defers == draining /\ ~flow.bounded

(* Mutant: a flow that fires while draining is only skipped. *)
ReadFlowOrSkip(t) ==
    /\ At(t, "new")
    /\ IF ~Active \/ Defers THEN End(t)
       ELSE task' = [task EXCEPT ![t].at = "checking", ![t].kind = flow.kind]
    /\ owed' = (owed /\ Active)
    /\ UNCHANGED <<flow, job, clock, server, draining, req, bounds,
                   moved, starts, fired, again, crossed, cut, undrained>>

(* Not active: nothing.  Draining: flagged for the next server. *)
ReadFlow(t) ==
    /\ At(t, "new")
    /\ IF Active /\ ~Defers
       THEN task' = [task EXCEPT ![t].at = "checking", ![t].kind = flow.kind]
       ELSE End(t)
    /\ flow' = IF Active /\ Defers THEN [flow EXCEPT !.deferred = TRUE] ELSE flow
    /\ again' = IF Active /\ Defers /\ task[t].source = "owner" THEN Plus(again) ELSE again
    /\ owed' = (owed /\ Active)
    /\ UNCHANGED <<job, clock, server, draining, req, bounds, moved, starts, fired, crossed, cut, undrained>>

(* The execution account or the agent is refused, or the bounded work is paused
   or revoked; only last_error says so, if anything. *)
CheckFails(t) ==
    /\ At(t, "checking") /\ Failing /\ End(t)
    /\ owed' = (owed /\ task[t].source = "owner")
    /\ UNCHANGED <<flow, job, clock, server, draining, req, bounds,
                   moved, starts, fired, again, crossed, cut, undrained>>

(* observer.start: from here on a deploy waits for the run.  A bounded work's
   run is queued for its own worker instead. *)
Begin(t) ==
    /\ At(t, "checking") /\ IF flow.bounded THEN End(t) ELSE Go(t, "running")
    /\ owed' = (owed /\ task[t].source = "owner")
    /\ starts' = IF task[t].source = "owner" \/ task[t].kind # "once" THEN starts ELSE Plus(starts)
    /\ UNCHANGED <<flow, job, clock, server, draining, req, bounds, moved, fired, again, crossed, cut, undrained>>

(* record_error: the flow stays active. *)
RunFails(t) ==
    /\ At(t, "running") /\ Failing /\ End(t)
    /\ UNCHANGED <<flow, job, clock, server, draining, req, bounds, ghosts>>

(* observer.finish *)
RunFinishes(t) ==
    /\ At(t, "running") /\ Go(t, "ending")
    /\ UNCHANGED <<flow, job, clock, server, draining, req, bounds, ghosts>>

(* Mutant: any finished run takes the job away. *)
CompleteAnyKind(t) ==
    /\ At(t, "ending") /\ End(t) /\ job' = FALSE
    /\ flow' = IF task[t].kind = "once" /\ flow.status # "deleted"
               THEN [flow EXCEPT !.status = "completed"] ELSE flow
    /\ owed' = (owed /\ task[t].kind # "once")
    /\ UNCHANGED <<clock, server, draining, req, bounds, moved, starts, fired, again, crossed, cut, undrained>>

(* By the schedule type read before the run; whatever the status is by now. *)
Complete(t) ==
    /\ At(t, "ending") /\ End(t)
    /\ IF task[t].kind = "once"
       THEN /\ job' = FALSE /\ owed' = FALSE
            /\ flow' = IF flow.status = "deleted" THEN flow
                       ELSE [flow EXCEPT !.status = "completed"]
       ELSE UNCHANGED <<flow, job, owed>>
    /\ UNCHANGED <<clock, server, draining, req, bounds, moved, starts, fired, again, crossed, cut, undrained>>

----------------------------------------------------------------------------
(* The owner.  A handler writes the document, then sets the job right. *)

Overlaps(q) == \E p \in Requests \ {q} : req[p].at = "written"

Written(q, op, status) ==
    /\ server = "up" /\ op \in Ops /\ flow.status # "deleted"
    /\ req[q].at = "none" /\ q = CHOOSE p \in Requests : req[p].at = "none"
    /\ req' = [req EXCEPT ![q] = [at |-> "written", op |-> op, status |-> status]]
    /\ owed' = (owed /\ (op = "run_now" \/ status = "active"))
    /\ UNCHANGED <<server, draining, bounds, cut, undrained>>

Pause(q) ==
    /\ Written(q, "pause", "paused") /\ flow' = [flow EXCEPT !.status = "paused"]
    /\ crossed' = (crossed \/ Overlaps(q))
    /\ UNCHANGED <<job, clock, task, moved, starts, fired, again>>

Resume(q) ==
    /\ Written(q, "resume", "active") /\ flow' = [flow EXCEPT !.status = "active"]
    /\ crossed' = (crossed \/ Overlaps(q))
    /\ UNCHANGED <<job, clock, task, moved, starts, fired, again>>

(* A new schedule, of any kind and time; that of a bounded work may pause it. *)
Reschedule(q) ==
    /\ \E k \in Kinds, b \in BOOLEAN,
          s \in {flow.status} \cup (IF flow.bounded THEN {"paused"} ELSE {}) :
         /\ Written(q, "reschedule", s)
         /\ flow' = [flow EXCEPT !.kind = k, !.sound = b, !.status = s]
         /\ clock' \in Times(k, b)
    /\ crossed' = (crossed \/ Overlaps(q))
    /\ moved' = TRUE /\ starts' = 0 /\ fired' = FALSE /\ again' = 0
    /\ UNCHANGED <<job, task>>

(* The job goes first, then the document. *)
Delete(q) ==
    /\ Written(q, "delete", "deleted") /\ job' = FALSE
    /\ crossed' = (crossed \/ Overlaps(q))
    /\ UNCHANGED <<flow, clock, task, moved, starts, fired, again>>

(* PATCH of the status alone leaves the scheduler as it is; agents' work is
   refused. *)
Patch(q) ==
    /\ ~flow.bounded
    /\ \E s \in {"active", "paused"} :
         Written(q, "patch", s) /\ flow' = [flow EXCEPT !.status = s]
    /\ crossed' = TRUE
    /\ UNCHANGED <<job, clock, task, moved, starts, fired, again>>

RunNow(q, t) ==
    /\ Written(q, "run_now", "none") /\ Active /\ Spawn(t, "owner")
    /\ UNCHANGED <<flow, job, clock, crossed, moved, starts, fired, again>>

(* The rest of the handler, with the status its write returned. *)
Respond(q) ==
    LET r == req[q]
        adds == r.op \in {"resume", "reschedule"} /\ r.status = "active"
    IN  /\ r.at = "written" /\ req' = [req EXCEPT ![q].at = "over"]
        /\ job' \in IF r.op = "reschedule" \/ adds THEN IF adds THEN Added ELSE {FALSE}
                   ELSE {job /\ r.op # "pause"}
        /\ flow' = IF r.op = "delete" THEN [flow EXCEPT !.status = "deleted"] ELSE flow
        /\ again' = IF adds /\ AddsAgain THEN Plus(again) ELSE again
        /\ UNCHANGED <<clock, server, draining, task, bounds, owed, moved, starts, fired, crossed, cut, undrained>>

----------------------------------------------------------------------------
(* Deploys and crashes. *)

Drain ==
    /\ server = "up" /\ ~draining /\ bounds.drains < MaxDrains /\ Counted("drains")
    /\ draining' = TRUE
    /\ UNCHANGED <<flow, job, clock, server, task, req, ghosts>>

(* An aborted deploy starts what was queued (PendingRuns), but no flow. *)
ClearDrain ==
    /\ Clearable /\ draining /\ draining' = FALSE
    /\ undrained' = (undrained \/ flow.deferred)
    /\ UNCHANGED <<flow, job, clock, server, task, req, bounds, owed, moved, starts, fired, again, crossed, cut>>

(* The container is replaced, or the process dies. *)
Stop ==
    /\ server # "down" /\ bounds.stops < MaxStops /\ Counted("stops")
    /\ server' = "down" /\ draining' = FALSE /\ job' = FALSE
    /\ task' = [t \in Tasks |-> Idle]
    /\ req' = [q \in Requests |-> IF req[q].at = "written" THEN [req[q] EXCEPT !.at = "over"]
                                  ELSE req[q]]
    /\ crossed' = (crossed \/ \E q \in Requests : req[q].at = "written")
    /\ cut' = (cut \/ server = "booting" \/ \E t \in Tasks : ~At(t, "idle"))
    /\ UNCHANGED <<flow, clock, owed, moved, starts, fired, again, undrained>>

(* init_scheduler loads the active flows and adds their jobs;
   _run_deferred_flows clears the deferrals ... *)
Boot ==
    /\ server = "down"
    /\ job' \in IF Active THEN Added ELSE {FALSE}
    /\ again' = IF AddsAgain THEN Plus(again) ELSE again
    /\ IF Active /\ flow.deferred
       THEN server' = "booting" /\ flow' = [flow EXCEPT !.deferred = FALSE]
       ELSE server' = "up" /\ UNCHANGED flow
    /\ UNCHANGED <<clock, draining, task, req, bounds, owed, moved, starts, fired, crossed, cut, undrained>>

(* ... and then starts them. *)
RunDeferred(t) ==
    /\ server = "booting" /\ server' = "up" /\ Spawn(t, "deferred")
    /\ UNCHANGED <<flow, job, clock, draining, req, bounds, ghosts>>

----------------------------------------------------------------------------
Execution(t) ==
    \/ ReadFlow(t) \/ CheckFails(t) \/ Begin(t)
    \/ RunFails(t) \/ RunFinishes(t) \/ Complete(t)

Request(q) ==
    \/ Pause(q) \/ Resume(q) \/ Reschedule(q) \/ Patch(q) \/ Delete(q)
    \/ \E t \in Tasks : RunNow(q, t)

(* A drain ends in a deploy or is cancelled, and a stopped server boots. *)
DrainEnds == draining /\ (Stop \/ ClearDrain)

Progress ==
    \/ \E t \in Tasks : Execution(t) \/ RunDeferred(t)
    \/ \E t \in Tasks : flow.kind = "once" /\ flow.sound /\ Fire(t)
    \/ (\E q \in Requests : Respond(q)) \/ Boot \/ DrainEnds

Next == Progress \/ TimePasses \/ JobEnds \/ Drain \/ Stop
        \/ (\E q \in Requests : Request(q)) \/ (\E t \in Tasks : Fire(t))

Spec == Init /\ [][Next]_vars

(* The event loop runs every ready task, agents end, APScheduler fires due
   jobs, the deploy script ends its drain, and Docker restarts the server. *)
FairSpec == Spec /\ WF_vars(Progress)

----------------------------------------------------------------------------
(* A one-off flow whose schedule is not changed is run once, deferral or not,
   whatever job its schedule gave.  A job added after one had fired (by a
   server that boots, or a resume) may run it once more; so may a run of the
   owner's own that a drain deferred. *)
OnceRunsOnce == starts <= 1 + again

(* With no request in progress, an active flow of a sound schedule whose time
   has not come has a job, unless requests overlapped or one patched the
   status alone.  Of any other schedule there may be none. *)
ActiveIsScheduled ==
    server = "up" /\ Active /\ flow.sound /\ (flow.kind = "once" => clock = "before")
    /\ (\A q \in Requests : req[q].at # "written") => job \/ crossed

(* The invariant of a flow: its parts together. *)
ScheduleIsKept == TypeOK /\ OnceRunsOnce /\ ActiveIsScheduled

(* "deferred, not skipped": a flow that fired is run, through drains and
   deploys, as long as it stays active, no execution or boot was cut short
   and no drain was cancelled. *)
FiredIsRun == owed ~> ~owed \/ ~Active \/ cut \/ undrained

============================================================================
