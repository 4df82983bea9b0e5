---- MODULE BoundedWork ----
(***************************************************************************)
(* The runs of ONE job of bounded agent work, from the event that triggers *)
(* one to its end: autonomy/core.py, autonomy/worker.py, autonomy/costs.py *)
(* and the routes of api/bounded_work_routes.py.  An event is delivered at *)
(* least once; a request reserves the job's only slot and inserts a run.   *)
(* Workers lease a run, pay for one model call out of the root's budgets,  *)
(* save the decision and carry it out.  A root may delegate a step to a    *)
(* child run and waits for it.  BoundedActions has what happens when the   *)
(* decision is an external action; here that is one more way to end a step.*)
(*                                                                         *)
(* A step between two awaits is one action, except that a read which only  *)
(* decides whether to go on is joined to the conditional write after it.   *)
(* Runs, budgets and the job are MongoDB documents and survive a crash.    *)
(*                                                                         *)
(* External: whoever sends events, the planner (any decision) and the      *)
(* provider (a call may be billed and still fail).                         *)
(***************************************************************************)
EXTENDS Naturals, FiniteSets

CONSTANTS Events,       \* trigger keys; each is a root run of the job
          Repeated,     \* events that are delivered twice
          Fallible,     \* events whose first request may die half way
          Delegating,   \* events whose run the planner may delegate from
          Expiring,     \* roots whose deadline may pass
          Stoppable,    \* roots the owner may stop
          Revocable,    \* whether the owner may revoke the job
          Workers,
          Slow,         \* workers whose step may outlast its 120 s lease
          Ops,          \* what the planner may decide
          Bills,        \* what one model call may cost
          Reserved,     \* costs.reserve: the ceiling held for one call
          Cap,          \* the root's cost budget
          MaxSteps,     \* step budget, and model-call budget of the root
          MaxRetries,   \* max_planner_retries
          MaxCrashes,   \* bound on worker crashes
          None

ASSUME EventsAssumption ==
    /\ Repeated \subseteq Events /\ Fallible \subseteq Events
    /\ Delegating \subseteq Events /\ Expiring \subseteq Events /\ Stoppable \subseteq Events
    /\ Revocable \in BOOLEAN
ASSUME WorkersAssumption == IsFiniteSet(Workers) /\ Slow \subseteq Workers
ASSUME OpsAssumption == Ops \subseteq {"done", "input", "again", "delegate"}
ASSUME BudgetAssumption ==
    /\ Bills \subseteq Nat /\ Reserved \in Nat /\ Cap \in Nat
    /\ MaxSteps \in Nat /\ MaxRetries \in Nat /\ MaxCrashes \in Nat
ASSUME NoneAssumption == None \notin Events \cup Workers

VARIABLES run,        \* agent_runs
          budget,     \* the call counter and the cost ledger of each root
          cleaned,    \* roots marked cleanup_done
          active,     \* agent_work.active_run
          overdue,    \* reserved_at is more than two minutes old
          revoked,    \* agent_work.revoked
          late,       \* roots whose deadline has passed
          req,        \* the requests that deliver an event
          wk,         \* the tick each worker is in
          stopping,   \* the owner's cancel or revoke in progress
          crashes,
          billed,     \* history: what the provider charged for a root's calls
          over,       \* history: roots with a call billed over its ceiling
          told,       \* history: the notices the owner was given
          lapsed      \* history: a slot was released whose run was there after all

job == <<active, overdue, revoked>>
ghosts == <<billed, over, told, lapsed>>
vars == <<run, budget, cleaned, job, late, req, wk, stopping, crashes, ghosts>>

Steps == 0..(MaxSteps - 1)
Children == Events \X Steps           \* a child is named by its parent's step
Ids == Events \cup Children
ASSUME NamesAssumption == Events \cap Children = {}
Root(i) == IF i \in Events THEN i ELSE i[1]
ChildrenOf(e) == {e} \X Steps
Requests == (Events \X {1}) \cup (Repeated \X {2})

Terminal == {"done", "cancelled", "failed"}
Statuses == {"none", "queued", "running", "needs_input", "waiting_child"} \cup Terminal
Attention == {"needs_input", "failed", "done"}
Places == {"idle", "waking", "releasing", "reserving", "calling", "deciding", "acting",
           "hiring", "parking", "retrying", "failing"}
Idle == [at |-> "idle", run |-> None, step |-> 0, dec |-> "none"]
Nobody == [at |-> "none", ids |-> {}, revoke |-> FALSE]
Stopped == [Nobody EXCEPT !.at = "over"]

TypeOK ==
    /\ run \in [Ids -> [status : Statuses, step : 0..MaxSteps, dec : Ops \cup {"none"},
                        lease : Workers \cup {None}, fresh : BOOLEAN, retries : 0..MaxRetries,
                        noticed : Attention \cup {"none"}, tainted : BOOLEAN]]
    /\ budget \in [Events -> [calls : 0..MaxSteps, committed : Nat, blocked : BOOLEAN]]
    /\ cleaned \subseteq Events /\ late \subseteq Expiring
    /\ active \in Events \cup {None} /\ overdue \in BOOLEAN /\ revoked \in BOOLEAN
    /\ req \in [Requests -> [at : {"new", "reserving", "inserting", "over"},
                             tainted : BOOLEAN]]
    /\ wk \in [Workers -> [at : Places, run : Ids \cup {None}, step : 0..MaxSteps,
                           dec : Ops \cup {"none"}]]
    /\ stopping \in [at : {"none", "listed", "marking", "over"}, ids : SUBSET Ids, revoke : BOOLEAN]
    /\ crashes \in 0..MaxCrashes
    /\ billed \in [Events -> Nat] /\ over \subseteq Events
    /\ told \subseteq Ids \X Attention \X (0..MaxSteps) /\ lapsed \in BOOLEAN

NoRun == [status |-> "none", step |-> 0, dec |-> "none", lease |-> None, fresh |-> FALSE,
          retries |-> 0, noticed |-> "none", tainted |-> FALSE]

Init ==
    /\ run = [i \in Ids |-> NoRun]
    /\ budget = [e \in Events |-> [calls |-> 0, committed |-> 0, blocked |-> FALSE]]
    /\ cleaned = {} /\ late = {} /\ active = None /\ overdue = FALSE /\ revoked = FALSE
    /\ req = [q \in Requests |-> [at |-> "new", tainted |-> FALSE]]
    /\ wk = [w \in Workers |-> Idle] /\ stopping = Nobody /\ crashes = 0
    /\ billed = [e \in Events |-> 0] /\ over = {} /\ told = {} /\ lapsed = FALSE

----------------------------------------------------------------------------
(* Helpers. *)

Ended(i) == run[i].status \in Terminal
Live(i) == run[i].status \notin Terminal \cup {"none"}

(* current_authority: the run is live and in time, the job not revoked, and a
   child's root is live too; a worker must also still hold its lease in time. *)
Authority(i) == Live(i) /\ Root(i) \notin late /\ ~revoked /\ Live(Root(i))
Authorized(w) == LET i == wk[w].run IN Authority(i) /\ run[i].lease = w /\ run[i].fresh

(* The model calls of a root and its children are counted together. *)
MayCall(e) == budget[e].calls < MaxSteps

(* The guard of advance and of the write that fails a run. *)
Holds(w) == run[wk[w].run].lease = w /\ run[wk[w].run].status = "running"

At(w, place) == wk[w].at = place
Go(w, place) == wk' = [wk EXCEPT ![w].at = place]
Act(w, d) == wk' = [wk EXCEPT ![w].at = "acting", ![w].dec = d]
Leave(w) == wk' = [wk EXCEPT ![w] = Idle]
WithStatus(r, status) == [r EXCEPT !.status = status, !.lease = None, !.fresh = FALSE]

(* Mutant: notification_status is not reset. *)
AfterAdvanceKeepsNotice(r) == r

(* Every advance of a run makes its next notice due. *)
AfterAdvance(r) == [r EXCEPT !.noticed = "none"]

(* advance, then the end of the tick.  A run that changed hands or ended makes
   it raise, and the step fails instead. *)
Advance(w, status, step, dec, retries) ==
    IF Holds(w)
    THEN /\ run' = [run EXCEPT ![wk[w].run] =
                       AfterAdvance([WithStatus(@, status) EXCEPT
                                        !.step = step, !.dec = dec, !.retries = retries])]
         /\ Leave(w)
    ELSE Go(w, "failing") /\ UNCHANGED run

DbOnly == UNCHANGED <<req, wk, stopping, crashes, ghosts>>
StepOnly == UNCHANGED <<cleaned, job, late, req, stopping, crashes, ghosts>>

----------------------------------------------------------------------------
(* Triggers: core.enqueue for an event.  Paused and revoked are read from the
   job once, at the start; the job as it was read becomes the run's snapshot,
   its active_run included. *)

GoReq(q, place) == req' = [req EXCEPT ![q].at = place]
ReqOnly == UNCHANGED <<cleaned, revoked, late, wk, stopping, crashes, budget, ghosts>>

(* The job is read, and whether the event already has a run, which is returned. *)
Receive(q) ==
    /\ req[q].at = "new" /\ ~revoked
    /\ req' = [req EXCEPT ![q] = [tainted |-> active # None,
                   at |-> IF run[q[1]].status = "none" THEN "reserving" ELSE "over"]]
    /\ UNCHANGED <<run, active, overdue>> /\ ReqOnly

Reserve(q) ==
    /\ req[q].at = "reserving"
    /\ IF active \in {None, q[1]}
       THEN active' = q[1] /\ overdue' = FALSE /\ GoReq(q, "inserting")
       ELSE GoReq(q, "over") /\ UNCHANGED <<active, overdue>>
    /\ UNCHANGED run /\ ReqOnly

(* $setOnInsert: a run that is there is left alone. *)
Insert(q) ==
    /\ req[q].at = "inserting" /\ GoReq(q, "over")
    /\ run' = IF run[q[1]].status # "none" THEN run
              ELSE [run EXCEPT ![q[1]].status = "queued", ![q[1]].tainted = req[q].tainted]
    /\ UNCHANGED <<active, overdue>> /\ ReqOnly

RequestDies(q) ==
    /\ q[1] \in Fallible /\ q[2] = 1 /\ req[q].at = "inserting"
    /\ GoReq(q, "over") /\ UNCHANGED <<run, active, overdue>> /\ ReqOnly

----------------------------------------------------------------------------
(* The sweeps at the start of a tick.  Those that read and then write under a
   filter that pins what was read are one action; the two that do not are two
   actions, and the worker carries what it read from one to the other. *)

Expire(i) ==
    /\ Live(i) /\ Root(i) \in late
    /\ run' = [run EXCEPT ![i] = WithStatus(@, "failed")]
    /\ UNCHANGED <<budget, cleaned, job, late>> /\ DbOnly

(* Mutant: a child that waits for an answer is left out. *)
EndBusyChildren(e) ==
    /\ Ended(e) /\ e \notin cleaned
    /\ cleaned' = cleaned \cup {e}
    /\ run' = [i \in Ids |-> IF i \in ChildrenOf(e) /\ run[i].status \in {"queued", "running"}
                             THEN WithStatus(run[i], "cancelled") ELSE run[i]]
    /\ UNCHANGED <<budget, job, late>> /\ DbOnly

EndChildren(e) ==
    /\ Ended(e) /\ e \notin cleaned
    /\ cleaned' = cleaned \cup {e}
    /\ run' = [i \in Ids |-> IF i \in ChildrenOf(e) /\ Live(i)
                             THEN WithStatus(run[i], "cancelled") ELSE run[i]]
    /\ UNCHANGED <<budget, job, late>> /\ DbOnly

(* The outbox: an upsert by run, status and step, then the mark. *)
Notify(i) ==
    /\ run[i].status \in Attention /\ run[i].noticed # run[i].status
    /\ told' = told \cup {<<i, run[i].status, run[i].step>>}
    /\ run' = [run EXCEPT ![i].noticed = run[i].status]
    /\ UNCHANGED <<budget, cleaned, job, late, req, wk, stopping, crashes, billed, over, lapsed>>

(* Mutant: any run that is not running gives its slot up. *)
ReleaseNotRunning ==
    /\ active # None /\ run[active].status # "running"
    /\ active' = None /\ overdue' = FALSE
    /\ UNCHANGED <<run, budget, cleaned, revoked, late>> /\ DbOnly

(* The reservation is released under the filter active_run = what was read.
   Terminal is for ever; that the run is missing may change before the write. *)
ReleaseEnded ==
    /\ active # None /\ Ended(active)
    /\ active' = None /\ overdue' = FALSE
    /\ UNCHANGED <<run, budget, cleaned, revoked, late>> /\ DbOnly

(* Mutant: only a reservation whose run ended is looked at. *)
FindMissingEnded(w) ==
    /\ At(w, "idle") /\ active # None /\ Ended(active) /\ overdue
    /\ wk' = [wk EXCEPT ![w].at = "releasing", ![w].run = active]
    /\ UNCHANGED <<run, budget>> /\ StepOnly

FindMissing(w) ==
    /\ At(w, "idle") /\ active # None /\ run[active].status = "none" /\ overdue
    /\ wk' = [wk EXCEPT ![w].at = "releasing", ![w].run = active]
    /\ UNCHANGED <<run, budget>> /\ StepOnly

(* Between the read and the write a repeated event may have come back for it. *)
Returned(e) == run[e].status # "none"
               \/ \E q \in Requests : q[1] = e /\ req[q].at = "inserting"

ReleaseMissing(w) ==
    /\ At(w, "releasing") /\ Leave(w)
    /\ IF active = wk[w].run
       THEN active' = None /\ overdue' = FALSE /\ lapsed' = (lapsed \/ Returned(active))
       ELSE UNCHANGED <<active, overdue, lapsed>>
    /\ UNCHANGED <<run, budget, cleaned, revoked, late, req, stopping, crashes,
                   billed, over, told>>

(* The child a run waits for is the one its step named.  The write that wakes
   the run asks for its status alone, and sets the step that was read plus one. *)
FindReady(w, e) ==
    /\ At(w, "idle") /\ run[e].status = "waiting_child" /\ Ended(<<e, run[e].step>>)
    /\ wk' = [wk EXCEPT ![w].at = "waking", ![w].run = e, ![w].step = run[e].step]
    /\ UNCHANGED <<run, budget>> /\ StepOnly

(* Mutant: the wake-up asks for no status. *)
WakeAnyStatus(w) ==
    /\ At(w, "waking") /\ Leave(w)
    /\ run' = [run EXCEPT ![wk[w].run] = [WithStatus(@, "queued") EXCEPT
                              !.step = wk[w].step + 1, !.dec = "none"]]
    /\ UNCHANGED budget /\ StepOnly

Wake(w) ==
    /\ At(w, "waking") /\ Leave(w)
    /\ run' = IF run[wk[w].run].status # "waiting_child" THEN run
              ELSE [run EXCEPT ![wk[w].run] = [WithStatus(@, "queued") EXCEPT
                                  !.step = wk[w].step + 1, !.dec = "none"]]
    /\ UNCHANGED budget /\ StepOnly

----------------------------------------------------------------------------
(* step: one bounded step of a leased run. *)

(* A run whose worker crashed or was too slow goes to the next one.  The lease,
   the checks after it and the count of the model call. *)
Lease(w, i) ==
    LET e == Root(i)
        enter(place) == wk' = [wk EXCEPT ![w] =
            [at |-> place, run |-> i, step |-> run[i].step, dec |-> run[i].dec]]
    IN
    /\ At(w, "idle")
    /\ run[i].status = "queued" \/ (run[i].status = "running" /\ ~run[i].fresh)
    /\ run' = [run EXCEPT ![i].status = "running", ![i].lease = w, ![i].fresh = TRUE]
    /\ \/ /\ Authority(i) /\ run[i].step < MaxSteps /\ run[i].dec # "none"
          /\ enter("acting") /\ UNCHANGED budget
       \/ /\ Authority(i) /\ run[i].step < MaxSteps /\ run[i].dec = "none"
          /\ MayCall(e)
          /\ enter("reserving") /\ budget' = [budget EXCEPT ![e].calls = @ + 1]
       \/ /\ \/ ~Authority(i) \/ run[i].step = MaxSteps
             \/ run[i].dec = "none" /\ ~MayCall(e)
          /\ enter("failing") /\ UNCHANGED budget
    /\ StepOnly

(* plan: one conditional write holds the ceiling of the call. *)
HoldCost(w) ==
    LET e == Root(wk[w].run) IN
    /\ At(w, "reserving")
    /\ IF Authorized(w) /\ Live(e) /\ ~budget[e].blocked
             /\ budget[e].committed + Reserved <= Cap
       THEN /\ Go(w, "calling")
            /\ budget' = [budget EXCEPT ![e].committed = @ + Reserved]
       ELSE Go(w, "failing") /\ UNCHANGED budget
    /\ UNCHANGED run /\ StepOnly

CallUnchanged == UNCHANGED <<run, cleaned, job, late, req, stopping, crashes, told, lapsed>>

(* The answer and its settlement: the bill replaces the reservation, or blocks
   every later call when it is over the ceiling. *)
ModelAnswers(w) ==
    LET e == Root(wk[w].run) IN
    /\ At(w, "calling")
    /\ \E b \in Bills :
        /\ billed' = [billed EXCEPT ![e] = @ + b]
        /\ IF b > Reserved
           THEN /\ budget' = [budget EXCEPT ![e].blocked = TRUE]
                /\ over' = over \cup {e} /\ Go(w, "failing")
           ELSE /\ budget' = [budget EXCEPT ![e].committed = @ + b - Reserved]
                /\ Go(w, "deciding") /\ UNCHANGED over
    /\ CallUnchanged

(* What a call that is cut short may still have cost. *)
Unreported == {0} \cup {c \in Bills : c <= Reserved}

(* Mutant: a failed call gives its reservation back. *)
ModelFailsRefunded(w) ==
    /\ At(w, "calling")
    /\ \E b \in Unreported : billed' = [billed EXCEPT ![Root(wk[w].run)] = @ + b]
    /\ \E place \in {"retrying", "failing"} : Go(w, place)
    /\ budget' = [budget EXCEPT ![Root(wk[w].run)].committed = @ - Reserved]
    /\ UNCHANGED over /\ CallUnchanged

(* A lost connection, a timeout, an overload: the step may be retried.  Any
   other error, or a usage that cannot be read: it fails.  Either way the call
   may have been billed, and its reservation stays held. *)
ModelFails(w) ==
    /\ At(w, "calling")
    /\ \E b \in Unreported : billed' = [billed EXCEPT ![Root(wk[w].run)] = @ + b]
    /\ \E place \in {"retrying", "failing"} : Go(w, place)
    /\ UNCHANGED <<budget, over>> /\ CallUnchanged

(* The decision is saved before anything is done with it. *)
Decide(w) ==
    LET i == wk[w].run IN
    /\ At(w, "deciding")
    /\ IF Authorized(w)
       THEN \E d \in IF i \in Delegating THEN Ops ELSE Ops \ {"delegate"} :
              /\ run' = [run EXCEPT ![i] = AfterAdvance([@ EXCEPT !.dec = d])]
              /\ Act(w, d)
       ELSE Go(w, "failing") /\ UNCHANGED run
    /\ UNCHANGED budget /\ StepOnly

Finish(w) ==
    /\ At(w, "acting") /\ wk[w].dec = "done"
    /\ Advance(w, "done", wk[w].step, "done", run[wk[w].run].retries)
    /\ UNCHANGED budget /\ StepOnly

AskOwner(w) ==
    /\ At(w, "acting") /\ wk[w].dec = "input"
    /\ Advance(w, "needs_input", wk[w].step, "input", run[wk[w].run].retries)
    /\ UNCHANGED budget /\ StepOnly

(* A sleep or an action that is over: complete_step. *)
CompleteStep(w) ==
    /\ At(w, "acting") /\ wk[w].dec = "again"
    /\ Advance(w, "queued", wk[w].step + 1, "none", run[wk[w].run].retries)
    /\ UNCHANGED budget /\ StepOnly

(* The child's job is a copy of the parent's snapshot.  Where that holds an
   active_run, the child's enqueue finds its own slot taken. *)
Delegate(w) ==
    LET i == wk[w].run IN
    /\ At(w, "acting") /\ wk[w].dec = "delegate"
    /\ Go(w, IF Ended(i) \/ i \in late THEN "failing"
             ELSE IF run[<<i, wk[w].step>>].status # "none" THEN "parking"
             ELSE IF run[i].tainted THEN "failing" ELSE "hiring")
    /\ UNCHANGED <<run, budget>> /\ StepOnly

Hire(w) ==
    LET child == <<wk[w].run, wk[w].step>> IN
    /\ At(w, "hiring") /\ Go(w, "parking")
    /\ run' = IF run[child].status # "none" THEN run
              ELSE [run EXCEPT ![child].status = "queued"]
    /\ UNCHANGED budget /\ StepOnly

Park(w) ==
    /\ At(w, "parking")
    /\ Advance(w, "waiting_child", wk[w].step, "delegate", run[wk[w].run].retries)
    /\ UNCHANGED budget /\ StepOnly

RetryLater(w) ==
    LET i == wk[w].run  e == Root(i) IN
    /\ At(w, "retrying")
    /\ IF run[i].retries < MaxRetries /\ Live(e) /\ MayCall(e) /\ e \notin late
       THEN Advance(w, "queued", wk[w].step, "none", run[i].retries + 1)
       ELSE Go(w, "failing") /\ UNCHANGED run
    /\ UNCHANGED budget /\ StepOnly

Fail(w) ==
    /\ At(w, "failing") /\ Leave(w)
    /\ run' = IF Holds(w) THEN [run EXCEPT ![wk[w].run] = WithStatus(@, "failed")] ELSE run
    /\ UNCHANGED budget /\ StepOnly

----------------------------------------------------------------------------
(* The owner.  cancel lists the children, then ends what it listed; revoke
   lists the live runs, cancels them, and marks the job last.  Bound: one stop. *)

Cancel(e) ==
    /\ e \in Stoppable /\ stopping = Nobody /\ run[e].status # "none"
    /\ stopping' = [at |-> "listed", revoke |-> FALSE,
                    ids |-> {e} \cup {c \in ChildrenOf(e) : run[c].status # "none"}]
    /\ UNCHANGED <<run, budget, cleaned, job, late, req, wk, crashes, ghosts>>

Revoke ==
    LET roots == {e \in Events : Live(e)} IN
    /\ Revocable /\ stopping = Nobody /\ ~revoked
    /\ stopping' = [at |-> "listed", revoke |-> TRUE,
                    ids |-> roots \cup {c \in Children : c[1] \in roots /\ run[c].status # "none"}]
    /\ UNCHANGED <<run, budget, cleaned, job, late, req, wk, crashes, ghosts>>

EndListed ==
    /\ stopping.at = "listed"
    /\ run' = [i \in Ids |-> IF i \in stopping.ids /\ Live(i)
                             THEN WithStatus(run[i], "cancelled") ELSE run[i]]
    /\ stopping' = IF stopping.revoke THEN [stopping EXCEPT !.at = "marking", !.ids = {}]
                   ELSE Stopped
    /\ UNCHANGED <<budget, cleaned, job, late, req, wk, crashes, ghosts>>

MarkRevoked ==
    /\ stopping.at = "marking" /\ stopping' = Stopped /\ revoked' = TRUE
    /\ UNCHANGED <<run, budget, cleaned, active, overdue, late, req, wk, crashes, ghosts>>

(* The answer asks only that the run still waits for one. *)
Answer(i) ==
    /\ run[i].status = "needs_input" /\ Authority(i)
    /\ run' = [run EXCEPT ![i] = [WithStatus(run[i], "queued") EXCEPT
                                      !.dec = "none", !.step = run[i].step + 1]]
    /\ UNCHANGED <<budget, cleaned, job, late>> /\ DbOnly

----------------------------------------------------------------------------
(* Time and crashes. *)

(* Two minutes pass after a reservation; an insert is assumed not to take that long. *)
GracePasses ==
    /\ active # None /\ ~overdue
    /\ \A q \in Requests : ~(req[q].at = "inserting" /\ q[1] = active)
    /\ overdue' = TRUE
    /\ UNCHANGED <<run, budget, cleaned, active, revoked, late>> /\ DbOnly

(* deadline_at of a child is at most its root's. *)
DeadlinePasses(e) ==
    /\ e \in Expiring \ late /\ run[e].status # "none"
    /\ late' = late \cup {e}
    /\ UNCHANGED <<run, budget, cleaned, job>> /\ DbOnly

InStep(w, i) == wk[w].run = i /\ wk[w].at \notin {"idle", "waking", "releasing"}

LeaseLapses(i) ==
    /\ run[i].fresh
    /\ InStep(run[i].lease, i) => run[i].lease \in Slow
    /\ run' = [run EXCEPT ![i].fresh = FALSE]
    /\ UNCHANGED <<budget, cleaned, job, late>> /\ DbOnly

(* A model call that was under way may be billed all the same. *)
Crash(w) ==
    /\ crashes < MaxCrashes /\ wk[w].at # "idle"
    /\ crashes' = crashes + 1 /\ Leave(w)
    /\ IF At(w, "calling")
       THEN \E b \in Unreported : billed' = [billed EXCEPT ![Root(wk[w].run)] = @ + b]
       ELSE UNCHANGED billed
    /\ UNCHANGED <<run, budget, cleaned, job, late, req, stopping, over, told, lapsed>>

----------------------------------------------------------------------------

Request(q) == Receive(q) \/ Reserve(q) \/ Insert(q)
Step(w) == \/ HoldCost(w) \/ ModelAnswers(w) \/ ModelFails(w)
           \/ Decide(w) \/ Finish(w) \/ AskOwner(w) \/ CompleteStep(w)
           \/ Delegate(w) \/ Hire(w) \/ Park(w) \/ RetryLater(w) \/ Fail(w)
           \/ ReleaseMissing(w) \/ Wake(w)
LeaseSome(w) == \E i \in Ids : Lease(w, i)
SweepRuns == \E i \in Ids : Expire(i) \/ Notify(i)
Owner == Revoke \/ EndListed \/ MarkRevoked \/ \E e \in Events : Cancel(e)
Time == GracePasses \/ (\E e \in Events : DeadlinePasses(e)) \/ (\E i \in Ids : LeaseLapses(i))

Next ==
    \/ \E q \in Requests : Request(q) \/ RequestDies(q)
    \/ SweepRuns \/ ReleaseEnded
    \/ \E e \in Events : EndChildren(e)
    \/ \E w \in Workers : FindMissing(w) \/ \E e \in Events : FindReady(w, e)
    \/ \E w \in Workers : LeaseSome(w) \/ Step(w) \/ Crash(w)
    \/ Owner \/ Time
    \/ \E i \in Ids : Answer(i)

Spec == Init /\ [][Next]_vars

(* The workers poll for ever, a request that was received goes on until it is
   over or dies, and time passes: while one of these can act, one of them does.
   Nothing is asked of the owner, of the planner or of an event's arrival. *)
Progress ==
    \/ \E q \in Requests : Reserve(q) \/ Insert(q)
    \/ SweepRuns \/ ReleaseEnded \/ \E e \in Events : EndChildren(e)
    \/ \E w \in Workers : FindMissing(w) \/ \E e \in Events : FindReady(w, e)
    \/ \E w \in Workers : LeaseSome(w) \/ Step(w)
    \/ Time

FairSpec == Spec /\ WF_vars(Progress) /\ WF_vars(EndListed \/ MarkRevoked)

----------------------------------------------------------------------------
(* Properties. *)

(* The job has one live root run at a time, whatever the order in which events
   are delivered, repeated and reserved (core.py: "This job already has active
   work"), unless a reservation was released as abandoned that was not: a repeated
   event can reserve again, and insert its run, between the tick's reads and its
   write, which asks only that the slot still names the event. *)
OneActiveRun ==
    \A e, f \in Events : Live(e) /\ Live(f) => e = f \/ lapsed

(* What the provider charged for a root and its children never exceeds what
   the ledger has committed, and that never exceeds the cap, through crashes,
   failed calls and workers that work on one root at the same time
   (costs.py: "A crash/timeout keeps the full reservation").  A call billed
   over its ceiling breaks the promise the ledger rests on. *)
SpendWithinCap ==
    \A e \in Events \ over : billed[e] <= budget[e].committed /\ budget[e].committed <= Cap

(* A run that is over stays as it ended, whoever still works on it: a model
   call that ends after the cancel, a lease that was lost, a late wake-up. *)
EndedRunsStayEnded ==
    [][\A i \in Ids : Ended(i) => run'[i].status = run[i].status]_vars

(* The slot of the job is given up in the end: its run ends or waits for the
   owner, or the request died before it inserted one. *)
AsksOwner(e) == \E i \in {e} \cup ChildrenOf(e) : run[i].status = "needs_input"
SlotIsGivenUp == \A e \in Events : (active = e) ~> (active # e \/ AsksOwner(e))

(* When a root is over its children end too, those inserted after the cancel
   or the sweep listed them included. *)
ChildrenEnd ==
    \A c \in Children : (Ended(c[1]) /\ Live(c)) ~> Ended(c)

(* The owner gets a notice for each question and for the end of each run, also
   when an earlier step of the run had given the same notice. *)
Due(i) == run[i].status \in Attention /\ <<i, run[i].status, run[i].step>> \notin told
OwnerIsTold == \A i \in Ids : Due(i) ~> ~Due(i)

============================================================================
