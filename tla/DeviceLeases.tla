--------------------------- MODULE DeviceLeases ---------------------------
(* Device leases and the runner hub: device_loader/backend/service.py,      *)
(* hub.py and gateway.py with the runner's WebSocket handler and the revoke *)
(* endpoint of device_loader/api/device_routes.py.                          *)
(*                                                                          *)
(* A session is one conversation's run.  It works through the device tools: *)
(* a tool call is a task that resolves the device, takes or renews the      *)
(* lease and calls the runner over its one WebSocket; when the run ends     *)
(* DeviceTools.close releases what the conversation still holds.  The       *)
(* runner program is reduced to what the backend sees of it: it executes    *)
(* the calls it receives, shuts down idle devices it booted, and            *)
(* reconnects.  All sessions belong to one user; Template is the device a   *)
(* template boots.                                                          *)
EXTENDS Naturals, FiniteSets

CONSTANTS Sessions,   \* conversations with a run that uses devices
          Booters,    \* those that ask for a template
          Devices,    \* the serials of one runner
          Template,   \* the device booted on demand, down at first
          MaxEvents,  \* bound: lost connections, timeouts, forced releases
          None

ASSUME TemplateAssumption == Template \in Devices /\ Booters \subseteq Sessions

VARIABLES lease,    \* device_leases: device -> None or its document
          run,      \* session -> the life of its run
          task,     \* session -> its tool call
          left,     \* session -> release_all's list: what it has yet to delete
          ending,   \* session -> the device whose shutdown its release owes
          calls,    \* calls that wait for their answer
          late,     \* calls given up that the runner still has: how many of each
          srv,      \* the hub's connection: "none", "fresh" (attached, the
                    \*   revocation not yet looked up again) or "up"
          rnr,      \* the runner's side: "off", "joining", "on" or "exit"
          revoking, \* the revoke request: "no", "marked", "cleared", "done"
          up,       \* devices that run
          mine,     \* Runner.booted: devices the runner started itself
          orphan,   \* devices left running by a boot cut short
          stray,    \* sessions whose run ended over a tool call in progress
          events
wire == <<calls, late>>
leaseVars == <<lease, run, task, left, ending, wire, srv, rnr, revoking, up, mine,
               orphan, stray, events>>

Idle == [st |-> "idle", d |-> None, fresh |-> FALSE, lost |-> FALSE]
TaskStates == {"idle", "resolved", "calling", "booting", "booted", "mark"}
ToolCall == {Idle} \cup
    [st : TaskStates \ {"idle"}, d : Devices, fresh : BOOLEAN, lost : BOOLEAN]

Lease == [s : Sessions, booted : BOOLEAN, lapsed : BOOLEAN]
Held == [d : Devices, booted : BOOLEAN]
Call == [s : Sessions, d : Devices, op : {"use", "boot", "shutdown"},
         at : {"sent", "lost"}]
Late == Devices \X {"boot", "shutdown"}

ASSUME AbsenceAssumption == None \notin Sessions \cup Devices \cup Lease
ASSUME BoundAssumption == MaxEvents \in Nat

LeaseTypeOK == /\ lease \in [Devices -> Lease \cup {None}]
               /\ run \in [Sessions -> {"on", "closing", "over"}]
               /\ task \in [Sessions -> ToolCall]
               /\ left \in [Sessions -> SUBSET Held]
               /\ ending \in [Sessions -> Devices \cup {None}]
               /\ calls \subseteq Call /\ late \in [Late -> Nat]
               /\ srv \in {"none", "fresh", "up"}
               /\ rnr \in {"off", "joining", "on", "exit"}
               /\ revoking \in {"no", "marked", "cleared", "done"}
               /\ up \subseteq Devices /\ mine \subseteq Devices
               /\ orphan \subseteq Devices /\ stray \subseteq Sessions
               /\ events \in 0..MaxEvents

LeaseInit == /\ lease = [d \in Devices |-> None]
             /\ run = [s \in Sessions |-> "on"]
             /\ task = [s \in Sessions |-> Idle]
             /\ left = [s \in Sessions |-> {}]
             /\ ending = [s \in Sessions |-> None]
             /\ calls = {} /\ late = [k \in Late |-> 0]
             /\ srv = "none" /\ rnr = "off" /\ revoking = "no"
             /\ up = Devices \ {Template} /\ mine = {}
             /\ orphan = {} /\ stray = {}
             /\ events = 0

Event == events < MaxEvents /\ events' = events + 1

-----------------------------------------------------------------------------
(* Leases.                                                                  *)

\* Mutant: the filter compares the owner only, and all sessions have one.
TakeableByOwner(s, d) == TRUE

\* _acquire's filter: no document, an expired one, or the caller's own.
InForce(d) == lease[d] # None /\ ~lease[d].lapsed
Takeable(s, d) == InForce(d) => lease[d].s = s

\* The upsert sets owner, scope and expiry and leaves `booted` as it was.
Taken(s, d) ==
    [lease EXCEPT ![d] = [s |-> s, lapsed |-> FALSE,
                          booted |-> lease[d] # None /\ lease[d].booted]]

\* Deleting leases under a tool call that runs on the device: the call is not
\* withdrawn, whoever deletes them.
Dropping(D) == [s \in Sessions |->
                  IF /\ task[s].st = "calling" /\ task[s].d \in D
                     /\ lease[task[s].d] # None /\ lease[task[s].d].s = s
                  THEN [task[s] EXCEPT !.lost = TRUE]
                  ELSE task[s]]

Without(D) == [d \in Devices |-> IF d \in D THEN None ELSE lease[d]]

\* Fifteen idle minutes.  A call extends the lease by its own worst case, so
\* no lease lapses under a call of its holder.
Lapse(d) == /\ InForce(d)
            /\ ~ (task[lease[d].s].st = "calling" /\ task[lease[d].s].d = d)
            /\ lease' = [lease EXCEPT ![d].lapsed = TRUE]
            /\ UNCHANGED <<run, task, left, ending, wire, srv, rnr, revoking,
                           up, mine, orphan, stray, events>>

-----------------------------------------------------------------------------
(* Tool calls.                                                              *)

Send(c) == calls' = calls \cup {c} /\ UNCHANGED late
\* (A frame for a runner that is gone, unknown to the hub yet, is lost.)
NewCall(s, d, op) == [s |-> s, d |-> d, op |-> op,
                      at |-> IF rnr = "on" THEN "sent" ELSE "lost"]

\* The calls of D fail on the backend: nobody waits for them any more.  A boot
\* or a shutdown the runner has not executed may still take effect.
GiveUp(D) ==
    /\ calls' = calls \ D
    /\ late' = [k \in Late |-> late[k] + Cardinality({c \in D : c.at = "sent" /\ <<c.d, c.op>> = k})]

\* A tool call returns, or goes on with its next operation on the same device
\* (lease: health, recover, installed; suite: setup, cases, teardown).
Onward(s) == {Idle, [Idle EXCEPT !.st = "resolved", !.d = task[s].d]}

TaskIs(s, st) == task' = [task EXCEPT ![s].st = st]

\* Any operation: DeviceService.call up to _resolve.
Use(s, d) == /\ run[s] = "on" /\ task[s] = Idle
             /\ revoking = "no"
             /\ task' = [task EXCEPT ![s] = [Idle EXCEPT !.st = "resolved", !.d = d]]
             /\ UNCHANGED <<lease, run, left, ending, wire, srv, rnr, revoking,
                            up, mine, orphan, stray, events>>

\* The rest of call: _acquire, then hub.call.  A device another session holds,
\* or a runner without a connection, is an error; in the second case the
\* lease is taken all the same.
Dispatch(s) ==
    /\ task[s].st = "resolved"
    /\ \/ /\ ~Takeable(s, task[s].d)
          /\ task' = [task EXCEPT ![s] = Idle]
          /\ UNCHANGED <<lease, wire>>
       \/ /\ Takeable(s, task[s].d)
          /\ lease' = Taken(s, task[s].d)
          /\ IF srv = "none"
             THEN task' = [task EXCEPT ![s] = Idle] /\ UNCHANGED wire
             ELSE /\ Send(NewCall(s, task[s].d, "use"))
                  /\ task' = [task EXCEPT ![s] = [@ EXCEPT !.st = "calling",
                                                           !.lost = FALSE]]
    /\ UNCHANGED <<run, left, ending, srv, rnr, revoking, up, mine, orphan, stray, events>>

\* lease: take a listed device and go on with its health check.
LeaseDevice(s, d) ==
    /\ run[s] = "on" /\ task[s] = Idle
    /\ revoking = "no" /\ srv # "none" /\ d \in up
    /\ Takeable(s, d)
    /\ lease' = Taken(s, d)
    /\ task' = [task EXCEPT ![s] = [Idle EXCEPT !.st = "resolved", !.d = d]]
    /\ UNCHANGED <<run, left, ending, wire, srv, rnr, revoking, up, mine,
                   orphan, stray, events>>

\* _boot_and_lease: the device is booted before anybody holds it.
Boot(s) == /\ s \in Booters /\ run[s] = "on" /\ task[s] = Idle
           /\ revoking = "no" /\ srv # "none"
           /\ Send(NewCall(s, Template, "boot"))
           /\ task' = [task EXCEPT ![s] = [Idle EXCEPT !.st = "booting",
                                                       !.d = Template]]
           /\ UNCHANGED <<lease, run, left, ending, srv, rnr, revoking, up, mine,
                          orphan, stray, events>>

BootTake(s) ==
    /\ task[s].st = "booted"
    /\ IF Takeable(s, Template)
       THEN lease' = Taken(s, Template) /\ TaskIs(s, "mark")
       ELSE UNCHANGED lease /\ task' = [task EXCEPT ![s] = Idle]
    /\ UNCHANGED <<run, left, ending, wire, srv, rnr, revoking, up, mine, orphan, stray,
                   events>>

\* The unfiltered update of the lease with `booted`, whoever holds it by then.
BootMark(s) ==
    /\ task[s].st = "mark"
    /\ lease' = IF lease[Template] = None THEN lease
                ELSE [lease EXCEPT ![Template].booted = task[s].fresh]
    /\ task' = [task EXCEPT ![s] = [Idle EXCEPT !.st = "resolved", !.d = Template]]
    /\ UNCHANGED <<run, left, ending, wire, srv, rnr, revoking, up, mine, orphan, stray,
                   events>>

\* The call c is over, and `after` is where that leaves its tool call; the
\* shutdown a release waits for leaves nothing.
Answered(c, after) ==
    IF c.op = "shutdown"
    THEN ending' = [ending EXCEPT ![c.s] = None] /\ UNCHANGED task
    ELSE task' = [task EXCEPT ![c.s] = after] /\ UNCHANGED ending

\* hub.call's own timeout.  It needs a slow network, or a lost frame.
TimedOut(c) ==
    /\ IF c.at = "lost" THEN UNCHANGED events ELSE Event
    /\ GiveUp({c})
    /\ \E after \in IF c.op = "boot" THEN {Idle} ELSE Onward(c.s) : Answered(c, after)
    /\ UNCHANGED <<lease, run, left, srv, rnr, revoking, up, mine, orphan, stray>>

-----------------------------------------------------------------------------
(* Release, and the end of a run.                                           *)

\* release: the lease is deleted, then, if it was booted for the lease, the
\* device is shut down (a later step: another session may lease it first).
\* The gateway refuses it while another tool is busy with the device.
Release(s, d) ==
    /\ run[s] = "on" /\ ending[s] = None /\ left[s] = {}
    /\ task[s].d # d
    /\ revoking = "no"
    /\ lease[d] # None /\ lease[d].s = s
    /\ lease' = Without({d})
    /\ task' = Dropping({d})
    /\ ending' = [ending EXCEPT ![s] = IF lease[d].booted THEN d ELSE None]
    /\ UNCHANGED <<run, left, wire, srv, rnr, revoking, up, mine, orphan, stray, events>>

HeldBy(s) == {h \in Held : lease[h.d] # None /\ lease[h.d].s = s
                           /\ lease[h.d].booted = h.booted}

\* release_all, asked for by the agent: also while a tool call is pending (the
\* case that differs from releasing one by one).
ReleaseAll(s) == /\ run[s] = "on" /\ ending[s] = None /\ left[s] = {}
                 /\ HeldBy(s) # {} /\ task[s] # Idle
                 /\ left' = [left EXCEPT ![s] = HeldBy(s)]
                 /\ UNCHANGED <<lease, run, task, ending, wire, srv, rnr,
                                revoking, up, mine, orphan, stray, events>>

\* One turn of release_all's loop, with what the list said of the lease.
ReleaseOne(s, h) ==
    /\ h \in left[s] /\ ending[s] = None
    /\ left' = [left EXCEPT ![s] = @ \ {h}]
    /\ IF lease[h.d] # None /\ lease[h.d].s = s
       THEN /\ lease' = Without({h.d})
            /\ task' = Dropping({h.d})
            /\ ending' = [ending EXCEPT ![s] = IF h.booted THEN h.d ELSE None]
       ELSE UNCHANGED <<lease, task, ending>>
    /\ UNCHANGED <<run, wire, srv, rnr, revoking, up, mine, orphan, stray, events>>

Shutdowns(s) == {c \in calls : c.s = s /\ c.op = "shutdown"}

\* _shutdown: best effort, the runner's idle reaper is the safety net.
Shutdown(s) ==
    /\ ending[s] # None /\ Shutdowns(s) = {}
    /\ IF srv = "none" \/ revoking # "no"
       THEN ending' = [ending EXCEPT ![s] = None] /\ UNCHANGED wire
       ELSE Send(NewCall(s, ending[s], "shutdown")) /\ UNCHANGED ending
    /\ UNCHANGED <<lease, run, task, left, srv, rnr, revoking, up, mine, orphan, stray,
                   events>>

\* The run ends, or is stopped.  close() cancels the tool calls it lists as
\* pending; one that was cut short in its first 90 seconds is not listed and
\* goes on, and so does a suite's teardown.  Then release_all reads its list.
Close(s) ==
    /\ run[s] = "on" /\ ending[s] = None /\ left[s] = {}
    /\ run' = [run EXCEPT ![s] = "closing"]
    /\ left' = [left EXCEPT ![s] = HeldBy(s)]
    /\ \/ /\ task[s] = Idle /\ UNCHANGED <<task, wire, stray>>
       \/ /\ task[s] # Idle
          /\ task' = [task EXCEPT ![s] = Idle]
          /\ GiveUp({c \in calls : c.s = s /\ c.op # "shutdown"})
          /\ UNCHANGED stray
       \/ /\ task[s] # Idle
          /\ stray' = stray \cup {s}
          /\ UNCHANGED <<task, wire>>
    /\ UNCHANGED <<lease, ending, srv, rnr, revoking, up, mine, orphan, events>>

CloseReturns(s) == /\ run[s] = "closing" /\ left[s] = {} /\ ending[s] = None
             /\ run' = [run EXCEPT ![s] = "over"]
             /\ UNCHANGED <<lease, task, left, ending, wire, srv, rnr, revoking,
                            up, mine, orphan, stray, events>>

\* The runner's owner frees a device from the dashboard.
ForceRelease(d) == /\ lease[d] # None /\ revoking = "no" /\ Event
                   /\ lease' = Without({d})
                   /\ task' = Dropping({d})
                   /\ UNCHANGED <<run, left, ending, wire, srv, rnr, revoking,
                                  up, mine, orphan, stray>>

-----------------------------------------------------------------------------
(* The connection.                                                          *)

\* _fail_pending: every waiting call of the connection fails, and its tool call
\* returns or goes on (a suite waits for the runner and runs the case again).
FailPending ==
    /\ ending' = [s \in Sessions |-> IF \E c \in calls : c.s = s /\ c.op = "shutdown"
                                    THEN None ELSE ending[s]]
    /\ \E more \in SUBSET {c.s : c \in {e \in calls : e.op = "use"}} :
         task' = [s \in Sessions |->
                    IF task[s].st \notin {"calling", "booting"} THEN task[s]
                    ELSE IF s \in more
                    THEN [Idle EXCEPT !.st = "resolved", !.d = task[s].d]
                    ELSE Idle]

\* The server sees the socket closed or stale: detach.
ServerDrops == /\ srv = "up" /\ Event
               /\ srv' = "none"
               /\ FailPending
               /\ GiveUp(calls)
               /\ UNCHANGED <<lease, run, left, rnr, revoking, up, mine, orphan, stray>>

\* What the runner has to execute; nobody (None) waits for a late call.
Arrived == {c \in calls : c.at = "sent"} \cup
    {[s |-> None, d |-> k[1], op |-> k[2], at |-> "sent"] : k \in {j \in Late : late[j] > 0}}

\* Devices a boot call is starting, which nothing shuts down if it is cut short.
Starting == {c.d : c \in {e \in Arrived : e.op = "boot"}} \ up

\* The runner sees it closed: its calls are cancelled (an emulator that was
\* booting goes on unrecorded).  The hub may still wait for them.
Losing == calls' = {[c EXCEPT !.at = "lost"] : c \in calls} /\ late' = [k \in Late |-> 0]

\* Mutant: what the runner booted is not written to its file.
RunnerDropsForgets == /\ rnr = "on"
                      /\ srv = "none" \/ Event
                      /\ srv = "none" => UNCHANGED events
                      /\ rnr' = "off" /\ mine' = {}
                      /\ Losing
                      /\ UNCHANGED <<lease, run, task, left, ending, srv, revoking,
                                     up, orphan, stray>>

RunnerDrops == /\ rnr = "on"
               /\ srv = "none" \/ Event
               /\ srv = "none" => UNCHANGED events
               /\ rnr' = "off"
               /\ Losing
               /\ \E cut \in SUBSET Starting :
                    up' = up \cup cut /\ orphan' = orphan \cup cut
               /\ UNCHANGED <<lease, run, task, left, ending, srv, revoking, mine,
                              stray>>

\* connect_once: a revoked runner is refused, and exits for good.
Join == /\ rnr = "off"
        /\ rnr' = IF revoking = "no" THEN "joining" ELSE "exit"
        /\ UNCHANGED <<lease, run, task, left, ending, wire, srv, revoking, up,
                       mine, orphan, stray, events>>

\* After its hello, hub.attach: the connection it replaces fails its calls.
Attach == /\ rnr = "joining"
          /\ rnr' = "on" /\ srv' = "fresh"
          /\ FailPending
          /\ GiveUp(calls)
          /\ UNCHANGED <<lease, run, left, revoking, up, mine, orphan, stray, events>>

\* hub.revoke: the connection is forgotten and its calls fail; the runner is
\* told, and exits.
HubRevoke == /\ srv' = "none"
             /\ rnr' = IF srv # "none" /\ rnr = "on" THEN "exit" ELSE rnr
             /\ FailPending
             /\ IF srv # "none" /\ rnr = "on"
                THEN calls' = {} /\ late' = [k \in Late |-> 0]
                ELSE GiveUp(calls)

\* handle_runner_ws: "revoked while we waited for hello".
Recheck == /\ srv = "fresh"
           /\ IF revoking = "no"
              THEN srv' = "up" /\ UNCHANGED <<rnr, task, ending, wire>>
              ELSE HubRevoke
           /\ UNCHANGED <<lease, run, left, revoking, up, mine, orphan, stray, events>>

\* handle_revoke_runner: mark the runner, delete its leases, cut it off.
RevokeMark == /\ revoking = "no" /\ Event
              /\ revoking' = "marked"
              /\ UNCHANGED <<lease, run, task, left, ending, wire, srv, rnr, up,
                             mine, orphan, stray>>

RevokeLeases == /\ revoking = "marked" /\ revoking' = "cleared"
                /\ lease' = Without(Devices)
                /\ task' = Dropping(Devices)
                /\ UNCHANGED <<run, left, ending, wire, srv, rnr, up, mine, orphan, stray,
                               events>>

RevokeHub == /\ revoking = "cleared" /\ revoking' = "done"
             /\ HubRevoke
             /\ UNCHANGED <<lease, run, left, up, mine, orphan, stray, events>>

-----------------------------------------------------------------------------
(* The runner, as the backend sees it.                                      *)

\* The answer to a waiting call: hub.on_frame resolves its future.  (A call
\* executed while its answer is lost is one the backend gives up on first.)
Answer(c, fresh) ==
    IF c.s = None THEN UNCHANGED <<task, ending>>
    ELSE \E after \in IF c.op = "boot"
                      THEN {[task[c.s] EXCEPT !.st = "booted", !.fresh = fresh]}
                      ELSE Onward(c.s) :
           Answered(c, after)

\* A template device that already runs is handed out as it is.
RunsBoot(c) == /\ c.op = "boot"
               /\ up' = up \cup {c.d}
               /\ mine' = IF c.d \in up THEN mine ELSE mine \cup {c.d}
               /\ Answer(c, c.d \notin up)

\* Only devices the runner booted are shut down.
RunsShutdown(c) == /\ c.op = "shutdown"
                   /\ up' = IF c.d \in mine THEN up \ {c.d} ELSE up
                   /\ mine' = mine \ {c.d}
                   /\ Answer(c, FALSE)

RunsUse(c) == c.op = "use" /\ Answer(c, FALSE) /\ UNCHANGED <<up, mine>>

Done(c) == IF c.s = None
           THEN late' = [late EXCEPT ![<<c.d, c.op>>] = @ - 1] /\ UNCHANGED calls
           ELSE calls' = calls \ {c} /\ UNCHANGED late

Execute(c) == /\ rnr = "on"
              /\ RunsBoot(c) \/ RunsShutdown(c) \/ RunsUse(c)
              /\ Done(c)
              /\ UNCHANGED <<lease, run, left, srv, rnr, revoking, orphan, stray, events>>

\* reap_idle: its 30 minutes are longer than a lease lives without a call.
Reap(d) == /\ d \in mine /\ rnr = "on"
           /\ ~InForce(d)
           /\ \A c \in Arrived : c.d # d
           /\ mine' = mine \ {d} /\ up' = up \ {d}
           /\ UNCHANGED <<lease, run, task, left, ending, wire, srv, rnr,
                          revoking, orphan, stray, events>>

-----------------------------------------------------------------------------

Agent(s) == \/ \E d \in Devices : Use(s, d) \/ LeaseDevice(s, d) \/ Release(s, d)
            \/ Boot(s) \/ ReleaseAll(s) \/ Close(s)

Backend(s) == \/ Dispatch(s) \/ BootTake(s) \/ BootMark(s)
              \/ \E h \in left[s] : ReleaseOne(s, h)
              \/ Shutdown(s) \/ CloseReturns(s)

Wire == \/ \E c \in Arrived : Execute(c)
        \/ \E c \in calls : c.at = "lost" /\ TimedOut(c)

Faults == \/ ServerDrops \/ RevokeMark
          \/ (srv # "none" /\ RunnerDrops)
          \/ \E d \in Devices : ForceRelease(d)
          \/ \E c \in calls : c.at # "lost" /\ TimedOut(c)

Machine == \/ (srv = "none" /\ RunnerDrops) \/ Join \/ Attach \/ Recheck
           \/ RevokeLeases \/ RevokeHub
           \/ \E d \in Devices : Lapse(d) \/ Reap(d)

Rest == /\ \A s \in Sessions : run[s] = "over" /\ task[s] = Idle
        /\ UNCHANGED leaseVars

Progress == \/ \E s \in Sessions : Backend(s)
            \/ Wire \/ Machine

LeaseNext == \/ \E s \in Sessions : Agent(s)
             \/ Progress \/ Faults \/ Rest

LeaseSpec == LeaseInit /\ [][LeaseNext]_leaseVars
FairLeaseSpec == LeaseSpec /\ WF_leaseVars(Progress)

-----------------------------------------------------------------------------
(* Properties.                                                              *)

\* Two sessions have an operation under way on one device only if one of them
\* lost its lease under the operation: released, ended, forced or revoked.
\* Expiry and a renewal never do that (service.py:1111, "so a long install is
\* never taken over mid-way").
SharedOnlyIfLetGo ==
    \A c, e \in calls :
        (c.op = "use" /\ e.op = "use" /\ c.d = e.d /\ c.s # e.s)
            => task[c.s].lost \/ task[e.s].lost

\* When the revoke request has returned, the hub has no connection of the
\* runner but one whose handler is about to look the revocation up again,
\* even if the runner authenticated before it.
RevokedIsCutOff == revoking = "done" => srv # "up"

\* An ended run holds no device, unless it was stopped over a tool call that
\* went on (gateway.py:100-102).
EndedRunHoldsNothing ==
    \A d \in Devices : (lease[d] # None /\ run[lease[d].s] = "over")
                            => lease[d].s \in stray

\* The invariant of the leases: its parts together.
LeasesAreKept == LeaseTypeOK /\ SharedOnlyIfLetGo /\ RevokedIsCutOff /\ EndedRunHoldsNothing

\* A device booted for a run is down again some time after the runs are over,
\* through timeouts and lost shutdowns, unless its boot was cut short by a lost
\* connection, or the runner program was revoked meanwhile and has exited.
BootedGoesDown ==
    (\A s \in Sessions : run[s] = "over" /\ task[s] = Idle)
        ~> (Template \in up => Template \in orphan \/ rnr = "exit")
=============================================================================
