---- MODULE ScheduledFlowsProofs ----
(***************************************************************************)
(* Theorems about ScheduledFlows, for any tasks, requests and bounds.      *)
(***************************************************************************)
EXTENDS ScheduledFlows, FiniteSetTheorems, TLAPS

USE KindsAssumption, TasksAssumption, OpsAssumption, BoundsAssumption
    DEF KindsAssumption, TasksAssumption, OpsAssumption, BoundsAssumption

(* Executions that may still begin a run of a one-off flow, the owner's own
   aside. *)
Pending == {t \in Tasks : task[t].source # "owner" /\ task[t].at \in {"new", "checking"}}

(* The job of a one-off flow may fire once more, or has not fired yet, and a
   deferral is run at the next boot. *)
ToFire == IF job \/ ~fired THEN 1 ELSE 0
ToDefer == IF flow.deferred \/ server = "booting" THEN 1 ELSE 0

(* Runs begun and runs that may still begin are within what OnceRunsOnce allows. *)
Booked == starts + ToFire + ToDefer + Cardinality(Pending)
OnceInv ==
    /\ server = "booting" => ~flow.deferred
    /\ moved \/ flow.kind # "once" => starts = 0
    /\ ~moved => \A t \in Tasks : task[t].kind \in {"none", flow.kind}
    /\ ~moved /\ flow.kind = "once" =>
           Booked <= 1 + again

(* While requests neither overlap nor patch the status, the one that has
   written the document is about to set the job right; run_now never touches it. *)
Pends(q) == req[q].at = "written" /\ req[q].op # "run_now"
ToSetRight(q) ==
    /\ req[q].op \notin {"none", "patch"}
    /\ req[q].op = "pause" => ~Active
    /\ req[q].op = "resume" => req[q].status = "active"
    /\ req[q].op = "reschedule" /\ req[q].status # "active" => ~Active
ToCome ==
    server # "down" /\ Active /\ flow.sound /\ (flow.kind = "once" => clock = "before")
JobInv ==
    ~crossed =>
      /\ \A q \in Requests : Pends(q) =>
             ToSetRight(q) /\ \A p \in Requests : Pends(p) => p = q
      /\ ToCome => job \/ \E q \in Requests : Pends(q)

IInv == TypeOK /\ OnceInv /\ JobInv

----------------------------------------------------------------------------
(* Types. *)

TaskDocs == [at : {"idle", "new", "checking", "running", "ending"},
             source : {"none", "trigger", "deferred", "owner"}, kind : Kinds \cup {"none"}]
FlowDocs == [kind : Kinds, sound : BOOLEAN, bounded : BOOLEAN,
             status : Statuses, deferred : BOOLEAN]
RequestDocs == [at : {"none", "written", "over"}, op : Ops \cup {"none"},
                status : Statuses \cup {"none"}]
Bounds == [fires : 0..MaxFires, drains : 0..MaxDrains, stops : 0..MaxStops]
Flags ==
    /\ job \in BOOLEAN /\ clock \in {"before", "grace", "past"}
    /\ server \in {"up", "booting", "down"} /\ draining \in BOOLEAN
    /\ owed \in BOOLEAN /\ moved \in BOOLEAN /\ fired \in BOOLEAN
    /\ crossed \in BOOLEAN /\ cut \in BOOLEAN /\ undrained \in BOOLEAN
Counts == starts \in Nat /\ again \in Nat
Serving == server # "up" => ~draining /\ \A q \in Requests : req[q].at # "written"

Typed ==
    /\ flow \in FlowDocs /\ task \in [Tasks -> TaskDocs]
    /\ req \in [Requests -> RequestDocs] /\ bounds \in Bounds
    /\ Flags /\ Counts /\ Serving

LEMMA TypeOKParts == (TypeOK <=> Typed) /\ (TypeOK' <=> Typed')
<1> QED BY DEF Typed, TypeOK, FlowDocs, TaskDocs, RequestDocs, Bounds, Flags, Counts, Serving

(* What _add_job_for_flow leaves: a job, if the schedule is sound and its time
   is to come. *)
LEMMA AddedIsBoolean == Added \subseteq BOOLEAN
<1> QED BY DEF Added

LEMMA AddsInTime ==
    ASSUME NEW added \in Added, flow.sound, flow.kind = "once" => clock = "before"
    PROVE  added
<1> QED BY DEF Added

LEMMA Initially == Init => IInv
<1> SUFFICES ASSUME Init PROVE IInv
  OBVIOUS
<1>1. flow.kind \in Kinds /\ flow.deferred = FALSE /\ flow \in FlowDocs
  BY DEF Init, FlowDocs, Statuses
<1>9. job \in BOOLEAN /\ clock \in {"before", "grace", "past"}
  BY AddedIsBoolean DEF Init, Times
<1>2. task \in [Tasks -> TaskDocs] /\ req \in [Requests -> RequestDocs]
  BY DEF Init, TaskDocs, RequestDocs, Idle, NoRequest
<1>3. bounds \in Bounds /\ Flags /\ Counts /\ Serving
  <2>1. bounds \in Bounds
    BY DEF Init, Bounds
  <2>2. Flags /\ Counts
    BY <1>9 DEF Init, Flags, Counts
  <2> QED BY <2>1, <2>2 DEF Init, Serving
<1>4. TypeOK
  BY <1>1, <1>2, <1>3, TypeOKParts DEF Typed
<1>5. Pending = {}
  BY DEF Init, Pending, Idle
<1>6. Cardinality(Pending) = 0
  BY <1>5, FS_EmptySet
<1>7. OnceInv
  BY <1>1, <1>6 DEF Init, OnceInv, Booked, ToFire, ToDefer, Idle
<1>8. JobInv
  BY <1>9, AddsInTime DEF Init, JobInv, ToCome, Pends, NoRequest
<1> QED BY <1>4, <1>7, <1>8 DEF IInv

----------------------------------------------------------------------------
(* Every step keeps the types. *)

LEMMA TaskTypes ==
    ASSUME TypeOK, NEW t \in Tasks
    PROVE  /\ task[t] \in TaskDocs
           /\ \A d \in TaskDocs : task' = [task EXCEPT ![t] = d] => task' \in [Tasks -> TaskDocs]
           /\ End(t) => task' \in [Tasks -> TaskDocs]
           /\ \A place \in {"checking", "running", "ending"} :
                  Go(t, place) => task' \in [Tasks -> TaskDocs]
           /\ \A source \in {"trigger", "deferred", "owner"} :
                  Spawn(t, source) => task' \in [Tasks -> TaskDocs]
<1>1. task \in [Tasks -> TaskDocs]
  BY TypeOKParts DEF Typed
<1>2. \A d \in TaskDocs : task' = [task EXCEPT ![t] = d] => task' \in [Tasks -> TaskDocs]
  BY <1>1
<1>3. \A place \in {"checking", "running", "ending"} : [task[t] EXCEPT !.at = place] \in TaskDocs
  BY <1>1 DEF TaskDocs
<1>4. End(t) => task' \in [Tasks -> TaskDocs]
  BY <1>1, <1>2 DEF End, Idle, TaskDocs
<1>5. \A source \in {"trigger", "deferred", "owner"} :
          [at |-> "new", source |-> source, kind |-> "none"] \in TaskDocs
  BY DEF TaskDocs
<1> QED BY <1>1, <1>2, <1>3, <1>4, <1>5 DEF Go, Spawn

LEMMA FlowTypes ==
    ASSUME TypeOK
    PROVE  /\ \A s \in Statuses : [flow EXCEPT !.status = s] \in FlowDocs
           /\ \A k \in Kinds, b \in BOOLEAN, s \in Statuses :
                  [flow EXCEPT !.kind = k, !.sound = b, !.status = s] \in FlowDocs
           /\ \A b \in BOOLEAN : [flow EXCEPT !.deferred = b] \in FlowDocs
           /\ flow \in FlowDocs /\ flow.kind \in Kinds /\ flow.status \in Statuses
<1> QED BY TypeOKParts DEF Typed, FlowDocs

LEMMA BoundTypes ==
    ASSUME TypeOK
    PROVE  /\ bounds.fires < MaxFires /\ Counted("fires") => bounds' \in Bounds
           /\ bounds.drains < MaxDrains /\ Counted("drains") => bounds' \in Bounds
           /\ bounds.stops < MaxStops /\ Counted("stops") => bounds' \in Bounds
<1> QED BY TypeOKParts DEF Typed, Bounds, Counted

LEMMA SchedulerTypes ==
    ASSUME TypeOK, TimePasses \/ JobEnds \/ \E t \in Tasks : Fire(t)
    PROVE  TypeOK'
<1>1. CASE TimePasses
  BY <1>1, TypeOKParts DEF Typed, TimePasses, ghosts, Flags, Counts, Serving
<1>2. CASE JobEnds
  BY <1>2, TypeOKParts DEF Typed, JobEnds, ghosts, Flags, Counts, Serving
<1>3. ASSUME NEW t \in Tasks, Fire(t) PROVE TypeOK'
  <2>1. task' \in [Tasks -> TaskDocs]
    BY <1>3, TaskTypes, TypeOKParts DEF Typed, Fire
  <2>2. bounds' \in Bounds
    BY <1>3, BoundTypes, TypeOKParts DEF Typed, Fire
  <2> QED BY <1>3, <2>1, <2>2, TypeOKParts DEF Typed, Fire, Flags, Counts, Serving
<1> QED BY <1>1, <1>2, <1>3

LEMMA ExecutionTypes ==
    ASSUME TypeOK, NEW t \in Tasks, Execution(t) \/ RunDeferred(t)
    PROVE  TypeOK'
<1>1. CASE ReadFlow(t)
  <2>1. task' \in [Tasks -> TaskDocs]
    <3>1. flow.kind \in Kinds
      BY FlowTypes
    <3>2. [task[t] EXCEPT !.at = "checking", !.kind = flow.kind] \in TaskDocs
      BY <3>1, TypeOKParts DEF Typed, TaskDocs
    <3>3. task' = [task EXCEPT ![t] = [task[t] EXCEPT !.at = "checking", !.kind = flow.kind]]
          \/ End(t)
      BY <1>1, TypeOKParts DEF Typed, ReadFlow
    <3> QED BY <3>2, <3>3, TaskTypes
  <2>2. flow' \in FlowDocs
    BY <1>1, FlowTypes DEF ReadFlow
  <2> QED BY <1>1, <2>1, <2>2, TypeOKParts DEF Typed, ReadFlow, Plus, Active, Flags, Counts, Serving
<1>2. CASE CheckFails(t)
  BY <1>2, TaskTypes, TypeOKParts DEF Typed, CheckFails, Flags, Counts, Serving
<1>3. CASE Begin(t)
  BY <1>3, TaskTypes, TypeOKParts DEF Typed, Begin, Plus, Flags, Counts, Serving
<1>4. CASE RunFails(t)
  BY <1>4, TaskTypes, TypeOKParts DEF Typed, RunFails, ghosts, Flags, Counts, Serving
<1>5. CASE RunFinishes(t)
  BY <1>5, TaskTypes, TypeOKParts DEF Typed, RunFinishes, ghosts, Flags, Counts, Serving
<1>6. CASE Complete(t)
  <2>1. flow' \in FlowDocs
    BY <1>6, FlowTypes DEF Complete, Statuses
  <2> QED BY <1>6, <2>1, TaskTypes, TypeOKParts DEF Typed, Complete, Flags, Counts, Serving
<1>7. CASE RunDeferred(t)
  BY <1>7, TaskTypes, TypeOKParts DEF Typed, RunDeferred, ghosts, Flags, Counts, Serving
<1> QED BY <1>1, <1>2, <1>3, <1>4, <1>5, <1>6, <1>7 DEF Execution

LEMMA RequestTypes ==
    ASSUME TypeOK, NEW q \in Requests, Request(q) \/ Respond(q)
    PROVE  TypeOK'
<1> DEFINE Doc(op, status) == [at |-> "written", op |-> op, status |-> status]
<1>1. ASSUME NEW op, NEW status \in Statuses \cup {"none"}, Written(q, op, status)
      PROVE  req' \in [Requests -> RequestDocs] /\ Serving' /\ bounds' \in Bounds
  <2>1. Doc(op, status) \in RequestDocs
    BY <1>1 DEF Written, RequestDocs
  <2> QED BY <1>1, <2>1, TypeOKParts DEF Typed, Written, Serving
<1>2. {"paused", "active", "deleted", "none"} \subseteq Statuses \cup {"none"}
  BY DEF Statuses
<1>3. flow.status \in Statuses
  BY FlowTypes
<1>4. CASE Pause(q)
  <2>1. flow' \in FlowDocs
    BY <1>4, FlowTypes DEF Pause, Statuses
  <2> QED BY <1>1, <1>2, <1>4, <2>1, TypeOKParts DEF Typed, Pause, Written, Overlaps, Flags, Counts
<1>5. CASE Resume(q)
  <2>1. flow' \in FlowDocs
    BY <1>5, FlowTypes DEF Resume, Statuses
  <2> QED BY <1>1, <1>2, <1>5, <2>1, TypeOKParts DEF Typed, Resume, Written, Overlaps, Flags, Counts
<1>6. CASE Reschedule(q)
  <2>1. PICK k \in Kinds, b \in BOOLEAN, s \in {flow.status, "paused"} :
            /\ Written(q, "reschedule", s) /\ clock' \in Times(k, b)
            /\ flow' = [flow EXCEPT !.kind = k, !.sound = b, !.status = s]
    BY <1>6 DEF Reschedule
  <2>2. s \in Statuses
    BY <1>3 DEF Statuses
  <2>3. flow' \in FlowDocs /\ clock' \in {"before", "grace", "past"}
    BY <2>1, <2>2, FlowTypes DEF Times
  <2> QED BY <1>1, <1>6, <2>1, <2>2, <2>3, TypeOKParts
          DEF Typed, Reschedule, Written, Overlaps, Flags, Counts
<1>7. CASE Patch(q)
  <2>1. PICK s \in {"active", "paused"} :
            Written(q, "patch", s) /\ flow' = [flow EXCEPT !.status = s]
    BY <1>7 DEF Patch
  <2>2. flow' \in FlowDocs
    BY <2>1, FlowTypes DEF Statuses
  <2> QED BY <1>1, <1>2, <1>7, <2>1, <2>2, TypeOKParts DEF Typed, Patch, Written, Flags, Counts
<1>8. CASE Delete(q)
  BY <1>1, <1>2, <1>8, TypeOKParts DEF Typed, Delete, Written, Overlaps, Flags, Counts
<1>9. ASSUME NEW t \in Tasks, RunNow(q, t) PROVE TypeOK'
  BY <1>1, <1>2, <1>9, TaskTypes, TypeOKParts DEF Typed, RunNow, Written, Flags, Counts
<1>10. CASE Respond(q)
  <2>1. req' \in [Requests -> RequestDocs]
    <3>1. [req[q] EXCEPT !.at = "over"] \in RequestDocs
      BY TypeOKParts DEF Typed, RequestDocs
    <3>2. req' = [req EXCEPT ![q] = [req[q] EXCEPT !.at = "over"]]
      BY <1>10, TypeOKParts DEF Typed, Respond
    <3> QED BY <3>1, <3>2, TypeOKParts DEF Typed
  <2>2. flow' \in FlowDocs
    BY <1>10, FlowTypes DEF Respond, Statuses
  <2>3. server = "up"
    BY <1>10, TypeOKParts DEF Typed, Respond, Serving, Flags
  <2>4. job' \in BOOLEAN /\ Counts'
    <3>1. job' \in BOOLEAN
      BY <1>10, AddedIsBoolean DEF Respond
    <3>2. again' \in {again, again + 1} /\ UNCHANGED starts
      BY <1>10 DEF Respond, Plus
    <3>3. Counts
      BY TypeOKParts DEF Typed
    <3> QED BY <3>1, <3>2, <3>3 DEF Counts
  <2>5. Flags' /\ Serving'
    BY <1>10, <2>3, <2>4, TypeOKParts DEF Typed, Respond, Flags, Serving
  <2> QED BY <1>10, <2>1, <2>2, <2>4, <2>5, TypeOKParts DEF Typed, Respond
<1> QED BY <1>4, <1>5, <1>6, <1>7, <1>8, <1>9, <1>10 DEF Request

LEMMA DeployTypes ==
    ASSUME TypeOK, Drain \/ ClearDrain \/ Stop \/ Boot
    PROVE  TypeOK'
<1>1. CASE Drain
  BY <1>1, BoundTypes, TypeOKParts DEF Typed, Drain, ghosts, Flags, Counts, Serving
<1>2. CASE ClearDrain
  BY <1>2, TypeOKParts DEF Typed, ClearDrain, Flags, Counts, Serving
<1>3. CASE Stop
  <2>1. task' \in [Tasks -> TaskDocs]
    BY <1>3 DEF Stop, Idle, TaskDocs
  <2>2. \A q \in Requests : req'[q] \in RequestDocs /\ req'[q].at # "written"
    <3> SUFFICES ASSUME NEW q \in Requests
                 PROVE  req'[q] \in RequestDocs /\ req'[q].at # "written"
      OBVIOUS
    <3>1. req[q] \in RequestDocs
      BY TypeOKParts DEF Typed
    <3>2. [req[q] EXCEPT !.at = "over"] \in RequestDocs /\ [req[q] EXCEPT !.at = "over"].at = "over"
      BY <3>1 DEF RequestDocs
    <3> QED BY <1>3, <3>1, <3>2 DEF Stop
  <2>3. req' \in [Requests -> RequestDocs]
    BY <1>3, <2>2 DEF Stop
  <2>4. bounds' \in Bounds
    BY <1>3, BoundTypes DEF Stop
  <2> QED BY <1>3, <2>1, <2>2, <2>3, <2>4, TypeOKParts DEF Typed, Stop, Flags, Counts, Serving
<1>4. CASE Boot
  <2>1. flow' \in FlowDocs
    BY <1>4, FlowTypes DEF Boot
  <2>2. job' \in BOOLEAN
    BY <1>4, AddedIsBoolean DEF Boot
  <2> QED BY <1>4, <2>1, <2>2, TypeOKParts DEF Typed, Boot, Plus, Flags, Counts, Serving
<1> QED BY <1>1, <1>2, <1>3, <1>4

(* The steps, by kind. *)
LEMMA Steps ==
    ASSUME Next
    PROVE  \/ TimePasses \/ JobEnds \/ \E t \in Tasks : Fire(t)
           \/ \E t \in Tasks : Execution(t) \/ RunDeferred(t)
           \/ \E q \in Requests : Request(q) \/ Respond(q)
           \/ Drain \/ ClearDrain \/ Stop \/ Boot
<1> QED BY DEF Next, Progress, DrainEnds

LEMMA StepTypes == TypeOK /\ [Next]_vars => TypeOK'
<1>1. ASSUME TypeOK, Next PROVE TypeOK'
  BY <1>1, Steps, SchedulerTypes, ExecutionTypes, RequestTypes, DeployTypes
<1>2. ASSUME TypeOK, UNCHANGED vars PROVE TypeOK'
  BY <1>2, TypeOKParts DEF Typed, vars, ghosts, Flags, Counts, Serving
<1> QED BY <1>1, <1>2

----------------------------------------------------------------------------
(* Every step keeps OnceInv. *)

LEMMA OnePending ==
    ASSUME TypeOK, NEW t \in Tasks, task' \in [Tasks -> TaskDocs],
           \A u \in Tasks \ {t} : task'[u] = task[u]
    PROVE  /\ Cardinality(Pending) \in Nat /\ Cardinality(Pending') \in Nat
           /\ Cardinality(Pending') = Cardinality(Pending)
                  + (IF t \in Pending' THEN 1 ELSE 0) - (IF t \in Pending THEN 1 ELSE 0)
<1>1. IsFiniteSet(Pending) /\ IsFiniteSet(Pending')
  <2>1. Pending \in SUBSET Tasks /\ Pending' \in SUBSET Tasks
    BY DEF Pending
  <2> QED BY <2>1, FS_Subset
<1>2. Cardinality(Pending) \in Nat /\ Cardinality(Pending') \in Nat
  BY <1>1, FS_CardinalityType
<1>3. \A u \in Tasks \ {t} : u \in Pending' <=> u \in Pending
  BY DEF Pending
<1>4. CASE t \in Pending' <=> t \in Pending
  <2>1. Pending' = Pending
    BY <1>3, <1>4 DEF Pending
  <2> QED BY <1>2, <1>4, <2>1
<1>5. CASE t \in Pending' /\ t \notin Pending
  <2>1. Pending' = Pending \cup {t}
    BY <1>3, <1>5 DEF Pending
  <2>2. Cardinality(Pending') = Cardinality(Pending) + 1
    BY <1>1, <1>5, <2>1, FS_AddElement
  <2> QED BY <1>2, <1>5, <2>2
<1>6. CASE t \notin Pending' /\ t \in Pending
  <2>1. Pending' = Pending \ {t}
    BY <1>3, <1>6 DEF Pending
  <2>2. Cardinality(Pending') = Cardinality(Pending) - 1
    BY <1>1, <1>6, <2>1, FS_RemoveElement
  <2> QED BY <1>2, <1>6, <2>2
<1> QED BY <1>4, <1>5, <1>6

LEMMA PendingTyped ==
    /\ Cardinality(Pending) \in Nat /\ Cardinality(Pending') \in Nat
    /\ UNCHANGED task => Pending' = Pending
<1>1. Pending \in SUBSET Tasks /\ Pending' \in SUBSET Tasks
  BY DEF Pending
<1> QED BY <1>1, FS_Subset, FS_CardinalityType DEF Pending

(* What the steps of an execution do to the number of pending ones. *)
LEMMA PendingSteps ==
    ASSUME TypeOK, NEW t \in Tasks
    PROVE  /\ \A source \in {"trigger", "deferred"} : Spawn(t, source) =>
                  Cardinality(Pending') = Cardinality(Pending) + 1
           /\ Spawn(t, "owner") => Cardinality(Pending') = Cardinality(Pending)
           /\ End(t) \/ Go(t, "running") \/ Go(t, "ending") =>
                  /\ Cardinality(Pending') \in Nat
                  /\ Cardinality(Pending') = Cardinality(Pending) - IF t \in Pending THEN 1 ELSE 0
           /\ UNCHANGED task => Pending' = Pending
<1>1. task \in [Tasks -> TaskDocs]
  BY TypeOKParts DEF Typed
<1>2. Cardinality(Pending) \in Nat /\ (UNCHANGED task => Pending' = Pending)
  BY PendingTyped
<1>3. ASSUME NEW source \in {"trigger", "deferred", "owner"}, Spawn(t, source)
      PROVE  Cardinality(Pending') =
                 IF source = "owner" THEN Cardinality(Pending) ELSE Cardinality(Pending) + 1
  <2>1. task' \in [Tasks -> TaskDocs] /\ \A u \in Tasks \ {t} : task'[u] = task[u]
    BY <1>1, <1>3, TaskTypes DEF Spawn
  <2>2. t \notin Pending /\ (t \in Pending' <=> source # "owner")
    BY <1>1, <1>3 DEF Spawn, At, Pending
  <2> QED BY <2>1, <2>2, OnePending
<1>4. ASSUME End(t) \/ Go(t, "running") \/ Go(t, "ending")
      PROVE  /\ Cardinality(Pending') \in Nat
             /\ Cardinality(Pending') = Cardinality(Pending) - IF t \in Pending THEN 1 ELSE 0
  <2>1. task' \in [Tasks -> TaskDocs]
    BY <1>4, TaskTypes
  <2>2. \A u \in Tasks \ {t} : task'[u] = task[u]
    BY <1>1, <1>4 DEF End, Go
  <2>3. t \notin Pending'
    BY <1>1, <1>4 DEF End, Go, Idle, Pending, TaskDocs
  <2> QED BY <2>1, <2>2, <2>3, OnePending
<1> QED BY <1>2, <1>3, <1>4

(* It is enough that a step books nothing more than it adds to again. *)
KindsKept == \A t \in Tasks : task'[t].kind \in {"none", flow.kind, task[t].kind}

LEMMA OnceKept ==
    ASSUME TypeOK, TypeOK', OnceInv, KindsKept, flow'.kind = flow.kind, UNCHANGED moved,
           Cardinality(Pending) \in Nat, Cardinality(Pending') \in Nat,
           server' = "booting" => ~flow'.deferred,
           moved \/ flow.kind # "once" => starts' = starts,
           ~moved /\ flow.kind = "once" => Booked' - again' <= Booked - again
    PROVE  OnceInv'
<1>1. Counts /\ Counts' /\ moved \in BOOLEAN
  BY TypeOKParts DEF Typed, Flags
<1>2. moved' \/ flow'.kind # "once" => starts' = 0
  BY DEF OnceInv
<1>3. ~moved' => \A t \in Tasks : task'[t].kind \in {"none", flow'.kind}
  BY DEF OnceInv, KindsKept
<1>4. Booked \in Nat /\ Booked' \in Nat
  BY <1>1 DEF Booked, Counts, ToFire, ToDefer
<1>5. ~moved' /\ flow'.kind = "once" => Booked' <= 1 + again'
  <2> SUFFICES ASSUME ~moved', flow'.kind = "once" PROVE Booked' <= 1 + again'
    OBVIOUS
  <2>1. Booked <= 1 + again /\ Booked' - again' <= Booked - again
    BY DEF OnceInv
  <2>2. again \in Nat /\ again' \in Nat
    BY <1>1 DEF Counts
  <2>3. \A a, b, c, d \in Nat : a <= 1 + c /\ b - d <= a - c => b <= 1 + d
    OBVIOUS
  <2> QED BY <1>4, <2>1, <2>2, <2>3
<1> QED BY <1>2, <1>3, <1>5 DEF OnceInv

LEMMA SameKinds ==
    ASSUME TypeOK, NEW t \in Tasks
    PROVE  /\ UNCHANGED task => KindsKept
           /\ End(t) => KindsKept
           /\ \A place : Go(t, place) => KindsKept
           /\ \A source : Spawn(t, source) => KindsKept
<1> QED BY TypeOKParts DEF Typed, KindsKept, End, Go, Spawn, Idle, TaskDocs

(* A job added after one had fired is counted, and any other takes the place of
   one that had not. *)
LEMMA AddBooks ==
    ASSUME TypeOK, TypeOK', ~moved, flow.kind = "once", NEW adds \in BOOLEAN,
           adds \/ (job' => job), again' = IF adds /\ AddsAgain THEN Plus(again) ELSE again,
           UNCHANGED <<starts, fired>>, Pending' = Pending, ToDefer' <= ToDefer
    PROVE  Booked' - again' <= Booked - again
<1>1. Counts /\ Flags /\ Flags' /\ Cardinality(Pending) \in Nat
  BY TypeOKParts, PendingTyped DEF Typed
<1>2. ToFire' + again <= ToFire + again' /\ ToFire \in 0..1 /\ ToFire' \in 0..1
      /\ again' \in {again, again + 1}
  BY <1>1 DEF AddsAgain, Plus, ToFire, Counts, Flags
<1>3. Booked = starts + ToFire + ToDefer + Cardinality(Pending)
      /\ Booked' = starts + ToFire' + ToDefer' + Cardinality(Pending)
  BY DEF Booked
<1> QED BY <1>1, <1>2, <1>3 DEF Counts, ToDefer

LEMMA SchedulerOnce ==
    ASSUME TypeOK, TypeOK', OnceInv, TimePasses \/ JobEnds \/ \E t \in Tasks : Fire(t)
    PROVE  OnceInv'
<1>1. Counts /\ Flags /\ Cardinality(Pending) \in Nat
  BY TypeOKParts, PendingTyped DEF Typed
<1>2. CASE TimePasses
  <2>1. Pending' = Pending /\ KindsKept
    BY <1>2, TypeOKParts DEF Typed, TimePasses, Pending, KindsKept
  <2>2. ToFire' <= ToFire /\ ToDefer' = ToDefer /\ ToFire' \in 0..1 /\ ToFire \in 0..1
    BY <1>1, <1>2 DEF Flags, TimePasses, ghosts, ToFire, ToDefer
  <2>3. Booked' - again' <= Booked - again
    BY <1>1, <1>2, <2>1, <2>2 DEF Booked, ToDefer, Counts, TimePasses, ghosts
  <2> QED BY <1>1, <1>2, <2>1, <2>3, OnceKept DEF TimePasses, ghosts, OnceInv
<1>3. CASE JobEnds
  <2>1. Pending' = Pending /\ KindsKept
    BY <1>3, TypeOKParts DEF Typed, JobEnds, Pending, KindsKept
  <2>2. ToFire' <= ToFire /\ ToDefer' = ToDefer /\ ToFire' \in 0..1 /\ ToFire \in 0..1
    BY <1>1, <1>3 DEF Flags, JobEnds, ghosts, ToFire, ToDefer
  <2>3. Booked' - again' <= Booked - again
    BY <1>1, <1>3, <2>1, <2>2 DEF Booked, ToDefer, Counts, JobEnds, ghosts
  <2> QED BY <1>1, <1>3, <2>1, <2>3, OnceKept DEF JobEnds, ghosts, OnceInv
<1>4. ASSUME NEW t \in Tasks, Fire(t) PROVE OnceInv'
  <2>1. KindsKept /\ Cardinality(Pending') \in {Cardinality(Pending), Cardinality(Pending) + 1}
    BY <1>4, SameKinds, PendingSteps DEF Fire
  <2>2. ~moved /\ flow.kind = "once" => ToFire = 1 /\ ToFire' = 0
    BY <1>1, <1>4 DEF Fire, Triggers, ToFire, Flags
  <2>3. ~moved /\ flow.kind = "once" => Booked' - again' <= Booked - again
    BY <1>1, <1>4, <2>1, <2>2 DEF Booked, ToDefer, Counts, Fire
  <2> QED BY <1>1, <1>4, <2>1, <2>3, OnceKept DEF Fire, OnceInv
<1> QED BY <1>2, <1>3, <1>4

LEMMA ExecutionOnce ==
    ASSUME TypeOK, TypeOK', OnceInv, NEW t \in Tasks, Execution(t) \/ RunDeferred(t)
    PROVE  OnceInv'
<1>1. Counts /\ Flags /\ Cardinality(Pending) \in Nat /\ Cardinality(Pending') \in Nat
      /\ task[t] \in TaskDocs /\ task \in [Tasks -> TaskDocs] /\ flow \in FlowDocs /\ Serving
  BY TypeOKParts, PendingTyped DEF Typed
<1>2. CASE ReadFlow(t)
  <2>1. CASE Active /\ ~Defers
    <3>1. Pending' = Pending /\ KindsKept
      <4>1. task' = [task EXCEPT ![t] = [task[t] EXCEPT !.at = "checking", !.kind = flow.kind]]
            /\ task[t].at = "new"
        BY <1>1, <1>2, <2>1 DEF ReadFlow, At
      <4>2. \A u \in Tasks \ {t} : task'[u] = task[u]
        BY <1>1, <4>1
      <4>3. task'[t].at = "checking" /\ task'[t].kind = flow.kind /\ task'[t].source = task[t].source
        BY <1>1, <4>1 DEF TaskDocs
      <4> QED BY <4>1, <4>2, <4>3 DEF Pending, KindsKept
    <3>2. Booked' - again' <= Booked - again
      BY <1>1, <1>2, <2>1, <3>1 DEF ReadFlow, Booked, ToFire, ToDefer, Counts
    <3> QED BY <1>1, <1>2, <2>1, <3>1, <3>2, OnceKept DEF ReadFlow, OnceInv
  <2>2. CASE ~(Active /\ ~Defers)
    <3>1. End(t) /\ KindsKept
      BY <1>2, <2>2, SameKinds DEF ReadFlow
    <3>2. t \in Pending <=> task[t].source # "owner"
      BY <1>2 DEF ReadFlow, Pending, At
    <3>3. Cardinality(Pending') = Cardinality(Pending) - IF task[t].source # "owner" THEN 1 ELSE 0
      BY <3>1, <3>2, PendingSteps
    <3>4. CASE Active
      <4>1. server = "up" /\ flow' = [flow EXCEPT !.deferred = TRUE]
        BY <1>1, <1>2, <2>2, <3>4 DEF ReadFlow, Serving, Defers
      <4>2. flow'.kind = flow.kind /\ ToFire' = ToFire /\ ToDefer' = 1 /\ ToDefer \in 0..1
        BY <1>1, <1>2, <4>1 DEF ReadFlow, ToFire, ToDefer, FlowDocs
      <4>3. ~moved => Booked' - again' <= Booked - again
        BY <1>1, <1>2, <2>2, <3>3, <3>4, <4>2 DEF ReadFlow, Booked, Plus, Counts, ToFire
      <4> QED BY <1>1, <1>2, <3>1, <4>1, <4>2, <4>3, OnceKept DEF ReadFlow, OnceInv
    <3>5. CASE ~Active
      <4>1. Booked' - again' <= Booked - again
        BY <1>1, <1>2, <2>2, <3>3, <3>5 DEF ReadFlow, Booked, ToFire, ToDefer, Counts
      <4> QED BY <1>1, <1>2, <2>2, <3>1, <3>5, <4>1, OnceKept DEF ReadFlow, OnceInv
    <3> QED BY <3>4, <3>5
  <2> QED BY <2>1, <2>2
<1>3. ASSUME End(t), UNCHANGED <<flow, job, server, starts, moved, fired, again>>
      PROVE  OnceInv'
  <2>1. KindsKept /\ Cardinality(Pending') <= Cardinality(Pending)
    BY <1>1, <1>3, SameKinds, PendingSteps
  <2>2. Booked' - again' <= Booked - again
    BY <1>1, <1>3, <2>1 DEF Booked, ToFire, ToDefer, Counts
  <2> QED BY <1>1, <1>3, <2>1, <2>2, OnceKept DEF OnceInv
<1>4. CASE CheckFails(t) \/ RunFails(t)
  BY <1>3, <1>4 DEF CheckFails, RunFails, ghosts
<1>5. CASE Begin(t)
  <2>1. t \in Pending <=> task[t].source # "owner"
    BY <1>5 DEF Begin, Pending, At
  <2>2. Cardinality(Pending') = Cardinality(Pending) - IF task[t].source # "owner" THEN 1 ELSE 0
    BY <1>5, <2>1, PendingSteps, Zenon DEF Begin
  <2>3. KindsKept
    BY <1>5, SameKinds DEF Begin
  <2>4. moved \/ flow.kind # "once" => starts' = starts
    BY <1>1, <1>5 DEF Begin, Plus, OnceInv, FlowDocs
  <2>5. ~moved => Booked' - again' <= Booked - again
    BY <1>1, <1>5, <2>2 DEF Begin, Booked, Plus, ToFire, ToDefer, Counts
  <2> QED BY <1>1, <1>5, <2>3, <2>4, <2>5, OnceKept DEF Begin, OnceInv
<1>6. CASE RunFinishes(t)
  <2>1. KindsKept /\ Cardinality(Pending') <= Cardinality(Pending)
    BY <1>1, <1>6, SameKinds, PendingSteps DEF RunFinishes
  <2>2. Booked' - again' <= Booked - again
    BY <1>1, <1>6, <2>1 DEF RunFinishes, ghosts, Booked, ToFire, ToDefer, Counts
  <2> QED BY <1>1, <1>6, <2>1, <2>2, OnceKept DEF RunFinishes, ghosts, OnceInv
<1>7. CASE Complete(t)
  <2>1. KindsKept /\ Cardinality(Pending') <= Cardinality(Pending)
    BY <1>1, <1>7, SameKinds, PendingSteps DEF Complete
  <2>2. flow'.kind = flow.kind /\ flow'.deferred = flow.deferred /\ job' \in {FALSE, job}
    BY <1>1, <1>7 DEF Complete, FlowDocs
  <2>3. ToFire' <= ToFire /\ ToDefer' = ToDefer /\ ToFire' \in 0..1 /\ ToFire \in 0..1
    BY <1>1, <1>7, <2>2 DEF Complete, ToFire, ToDefer
  <2>4. Booked' - again' <= Booked - again
    BY <1>1, <1>7, <2>1, <2>3 DEF Complete, Booked, ToDefer, Counts
  <2> QED BY <1>1, <1>7, <2>1, <2>2, <2>4, OnceKept DEF Complete, OnceInv
<1>8. CASE RunDeferred(t)
  <2>1. KindsKept /\ Cardinality(Pending') = Cardinality(Pending) + 1
    BY <1>8, SameKinds, PendingSteps DEF RunDeferred
  <2>2. ToFire' = ToFire /\ ToDefer = 1 /\ ToDefer' = 0
    BY <1>8 DEF RunDeferred, ghosts, ToFire, ToDefer, OnceInv
  <2>3. Booked' - again' <= Booked - again
    BY <1>1, <1>8, <2>1, <2>2 DEF RunDeferred, ghosts, Booked, ToFire, Counts
  <2> QED BY <1>1, <1>8, <2>1, <2>3, OnceKept DEF RunDeferred, ghosts, OnceInv
<1> QED BY <1>2, <1>4, <1>5, <1>6, <1>7, <1>8 DEF Execution

LEMMA RequestOnce ==
    ASSUME TypeOK, TypeOK', OnceInv, NEW q \in Requests, Request(q) \/ Respond(q)
    PROVE  OnceInv'
<1>1. Counts /\ Flags /\ Cardinality(Pending) \in Nat /\ Cardinality(Pending') \in Nat
      /\ flow \in FlowDocs /\ Serving /\ Serving'
  BY TypeOKParts, PendingTyped DEF Typed
<1>2. ASSUME UNCHANGED <<server, starts, moved, fired, again>>, KindsKept,
             Cardinality(Pending') = Cardinality(Pending), job' \in {job, FALSE},
             flow'.kind = flow.kind, flow'.deferred = flow.deferred
      PROVE  OnceInv'
  <2>0. job' => job
    BY <1>2, Zenon
  <2>1. ToFire' <= ToFire /\ ToDefer' = ToDefer /\ ToFire' \in 0..1 /\ ToFire \in 0..1
    BY <1>2, <2>0 DEF ToFire, ToDefer
  <2>2. Booked' - again' <= Booked - again
    BY <1>1, <1>2, <2>1 DEF Booked, ToDefer, Counts
  <2> QED BY <1>1, <1>2, <2>2, OnceKept DEF OnceInv
<1>3. UNCHANGED task => KindsKept /\ Pending' = Pending
  BY TypeOKParts, PendingTyped DEF Typed, KindsKept
<1>4. CASE Pause(q) \/ Resume(q) \/ Patch(q) \/ Delete(q)
  <2>1. flow'.kind = flow.kind /\ flow'.deferred = flow.deferred
    BY <1>1, <1>4 DEF Pause, Resume, Patch, Delete, FlowDocs
  <2> QED BY <1>2, <1>3, <1>4, <2>1 DEF Pause, Resume, Patch, Delete, Written
<1>5. CASE Reschedule(q)
  BY <1>1, <1>5 DEF Reschedule, Written, OnceInv
<1>6. ASSUME NEW t \in Tasks, RunNow(q, t) PROVE OnceInv'
  <2>1. KindsKept /\ Cardinality(Pending') = Cardinality(Pending)
    BY <1>6, SameKinds, PendingSteps DEF RunNow
  <2> QED BY <1>2, <1>6, <2>1 DEF RunNow, Written
<1>7. CASE Respond(q)
  <2> DEFINE adds == req[q].op \in {"resume", "reschedule"} /\ req[q].status = "active"
  <2>1. flow'.kind = flow.kind /\ flow'.deferred = flow.deferred
    BY <1>1, <1>7 DEF Respond, FlowDocs
  <2>2. adds \/ (job' => job)
    BY <1>7, Zenon DEF Respond
  <2>3. again' = IF adds /\ AddsAgain THEN Plus(again) ELSE again
    BY <1>7 DEF Respond
  <2>4. UNCHANGED <<server, task, moved, starts, fired>>
    BY <1>7 DEF Respond
  <2>5. ~moved /\ flow.kind = "once" => Booked' - again' <= Booked - again
    <3> SUFFICES ASSUME ~moved, flow.kind = "once" PROVE Booked' - again' <= Booked - again
      OBVIOUS
    <3>1. adds \in BOOLEAN /\ Pending' = Pending /\ ToDefer' <= ToDefer
          /\ UNCHANGED <<starts, fired>>
      BY <1>3, <2>1, <2>4 DEF ToDefer
    <3> HIDE DEF adds
    <3> QED BY <2>2, <2>3, <3>1, AddBooks
  <2> QED BY <1>1, <1>3, <2>1, <2>4, <2>5, OnceKept DEF OnceInv
<1> QED BY <1>4, <1>5, <1>6, <1>7 DEF Request

LEMMA DeployOnce ==
    ASSUME TypeOK, TypeOK', OnceInv, Drain \/ ClearDrain \/ Stop \/ Boot
    PROVE  OnceInv'
<1>1. Counts /\ Flags /\ Cardinality(Pending) \in Nat /\ Cardinality(Pending') \in Nat
      /\ flow \in FlowDocs
  BY TypeOKParts, PendingTyped DEF Typed
<1>2. UNCHANGED task => KindsKept /\ Pending' = Pending
  BY TypeOKParts, PendingTyped DEF Typed, KindsKept
<1>3. CASE Drain \/ ClearDrain
  <2>1. Booked' - again' <= Booked - again
    BY <1>1, <1>2, <1>3 DEF Drain, ClearDrain, ghosts, Booked, ToFire, ToDefer, Counts
  <2> QED BY <1>1, <1>2, <1>3, <2>1, OnceKept DEF Drain, ClearDrain, ghosts, OnceInv
<1>4. CASE Stop
  <2>1. KindsKept
    BY <1>4 DEF Stop, KindsKept, Idle
  <2>2. Pending' = {}
    BY <1>4 DEF Stop, Pending, Idle
  <2>3. Cardinality(Pending') = 0
    BY <2>2, FS_EmptySet
  <2>4. ToFire' <= ToFire /\ ToDefer' <= ToDefer
    BY <1>4 DEF Stop, ToFire, ToDefer
  <2>5. Booked' - again' <= Booked - again
    BY <1>1, <1>4, <2>3, <2>4 DEF Stop, Booked, Counts, ToFire, ToDefer
  <2> QED BY <1>1, <1>4, <2>1, <2>5, OnceKept DEF Stop, OnceInv
<1>5. CASE Boot
  <2>1. flow'.kind = flow.kind /\ ToDefer' <= ToDefer /\ (server' = "booting" => ~flow'.deferred)
    BY <1>1, <1>5 DEF Boot, ToDefer, FlowDocs
  <2>2. again' = (IF Active /\ AddsAgain THEN Plus(again) ELSE again) /\ (Active \/ ~job')
    BY <1>5 DEF Boot, AddsAgain
  <2>3. UNCHANGED <<task, moved, starts, fired>>
    BY <1>5 DEF Boot
  <2>4. ~moved /\ flow.kind = "once" => Booked' - again' <= Booked - again
    BY <1>1, <1>2, <2>1, <2>2, <2>3, AddBooks
  <2> QED BY <1>1, <1>2, <2>1, <2>3, <2>4, OnceKept DEF OnceInv
<1> QED BY <1>3, <1>4, <1>5

LEMMA StepOnce == TypeOK /\ TypeOK' /\ OnceInv /\ [Next]_vars => OnceInv'
<1>1. ASSUME TypeOK, TypeOK', OnceInv, Next PROVE OnceInv'
  BY <1>1, Steps, SchedulerOnce, ExecutionOnce, RequestOnce, DeployOnce
<1>2. ASSUME TypeOK, TypeOK', OnceInv, UNCHANGED vars PROVE OnceInv'
  <2>1. Pending' = Pending
    BY <1>2, PendingTyped DEF vars
  <2> QED BY <1>2, <2>1 DEF vars, ghosts, OnceInv, Booked, ToFire, ToDefer
<1> QED BY <1>1, <1>2

----------------------------------------------------------------------------
(* Every step keeps JobInv. *)

(* A step that leaves the requests alone. *)
LEMMA JobKept ==
    ASSUME JobInv, UNCHANGED req, ~crossed' => ~crossed,
           flow'.status = "active" => Active,
           ToCome' => job' \/ (\E q \in Requests : Pends(q)) \/ (ToCome /\ (job => job'))
    PROVE  JobInv'
<1>1. \A q \in Requests : (Pends(q))' <=> Pends(q)
  BY DEF Pends
<1>2. \A q \in Requests : ToSetRight(q) => (ToSetRight(q))'
  BY DEF ToSetRight, Active
<1> QED BY <1>1, <1>2 DEF JobInv

LEMMA SchedulerJob ==
    ASSUME TypeOK, JobInv,
           \/ TimePasses \/ JobEnds \/ \E t \in Tasks : Fire(t)
           \/ Drain \/ ClearDrain
           \/ \E t \in Tasks : Execution(t) \/ RunDeferred(t)
    PROVE  JobInv'
<1>1. flow \in FlowDocs /\ Flags
  BY TypeOKParts DEF Typed
<1>2. CASE TimePasses
  BY <1>2, JobKept DEF TimePasses, ghosts, ToCome, Active
<1>3. CASE JobEnds
  BY <1>3, JobKept DEF JobEnds, ghosts, ToCome, Active
<1>4. ASSUME NEW t \in Tasks, Fire(t) PROVE JobInv'
  <2>1. UNCHANGED <<flow, clock, server, req, crossed>>
    BY <1>4 DEF Fire
  <2>2. Replacing => \E q \in Requests : Pends(q)
    BY DEF Replacing, Pends
  <2>3. ToCome => job' \/ Replacing
    BY <1>4 DEF ToCome, Fire, Triggers
  <2> QED BY <2>1, <2>2, <2>3, JobKept DEF ToCome, Active
<1>5. CASE Drain \/ ClearDrain
  BY <1>5, JobKept DEF Drain, ClearDrain, ghosts, ToCome, Active
<1>6. ASSUME NEW t \in Tasks, ReadFlow(t) PROVE JobInv'
  BY <1>1, <1>6, JobKept DEF ReadFlow, ToCome, Active, FlowDocs
<1>7. ASSUME NEW t \in Tasks, CheckFails(t) \/ Begin(t) \/ RunFails(t) \/ RunFinishes(t)
      PROVE  JobInv'
  BY <1>7, JobKept DEF CheckFails, Begin, RunFails, RunFinishes, ghosts, ToCome, Active
<1>8. ASSUME NEW t \in Tasks, Complete(t) PROVE JobInv'
  BY <1>1, <1>8, JobKept DEF Complete, ToCome, Active, FlowDocs
<1>9. ASSUME NEW t \in Tasks, RunDeferred(t) PROVE JobInv'
  BY <1>9, JobKept DEF RunDeferred, ghosts, ToCome, Active
<1> QED BY <1>2, <1>3, <1>4, <1>5, <1>6, <1>7, <1>8, <1>9 DEF Execution

LEMMA StopJob ==
    ASSUME TypeOK, JobInv, Stop \/ Boot
    PROVE  JobInv'
<1>1. flow \in FlowDocs /\ Flags /\ Serving /\ req \in [Requests -> RequestDocs]
  BY TypeOKParts DEF Typed
<1>2. CASE Stop
  <2>1. server' = "down" /\ (~crossed' => \A q \in Requests : req'[q].at # "written")
    BY <1>1, <1>2 DEF Stop, RequestDocs
  <2> QED BY <2>1 DEF JobInv, ToCome, Pends
<1>3. CASE Boot
  <2>1. \A q \in Requests : ~(Pends(q))'
    BY <1>1, <1>3 DEF Boot, Serving, Pends
  <2>2. ToCome' => job'
    <3>1. flow'.kind = flow.kind /\ flow'.sound = flow.sound /\ flow'.status = flow.status
      BY <1>1, <1>3 DEF Boot, FlowDocs
    <3>2. clock' = clock /\ (Active => job' \in Added)
      BY <1>3 DEF Boot
    <3> QED BY <3>1, <3>2, AddsInTime DEF ToCome, Active
  <2> QED BY <2>1, <2>2 DEF JobInv
<1> QED BY <1>2, <1>3

LEMMA RequestJob ==
    ASSUME TypeOK, JobInv, NEW q \in Requests, Request(q) \/ Respond(q)
    PROVE  JobInv'
<1>1. flow \in FlowDocs /\ Flags /\ req \in [Requests -> RequestDocs]
  BY TypeOKParts DEF Typed
<1> SUFFICES ASSUME ~crossed' PROVE JobInv'
  BY DEF JobInv
<1>2. ~crossed
  BY <1>1 DEF Request, Respond, Pause, Resume, Reschedule, Patch, Delete, RunNow, Flags
<1>3. ASSUME NEW op, NEW status, Written(q, op, status)
      PROVE  /\ \A p \in Requests \ {q} : req'[p] = req[p]
             /\ req'[q] = [at |-> "written", op |-> op, status |-> status]
  BY <1>1, <1>3 DEF Written
<1>4. ASSUME NEW op, NEW status, Written(q, op, status), op # "run_now",
             (ToSetRight(q))', ~Overlaps(q)
      PROVE  JobInv'
  <2>1. req'[q] = [at |-> "written", op |-> op, status |-> status]
        /\ \A p \in Requests \ {q} : req'[p] = req[p] /\ req[p].at # "written"
    BY <1>3, <1>4 DEF Overlaps
  <2>2. (Pends(q))' /\ \A p \in Requests \ {q} : ~(Pends(p))'
    BY <1>4, <2>1 DEF Pends
  <2> QED BY <1>4, <2>2 DEF JobInv
<1>5. CASE Pause(q)
  <2>1. req'[q] = [at |-> "written", op |-> "pause", status |-> "paused"]
    BY <1>3, <1>5 DEF Pause
  <2>2. (ToSetRight(q))'
    BY <1>1, <1>5, <2>1 DEF Pause, ToSetRight, Active, FlowDocs
  <2> QED BY <1>4, <1>5, <2>2 DEF Pause
<1>6. CASE Resume(q)
  <2>1. req'[q] = [at |-> "written", op |-> "resume", status |-> "active"]
    BY <1>3, <1>6 DEF Resume
  <2>2. (ToSetRight(q))'
    BY <1>1, <1>6, <2>1 DEF Resume, ToSetRight, Active, FlowDocs
  <2> QED BY <1>4, <1>6, <2>2 DEF Resume
<1>7. CASE Reschedule(q)
  <2>1. PICK k \in Kinds, b \in BOOLEAN, s \in {flow.status, "paused"} :
            /\ Written(q, "reschedule", s)
            /\ flow' = [flow EXCEPT !.kind = k, !.sound = b, !.status = s]
    BY <1>7 DEF Reschedule
  <2>2. req'[q] = [at |-> "written", op |-> "reschedule", status |-> s] /\ flow'.status = s
    BY <1>1, <1>3, <2>1 DEF FlowDocs
  <2>3. (ToSetRight(q))'
    BY <2>2 DEF ToSetRight, Active
  <2> QED BY <1>4, <1>7, <2>1, <2>3 DEF Reschedule
<1>8. CASE Delete(q)
  <2>1. req'[q] = [at |-> "written", op |-> "delete", status |-> "deleted"]
    BY <1>3, <1>8 DEF Delete
  <2>2. (ToSetRight(q))'
    BY <1>1, <1>8, <2>1 DEF Delete, ToSetRight
  <2> QED BY <1>4, <1>8, <2>2 DEF Delete
<1>9. ASSUME NEW t \in Tasks, RunNow(q, t) PROVE JobInv'
  <2>1. ~Pends(q) /\ ~(Pends(q))' /\ \A p \in Requests \ {q} : req'[p] = req[p]
    BY <1>3, <1>9 DEF RunNow, Written, Pends
  <2>2. \A p \in Requests : ((Pends(p))' <=> Pends(p)) /\ (Pends(p) /\ ToSetRight(p) => (ToSetRight(p))')
    BY <1>9, <2>1 DEF RunNow, Pends, ToSetRight, Active
  <2> QED BY <1>2, <1>9, <2>2 DEF JobInv, ToCome, RunNow, Written, Active
<1>10. CASE Respond(q)
  <2>1. /\ req[q].at = "written" /\ req'[q].at = "over"
        /\ \A p \in Requests \ {q} : req'[p] = req[p]
    BY <1>1, <1>10 DEF Respond, RequestDocs
  <2>2. ~(Pends(q))' /\ \A p \in Requests \ {q} : (Pends(p))' <=> Pends(p)
    BY <2>1 DEF Pends
  <2>3. CASE Pends(q)
    <3>1. \A p \in Requests : ~(Pends(p))'
      BY <1>2, <2>2, <2>3 DEF JobInv
    <3>2. ToSetRight(q) /\ req[q].op \in {"pause", "resume", "reschedule", "delete"}
      BY <1>1, <1>2, <2>3 DEF JobInv, Pends, ToSetRight, RequestDocs
    <3>3. ToCome' => job'
      <4>1. flow'.kind = flow.kind /\ flow'.sound = flow.sound /\ flow'.status \in {flow.status, "deleted"}
            /\ (req[q].op = "delete" => flow'.status = "deleted") /\ UNCHANGED clock
        BY <1>1, <1>10 DEF Respond, FlowDocs
      <4>2. ToCome' => req[q].op \in {"resume", "reschedule"} /\ req[q].status = "active"
        BY <3>2, <4>1 DEF ToSetRight, ToCome, Active
      <4>3. req[q].op \in {"resume", "reschedule"} /\ req[q].status = "active" => job' \in Added
        BY <1>10 DEF Respond
      <4> QED BY <4>1, <4>2, <4>3, AddsInTime DEF ToCome
    <3> QED BY <3>1, <3>3 DEF JobInv
  <2>4. CASE ~Pends(q)
    <3>1. req[q].op = "run_now"
      BY <2>1, <2>4 DEF Pends
    <3>2. job' = job /\ flow' = flow /\ UNCHANGED <<clock, server>>
      BY <1>1, <1>10, <3>1 DEF Respond, Flags
    <3>3. \A p \in Requests : ((Pends(p))' <=> Pends(p)) /\ (Pends(p) /\ ToSetRight(p) => (ToSetRight(p))')
      BY <2>1, <2>2, <2>4, <3>2 DEF ToSetRight, Active
    <3> QED BY <1>2, <3>2, <3>3 DEF JobInv, ToCome, Active
  <2> QED BY <2>3, <2>4
<1> QED BY <1>1, <1>5, <1>6, <1>7, <1>8, <1>9, <1>10 DEF Request, Patch

LEMMA StepJob == TypeOK /\ JobInv /\ [Next]_vars => JobInv'
<1>1. ASSUME TypeOK, JobInv, Next PROVE JobInv'
  BY <1>1, Steps, SchedulerJob, StopJob, RequestJob
<1>2. ASSUME JobInv, UNCHANGED vars PROVE JobInv'
  BY <1>2 DEF vars, ghosts, JobInv, ToCome, Pends, ToSetRight, Active
<1> QED BY <1>1, <1>2

----------------------------------------------------------------------------
LEMMA Invariance == Spec => []IInv
<1>1. IInv /\ [Next]_vars => IInv'
  BY StepTypes, StepOnce, StepJob DEF IInv
<1> QED BY Initially, <1>1, PTL DEF Spec

LEMMA OnceFollows == IInv => OnceRunsOnce
<1> SUFFICES ASSUME IInv PROVE OnceRunsOnce
  OBVIOUS
<1>1. Counts /\ flow \in FlowDocs /\ Cardinality(Pending) \in Nat
  BY TypeOKParts, PendingTyped DEF IInv, Typed
<1>2. CASE moved \/ flow.kind # "once"
  BY <1>1, <1>2 DEF IInv, OnceInv, OnceRunsOnce, Counts
<1>3. CASE ~moved /\ flow.kind = "once"
  BY <1>1, <1>3 DEF IInv, OnceInv, OnceRunsOnce, Counts, Booked, ToFire, ToDefer
<1> QED BY <1>2, <1>3

LEMMA ScheduledFollows == IInv => ActiveIsScheduled
<1> SUFFICES ASSUME IInv, server = "up", Active, flow.sound, flow.kind = "once" => clock = "before",
                    \A q \in Requests : req[q].at # "written", ~crossed
             PROVE  job
  BY DEF ActiveIsScheduled
<1> QED BY DEF IInv, JobInv, ToCome, Pends

(* complete_flow takes a one-off flow away when its run ends; a drain defers
   it, a boot runs what was deferred and adds its job again, and the owner
   pauses and resumes it.  With all of that in any order, and whatever job its
   schedule gave, a one-off flow is run once and once more for each job added
   after one had fired: what fired, what was deferred and what the job may
   still fire never add up to more. *)
THEOREM OnceOnly == Spec => []OnceRunsOnce
<1> QED BY Invariance, OnceFollows, PTL

(* Pause, resume, re-schedule and delete write the document before they set
   the job right, and run_now, the executions and boots come between.  As long
   as no two requests overlap and none patches the status alone, an active flow
   of a sound schedule that recurs, or whose time is still to come, has a job
   whenever no request is under way.  It says nothing of a schedule that does
   not parse, has an end_time or a one-off time in a zone other than UTC: for
   those _add_job_for_flow may have failed in silence. *)
THEOREM ActiveFlowsHaveJobs == Spec => []ActiveIsScheduled
<1> QED BY Invariance, ScheduledFollows, PTL

(* The schedule of a flow is kept: its parts together. *)
THEOREM Schedule == Spec => []ScheduleIsKept
<1>1. IInv => ScheduleIsKept
  BY OnceFollows, ScheduledFollows DEF IInv, ScheduleIsKept
<1> QED BY Invariance, <1>1, PTL

============================================================================
