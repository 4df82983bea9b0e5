---- MODULE HumanTasksProofs ----
(***************************************************************************)
(* Theorems about HumanTasks, for any set of requests and of people and    *)
(* any bounds.                                                             *)
(***************************************************************************)
EXTENDS HumanTasks, TLAPS

USE NamesAssumption, BoundsAssumption, NoneAssumption
    DEF NamesAssumption, BoundsAssumption, NoneAssumption

(* What the worker and its visitors write keeps a document well formed. *)
LEMMA DocUpdates ==
    ASSUME NEW d \in Docs
    PROVE  /\ \A p \in People, v \in Versions :
                [d EXCEPT !.assignee = p, !.notice = "pending", !.version = v] \in Docs
           /\ \A v \in Versions :
                [d EXCEPT !.state = "answered", !.resume = "queued", !.version = v] \in Docs
           /\ \A s \in {"pending", "sent"} : [d EXCEPT !.notice = s] \in Docs
           /\ \A s \in {"waiting", "queued", "running", "completed", "needs_review"} :
                [d EXCEPT !.resume = s] \in Docs
           /\ \A b \in BOOLEAN : [d EXCEPT !.told = b] \in Docs
<1>1. \A b \in BOOLEAN : [d EXCEPT !.told = b] \in Docs
  BY Zenon DEF Docs
<1> QED BY <1>1 DEF Docs

(* How a run ends keeps the conversation well formed. *)
LEMMA SourceUpdates ==
    ASSUME TypeOK
    PROVE  RunEnds => source' \in [status : SourceStatus, marker : Requests \cup {None},
                                   stopped : BOOLEAN]
<1>1. ASSUME NEW s \in SourceStatus, NEW b \in BOOLEAN
      PROVE  [source EXCEPT !.status = s, !.stopped = b]
               \in [status : SourceStatus, marker : Requests \cup {None}, stopped : BOOLEAN]
  BY Zenon DEF TypeOK
<1>2. ASSUME NEW s \in SourceStatus, NEW b \in BOOLEAN, RunEndsWith(s, b)
      PROVE  \E c \in BOOLEAN : source' = [source EXCEPT !.status = s, !.stopped = c]
  <2>1. source.stopped \in BOOLEAN
    BY Zenon DEF TypeOK
  <2>2. CASE s = "running"
    BY <1>2, <2>1, <2>2, Zenon DEF RunEndsWith
  <2>3. CASE s # "running"
    BY <1>2, <2>3, Zenon DEF RunEndsWith
  <2> QED BY <2>2, <2>3
<1>3. ASSUME NEW s \in SourceStatus, NEW b \in BOOLEAN, RunEndsWith(s, b)
      PROVE  source' \in [status : SourceStatus, marker : Requests \cup {None},
                          stopped : BOOLEAN]
  <2>1. PICK c \in BOOLEAN : source' = [source EXCEPT !.status = s, !.stopped = c]
    BY <1>2, <1>3
  <2> QED BY <1>1, <2>1, Zenon
<1> QED BY <1>3, Zenon DEF RunEnds, SourceStatus

(* A document replaced by another one. *)
LEMMA TaskUpdate ==
    ASSUME TypeOK, NEW r \in Requests, NEW d \in Docs, task' = [task EXCEPT ![r] = d]
    PROVE  task' \in [Requests -> Docs \cup {None}]
<1> QED BY DEF TypeOK

(* Every step keeps the state well typed. *)
LEMMA KeepsTypes == TypeOK /\ TickInv /\ OnceInv /\ [Next]_vars => TypeOK'
<1> SUFFICES ASSUME TypeOK, TickInv, OnceInv, [Next]_vars PROVE TypeOK'
  OBVIOUS
<1> USE DEF docVars, sourceVars, sweepVars, dispatchVars
<1> USE DEF TypeOK, DispatchSteps, SourceStatus, TickSteps, Endings, Ordinary
<1>1. ASSUME NEW r \in Requests, NEW p \in People, Create(r, p) PROVE TypeOK'
  BY <1>1 DEF Create, InsertsOnce, Created, Docs, Versions
<1>2. ASSUME NEW r \in Requests, NEW p \in People, NEW v \in Versions, Assign(r, p, v)
      PROVE  TypeOK'
  <2>1. task[r] \in Docs /\ v + 1 \in Versions
    BY <1>2 DEF Assign, Created, Docs, Versions
  <2>2. task' =
        [task EXCEPT ![r] = [task[r] EXCEPT !.assignee = p, !.notice = "pending", !.version = v + 1]]
    BY <1>2, Zenon DEF Assign
  <2>3. task' \in [Requests -> Docs \cup {None}]
    BY <2>1, <2>2, DocUpdates, TaskUpdate, Zenon DEF Endings
  <2> QED BY <1>2, <2>3 DEF Assign
<1>3. ASSUME NEW r \in Requests, NEW p \in People, NEW v \in Versions, Respond(p, r, v)
      PROVE  TypeOK'
  <2>1. task[r] \in Docs /\ v + 1 \in Versions
    BY <1>3 DEF Respond, MayAnswer, Created, Docs, Versions, OnceInv
  <2>2. task' =
        [task EXCEPT ![r] = [task[r] EXCEPT !.state = "answered", !.resume = "queued", !.version = v + 1]]
    BY <1>3, Zenon DEF Respond
  <2>3. task' \in [Requests -> Docs \cup {None}]
    BY <2>1, <2>2, DocUpdates, TaskUpdate, Zenon DEF Endings
  <2> QED BY <1>3, <2>3 DEF Respond
<1>4. ASSUME TickReads PROVE TypeOK'
  BY <1>4 DEF TickReads, Created
<1>5. ASSUME NEW r \in Requests, Notifies(r) PROVE TypeOK'
  <2>1. listed[r] \in Docs /\ task[r] \in Docs
    BY <1>5 DEF Notifies, AtTick, TickInv, AtSteps, Created
  <2>2. [req |-> r, version |-> listed[r].version, to |-> listed[r].assignee] \in Notices
    BY <2>1 DEF Docs, Notices
  <2>3. assigned' \subseteq Notices
    BY <1>5, <2>2 DEF Notifies
  <2>4. current' \in AtSteps \cup {None}
    BY <1>5 DEF Notifies, TickGoesOn, AtSteps
  <2> QED BY <1>5, <2>3, <2>4 DEF Notifies, TickGoesOn
<1>6. ASSUME NEW r \in Requests, MarksNotified(r) PROVE TypeOK'
  <2>1. listed[r] \in Docs /\ task[r] \in Docs
    BY <1>6 DEF MarksNotified, AtTick, TickInv, AtSteps, Created
  <2>2. \E s \in {"pending", "sent"} : task' =
        [task EXCEPT ![r] = [task[r] EXCEPT !.notice = s]]
    <3>1. task[r].notice \in {"pending", "sent"}
      BY <2>1, Zenon DEF Docs
    <3> QED BY <1>6, <3>1, Zenon DEF MarksNotified
  <2>3. task' \in [Requests -> Docs \cup {None}]
    BY <2>1, <2>2, DocUpdates, TaskUpdate, Zenon
  <2>4. AfterNotice(listed[r]) \in TickSteps
    BY DEF AfterNotice
  <2>5. /\ current' \in AtSteps \cup {None}
        /\ listed' \in [Requests -> Docs \cup {None}]
    BY <1>6, <2>4 DEF MarksNotified, TickGoesOn, TickDrops, AtSteps
  <2> QED BY <1>6, <2>3, <2>5 DEF MarksNotified
<1>7. ASSUME NEW r \in Requests, Schedules(r) PROVE TypeOK'
  BY <1>7 DEF Schedules, AtTick, TickDrops
<1>8. ASSUME NEW r \in Requests, Tells(r) PROVE TypeOK'
  <2>1. listed[r] \in Docs /\ task[r] \in Docs
    BY <1>8 DEF Tells, AtTick, TickInv, AtSteps, Created
  <2>2. listed[r].resume \in Endings
    BY <1>8, <2>1 DEF Tells, AtTick, TickInv, FirstStep, AfterNotice, NeedsTick, AtSteps
  <2>3. CASE result[r] = None
    <3>1. current' \in AtSteps \cup {None}
      BY <1>8, <2>3 DEF Tells
    <3> QED BY <1>8, <2>2, <2>3 DEF Tells
  <2>4. CASE result[r] # None
    <3>1. task' = [task EXCEPT ![r] = [task[r] EXCEPT !.told = TRUE]]
      BY <1>8, <2>4, Zenon DEF Tells
    <3>2. task' \in [Requests -> Docs \cup {None}]
      BY <3>1, <2>1, DocUpdates, TaskUpdate, Zenon
    <3> QED BY <1>8, <2>4, <3>2 DEF Tells, TickDrops
  <2> QED BY <2>3, <2>4
<1>9. ASSUME NEW r \in Requests, TickFails(r) PROVE TypeOK'
  BY <1>9 DEF TickFails, AtTick, TickDrops
<1>10. ASSUME NEW r \in Requests, DispatchClaims(r) PROVE TypeOK'
  BY <1>10 DEF DispatchClaims, At
<1>11. ASSUME NEW r \in Requests, DispatchTakes(r) PROVE TypeOK'
  <2>1. task[r] \in Docs
    BY <1>11 DEF DispatchTakes, OnceInv, Created
  <2>2. \/ task' = task
        \/ task' = [task EXCEPT ![r] = [task[r] EXCEPT !.resume = "running"]]
    BY <1>11, Zenon DEF DispatchTakes
  <2>3. task' \in [Requests -> Docs \cup {None}]
    BY <2>1, <2>2, DocUpdates, TaskUpdate, Zenon DEF TypeOK
  <2> QED BY <1>11, <2>3 DEF DispatchTakes, At
<1>12. ASSUME NEW r \in Requests, ChecksSource(r) PROVE TypeOK'
  BY <1>12 DEF ChecksSource, At
<1>13. ASSUME NEW r \in Requests, MarksSource(r) PROVE TypeOK'
  BY <1>13 DEF MarksSource, At
<1>14. ASSUME NEW r \in Requests, ResumesSource(r) PROVE TypeOK'
  BY <1>14 DEF ResumesSource, At
<1>15. ASSUME NEW r \in Requests, StartsAgent(r) PROVE TypeOK'
  BY <1>15 DEF StartsAgent, At
<1>16. ASSUME NEW r \in Requests, AgentEnds(r) PROVE TypeOK'
  BY <1>16, SourceUpdates DEF AgentEnds, At
<1>17. ASSUME NEW r \in Requests, ReadsStatus(r) PROVE TypeOK'
  BY <1>17 DEF ReadsStatus, At, EndingRead
<1>18. ASSUME NEW r \in Requests, Records(r) PROVE TypeOK'
  <2>1. task[r] \in Docs /\ ending[r] \in Endings
    BY <1>18 DEF Records, At, OnceInv, Created
  <2>2. task' = [task EXCEPT ![r] = [task[r] EXCEPT !.resume = ending[r]]]
    BY <1>18, Zenon DEF Records
  <2>3. task' \in [Requests -> Docs \cup {None}]
    BY <2>1, <2>2, DocUpdates, TaskUpdate, Zenon DEF Endings
  <2> QED BY <1>18, <2>3 DEF Records, At
<1>19. ASSUME NEW r \in Requests, DispatchLeaves(r) PROVE TypeOK'
  BY <1>19 DEF DispatchLeaves, At
<1>20. ASSUME NEW r \in Requests, RecordFails(r) PROVE TypeOK'
  BY <1>20 DEF RecordFails, At
<1>21. ASSUME ChatStarts PROVE TypeOK'
  BY <1>21 DEF ChatStarts
<1>22. ASSUME NEW t \in Ordinary, TurnEnds(t) PROVE TypeOK'
  BY <1>22, SourceUpdates DEF TurnEnds
<1>23. ASSUME SweepFinds PROVE TypeOK'
  BY <1>23 DEF SweepFinds, Finds
<1>24. ASSUME SweepMarksHandoff PROVE TypeOK'
  BY <1>24 DEF SweepMarksHandoff
<1>25. ASSUME SweepInterrupts PROVE TypeOK'
  BY <1>25 DEF SweepInterrupts
<1>26. ASSUME SweepResumes PROVE TypeOK'
  BY <1>26 DEF SweepResumes
<1>27. ASSUME RecoveredRuns PROVE TypeOK'
  BY <1>27 DEF RecoveredRuns
<1>28. ASSUME RecoveredQueued PROVE TypeOK'
  BY <1>28 DEF RecoveredQueued
<1>29. ASSUME SetDrain PROVE TypeOK'
  <2>1. server' \in [up : BOOLEAN, draining : BOOLEAN, recovered : BOOLEAN]
    BY <1>29, Zenon DEF SetDrain
  <2> QED BY <1>29, <2>1 DEF SetDrain
<1>30. ASSUME ClearDrain PROVE TypeOK'
  <2>1. server' \in [up : BOOLEAN, draining : BOOLEAN, recovered : BOOLEAN]
    BY <1>30, Zenon DEF ClearDrain
  <2> QED BY <1>30, <2>1 DEF ClearDrain
<1>31. ASSUME Redeploy PROVE TypeOK'
  BY <1>31 DEF Redeploy, ProcessEnds
<1>32. ASSUME Crash PROVE TypeOK'
  BY <1>32 DEF Crash, ProcessEnds
<1>33. ASSUME Boot PROVE TypeOK'
  <2>1. server' \in [up : BOOLEAN, draining : BOOLEAN, recovered : BOOLEAN]
    BY <1>33, Zenon DEF Boot
  <2> QED BY <1>33, <2>1 DEF Boot
<1>34. ASSUME WorkerRecovers PROVE TypeOK'
  <2>1. server' \in [up : BOOLEAN, draining : BOOLEAN, recovered : BOOLEAN]
    BY <1>34, Zenon DEF WorkerRecovers
  <2>2. ASSUME NEW r \in Created PROVE GivenUp(task[r]) \in Docs
    <3>1. task[r] \in Docs
      BY DEF Created
    <3> QED BY <3>1, DocUpdates, Zenon DEF GivenUp
  <2>3. task' \in [Requests -> Docs \cup {None}]
    BY <1>34, <2>2, Zenon DEF WorkerRecovers
  <2> QED BY <1>34, <2>1, <2>3 DEF WorkerRecovers
<1>35. ASSUME UNCHANGED vars PROVE TypeOK'
  BY <1>35 DEF vars
<1> QED
  BY <1>1, <1>2, <1>3, <1>4, <1>5, <1>6, <1>7, <1>8, <1>9, <1>10, <1>11, <1>12, <1>13,
     <1>14, <1>15, <1>16, <1>17, <1>18, <1>19, <1>20, <1>21, <1>22, <1>23, <1>24,
     <1>25, <1>26, <1>27, <1>28, <1>29, <1>30, <1>31, <1>32, <1>33, <1>34, <1>35
     DEF Next, PeopleStep, TickStep, DispatchStep, RecoveryStep, OrdinaryStep,
         DeployStep, Mishap

(* What a new assignment and an answer change. *)
LEMMA PeopleWrite ==
    ASSUME TypeOK, OnceInv, NEW r \in Requests, NEW p \in People, NEW v \in Versions,
           Assign(r, p, v) \/ Respond(p, r, v)
    PROVE  /\ r \in Created /\ task'[r] # None /\ task[r].state = "pending"
           /\ \A q \in Requests : q # r => task'[q] = task[q]
           /\ v \in Nat /\ task[r].version = v /\ task'[r].version = v + 1
           /\ Assign(r, p, v) => /\ v < MaxVersion - 1
                                 /\ task'[r].notice = "pending"
                                 /\ task'[r].state = "pending"
                                 /\ task'[r].resume = task[r].resume
           /\ Respond(p, r, v) => /\ task'[r].notice = task[r].notice
                                  /\ task'[r].state = "answered"
                                  /\ task'[r].resume = "queued"
                                  /\ task'[r].assignee = task[r].assignee
<1>1. /\ r \in Created /\ task[r] \in Docs
      /\ task[r].state = "pending" /\ task[r].version = v
  BY DEF TypeOK, Created, Assign, Respond, MayAnswer
<1>2. v \in Nat
  BY DEF Versions
<1>3. ASSUME Assign(r, p, v)
      PROVE  /\ task' = [task EXCEPT ![r] = [task[r] EXCEPT !.assignee = p,
                                !.notice = "pending", !.version = v + 1]]
             /\ v < MaxVersion - 1
  BY <1>3, Zenon DEF Assign
<1>4. ASSUME Respond(p, r, v)
      PROVE  task' = [task EXCEPT ![r] = [task[r] EXCEPT !.state = "answered",
                                !.resume = "queued", !.version = v + 1]]
  BY <1>4, Zenon DEF Respond
<1>5. ASSUME NEW d, task' = [task EXCEPT ![r] = d]
      PROVE  task'[r] = d /\ \A q \in Requests : q # r => task'[q] = task[q]
  BY <1>5 DEF TypeOK
<1>6. task'[r] # None
  <2>1. v + 1 \in Versions
    BY <1>1, <1>2, <1>3 DEF Versions, OnceInv, Created
  <2>2. task'[r] \in Docs
    <3>1. [task[r] EXCEPT !.assignee = p, !.notice = "pending", !.version = v + 1] \in Docs
      BY <1>1, <2>1, DocUpdates, Zenon
    <3>2. [task[r] EXCEPT !.state = "answered", !.resume = "queued", !.version = v + 1] \in Docs
      BY <1>1, <2>1, DocUpdates, Zenon
    <3>3. CASE Assign(r, p, v)
      BY <3>1, <3>3, <1>3, <1>5, Zenon
    <3>4. CASE Respond(p, r, v)
      BY <3>2, <3>4, <1>4, <1>5, Zenon
    <3> QED BY <3>3, <3>4
  <2> QED BY <2>2
<1>7. \A q \in Requests : q # r => task'[q] = task[q]
  <2>1. CASE Assign(r, p, v)
    BY <2>1, <1>3, <1>5, Zenon
  <2>2. CASE Respond(p, r, v)
    BY <2>2, <1>4, <1>5, Zenon
  <2> QED BY <2>1, <2>2
<1>8. ASSUME Assign(r, p, v)
      PROVE  /\ v < MaxVersion - 1
             /\ task'[r].version = v + 1
             /\ task'[r].notice = "pending"
             /\ task'[r].state = "pending"
             /\ task'[r].resume = task[r].resume
  <2>1. task'[r] = [task[r] EXCEPT !.assignee = p, !.notice = "pending", !.version = v + 1]
    BY <1>3, <1>5, <1>8, Zenon
  <2> QED BY <2>1, <1>1, <1>3, <1>8 DEF Docs
<1>9. ASSUME Respond(p, r, v)
      PROVE  /\ task'[r].version = v + 1
             /\ task'[r].notice = task[r].notice
             /\ task'[r].state = "answered"
             /\ task'[r].resume = "queued"
             /\ task'[r].assignee = task[r].assignee
  <2>1. task'[r] = [task[r] EXCEPT !.state = "answered", !.resume = "queued", !.version = v + 1]
    BY <1>4, <1>5, <1>9, Zenon
  <2> QED BY <2>1, <1>1 DEF Docs
<1> QED BY <1>1, <1>2, <1>6, <1>7, <1>8, <1>9

(* The part of a document that only people write. *)
Kept(q) ==
    /\ task[q] = None => task'[q] = None
    /\ task[q] # None => /\ task'[q] # None
                         /\ task'[q].state = task[q].state
                         /\ task'[q].version = task[q].version
                         /\ task'[q].assignee = task[q].assignee
NoticeKept(q) == task[q] # None => task'[q].notice = task[q].notice
ResumeKept(q) == task[q] # None => task'[q].resume = task[q].resume

(* One document replaced, the others left alone. *)
LEMMA OneReplaced ==
    ASSUME TypeOK, NEW r \in Requests, NEW d \in Docs, task' = [task EXCEPT ![r] = d]
    PROVE  /\ task'[r] = d /\ task'[r] # None
           /\ \A q \in Requests : q # r => task'[q] = task[q]
<1> QED BY DEF TypeOK

(* What the worker changes of the documents. *)
LEMMA WorkerWrite ==
    ASSUME TypeOK, TickInv, OnceInv, NEW r \in Requests
    PROVE  /\ MarksNotified(r) => \A q \in Requests :
                /\ Kept(q) /\ ResumeKept(q)
                /\ q # r \/ ~FlagsNotice(r) => NoticeKept(q)
           /\ Tells(r) => \A q \in Requests : Kept(q) /\ ResumeKept(q) /\ NoticeKept(q)
           /\ DispatchTakes(r) => \A q \in Requests :
                /\ Kept(q) /\ NoticeKept(q)
                /\ q # r \/ ~Takeable(r) => ResumeKept(q)
                /\ Takeable(r) => task'[r].resume = "running"
           /\ Records(r) => \A q \in Requests :
                /\ Kept(q) /\ NoticeKept(q)
                /\ q # r => ResumeKept(q)
                /\ ending[r] \in Endings /\ task'[r].resume = ending[r]
           /\ WorkerRecovers => \A q \in Requests :
                /\ Kept(q) /\ NoticeKept(q)
                /\ q \in Created => \/ task'[q].resume = task[q].resume
                                    \/ /\ task[q].resume = "running"
                                       /\ task'[q].resume = "needs_review"
<1> USE DEF Kept, NoticeKept, ResumeKept
<1>1. ASSUME MarksNotified(r)
      PROVE  \A q \in Requests : /\ Kept(q) /\ ResumeKept(q)
                                 /\ q # r \/ ~FlagsNotice(r) => NoticeKept(q)
  <2>1. task[r] \in Docs
    BY <1>1 DEF MarksNotified, AtTick, TickInv, AtSteps, TickSteps, Created, TypeOK
  <2>2. PICK s \in {"pending", "sent"} :
             /\ task' = [task EXCEPT ![r] = [task[r] EXCEPT !.notice = s]]
             /\ ~FlagsNotice(r) => s = task[r].notice
    <3>1. task[r].notice \in {"pending", "sent"}
      BY <2>1, Zenon DEF Docs
    <3> QED BY <1>1, <3>1, Zenon DEF MarksNotified
  <2>3. [task[r] EXCEPT !.notice = s] \in Docs
    BY <2>1, DocUpdates, Zenon
  <2>4. /\ task'[r] = [task[r] EXCEPT !.notice = s] /\ task'[r] # None
        /\ \A q \in Requests : q # r => task'[q] = task[q]
    BY <2>2, <2>3, OneReplaced, Zenon
  <2> QED BY <2>1, <2>2, <2>4 DEF Docs
<1>2. ASSUME Tells(r)
      PROVE  \A q \in Requests : Kept(q) /\ ResumeKept(q) /\ NoticeKept(q)
  <2>1. task[r] \in Docs
    BY <1>2 DEF Tells, AtTick, TickInv, AtSteps, TickSteps, Created, TypeOK
  <2>2. CASE task' = task
    BY <2>2
  <2>3. CASE task' = [task EXCEPT ![r] = [task[r] EXCEPT !.told = TRUE]]
    <3>1. [task[r] EXCEPT !.told = TRUE] \in Docs
      BY <2>1, DocUpdates, Zenon
    <3>2. /\ task'[r] = [task[r] EXCEPT !.told = TRUE] /\ task'[r] # None
          /\ \A q \in Requests : q # r => task'[q] = task[q]
      BY <2>3, <3>1, OneReplaced, Zenon
    <3> QED BY <2>1, <3>2 DEF Docs
  <2> QED BY <1>2, <2>2, <2>3, Zenon DEF Tells
<1>3. ASSUME DispatchTakes(r)
      PROVE  \A q \in Requests : /\ Kept(q) /\ NoticeKept(q)
                                 /\ q # r \/ ~Takeable(r) => ResumeKept(q)
                                 /\ Takeable(r) => task'[r].resume = "running"
  <2>1. task[r] \in Docs
    BY <1>3 DEF DispatchTakes, OnceInv, Created, TypeOK
  <2>2. CASE ~Takeable(r)
    BY <1>3, <2>2 DEF DispatchTakes
  <2>3. CASE Takeable(r)
    <3>1. task' = [task EXCEPT ![r] = [task[r] EXCEPT !.resume = "running"]]
      BY <1>3, <2>3, Zenon DEF DispatchTakes
    <3>2. [task[r] EXCEPT !.resume = "running"] \in Docs
      BY <2>1, DocUpdates, Zenon
    <3>3. /\ task'[r] = [task[r] EXCEPT !.resume = "running"] /\ task'[r] # None
          /\ \A q \in Requests : q # r => task'[q] = task[q]
      BY <3>1, <3>2, OneReplaced, Zenon
    <3> QED BY <2>1, <2>3, <3>3 DEF Docs
  <2> QED BY <2>2, <2>3
<1>4. ASSUME Records(r)
      PROVE  \A q \in Requests : /\ Kept(q) /\ NoticeKept(q)
                                 /\ q # r => ResumeKept(q)
                                 /\ ending[r] \in Endings /\ task'[r].resume = ending[r]
  <2>1. task[r] \in Docs /\ ending[r] \in Endings
    BY <1>4 DEF Records, At, OnceInv, Created, TypeOK
  <2>2. task' = [task EXCEPT ![r] = [task[r] EXCEPT !.resume = ending[r]]]
    BY <1>4, Zenon DEF Records
  <2>3. [task[r] EXCEPT !.resume = ending[r]] \in Docs
    BY <2>1, DocUpdates, Zenon DEF Endings
  <2>4. /\ task'[r] = [task[r] EXCEPT !.resume = ending[r]] /\ task'[r] # None
        /\ \A q \in Requests : q # r => task'[q] = task[q]
    BY <2>2, <2>3, OneReplaced, Zenon
  <2> QED BY <2>1, <2>4 DEF Docs
<1>5. ASSUME WorkerRecovers, NEW q \in Requests
      PROVE  /\ Kept(q) /\ NoticeKept(q)
             /\ q \in Created => \/ task'[q].resume = task[q].resume
                                 \/ /\ task[q].resume = "running"
                                    /\ task'[q].resume = "needs_review"
  <2>1. task'[q] = IF q \in Created THEN GivenUp(task[q]) ELSE None
    BY <1>5, Zenon DEF WorkerRecovers
  <2>2. CASE q \in Created
    <3>1. task[q] \in Docs /\ task[q] # None
      BY <2>2 DEF Created, TypeOK
    <3>2. GivenUp(task[q]) \in Docs
      BY <3>1, DocUpdates, Zenon DEF GivenUp
    <3>3. task'[q] = GivenUp(task[q]) /\ task'[q] # None
      BY <2>1, <2>2, <3>2
    <3>4. CASE task[q].resume = "running"
      <4>1. task'[q] = [task[q] EXCEPT !.resume = "needs_review"]
        BY <3>3, <3>4, Zenon DEF GivenUp
      <4> QED BY <4>1, <3>1, <3>3, <3>4 DEF Docs
    <3>5. CASE task[q].resume # "running"
      <4>1. task'[q] = task[q]
        BY <3>3, <3>5, Zenon DEF GivenUp
      <4> QED BY <4>1, <3>1
    <3> QED BY <3>4, <3>5
  <2>3. CASE q \notin Created
    BY <2>1, <2>3 DEF Created
  <2> QED BY <2>2, <2>3
<1> QED BY <1>1, <1>2, <1>3, <1>4, <1>5

(* ClaimInv is inductive. *)
LEMMA KeepsClaims == TypeOK /\ ClaimInv /\ [Next]_vars => ClaimInv'
<1> SUFFICES ASSUME TypeOK, ClaimInv, [Next]_vars PROVE ClaimInv'
  OBVIOUS
<1> USE DEF docVars, sourceVars, sweepVars, dispatchVars
<1> USE DEF ClaimInv, Ordinary
<1>a. /\ dispatch \in [Requests -> DispatchSteps]
      /\ turn \in [Ordinary -> {"idle", "waiting", "running"}]
  BY DEF TypeOK
<1>1. ASSUME NEW r \in Requests, NEW p \in People, Create(r, p) PROVE ClaimInv'
  BY <1>a, <1>1 DEF Create, InsertsOnce, Created, Docs, Versions
<1>2. ASSUME NEW r \in Requests, NEW p \in People, NEW v \in Versions, Assign(r, p, v)
      PROVE  ClaimInv'
  BY <1>a, <1>2 DEF Assign, Created
<1>3. ASSUME NEW r \in Requests, NEW p \in People, NEW v \in Versions, Respond(p, r, v)
      PROVE  ClaimInv'
  BY <1>a, <1>3 DEF Respond, Created, MayAnswer
<1>4. ASSUME TickReads PROVE ClaimInv'
  BY <1>a, <1>4 DEF TickReads, Created
<1>5. ASSUME NEW r \in Requests, Notifies(r) PROVE ClaimInv'
  BY <1>a, <1>5 DEF Notifies, AtTick, TickGoesOn
<1>6. ASSUME NEW r \in Requests, MarksNotified(r) PROVE ClaimInv'
  BY <1>a, <1>6 DEF MarksNotified, AtTick, TickGoesOn, TickDrops, FlagsNotice,
     AfterNotice
<1>7. ASSUME NEW r \in Requests, Schedules(r) PROVE ClaimInv'
  BY <1>a, <1>7 DEF Schedules, AtTick, TickDrops
<1>8. ASSUME NEW r \in Requests, Tells(r) PROVE ClaimInv'
  BY <1>a, <1>8 DEF Tells, AtTick, TickDrops
<1>9. ASSUME NEW r \in Requests, TickFails(r) PROVE ClaimInv'
  BY <1>a, <1>9 DEF TickFails, AtTick, TickDrops
<1>10. ASSUME NEW r \in Requests, DispatchClaims(r) PROVE ClaimInv'
  BY <1>a, <1>10 DEF DispatchClaims, At
<1>11. ASSUME NEW r \in Requests, DispatchTakes(r) PROVE ClaimInv'
  BY <1>a, <1>11 DEF DispatchTakes, At, Takeable
<1>12. ASSUME NEW r \in Requests, ChecksSource(r) PROVE ClaimInv'
  BY <1>a, <1>12 DEF ChecksSource, At
<1>13. ASSUME NEW r \in Requests, MarksSource(r) PROVE ClaimInv'
  BY <1>a, <1>13 DEF MarksSource, At
<1>14. ASSUME NEW r \in Requests, ResumesSource(r) PROVE ClaimInv'
  BY <1>a, <1>14 DEF ResumesSource, At
<1>15. ASSUME NEW r \in Requests, StartsAgent(r) PROVE ClaimInv'
  BY <1>a, <1>15 DEF StartsAgent, At
<1>16. ASSUME NEW r \in Requests, AgentEnds(r) PROVE ClaimInv'
  BY <1>a, <1>16 DEF AgentEnds, At, RunEnds, RunEndsWith
<1>17. ASSUME NEW r \in Requests, ReadsStatus(r) PROVE ClaimInv'
  BY <1>a, <1>17 DEF ReadsStatus, At, EndingRead
<1>18. ASSUME NEW r \in Requests, Records(r) PROVE ClaimInv'
  BY <1>a, <1>18 DEF Records, At
<1>19. ASSUME NEW r \in Requests, DispatchLeaves(r) PROVE ClaimInv'
  BY <1>a, <1>19 DEF DispatchLeaves, At
<1>20. ASSUME NEW r \in Requests, RecordFails(r) PROVE ClaimInv'
  BY <1>a, <1>20 DEF RecordFails, At
<1>21. ASSUME ChatStarts PROVE ClaimInv'
  BY <1>a, <1>21 DEF ChatStarts
<1>22. ASSUME NEW t \in Ordinary, TurnEnds(t) PROVE ClaimInv'
  BY <1>a, <1>22 DEF TurnEnds, RunEnds, RunEndsWith
<1>23. ASSUME SweepFinds PROVE ClaimInv'
  BY <1>a, <1>23 DEF SweepFinds, Finds
<1>24. ASSUME SweepMarksHandoff PROVE ClaimInv'
  BY <1>a, <1>24 DEF SweepMarksHandoff
<1>25. ASSUME SweepInterrupts PROVE ClaimInv'
  BY <1>a, <1>25 DEF SweepInterrupts
<1>26. ASSUME SweepResumes PROVE ClaimInv'
  BY <1>a, <1>26 DEF SweepResumes
<1>27. ASSUME RecoveredRuns PROVE ClaimInv'
  BY <1>a, <1>27 DEF RecoveredRuns
<1>28. ASSUME RecoveredQueued PROVE ClaimInv'
  BY <1>a, <1>28 DEF RecoveredQueued
<1>29. ASSUME SetDrain PROVE ClaimInv'
  BY <1>a, <1>29 DEF SetDrain
<1>30. ASSUME ClearDrain PROVE ClaimInv'
  BY <1>a, <1>30 DEF ClearDrain
<1>31. ASSUME Redeploy PROVE ClaimInv'
  BY <1>a, <1>31 DEF Redeploy, ProcessEnds
<1>32. ASSUME Crash PROVE ClaimInv'
  BY <1>a, <1>32 DEF Crash, ProcessEnds
<1>33. ASSUME Boot PROVE ClaimInv'
  BY <1>a, <1>33 DEF Boot
<1>34. ASSUME WorkerRecovers PROVE ClaimInv'
  BY <1>a, <1>34 DEF WorkerRecovers, GivenUp, Created
<1>35. ASSUME UNCHANGED vars PROVE ClaimInv'
  BY <1>a, <1>35 DEF vars
<1> QED
  BY <1>1, <1>2, <1>3, <1>4, <1>5, <1>6, <1>7, <1>8, <1>9, <1>10, <1>11, <1>12, <1>13,
     <1>14, <1>15, <1>16, <1>17, <1>18, <1>19, <1>20, <1>21, <1>22, <1>23, <1>24,
     <1>25, <1>26, <1>27, <1>28, <1>29, <1>30, <1>31, <1>32, <1>33, <1>34, <1>35
     DEF Next, PeopleStep, TickStep, DispatchStep, RecoveryStep, OrdinaryStep,
         DeployStep, Mishap

(* TickInv is inductive. *)
LEMMA KeepsTicks == TypeOK /\ OnceInv /\ TickInv /\ [Next]_vars => TickInv'
<1> SUFFICES ASSUME TypeOK, OnceInv, TickInv, [Next]_vars PROVE TickInv'
  OBVIOUS
<1> USE DEF docVars, sourceVars, sweepVars, dispatchVars
<1> USE DEF TickInv, Created, Earlier
<1>a. /\ task \in [Requests -> Docs \cup {None}]
      /\ listed \in [Requests -> Docs \cup {None}]
      /\ current \in AtSteps \cup {None}
  BY DEF TypeOK
<1>b. \A r \in Requests : /\ task[r] # None => task[r].version \in Nat
                          /\ listed[r] # None => listed[r].version \in Nat
  BY <1>a DEF Docs, Versions
<1>1. ASSUME NEW r \in Requests, NEW p \in People, Create(r, p) PROVE TickInv'
  BY <1>a, <1>1 DEF Create, InsertsOnce, Created, Docs, Versions
<1>2. ASSUME NEW r \in Requests, NEW p \in People, NEW v \in Versions, Assign(r, p, v)
      PROVE  TickInv'
  <2>1. UNCHANGED <<listed, current>>
    BY <1>2 DEF Assign
  <2> QED BY <1>b, <1>2, <2>1, PeopleWrite
<1>3. ASSUME NEW r \in Requests, NEW p \in People, NEW v \in Versions, Respond(p, r, v)
      PROVE  TickInv'
  <2>1. UNCHANGED <<listed, current>>
    BY <1>3 DEF Respond
  <2> QED BY <1>b, <1>3, <2>1, PeopleWrite
<1>4. ASSUME TickReads PROVE TickInv'
  <2>1. /\ task' = task /\ current' = None
        /\ \A r \in Requests : listed'[r] # None => listed'[r] = task[r] /\ NeedsTick(task[r])
    BY <1>4 DEF TickReads
  <2> QED BY <1>b, <2>1
<1>5. ASSUME NEW r \in Requests, Notifies(r) PROVE TickInv'
  <2>1. /\ task' = task /\ listed' = listed
        /\ current' = [req |-> r, step |-> "flag"]
        /\ listed[r] # None
    BY <1>a, <1>5 DEF Notifies, AtTick, TickGoesOn, AtSteps, TickSteps
  <2> QED BY <1>b, <2>1
<1>6. ASSUME NEW r \in Requests, MarksNotified(r) PROVE TickInv'
  <2>1. \A q \in Requests : Kept(q)
    BY <1>6, WorkerWrite
  <2>2. listed[r] # None
    BY <1>a, <1>6 DEF MarksNotified, AtTick, AtSteps, TickSteps
  <2>3. \/ current' = None /\ \A q \in Requests : listed'[q] # None => listed'[q] = listed[q]
        \/ /\ current' = [req |-> r, step |-> AfterNotice(listed[r])] /\ listed' = listed
           /\ listed[r].resume \notin {"waiting", "running"}
    BY <1>a, <1>6 DEF MarksNotified, TickGoesOn, TickDrops
  <2>4. AfterNotice(listed[r]) = "tell" => listed[r].resume # "queued"
    BY DEF AfterNotice
  <2>5. listed[r].resume \in {"waiting", "queued", "running", "completed", "needs_review"}
    BY <1>a, <2>2 DEF Docs
  <2> QED BY <1>b, <2>1, <2>2, <2>3, <2>4, <2>5 DEF Kept, Endings
<1>7. ASSUME NEW r \in Requests, Schedules(r) PROVE TickInv'
  BY <1>a, <1>7 DEF Schedules, AtTick, TickDrops
<1>8. ASSUME NEW r \in Requests, Tells(r) PROVE TickInv'
  BY <1>a, <1>8 DEF Tells, AtTick, TickDrops
<1>9. ASSUME NEW r \in Requests, TickFails(r) PROVE TickInv'
  BY <1>a, <1>9 DEF TickFails, AtTick, TickDrops
<1>10. ASSUME NEW r \in Requests, DispatchClaims(r) PROVE TickInv'
  BY <1>a, <1>10 DEF DispatchClaims, At
<1>11. ASSUME NEW r \in Requests, DispatchTakes(r) PROVE TickInv'
  <2>1. \A q \in Requests : Kept(q)
    BY <1>11, WorkerWrite
  <2>2. UNCHANGED <<listed, current>>
    BY <1>11 DEF DispatchTakes
  <2> QED BY <1>b, <2>1, <2>2 DEF Kept
<1>12. ASSUME NEW r \in Requests, ChecksSource(r) PROVE TickInv'
  BY <1>a, <1>12 DEF ChecksSource, At
<1>13. ASSUME NEW r \in Requests, MarksSource(r) PROVE TickInv'
  BY <1>a, <1>13 DEF MarksSource, At
<1>14. ASSUME NEW r \in Requests, ResumesSource(r) PROVE TickInv'
  BY <1>a, <1>14 DEF ResumesSource, At
<1>15. ASSUME NEW r \in Requests, StartsAgent(r) PROVE TickInv'
  BY <1>a, <1>15 DEF StartsAgent, At
<1>16. ASSUME NEW r \in Requests, AgentEnds(r) PROVE TickInv'
  BY <1>a, <1>16 DEF AgentEnds, At, RunEnds, RunEndsWith
<1>17. ASSUME NEW r \in Requests, ReadsStatus(r) PROVE TickInv'
  BY <1>a, <1>17 DEF ReadsStatus, At, EndingRead
<1>18. ASSUME NEW r \in Requests, Records(r) PROVE TickInv'
  <2>1. \A q \in Requests : Kept(q)
    BY <1>18, WorkerWrite
  <2>2. UNCHANGED <<listed, current>>
    BY <1>18 DEF Records
  <2> QED BY <1>b, <2>1, <2>2 DEF Kept
<1>19. ASSUME NEW r \in Requests, DispatchLeaves(r) PROVE TickInv'
  BY <1>a, <1>19 DEF DispatchLeaves, At
<1>20. ASSUME NEW r \in Requests, RecordFails(r) PROVE TickInv'
  BY <1>a, <1>20 DEF RecordFails, At
<1>21. ASSUME ChatStarts PROVE TickInv'
  BY <1>a, <1>21 DEF ChatStarts
<1>22. ASSUME NEW t \in Ordinary, TurnEnds(t) PROVE TickInv'
  BY <1>a, <1>22 DEF TurnEnds, RunEnds, RunEndsWith
<1>23. ASSUME SweepFinds PROVE TickInv'
  BY <1>a, <1>23 DEF SweepFinds, Finds
<1>24. ASSUME SweepMarksHandoff PROVE TickInv'
  BY <1>a, <1>24 DEF SweepMarksHandoff
<1>25. ASSUME SweepInterrupts PROVE TickInv'
  BY <1>a, <1>25 DEF SweepInterrupts
<1>26. ASSUME SweepResumes PROVE TickInv'
  BY <1>a, <1>26 DEF SweepResumes
<1>27. ASSUME RecoveredRuns PROVE TickInv'
  BY <1>a, <1>27 DEF RecoveredRuns
<1>28. ASSUME RecoveredQueued PROVE TickInv'
  BY <1>a, <1>28 DEF RecoveredQueued
<1>29. ASSUME SetDrain PROVE TickInv'
  BY <1>a, <1>29 DEF SetDrain
<1>30. ASSUME ClearDrain PROVE TickInv'
  BY <1>a, <1>30 DEF ClearDrain
<1>31. ASSUME Redeploy PROVE TickInv'
  BY <1>a, <1>31 DEF Redeploy, ProcessEnds
<1>32. ASSUME Crash PROVE TickInv'
  BY <1>a, <1>32 DEF Crash, ProcessEnds
<1>33. ASSUME Boot PROVE TickInv'
  BY <1>a, <1>33 DEF Boot
<1>34. ASSUME WorkerRecovers PROVE TickInv'
  <2>1. \A q \in Requests : Kept(q)
    BY <1>34, WorkerWrite
  <2>2. UNCHANGED <<listed, current>>
    BY <1>34 DEF WorkerRecovers
  <2> QED BY <1>b, <2>1, <2>2 DEF Kept
<1>35. ASSUME UNCHANGED vars PROVE TickInv'
  BY <1>a, <1>35 DEF vars
<1> QED
  BY <1>1, <1>2, <1>3, <1>4, <1>5, <1>6, <1>7, <1>8, <1>9, <1>10, <1>11, <1>12, <1>13,
     <1>14, <1>15, <1>16, <1>17, <1>18, <1>19, <1>20, <1>21, <1>22, <1>23, <1>24,
     <1>25, <1>26, <1>27, <1>28, <1>29, <1>30, <1>31, <1>32, <1>33, <1>34, <1>35
     DEF Next, PeopleStep, TickStep, DispatchStep, RecoveryStep, OrdinaryStep,
         DeployStep, Mishap

(* OnceInv is inductive. *)
LEMMA KeepsOnce == TypeOK /\ TickInv /\ OnceInv /\ [Next]_vars => OnceInv'
<1> SUFFICES ASSUME TypeOK, TickInv, OnceInv, [Next]_vars PROVE OnceInv'
  OBVIOUS
<1> USE DEF docVars, sourceVars, sweepVars, dispatchVars
<1> USE DEF OnceInv, Taken, Created
<1>a. /\ task \in [Requests -> Docs \cup {None}]
      /\ dispatch \in [Requests -> DispatchSteps]
      /\ ending \in [Requests -> Endings \cup {None}]
      /\ listed \in [Requests -> Docs \cup {None}]
      /\ current \in AtSteps \cup {None}
  BY DEF TypeOK
<1>1. ASSUME NEW r \in Requests, NEW p \in People, Create(r, p) PROVE OnceInv'
  BY <1>a, <1>1 DEF Create, InsertsOnce, Created, Docs, Versions
<1>2. ASSUME NEW r \in Requests, NEW p \in People, NEW v \in Versions, Assign(r, p, v)
      PROVE  OnceInv'
  <2>1. UNCHANGED <<begun, dispatch, ending>>
    BY <1>2 DEF Assign
  <2> QED BY <1>a, <1>2, <2>1, PeopleWrite
<1>3. ASSUME NEW r \in Requests, NEW p \in People, NEW v \in Versions, Respond(p, r, v)
      PROVE  OnceInv'
  <2>1. UNCHANGED <<begun, dispatch, ending>>
    BY <1>3 DEF Respond
  <2> QED BY <1>a, <1>3, <2>1, PeopleWrite
<1>4. ASSUME TickReads PROVE OnceInv'
  BY <1>a, <1>4 DEF TickReads, Created
<1>5. ASSUME NEW r \in Requests, Notifies(r) PROVE OnceInv'
  BY <1>a, <1>5 DEF Notifies, AtTick, TickGoesOn
<1>6. ASSUME NEW r \in Requests, MarksNotified(r) PROVE OnceInv'
  <2>1. \A q \in Requests : Kept(q) /\ ResumeKept(q)
    BY <1>6, WorkerWrite
  <2>2. UNCHANGED <<begun, dispatch, ending>>
    BY <1>6 DEF MarksNotified
  <2> QED BY <2>1, <2>2 DEF Kept, ResumeKept
<1>7. ASSUME NEW r \in Requests, Schedules(r) PROVE OnceInv'
  <2>1. r \in Created
    BY <1>a, <1>7 DEF Schedules, AtTick, TickInv, AtSteps, TickSteps
  <2>2. /\ UNCHANGED <<begun, task, ending>>
        /\ dispatch' = dispatch \/ dispatch' = [dispatch EXCEPT ![r] = "starting"]
    BY <1>7 DEF Schedules
  <2> QED BY <1>a, <2>1, <2>2
<1>8. ASSUME NEW r \in Requests, Tells(r) PROVE OnceInv'
  <2>1. \A q \in Requests : Kept(q) /\ ResumeKept(q)
    BY <1>8, WorkerWrite
  <2>2. UNCHANGED <<begun, dispatch, ending>>
    BY <1>8 DEF Tells
  <2> QED BY <2>1, <2>2 DEF Kept, ResumeKept
<1>9. ASSUME NEW r \in Requests, TickFails(r) PROVE OnceInv'
  BY <1>a, <1>9 DEF TickFails, AtTick, TickDrops
<1>10. ASSUME NEW r \in Requests, DispatchClaims(r) PROVE OnceInv'
  BY <1>a, <1>10 DEF DispatchClaims, At
<1>11. ASSUME NEW r \in Requests, DispatchTakes(r) PROVE OnceInv'
  <2>1. \A q \in Requests : /\ Kept(q)
                            /\ q # r \/ ~Takeable(r) => ResumeKept(q)
                            /\ Takeable(r) => task'[r].resume = "running"
    BY <1>11, WorkerWrite
  <2>2. /\ UNCHANGED <<begun, ending>>
        /\ dispatch[r] = "taking"
        /\ dispatch' = [dispatch EXCEPT ![r] = IF Takeable(r) THEN "checking" ELSE "leaving"]
    BY <1>11 DEF DispatchTakes, At
  <2> QED BY <1>a, <2>1, <2>2 DEF Kept, ResumeKept, Takeable
<1>12. ASSUME NEW r \in Requests, ChecksSource(r) PROVE OnceInv'
  BY <1>a, <1>12 DEF ChecksSource, At, Endings
<1>13. ASSUME NEW r \in Requests, MarksSource(r) PROVE OnceInv'
  BY <1>a, <1>13 DEF MarksSource, At
<1>14. ASSUME NEW r \in Requests, ResumesSource(r) PROVE OnceInv'
  BY <1>a, <1>14 DEF ResumesSource, At
<1>15. ASSUME NEW r \in Requests, StartsAgent(r) PROVE OnceInv'
  BY <1>a, <1>15 DEF StartsAgent, At
<1>16. ASSUME NEW r \in Requests, AgentEnds(r) PROVE OnceInv'
  BY <1>a, <1>16 DEF AgentEnds, At, RunEnds, RunEndsWith
<1>17. ASSUME NEW r \in Requests, ReadsStatus(r) PROVE OnceInv'
  BY <1>a, <1>17 DEF ReadsStatus, At, EndingRead, Endings
<1>18. ASSUME NEW r \in Requests, Records(r) PROVE OnceInv'
  <2>1. \A q \in Requests : /\ Kept(q)
                            /\ q # r => ResumeKept(q)
                            /\ ending[r] \in Endings /\ task'[r].resume = ending[r]
    BY <1>18, WorkerWrite
  <2>2. /\ UNCHANGED begun
        /\ dispatch[r] = "recording"
        /\ dispatch' = [dispatch EXCEPT ![r] = "leaving"]
        /\ ending' = [ending EXCEPT ![r] = None]
    BY <1>18 DEF Records, At
  <2> QED BY <1>a, <2>1, <2>2 DEF Kept, ResumeKept, Endings
<1>19. ASSUME NEW r \in Requests, DispatchLeaves(r) PROVE OnceInv'
  BY <1>a, <1>19 DEF DispatchLeaves, At
<1>20. ASSUME NEW r \in Requests, RecordFails(r) PROVE OnceInv'
  BY <1>a, <1>20 DEF RecordFails, At
<1>21. ASSUME ChatStarts PROVE OnceInv'
  BY <1>a, <1>21 DEF ChatStarts
<1>22. ASSUME NEW t \in Ordinary, TurnEnds(t) PROVE OnceInv'
  BY <1>a, <1>22 DEF TurnEnds, RunEnds, RunEndsWith
<1>23. ASSUME SweepFinds PROVE OnceInv'
  BY <1>a, <1>23 DEF SweepFinds, Finds
<1>24. ASSUME SweepMarksHandoff PROVE OnceInv'
  BY <1>a, <1>24 DEF SweepMarksHandoff
<1>25. ASSUME SweepInterrupts PROVE OnceInv'
  BY <1>a, <1>25 DEF SweepInterrupts
<1>26. ASSUME SweepResumes PROVE OnceInv'
  BY <1>a, <1>26 DEF SweepResumes
<1>27. ASSUME RecoveredRuns PROVE OnceInv'
  BY <1>a, <1>27 DEF RecoveredRuns
<1>28. ASSUME RecoveredQueued PROVE OnceInv'
  BY <1>a, <1>28 DEF RecoveredQueued
<1>29. ASSUME SetDrain PROVE OnceInv'
  BY <1>a, <1>29 DEF SetDrain
<1>30. ASSUME ClearDrain PROVE OnceInv'
  BY <1>a, <1>30 DEF ClearDrain
<1>31. ASSUME Redeploy PROVE OnceInv'
  BY <1>a, <1>31 DEF Redeploy, ProcessEnds
<1>32. ASSUME Crash PROVE OnceInv'
  BY <1>a, <1>32 DEF Crash, ProcessEnds
<1>33. ASSUME Boot PROVE OnceInv'
  BY <1>a, <1>33 DEF Boot
<1>34. ASSUME WorkerRecovers PROVE OnceInv'
  <2>1. \A q \in Requests : /\ Kept(q)
                            /\ q \in Created => \/ task'[q].resume = task[q].resume
                                                \/ /\ task[q].resume = "running"
                                                   /\ task'[q].resume = "needs_review"
    BY <1>34, WorkerWrite
  <2>2. UNCHANGED <<begun, dispatch, ending>>
    BY <1>34 DEF WorkerRecovers
  <2> QED BY <2>1, <2>2 DEF Kept
<1>35. ASSUME UNCHANGED vars PROVE OnceInv'
  BY <1>a, <1>35 DEF vars
<1> QED
  BY <1>1, <1>2, <1>3, <1>4, <1>5, <1>6, <1>7, <1>8, <1>9, <1>10, <1>11, <1>12, <1>13,
     <1>14, <1>15, <1>16, <1>17, <1>18, <1>19, <1>20, <1>21, <1>22, <1>23, <1>24,
     <1>25, <1>26, <1>27, <1>28, <1>29, <1>30, <1>31, <1>32, <1>33, <1>34, <1>35
     DEF Next, PeopleStep, TickStep, DispatchStep, RecoveryStep, OrdinaryStep,
         DeployStep, Mishap

(* OutcomeInv is inductive. *)
LEMMA KeepsOutcomes ==
    TypeOK /\ ClaimInv /\ TickInv /\ OnceInv /\ OutcomeInv /\ [Next]_vars
      => OutcomeInv'
<1> SUFFICES ASSUME TypeOK, ClaimInv, TickInv, OnceInv, OutcomeInv, [Next]_vars
    PROVE  OutcomeInv'
  OBVIOUS
<1> USE DEF docVars, sourceVars, sweepVars, dispatchVars
<1> USE DEF OutcomeInv, Created
<1>a. /\ task \in [Requests -> Docs \cup {None}]
      /\ listed \in [Requests -> Docs \cup {None}]
      /\ current \in AtSteps \cup {None}
      /\ dispatch \in [Requests -> DispatchSteps]
      /\ ending \in [Requests -> Endings \cup {None}]
      /\ result \in [Requests -> Endings \cup {None}]
  BY DEF TypeOK
<1>1. ASSUME NEW r \in Requests, NEW p \in People, Create(r, p) PROVE OutcomeInv'
  BY <1>a, <1>1 DEF Create, InsertsOnce, Created, Docs, Versions
<1>2. ASSUME NEW r \in Requests, NEW p \in People, NEW v \in Versions, Assign(r, p, v)
      PROVE  OutcomeInv'
  <2>1. UNCHANGED <<listed, ending, result, dispatch, source, finished>>
    BY <1>2 DEF Assign
  <2>2. \A q \in Requests : task'[q] # None /\ task'[q].resume = "completed"
          => task[q] # None /\ task[q].resume = "completed"
    BY <1>2, PeopleWrite
  <2> QED BY <2>1, <2>2
<1>3. ASSUME NEW r \in Requests, NEW p \in People, NEW v \in Versions, Respond(p, r, v)
      PROVE  OutcomeInv'
  <2>1. UNCHANGED <<listed, ending, result, dispatch, source, finished>>
    BY <1>3 DEF Respond
  <2>2. \A q \in Requests : task'[q] # None /\ task'[q].resume = "completed"
          => task[q] # None /\ task[q].resume = "completed"
    BY <1>3, PeopleWrite
  <2> QED BY <2>1, <2>2
<1>4. ASSUME TickReads PROVE OutcomeInv'
  BY <1>a, <1>4 DEF TickReads, Created
<1>5. ASSUME NEW r \in Requests, Notifies(r) PROVE OutcomeInv'
  BY <1>a, <1>5 DEF Notifies, AtTick, TickGoesOn
<1>6. ASSUME NEW r \in Requests, MarksNotified(r) PROVE OutcomeInv'
  <2>1. \A q \in Requests : Kept(q) /\ ResumeKept(q)
    BY <1>6, WorkerWrite
  <2>2. /\ UNCHANGED <<ending, result, dispatch, source, finished>>
        /\ \A q \in Requests : listed'[q] # None => listed'[q] = listed[q]
    BY <1>a, <1>6 DEF MarksNotified, TickGoesOn, TickDrops
  <2> QED BY <2>1, <2>2 DEF Kept, ResumeKept
<1>7. ASSUME NEW r \in Requests, Schedules(r) PROVE OutcomeInv'
  BY <1>a, <1>7 DEF Schedules, AtTick, TickDrops
<1>8. ASSUME NEW r \in Requests, Tells(r) PROVE OutcomeInv'
  <2>1. \A q \in Requests : Kept(q) /\ ResumeKept(q)
    BY <1>8, WorkerWrite
  <2>2. /\ UNCHANGED <<ending, dispatch, source, finished>>
        /\ \A q \in Requests : listed'[q] # None => listed'[q] = listed[q]
        /\ result' = result \/ result' = [result EXCEPT ![r] = listed[r].resume]
    BY <1>a, <1>8 DEF Tells, TickDrops
  <2>3. listed[r] # None
    BY <1>a, <1>8 DEF Tells, AtTick, TickInv, AtSteps, TickSteps
  <2> QED BY <1>a, <2>1, <2>2, <2>3 DEF Kept, ResumeKept
<1>9. ASSUME NEW r \in Requests, TickFails(r) PROVE OutcomeInv'
  BY <1>a, <1>9 DEF TickFails, AtTick, TickDrops
<1>10. ASSUME NEW r \in Requests, DispatchClaims(r) PROVE OutcomeInv'
  BY <1>a, <1>10 DEF DispatchClaims, At
<1>11. ASSUME NEW r \in Requests, DispatchTakes(r) PROVE OutcomeInv'
  <2>1. \A q \in Requests : /\ Kept(q)
                            /\ q # r \/ ~Takeable(r) => ResumeKept(q)
                            /\ Takeable(r) => task'[r].resume = "running"
    BY <1>11, WorkerWrite
  <2>2. /\ UNCHANGED <<listed, ending, result, source, finished>>
        /\ \A q \in Requests : dispatch'[q] = "reading" => dispatch[q] = "reading"
    BY <1>a, <1>11 DEF DispatchTakes, At
  <2> QED BY <2>1, <2>2 DEF Kept, ResumeKept
<1>12. ASSUME NEW r \in Requests, ChecksSource(r) PROVE OutcomeInv'
  BY <1>a, <1>12 DEF ChecksSource, At
<1>13. ASSUME NEW r \in Requests, MarksSource(r) PROVE OutcomeInv'
  BY <1>a, <1>13 DEF MarksSource, At
<1>14. ASSUME NEW r \in Requests, ResumesSource(r) PROVE OutcomeInv'
  BY <1>a, <1>14 DEF ResumesSource, At
<1>15. ASSUME NEW r \in Requests, StartsAgent(r) PROVE OutcomeInv'
  BY <1>a, <1>15 DEF StartsAgent, At
<1>16. ASSUME NEW r \in Requests, AgentEnds(r) PROVE OutcomeInv'
  <2>1. /\ UNCHANGED <<task, listed, ending, result>>
        /\ dispatch[r] = "agent"
        /\ \A q \in Requests : q # r => dispatch'[q] = dispatch[q]
        /\ finished \subseteq finished'
        /\ source'.status = "completed" => r \in finished'
    BY <1>a, <1>16 DEF AgentEnds, At
  <2>2. \A q \in Requests : q # r => dispatch[q] # "reading"
    BY <2>1 DEF ClaimInv
  <2> QED BY <2>1, <2>2
<1>17. ASSUME NEW r \in Requests, ReadsStatus(r) PROVE OutcomeInv'
  BY <1>a, <1>17 DEF ReadsStatus, At, EndingRead
<1>18. ASSUME NEW r \in Requests, Records(r) PROVE OutcomeInv'
  <2>1. \A q \in Requests : /\ Kept(q)
                            /\ q # r => ResumeKept(q)
                            /\ task'[r].resume = ending[r]
    BY <1>18, WorkerWrite
  <2>2. /\ UNCHANGED <<listed, result, source, finished>>
        /\ \A q \in Requests : /\ dispatch'[q] = "reading" => dispatch[q] = "reading"
                               /\ ending'[q] = ending[q] \/ ending'[q] = None
    BY <1>a, <1>18 DEF Records, At
  <2> QED BY <2>1, <2>2 DEF Kept, ResumeKept, Endings
<1>19. ASSUME NEW r \in Requests, DispatchLeaves(r) PROVE OutcomeInv'
  BY <1>a, <1>19 DEF DispatchLeaves, At
<1>20. ASSUME NEW r \in Requests, RecordFails(r) PROVE OutcomeInv'
  <2>1. /\ UNCHANGED <<task, listed, result, source, finished>>
        /\ \A q \in Requests : /\ dispatch'[q] = "reading" => dispatch[q] = "reading"
                               /\ ending'[q] = ending[q] \/ ending'[q] = None
    BY <1>a, <1>20 DEF RecordFails, At
  <2> QED BY <2>1 DEF Endings
<1>21. ASSUME ChatStarts PROVE OutcomeInv'
  BY <1>a, <1>21 DEF ChatStarts
<1>22. ASSUME NEW t \in Ordinary, TurnEnds(t) PROVE OutcomeInv'
  <2>1. /\ UNCHANGED <<task, listed, ending, result, dispatch, finished>>
        /\ turn[t] = "running"
    BY <1>22 DEF TurnEnds
  <2>2. \A q \in Requests : dispatch[q] # "reading"
    BY <2>1 DEF ClaimInv, Ordinary
  <2> QED BY <2>1, <2>2
<1>23. ASSUME SweepFinds PROVE OutcomeInv'
  BY <1>a, <1>23 DEF SweepFinds, Finds
<1>24. ASSUME SweepMarksHandoff PROVE OutcomeInv'
  BY <1>a, <1>24 DEF SweepMarksHandoff
<1>25. ASSUME SweepInterrupts PROVE OutcomeInv'
  BY <1>a, <1>25 DEF SweepInterrupts
<1>26. ASSUME SweepResumes PROVE OutcomeInv'
  BY <1>a, <1>26 DEF SweepResumes
<1>27. ASSUME RecoveredRuns PROVE OutcomeInv'
  BY <1>a, <1>27 DEF RecoveredRuns
<1>28. ASSUME RecoveredQueued PROVE OutcomeInv'
  BY <1>a, <1>28 DEF RecoveredQueued
<1>29. ASSUME SetDrain PROVE OutcomeInv'
  BY <1>a, <1>29 DEF SetDrain
<1>30. ASSUME ClearDrain PROVE OutcomeInv'
  BY <1>a, <1>30 DEF ClearDrain
<1>31. ASSUME Redeploy PROVE OutcomeInv'
  <2>1. /\ UNCHANGED <<task, result, finished>>
        /\ \A q \in Requests : listed'[q] = None /\ ending'[q] = None /\ dispatch'[q] = "no"
    BY <1>31 DEF Redeploy, ProcessEnds
  <2> QED BY <2>1 DEF Endings
<1>32. ASSUME Crash PROVE OutcomeInv'
  <2>1. /\ UNCHANGED <<task, result, finished>>
        /\ \A q \in Requests : listed'[q] = None /\ ending'[q] = None /\ dispatch'[q] = "no"
    BY <1>32 DEF Crash, ProcessEnds
  <2> QED BY <2>1 DEF Endings
<1>33. ASSUME Boot PROVE OutcomeInv'
  BY <1>a, <1>33 DEF Boot
<1>34. ASSUME WorkerRecovers PROVE OutcomeInv'
  <2>1. \A q \in Requests : /\ Kept(q)
                            /\ q \in Created => \/ task'[q].resume = task[q].resume
                                                \/ /\ task[q].resume = "running"
                                                   /\ task'[q].resume = "needs_review"
    BY <1>34, WorkerWrite
  <2>2. UNCHANGED <<listed, ending, result, dispatch, source, finished>>
    BY <1>34 DEF WorkerRecovers
  <2> QED BY <2>1, <2>2 DEF Kept
<1>35. ASSUME UNCHANGED vars PROVE OutcomeInv'
  BY <1>a, <1>35 DEF vars
<1> QED
  BY <1>1, <1>2, <1>3, <1>4, <1>5, <1>6, <1>7, <1>8, <1>9, <1>10, <1>11, <1>12, <1>13,
     <1>14, <1>15, <1>16, <1>17, <1>18, <1>19, <1>20, <1>21, <1>22, <1>23, <1>24,
     <1>25, <1>26, <1>27, <1>28, <1>29, <1>30, <1>31, <1>32, <1>33, <1>34, <1>35
     DEF Next, PeopleStep, TickStep, DispatchStep, RecoveryStep, OrdinaryStep,
         DeployStep, Mishap

(* The end of a run leaves the marker alone. *)
LEMMA RunEndsMarker == TypeOK /\ RunEnds => source'.marker = source.marker
<1> SUFFICES ASSUME TypeOK, RunEnds PROVE source'.marker = source.marker
  OBVIOUS
<1>1. PICK s \in SourceStatus, b \in BOOLEAN : RunEndsWith(s, b)
  BY Zenon DEF RunEnds, SourceStatus
<1>2. source \in [status : SourceStatus, marker : Requests \cup {None}, stopped : BOOLEAN]
  BY Zenon DEF TypeOK
<1>3. \E x : source' = [source EXCEPT !.status = s, !.stopped = x]
  BY <1>1, Zenon DEF RunEndsWith
<1> QED BY <1>2, <1>3

(* MarkerInv is inductive. *)
LEMMA KeepsMarkers == TypeOK /\ MarkerInv /\ [Next]_vars => MarkerInv'
<1> SUFFICES ASSUME TypeOK, MarkerInv, [Next]_vars PROVE MarkerInv'
  OBVIOUS
<1> USE DEF docVars, sourceVars, sweepVars, dispatchVars
<1> USE DEF MarkerInv
<1>a. /\ dispatch \in [Requests -> DispatchSteps]
      /\ found \in Finds \cup {None}
      /\ lastRun \in Requests \cup {"ordinary"}
  BY DEF TypeOK
<1>1. ASSUME NEW r \in Requests, NEW p \in People, Create(r, p) PROVE MarkerInv'
  BY <1>a, <1>1 DEF Create, InsertsOnce, Created, Docs, Versions
<1>2. ASSUME NEW r \in Requests, NEW p \in People, NEW v \in Versions, Assign(r, p, v)
      PROVE  MarkerInv'
  BY <1>a, <1>2 DEF Assign, Created
<1>3. ASSUME NEW r \in Requests, NEW p \in People, NEW v \in Versions, Respond(p, r, v)
      PROVE  MarkerInv'
  BY <1>a, <1>3 DEF Respond, Created, MayAnswer
<1>4. ASSUME TickReads PROVE MarkerInv'
  BY <1>a, <1>4 DEF TickReads, Created
<1>5. ASSUME NEW r \in Requests, Notifies(r) PROVE MarkerInv'
  BY <1>a, <1>5 DEF Notifies, AtTick, TickGoesOn
<1>6. ASSUME NEW r \in Requests, MarksNotified(r) PROVE MarkerInv'
  BY <1>a, <1>6 DEF MarksNotified, AtTick, TickGoesOn, TickDrops, FlagsNotice,
     AfterNotice
<1>7. ASSUME NEW r \in Requests, Schedules(r) PROVE MarkerInv'
  BY <1>a, <1>7 DEF Schedules, AtTick, TickDrops
<1>8. ASSUME NEW r \in Requests, Tells(r) PROVE MarkerInv'
  BY <1>a, <1>8 DEF Tells, AtTick, TickDrops
<1>9. ASSUME NEW r \in Requests, TickFails(r) PROVE MarkerInv'
  BY <1>a, <1>9 DEF TickFails, AtTick, TickDrops
<1>10. ASSUME NEW r \in Requests, DispatchClaims(r) PROVE MarkerInv'
  BY <1>a, <1>10 DEF DispatchClaims, At
<1>11. ASSUME NEW r \in Requests, DispatchTakes(r) PROVE MarkerInv'
  BY <1>a, <1>11 DEF DispatchTakes, At, Takeable
<1>12. ASSUME NEW r \in Requests, ChecksSource(r) PROVE MarkerInv'
  BY <1>a, <1>12 DEF ChecksSource, At
<1>13. ASSUME NEW r \in Requests, MarksSource(r) PROVE MarkerInv'
  BY <1>a, <1>13 DEF MarksSource, At
<1>14. ASSUME NEW r \in Requests, ResumesSource(r) PROVE MarkerInv'
  BY <1>a, <1>14 DEF ResumesSource, At
<1>15. ASSUME NEW r \in Requests, StartsAgent(r) PROVE MarkerInv'
  BY <1>a, <1>15 DEF StartsAgent, At
<1>16. ASSUME NEW r \in Requests, AgentEnds(r) PROVE MarkerInv'
  <2>1. source'.marker = source.marker
    BY <1>16, RunEndsMarker DEF AgentEnds
  <2> QED BY <1>a, <1>16, <2>1 DEF AgentEnds, At
<1>17. ASSUME NEW r \in Requests, ReadsStatus(r) PROVE MarkerInv'
  BY <1>a, <1>17 DEF ReadsStatus, At, EndingRead
<1>18. ASSUME NEW r \in Requests, Records(r) PROVE MarkerInv'
  BY <1>a, <1>18 DEF Records, At
<1>19. ASSUME NEW r \in Requests, DispatchLeaves(r) PROVE MarkerInv'
  BY <1>a, <1>19 DEF DispatchLeaves, At
<1>20. ASSUME NEW r \in Requests, RecordFails(r) PROVE MarkerInv'
  BY <1>a, <1>20 DEF RecordFails, At
<1>21. ASSUME ChatStarts PROVE MarkerInv'
  BY <1>a, <1>21 DEF ChatStarts
<1>22. ASSUME NEW t \in Ordinary, TurnEnds(t) PROVE MarkerInv'
  <2>1. source'.marker = source.marker
    BY <1>22, RunEndsMarker DEF TurnEnds
  <2> QED BY <1>a, <1>22, <2>1 DEF TurnEnds
<1>23. ASSUME SweepFinds PROVE MarkerInv'
  BY <1>a, <1>23 DEF SweepFinds, Finds
<1>24. ASSUME SweepMarksHandoff PROVE MarkerInv'
  BY <1>a, <1>24 DEF SweepMarksHandoff
<1>25. ASSUME SweepInterrupts PROVE MarkerInv'
  BY <1>a, <1>25 DEF SweepInterrupts
<1>26. ASSUME SweepResumes PROVE MarkerInv'
  BY <1>a, <1>26 DEF SweepResumes
<1>27. ASSUME RecoveredRuns PROVE MarkerInv'
  BY <1>a, <1>27 DEF RecoveredRuns
<1>28. ASSUME RecoveredQueued PROVE MarkerInv'
  BY <1>a, <1>28 DEF RecoveredQueued
<1>29. ASSUME SetDrain PROVE MarkerInv'
  BY <1>a, <1>29 DEF SetDrain
<1>30. ASSUME ClearDrain PROVE MarkerInv'
  BY <1>a, <1>30 DEF ClearDrain
<1>31. ASSUME Redeploy PROVE MarkerInv'
  BY <1>a, <1>31 DEF Redeploy, ProcessEnds
<1>32. ASSUME Crash PROVE MarkerInv'
  BY <1>a, <1>32 DEF Crash, ProcessEnds
<1>33. ASSUME Boot PROVE MarkerInv'
  BY <1>a, <1>33 DEF Boot
<1>34. ASSUME WorkerRecovers PROVE MarkerInv'
  BY <1>a, <1>34 DEF WorkerRecovers, GivenUp, Created
<1>35. ASSUME UNCHANGED vars PROVE MarkerInv'
  BY <1>a, <1>35 DEF vars
<1> QED
  BY <1>1, <1>2, <1>3, <1>4, <1>5, <1>6, <1>7, <1>8, <1>9, <1>10, <1>11, <1>12, <1>13,
     <1>14, <1>15, <1>16, <1>17, <1>18, <1>19, <1>20, <1>21, <1>22, <1>23, <1>24,
     <1>25, <1>26, <1>27, <1>28, <1>29, <1>30, <1>31, <1>32, <1>33, <1>34, <1>35
     DEF Next, PeopleStep, TickStep, DispatchStep, RecoveryStep, OrdinaryStep,
         DeployStep, Mishap

(* NoticeInv is inductive. *)
LEMMA KeepsNotices ==
    TypeOK /\ TickInv /\ OnceInv /\ NoticeInv /\ [Next]_vars
      => NoticeInv'
<1> SUFFICES ASSUME TypeOK, TickInv, OnceInv, NoticeInv, [Next]_vars PROVE NoticeInv'
  OBVIOUS
<1> USE DEF docVars, sourceVars, sweepVars, dispatchVars
<1> USE DEF NoticeInv, TellsOf, NoticeReachesAssignee, Created
<1>a. /\ task \in [Requests -> Docs \cup {None}]
      /\ assigned \subseteq Notices
      /\ listed \in [Requests -> Docs \cup {None}]
      /\ current \in AtSteps \cup {None}
  BY DEF TypeOK
<1>b. /\ \A r \in Requests : /\ task[r] # None => task[r].version \in Nat
                             /\ listed[r] # None => listed[r].version \in Nat
      /\ \A n \in assigned : n.req \in Requests /\ n.version \in Nat
  BY <1>a DEF Docs, Versions, Notices
<1>1. ASSUME NEW r \in Requests, NEW p \in People, Create(r, p) PROVE NoticeInv'
  BY <1>a, <1>1 DEF Create, InsertsOnce, Created, Docs, Versions
<1>2. ASSUME NEW r \in Requests, NEW p \in People, NEW v \in Versions, Assign(r, p, v)
      PROVE  NoticeInv'
  <2>1. UNCHANGED <<assigned, listed, current>>
    BY <1>2 DEF Assign
  <2>2. ASSUME NEW n \in assigned
        PROVE  /\ n.req \in Created' /\ n.version <= task'[n.req].version
               /\ n.version = task'[n.req].version => n.to = task'[n.req].assignee
    BY <1>b, <1>2, <2>2, PeopleWrite
  <2>3. NoticeReachesAssignee'
    BY <2>1, <1>2, PeopleWrite
  <2> QED BY <2>1, <2>2, <2>3
<1>3. ASSUME NEW r \in Requests, NEW p \in People, NEW v \in Versions, Respond(p, r, v)
      PROVE  NoticeInv'
  <2>1. UNCHANGED <<assigned, listed, current>>
    BY <1>3 DEF Respond
  <2>2. ASSUME NEW n \in assigned
        PROVE  /\ n.req \in Created' /\ n.version <= task'[n.req].version
               /\ n.version = task'[n.req].version => n.to = task'[n.req].assignee
    BY <1>b, <1>3, <2>2, PeopleWrite
  <2>3. NoticeReachesAssignee'
    BY <2>1, <1>3, PeopleWrite
  <2> QED BY <2>1, <2>2, <2>3
<1>4. ASSUME TickReads PROVE NoticeInv'
  BY <1>a, <1>4 DEF TickReads, Created
<1>5. ASSUME NEW r \in Requests, Notifies(r) PROVE NoticeInv'
  <2> DEFINE d == listed[r]
             new == [req |-> r, version |-> d.version, to |-> d.assignee]
  <2>1. /\ UNCHANGED <<task, listed>> /\ current' = [req |-> r, step |-> "flag"]
        /\ IF \E n \in assigned : n.req = r /\ n.version = d.version
           THEN assigned' = assigned ELSE assigned' = assigned \cup {new}
    BY <1>5 DEF Notifies, TickGoesOn
  <2>2. d # None /\ r \in Created /\ Earlier(d, task[r])
    BY <1>a, <1>5 DEF Notifies, AtTick, AtSteps, TickSteps, TickInv
  <2>3. ASSUME NEW n \in assigned'
        PROVE  /\ n.req \in Created /\ n.version <= task[n.req].version
               /\ n.version = task[n.req].version => n.to = task[n.req].assignee
               /\ listed[n.req] # None /\ n.version = listed[n.req].version
                    => n.to = listed[n.req].assignee
    <3>1. CASE n \in assigned
      BY <3>1
    <3>2. CASE n = new
      BY <3>2, <2>2, <1>b DEF Earlier
    <3> QED BY <2>1, <3>1, <3>2
  <2>4. \E n \in assigned' : n.req = r /\ n.version = d.version
    BY <2>1
  <2>5. assigned \subseteq assigned'
    BY <2>1
  <2> QED BY <2>1, <2>3, <2>4, <2>5
<1>6. ASSUME NEW r \in Requests, MarksNotified(r) PROVE NoticeInv'
  <2>1. \A q \in Requests : Kept(q) /\ (q # r \/ ~FlagsNotice(r) => NoticeKept(q))
    BY <1>6, WorkerWrite
  <2>2. /\ UNCHANGED assigned
        /\ current' = None \/ current' = [req |-> r, step |-> AfterNotice(listed[r])]
        /\ \A q \in Requests : listed'[q] = listed[q] \/ listed'[q] = None
    BY <1>a, <1>6 DEF MarksNotified, TickGoesOn, TickDrops
  <2>3. AfterNotice(listed[r]) # "flag"
    BY DEF AfterNotice
  <2>4. current = [req |-> r, step |-> "flag"] /\ listed[r] # None /\ r \in Created
    BY <1>a, <1>6 DEF MarksNotified, AtTick, AtSteps, TickSteps, TickInv, FirstStep,
       AfterNotice
  <2>5. FlagsNotice(r) => \E n \in assigned : n.req = r /\ n.to = task[r].assignee
    BY <1>a, <2>4 DEF FlagsNotice, AtSteps, TickSteps
  <2>6. NoticeReachesAssignee'
    BY <2>1, <2>2, <2>5 DEF Kept, NoticeKept
  <2>7. ASSUME NEW n \in assigned
        PROVE  /\ n.req \in Created' /\ n.version <= task'[n.req].version
               /\ n.version = task'[n.req].version => n.to = task'[n.req].assignee
               /\ listed'[n.req] # None => TellsOf(n, listed'[n.req])
    BY <2>1, <2>2, <2>7 DEF Kept
  <2> QED BY <2>2, <2>3, <2>6, <2>7
<1>7. ASSUME NEW r \in Requests, Schedules(r) PROVE NoticeInv'
  BY <1>a, <1>7 DEF Schedules, AtTick, TickDrops
<1>8. ASSUME NEW r \in Requests, Tells(r) PROVE NoticeInv'
  <2>1. \A q \in Requests : Kept(q) /\ NoticeKept(q)
    BY <1>8, WorkerWrite
  <2>2. /\ UNCHANGED assigned
        /\ \/ UNCHANGED <<listed, current>>
           \/ current' = None /\ \A q \in Requests : listed'[q] = listed[q] \/ listed'[q] = None
    BY <1>a, <1>8 DEF Tells, TickDrops
  <2> QED BY <2>1, <2>2 DEF Kept, NoticeKept
<1>9. ASSUME NEW r \in Requests, TickFails(r) PROVE NoticeInv'
  BY <1>a, <1>9 DEF TickFails, AtTick, TickDrops
<1>10. ASSUME NEW r \in Requests, DispatchClaims(r) PROVE NoticeInv'
  BY <1>a, <1>10 DEF DispatchClaims, At
<1>11. ASSUME NEW r \in Requests, DispatchTakes(r) PROVE NoticeInv'
  <2>1. \A q \in Requests : Kept(q) /\ NoticeKept(q)
    BY <1>11, WorkerWrite
  <2>2. UNCHANGED <<assigned, listed, current>>
    BY <1>11 DEF DispatchTakes
  <2> QED BY <2>1, <2>2 DEF Kept, NoticeKept
<1>12. ASSUME NEW r \in Requests, ChecksSource(r) PROVE NoticeInv'
  BY <1>a, <1>12 DEF ChecksSource, At
<1>13. ASSUME NEW r \in Requests, MarksSource(r) PROVE NoticeInv'
  BY <1>a, <1>13 DEF MarksSource, At
<1>14. ASSUME NEW r \in Requests, ResumesSource(r) PROVE NoticeInv'
  BY <1>a, <1>14 DEF ResumesSource, At
<1>15. ASSUME NEW r \in Requests, StartsAgent(r) PROVE NoticeInv'
  BY <1>a, <1>15 DEF StartsAgent, At
<1>16. ASSUME NEW r \in Requests, AgentEnds(r) PROVE NoticeInv'
  BY <1>a, <1>16 DEF AgentEnds, At, RunEnds, RunEndsWith
<1>17. ASSUME NEW r \in Requests, ReadsStatus(r) PROVE NoticeInv'
  BY <1>a, <1>17 DEF ReadsStatus, At, EndingRead
<1>18. ASSUME NEW r \in Requests, Records(r) PROVE NoticeInv'
  <2>1. \A q \in Requests : Kept(q) /\ NoticeKept(q)
    BY <1>18, WorkerWrite
  <2>2. UNCHANGED <<assigned, listed, current>>
    BY <1>18 DEF Records
  <2> QED BY <2>1, <2>2 DEF Kept, NoticeKept
<1>19. ASSUME NEW r \in Requests, DispatchLeaves(r) PROVE NoticeInv'
  BY <1>a, <1>19 DEF DispatchLeaves, At
<1>20. ASSUME NEW r \in Requests, RecordFails(r) PROVE NoticeInv'
  BY <1>a, <1>20 DEF RecordFails, At
<1>21. ASSUME ChatStarts PROVE NoticeInv'
  BY <1>a, <1>21 DEF ChatStarts
<1>22. ASSUME NEW t \in Ordinary, TurnEnds(t) PROVE NoticeInv'
  BY <1>a, <1>22 DEF TurnEnds, RunEnds, RunEndsWith
<1>23. ASSUME SweepFinds PROVE NoticeInv'
  BY <1>a, <1>23 DEF SweepFinds, Finds
<1>24. ASSUME SweepMarksHandoff PROVE NoticeInv'
  BY <1>a, <1>24 DEF SweepMarksHandoff
<1>25. ASSUME SweepInterrupts PROVE NoticeInv'
  BY <1>a, <1>25 DEF SweepInterrupts
<1>26. ASSUME SweepResumes PROVE NoticeInv'
  BY <1>a, <1>26 DEF SweepResumes
<1>27. ASSUME RecoveredRuns PROVE NoticeInv'
  BY <1>a, <1>27 DEF RecoveredRuns
<1>28. ASSUME RecoveredQueued PROVE NoticeInv'
  BY <1>a, <1>28 DEF RecoveredQueued
<1>29. ASSUME SetDrain PROVE NoticeInv'
  BY <1>a, <1>29 DEF SetDrain
<1>30. ASSUME ClearDrain PROVE NoticeInv'
  BY <1>a, <1>30 DEF ClearDrain
<1>31. ASSUME Redeploy PROVE NoticeInv'
  BY <1>a, <1>31 DEF Redeploy, ProcessEnds
<1>32. ASSUME Crash PROVE NoticeInv'
  BY <1>a, <1>32 DEF Crash, ProcessEnds
<1>33. ASSUME Boot PROVE NoticeInv'
  BY <1>a, <1>33 DEF Boot
<1>34. ASSUME WorkerRecovers PROVE NoticeInv'
  <2>1. \A q \in Requests : Kept(q) /\ NoticeKept(q)
    BY <1>34, WorkerWrite
  <2>2. UNCHANGED <<assigned, listed, current>>
    BY <1>34 DEF WorkerRecovers
  <2> QED BY <2>1, <2>2 DEF Kept, NoticeKept
<1>35. ASSUME UNCHANGED vars PROVE NoticeInv'
  BY <1>a, <1>35 DEF vars
<1> QED
  BY <1>1, <1>2, <1>3, <1>4, <1>5, <1>6, <1>7, <1>8, <1>9, <1>10, <1>11, <1>12, <1>13,
     <1>14, <1>15, <1>16, <1>17, <1>18, <1>19, <1>20, <1>21, <1>22, <1>23, <1>24,
     <1>25, <1>26, <1>27, <1>28, <1>29, <1>30, <1>31, <1>32, <1>33, <1>34, <1>35
     DEF Next, PeopleStep, TickStep, DispatchStep, RecoveryStep, OrdinaryStep,
         DeployStep, Mishap

(* What holds of every reachable state. *)
IInv ==
    /\ TypeOK /\ ClaimInv /\ TickInv /\ OnceInv
    /\ OutcomeInv /\ NoticeInv /\ MarkerInv

LEMMA StartsInvariant == Init => IInv
<1> SUFFICES ASSUME Init PROVE IInv
  OBVIOUS
<1>1. TypeOK
  BY DEF Init, TypeOK, TickSteps, DispatchSteps, SourceStatus, Ordinary
<1>2. ClaimInv /\ MarkerInv
  BY DEF Init, ClaimInv, MarkerInv, Ordinary
<1>3. TickInv /\ OnceInv /\ OutcomeInv
  BY DEF Init, TickInv, OnceInv, OutcomeInv, Created, Endings
<1>4. NoticeInv
  BY DEF Init, NoticeInv, NoticeReachesAssignee, Created
<1> QED BY <1>1, <1>2, <1>3, <1>4 DEF IInv

LEMMA KeepsInvariant == IInv /\ [Next]_vars => IInv'
<1> QED
  BY KeepsTypes, KeepsClaims, KeepsTicks, KeepsOnce, KeepsOutcomes, KeepsNotices,
     KeepsMarkers DEF IInv

LEMMA AlwaysInvariant == Spec => []IInv
<1> QED BY StartsInvariant, KeepsInvariant, PTL DEF Spec

(* Every reachable state of the handoffs is well typed, whatever the constants:
   in particular every document is in a state the worker's tick knows. *)
THEOREM HandoffsTyped == Spec => []TypeOK
<1>1. IInv => TypeOK
  BY DEF IInv
<1> QED BY <1>1, AlwaysInvariant, PTL

(* However often a request is reassigned while its notices are being written,
   an assignee who counts as notified has been told. *)
THEOREM NoticesReach == Spec => []NoticeReachesAssignee
<1>1. IInv => NoticeReachesAssignee
  BY DEF IInv, NoticeInv
<1> QED BY <1>1, AlwaysInvariant, PTL

(* No requester reads that the agent continued unless its run completed. *)
THEOREM OutcomesTrue == Spec => []CompletedIsTrue
<1>1. IInv => CompletedIsTrue
  BY DEF IInv, OutcomeInv, CompletedIsTrue
<1> QED BY <1>1, AlwaysInvariant, PTL

(* An answer continues its source at most once, over any number of stale lists,
   crashes, restarts and failing writes. *)
THEOREM ContinuedOnce == Spec => ContinuesOnce
<1>1. IInv => [\A r \in Requests : StartsAgent(r) => r \notin begun]_vars
  BY DEF IInv, OnceInv, StartsAgent, At
<1> QED BY <1>1, AlwaysInvariant, PTL DEF ContinuesOnce

(* The recovery sweep never runs a continuation again. *)
THEOREM NeverReplayed == Spec => HandoffNotReplayed
<1>1. IInv => [SweepResumes => found.last \notin Requests]_vars
  BY DEF IInv, MarkerInv, SweepResumes
<1> QED BY <1>1, AlwaysInvariant, PTL DEF HandoffNotReplayed

============================================================================
