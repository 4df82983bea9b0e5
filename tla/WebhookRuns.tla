---- MODULE WebhookRuns ----
(***************************************************************************)
(* The runs that webhooks of ONE flow start for ONE thread (one issue of   *)
(* the tracker): webhooks/incoming.py, scheduler/webhook_executor.py, and  *)
(* the recovery sweep over the conversations these runs leave behind.  A   *)
(* newer webhook cancels the run in flight and takes its place.            *)
(*                                                                         *)
(* A step between two awaits is one action, and a write to MongoDB takes   *)
(* effect when it is issued: a task cancelled while it waits for the reply *)
(* has made the write.  A cancelled task that has nothing to clean up ends *)
(* with the step that cancels it.                                          *)
(*                                                                         *)
(* External: the senders, the agent (finishes, reports an error or raises) *)
(* and the account check.  A drain is in PendingRuns: nothing here looks   *)
(* at it before a run has waited for another.                              *)
(***************************************************************************)
EXTENDS Naturals, FiniteSets

CONSTANTS Hooks,        \* webhooks; also names the conversation one starts
          Slow,         \* hooks whose tear-down may outlast the 30 s wait
          Pausable,     \* whether the owner may pause the flow
          Faults,       \* how an agent may end, besides "completed"
          MaxCrashes,   \* bound on restarts of the process
          Recovery,     \* the task that resumes a stale conversation
          None

ASSUME HooksAssumption == Slow \subseteq Hooks /\ Recovery \notin Hooks
ASSUME ChoicesAssumption ==
    Pausable \in BOOLEAN /\ Faults \subseteq {"error", "raised", "refused"} /\ MaxCrashes \in Nat
ASSUME NoneAssumption == None \notin Hooks \cup {Recovery}

VARIABLES active,       \* flow.status = "active"
          log,          \* webhook_logs.execution_status
          conv,         \* status of the conversation each hook may start
          age,          \* order of finished_at: 1 is the newest, 0 is none
          at,           \* where each task is
          cid,          \* the conversation a task works on
          pred,         \* the task a new run waits for
          beats,        \* tasks whose heartbeat loop is running
          claim,        \* _claims of active_streams.py
          inflight,     \* _inflight[key]
          crashes,
          newest,       \* history: the hook dispatched last
          erred         \* history: an agent of the thread has failed

records == <<active, log, conv, age>>
memory == <<at, cid, pred, beats, claim, inflight>>
vars == <<records, memory, crashes, newest, erred>>

Tasks == Hooks \cup {Recovery}
Early == {"new", "reading", "finding", "resuming", "resumed", "failing"}
Held == {"reclaiming", "agent", "closing"}
Places == Early \cup Held \cup {"none", "accepted", "waiting", "tearing", "settling",
                                "logging", "over"}

TypeOK ==
    /\ active \in BOOLEAN
    /\ log \in [Hooks -> {"none", "skipped", "pending", "running", "completed",
                          "interrupted", "error", "failed"}]
    /\ conv \in [Hooks -> {"none", "running", "completed", "interrupted", "error"}]
    /\ age \in [Hooks -> Nat] /\ \A c \in Hooks : age[c] # 0 => conv[c] # "none"
    /\ at \in [Tasks -> Places] /\ cid \in [Tasks -> Hooks \cup {None}]
    /\ pred \in [Hooks -> Hooks \cup {None}] /\ beats \subseteq Tasks
    /\ claim \in [Hooks -> Tasks \cup {None}]
    /\ \A t \in beats : at[t] \notin {"none", "over"}
    /\ inflight \in Hooks \cup {None} /\ newest \in Hooks \cup {None}
    /\ crashes \in 0..MaxCrashes /\ erred \in BOOLEAN

Init ==
    /\ active = TRUE
    /\ log = [h \in Hooks |-> "none"] /\ conv = [c \in Hooks |-> "none"] /\ age = [c \in Hooks |-> 0]
    /\ at = [t \in Tasks |-> "none"] /\ cid = [t \in Tasks |-> None]
    /\ pred = [h \in Hooks |-> None] /\ beats = {} /\ claim = [c \in Hooks |-> None]
    /\ inflight = None /\ crashes = 0 /\ newest = None /\ erred = FALSE

----------------------------------------------------------------------------
(* Helpers. *)

Go(t, place) == at' = [at EXCEPT ![t] = place]

(* The task ends; _cleanup removes its own entry only. *)
End(h) ==
    /\ Go(h, "over")
    /\ inflight' = IF inflight = h THEN None ELSE inflight

(* A write of status and finished_at: those that were newer are older by one. *)
Ends(c, status) ==
    /\ conv' = [conv EXCEPT ![c] = status]
    /\ age' = [d \in Hooks |-> IF d = c THEN 1
                              ELSE IF age[d] # 0 /\ (age[d] < age[c] \/ age[c] = 0)
                              THEN age[d] + 1 ELSE age[d]]

(* ... and the end of the heartbeat. *)
Finished(t, status) == Ends(cid[t], status) /\ beats' = beats \ {t}

(* What the thread look-up matches. *)
Resumable == {c \in Hooks : conv[c] \in {"completed", "running", "interrupted"}}

(* ... and returns: the one finished last, one that never finished if none. *)
Found ==
    LET ended == {c \in Resumable : age[c] # 0}
    IN  IF ended = {} THEN Resumable
        ELSE {c \in ended : \A d \in ended : age[c] <= age[d]}

CanClaim(t) == claim[cid[t]] \in {None, t}

(* Where CancelledError takes a task: out, or through the handler around
   stream_agent. *)
Cancelled(h) == IF at[h] \in Early THEN "over" ELSE "tearing"

----------------------------------------------------------------------------
(* handle_incoming_webhook: the flow is read, the log written; the dispatch
   comes several awaits later, in whatever order the requests get there. *)
Accept(h) ==
    /\ at[h] = "none"
    /\ IF active THEN Go(h, "accepted") ELSE Go(h, "over")
    /\ log' = [log EXCEPT ![h] = IF active THEN "pending" ELSE "skipped"]
    /\ UNCHANGED <<active, conv, age, cid, pred, beats, claim, inflight, crashes, newest, erred>>

(* dispatch_webhook_flow, without an await: cancel the run in flight, create
   the task, store it. *)
Dispatch(h) ==
    /\ at[h] = "accepted"
    /\ at' = [t \in Tasks |-> IF t = h THEN "new" ELSE IF t = inflight THEN Cancelled(t) ELSE at[t]]
    /\ pred' = [pred EXCEPT ![h] = inflight]
    /\ inflight' = h /\ newest' = h
    /\ UNCHANGED <<records, cid, beats, claim, crashes, erred>>

(* Mutant: a run whose predecessor is still busy after 30 s is given up. *)
StartUnlessBusy(h) ==
    /\ at[h] = "new"
    /\ pred[h] \in {None} \cup Slow \cup {p \in Hooks : at[p] = "over"}
    /\ IF active /\ pred[h] \in {None} \cup {p \in Hooks : at[p] = "over"}
       THEN Go(h, "reading") /\ UNCHANGED inflight ELSE End(h)
    /\ UNCHANGED <<records, cid, pred, beats, claim, crashes, newest, erred>>

(* _run_superseding: the predecessor is done, or 30 s have passed.  Then the
   flow is read again; if it is not active the log stays as it is. *)
Start(h) ==
    /\ at[h] = "new"
    /\ pred[h] \in {None} \cup Slow \cup {p \in Hooks : at[p] = "over"}
    /\ IF active THEN Go(h, "reading") /\ UNCHANGED inflight ELSE End(h)
    /\ UNCHANGED <<records, cid, pred, beats, claim, crashes, newest, erred>>

(* require_execution_account *)
AccountRefused(h) ==
    /\ at[h] = "reading" /\ "refused" \in Faults
    /\ log' = [log EXCEPT ![h] = "failed"] /\ End(h)
    /\ UNCHANGED <<active, conv, age, cid, pred, beats, claim, crashes, newest, erred>>

LogRunning(h) ==
    /\ at[h] = "reading"
    /\ log' = [log EXCEPT ![h] = "running"] /\ Go(h, "finding")
    /\ UNCHANGED <<active, conv, age, cid, pred, beats, claim, inflight, crashes, newest, erred>>

FindsConversation(h) ==
    /\ at[h] = "finding"
    /\ \E c \in Found : cid' = [cid EXCEPT ![h] = c]
    /\ Go(h, "resuming")
    /\ UNCHANGED <<records, pred, beats, claim, inflight, crashes, newest, erred>>

(* observer.start *)
StartsConversation(h) ==
    /\ at[h] = "finding" /\ Found = {}
    /\ cid' = [cid EXCEPT ![h] = h] /\ conv' = [conv EXCEPT ![h] = "running"]
    /\ Go(h, "resumed")
    /\ UNCHANGED <<active, log, age, pred, beats, claim, inflight, crashes, newest, erred>>

(* observer.resume: of a webhook, of recovery, and again by whoever had to
   wait for the claim. *)
Resume(t) ==
    /\ at[t] \in {"resuming", "reclaiming"}
    /\ conv' = [conv EXCEPT ![cid[t]] = "running"]
    /\ Go(t, IF at[t] = "resuming" THEN "resumed" ELSE "agent")
    /\ UNCHANGED <<active, log, age, cid, pred, beats, claim, inflight, crashes, newest, erred>>

(* The heartbeat starts and stream_agent tries the claim. *)
Begin(t) ==
    /\ at[t] = "resumed"
    /\ beats' = beats \cup {t}
    /\ IF CanClaim(t) THEN Go(t, "agent") /\ claim' = [claim EXCEPT ![cid[t]] = t]
       ELSE Go(t, "waiting") /\ UNCHANGED claim
    /\ UNCHANGED <<records, cid, pred, inflight, crashes, newest, erred>>

Wakes(t) ==
    /\ at[t] = "waiting" /\ CanClaim(t)
    /\ claim' = [claim EXCEPT ![cid[t]] = t] /\ Go(t, "reclaiming")
    /\ UNCHANGED <<records, cid, pred, beats, inflight, crashes, newest, erred>>

(* The runtime records how its run ended, with the claim still held. *)
AgentEnds(t, status) ==
    /\ at[t] = "agent"
    /\ status = "completed" \/ (status = "error" /\ "error" \in Faults)
    /\ Finished(t, status) /\ Go(t, "closing")
    /\ erred' = (erred \/ status = "error")
    /\ UNCHANGED <<active, log, cid, pred, claim, inflight, crashes, newest>>

(* The claim is released and the log written; an error that was only
   reported counts as completed. *)
Leave(t) ==
    /\ at[t] = "closing" /\ End(t)
    /\ claim' = [claim EXCEPT ![cid[t]] = None]
    /\ log' = IF t = Recovery THEN log ELSE [log EXCEPT ![t] = "completed"]
    /\ UNCHANGED <<active, conv, age, cid, pred, beats, crashes, newest, erred>>

(* The agent raises: the claim goes first, then the error is recorded. *)
AgentRaises(t) ==
    /\ at[t] = "agent" /\ "raised" \in Faults
    /\ claim' = [claim EXCEPT ![cid[t]] = None]
    /\ Finished(t, "error") /\ Go(t, "failing") /\ erred' = TRUE
    /\ UNCHANGED <<active, log, cid, pred, inflight, crashes, newest>>

LogError(t) ==
    /\ at[t] = "failing" /\ End(t)
    /\ log' = IF t = Recovery THEN log ELSE [log EXCEPT ![t] = "error"]
    /\ UNCHANGED <<active, conv, age, cid, pred, beats, claim, crashes, newest, erred>>

(* Mutant: release_claim does not ask whose claim it is. *)
TearDownAnyClaim(h) ==
    /\ at[h] = "tearing"
    /\ claim' = [claim EXCEPT ![cid[h]] = None]
    /\ Go(h, "settling")
    /\ UNCHANGED <<records, cid, pred, beats, inflight, crashes, newest, erred>>

(* A cancelled run: stream_agent's finally kills the agent and releases the
   claim, ... *)
TearDown(h) ==
    /\ at[h] = "tearing"
    /\ claim' = [c \in Hooks |-> IF claim[c] = h THEN None ELSE claim[c]]
    /\ Go(h, "settling")
    /\ UNCHANGED <<records, cid, pred, beats, inflight, crashes, newest, erred>>

(* ... then _finalize_interrupted, shielded: whatever the conversation's
   status is by now, ... *)
Settle(h) ==
    /\ at[h] = "settling"
    /\ Finished(h, "interrupted") /\ Go(h, "logging")
    /\ UNCHANGED <<active, log, cid, pred, claim, inflight, crashes, newest, erred>>

(* ... and then the log. *)
LogInterrupted(h) ==
    /\ at[h] = "logging" /\ End(h)
    /\ log' = [log EXCEPT ![h] = "interrupted"]
    /\ UNCHANGED <<active, conv, age, cid, pred, beats, claim, crashes, newest, erred>>

----------------------------------------------------------------------------
(* Mutant: the sweep runs only after a restart. *)
StaleAtBoot(c) ==
    /\ conv[c] = "running" /\ crashes > 0
    /\ \A t \in Tasks : cid[t] = c => t \notin beats /\ at[t] # "resumed"

(* recovery.py: a running conversation without a heartbeat for two intervals
   is resumed if it is recent, else marked interrupted.  The write that marks
   it running counts as a beat. *)
Stale(c) ==
    /\ conv[c] = "running"
    /\ \A t \in Tasks : cid[t] = c => t \notin beats /\ at[t] # "resumed"

(* One run of recovery at a time. *)
SweepResumes(c) ==
    /\ Stale(c) /\ at[Recovery] \in {"none", "over"}
    /\ cid' = [cid EXCEPT ![Recovery] = c] /\ Go(Recovery, "resuming")
    /\ UNCHANGED <<records, pred, beats, claim, inflight, crashes, newest, erred>>

SweepMarks(c) ==
    /\ Stale(c) /\ Ends(c, "interrupted")
    /\ UNCHANGED <<active, log, memory, crashes, newest, erred>>

Pause ==
    /\ Pausable /\ active /\ active' = FALSE
    /\ UNCHANGED <<log, conv, age, memory, crashes, newest, erred>>

(* A killed process: its tasks, claims and _inflight are gone. *)
Crash ==
    /\ crashes < MaxCrashes /\ crashes' = crashes + 1
    /\ at' = [t \in Tasks |-> IF at[t] = "none" THEN "none" ELSE "over"]
    /\ beats' = {} /\ claim' = [c \in Hooks |-> None] /\ inflight' = None
    /\ UNCHANGED <<records, cid, pred, newest, erred>>

----------------------------------------------------------------------------
WebhookStep(h) ==
    \/ Dispatch(h) \/ Start(h) \/ AccountRefused(h) \/ LogRunning(h)
    \/ FindsConversation(h) \/ StartsConversation(h)
    \/ TearDown(h) \/ Settle(h) \/ LogInterrupted(h)

RunStep(t) ==
    \/ Resume(t) \/ Begin(t) \/ Wakes(t) \/ Leave(t) \/ AgentRaises(t) \/ LogError(t)
    \/ \E status \in {"completed", "error"} : AgentEnds(t, status)

Sweep == \E c \in Hooks : SweepResumes(c) \/ SweepMarks(c)

Progress == (\E h \in Hooks : WebhookStep(h)) \/ (\E t \in Tasks : RunStep(t)) \/ Sweep

Next == (\E h \in Hooks : Accept(h)) \/ Progress \/ Pause \/ Crash

Spec == Init /\ [][Next]_vars

(* The event loop runs every ready task, agents end, and the recovery loop
   sweeps for as long as the process lives.  Every such step brings a task
   closer to its end, so fairness of their disjunction is enough. *)
FairSpec == Spec /\ WF_vars(Progress)

----------------------------------------------------------------------------
(* Two webhooks' agents never work for the thread at once, whichever
   conversation they found, and one whose agent works, or is being killed,
   has the claim of its conversation, against recovery too. *)
OneAgentPerThread ==
    /\ Cardinality({h \in Hooks : at[h] \in Held}) <= 1
    /\ \A t \in Tasks : at[t] \in Held => claim[cid[t]] = t

(* "keeping one thread": as long as no agent of the thread failed, all its
   runs, cut short or not, share one conversation. *)
OneConversation == ~erred => Cardinality({c \in Hooks : conv[c] # "none"}) <= 1

(* The invariant of a thread: its parts together. *)
ThreadIsKept == TypeOK /\ OneAgentPerThread /\ OneConversation

(* The webhook dispatched last is run to an end that its log tells, unless a
   newer one arrives, the flow is paused or the process dies. *)
LatestIsRun ==
    \A h \in Hooks :
        newest = h ~> (\/ newest # h \/ ~active \/ crashes > 0
                       \/ log[h] \in {"completed", "error", "failed"})

(* No conversation stays "running" after its runs were superseded, died or
   ended: a deploy that waits for it would wait in vain. *)
NoneLeftRunning == \A c \in Hooks : conv[c] = "running" ~> conv[c] # "running"

============================================================================
