---- MODULE PendingRuns ----
(***************************************************************************)
(* Work that arrives while a deploy drains: api/drain.py, the pending_runs *)
(* collection of api/pending_runs.py, its dispatcher, and the entry points *)
(* that save a run there, for ONE conversation.                            *)
(*                                                                         *)
(* A job is a coroutine that runs messages: the handler of a message, or   *)
(* the _run_group task of the entries one dispatch claimed.  Jobs, the     *)
(* drain flag and the conversation claim live in the backend process and   *)
(* die with it; entries and conversations.status are in MongoDB.           *)
(*                                                                         *)
(* The run itself is one step from its start to its end here;              *)
(* ConversationRuns models what happens inside it.                         *)
(***************************************************************************)
EXTENDS Naturals, FiniteSets

CONSTANTS Dashboard, Slack, Headless,   \* the messages, by entry point
          None,                         \* nobody holds the conversation
          MaxEntries,                   \* bound on pending_runs documents
          MaxDrains, MaxCrashes, MaxStops

Msgs == Dashboard \cup Slack \cup Headless
Ids == 1..MaxEntries
Jobs == Msgs \cup Ids

ASSUME KindsDisjoint ==
    /\ Dashboard \cap Slack = {} /\ Dashboard \cap Headless = {} /\ Slack \cap Headless = {}
ASSUME NamesDisjoint == Msgs \cap Ids = {} /\ None \notin Jobs
ASSUME BoundsAssumption == {MaxEntries, MaxDrains, MaxCrashes, MaxStops} \subseteq Nat

VARIABLES
    entry,      \* pending_runs: run_id -> [kind, msgs, status]
    status,     \* conversations.status
    up,         \* the backend process is running
    draining,   \* drain._state["draining"]
    owner,      \* the job that holds the conversation's claim
    phase,      \* where each job is
    todo,       \* entries a group has claimed and not run yet
    group,      \* all entries of a group: its run_ids
    disp,       \* the dispatch pass under _dispatch_lock
    stopReq,    \* the interrupt request of a queued conversation
    drains, crashes, stops,     \* how often, for the bounds
    told,       \* history: messages answered with QUEUED_MESSAGE
    started,    \* history: messages whose run has started
    refused,    \* history: messages answered with DRAIN_MESSAGE
    dropped,    \* history: messages whose entry a Stop deleted
    discarded   \* history: queued messages that a second drain refused, unseen

dbVars == <<entry, status>>
jobVars == <<owner, phase, todo, group>>
boundVars == <<drains, crashes, stops>>
history == <<told, started, refused, dropped, discarded>>
vars == <<dbVars, up, draining, jobVars, disp, stopReq, boundVars, history>>

Kinds == {"dashboard", "slack", "headless"}
EntryStatuses == {"free", "queued", "claimed", "failed", "deleted"}
Phases == {"idle", "claimed", "recording", "queueing", "marking", "turn", "gated",
           "starting", "entering", "waiting", "running", "done"}
FreeEntry == [kind |-> "dashboard", msgs |-> {}, status |-> "free"]
Resting == [at |-> "idle", left |-> {}, now |-> {}, got |-> {}]
NoStop == "none"

TypeOK ==
    /\ entry \in [Ids -> [kind : Kinds, msgs : SUBSET Msgs, status : EntryStatuses]]
    /\ status \in {"none", "running", "completed", "interrupted", "queued"}
    /\ up \in BOOLEAN /\ draining \in BOOLEAN
    /\ owner \in Jobs \cup {None}
    /\ phase \in [Jobs -> Phases]
    /\ todo \in [Ids -> SUBSET Ids]
    /\ group \in [Ids -> SUBSET Ids]
    /\ disp \in [at : {"idle", "checked", "claiming"}, left : SUBSET Ids, now : SUBSET Ids,
                 got : SUBSET Ids]
    /\ stopReq \in {"none", "deleting", "marking"}
    /\ drains \in 0..MaxDrains /\ crashes \in 0..MaxCrashes /\ stops \in 0..MaxStops
    /\ told \subseteq Msgs /\ started \subseteq Msgs /\ refused \subseteq Msgs
    /\ dropped \subseteq Msgs /\ discarded \subseteq Msgs

Init ==
    /\ entry = [i \in Ids |-> FreeEntry]
    /\ status = "none"
    /\ up = TRUE /\ draining = FALSE
    /\ owner = None
    /\ phase = [j \in Jobs |-> "idle"]
    /\ todo = [i \in Ids |-> {}] /\ group = [i \in Ids |-> {}]
    /\ disp = Resting /\ stopReq = NoStop
    /\ drains = 0 /\ crashes = 0 /\ stops = 0
    /\ told = {} /\ started = {} /\ refused = {} /\ dropped = {} /\ discarded = {}

----------------------------------------------------------------------------
(* Turns.  A request runs its message.  A Slack group replays its entries one
   at a time, oldest first; any other group runs them merged as one turn. *)

Oldest(i, S) == i \in S /\ \A k \in S : i <= k
KindOf(j) == IF j \in Dashboard THEN "dashboard"
             ELSE IF j \in Slack THEN "slack"
             ELSE IF j \in Headless THEN "headless"
             ELSE entry[j].kind
SlackJob(j) == KindOf(j) = "slack"

(* The entries of the job's next turn; none for a request. *)
TurnOf(j) == IF j \in Msgs THEN {}
             ELSE IF SlackJob(j) THEN {i \in todo[j] : Oldest(i, todo[j])}
             ELSE todo[j]
MsgsIn(S) == UNION {entry[i].msgs : i \in S}

TurnMsgs(j) == IF j \in Msgs THEN {j} ELSE MsgsIn(TurnOf(j))

Enter(j, p) == phase' = [phase EXCEPT ![j] = p]
At(j, p) == up /\ phase[j] = p

(* A new message has not been sent; a group has claimed entries to run. *)
AtTurn(j) == up /\ IF j \in Msgs THEN phase[j] = "idle" ELSE phase[j] = "turn" /\ todo[j] # {}

(* Mutant: the claim is not released. *)
TurnEndsClaimed(j) ==
    /\ Enter(j, IF j \in Msgs THEN "done" ELSE "turn")
    /\ todo' = IF j \in Msgs THEN todo ELSE [todo EXCEPT ![j] = @ \ TurnOf(j)]
    /\ UNCHANGED <<owner, group>>

(* The turn is over: the request ends, the group goes on to its next turn. *)
TurnEnds(j) ==
    /\ Enter(j, IF j \in Msgs THEN "done" ELSE "turn")
    /\ owner' = IF owner = j THEN None ELSE owner
    /\ todo' = IF j \in Msgs THEN todo ELSE [todo EXCEPT ![j] = @ \ TurnOf(j)]
    /\ UNCHANGED group

(* The turn starts: this is where its messages are run. *)
TurnStarts(j) ==
    /\ Enter(j, "running")
    /\ status' = "running"
    /\ started' = started \cup TurnMsgs(j)
    /\ UNCHANGED <<todo, group, told, refused, dropped, discarded>>

----------------------------------------------------------------------------
(* handle_chat: the claim comes long before the drain check. *)

ChatClaims(m) ==
    /\ m \in Dashboard /\ AtTurn(m) /\ owner = None
    /\ owner' = m
    /\ Enter(m, "claimed")
    /\ UNCHANGED <<dbVars, up, draining, todo, group, disp, stopReq, boundVars, history>>

ChatChecksDrain(m) ==
    /\ m \in Dashboard /\ At(m, "claimed")
    /\ Enter(m, IF draining THEN "recording" ELSE "starting")
    /\ UNCHANGED <<dbVars, up, draining, owner, todo, group, disp, stopReq, boundVars, history>>

(* record_queued_message, before the entry exists. *)
ChatRecordsQueued(m) ==
    /\ m \in Dashboard /\ At(m, "recording")
    /\ status' = "queued"
    /\ Enter(m, "queueing")
    /\ UNCHANGED <<entry, up, draining, owner, todo, group, disp, stopReq, boundVars, history>>

(* observer.start or observer.resume, then the run; the claim is held. *)
ClaimedStarts(j) ==
    /\ At(j, "starting")
    /\ TurnStarts(j)
    /\ UNCHANGED <<entry, up, draining, owner, disp, stopReq, boundVars>>

----------------------------------------------------------------------------
(* _handle_agent_request: checks the drain first, claims later, waits. *)

SlackChecksDrain(j) ==
    /\ SlackJob(j) /\ AtTurn(j)
    /\ Enter(j, IF draining THEN "queueing" ELSE "gated")
    /\ UNCHANGED <<dbVars, up, draining, owner, todo, group, disp, stopReq, boundVars, history>>

SlackClaims(j) ==
    /\ SlackJob(j) /\ At(j, "gated")
    /\ IF owner = None
       THEN owner' = j /\ Enter(j, "starting")
       ELSE Enter(j, "waiting") /\ UNCHANGED owner
    /\ UNCHANGED <<dbVars, up, draining, todo, group, disp, stopReq, boundVars, history>>

SlackWakes(j) ==
    /\ SlackJob(j) /\ At(j, "waiting") /\ owner = None
    /\ owner' = j
    /\ Enter(j, IF draining THEN "queueing" ELSE "starting")
    /\ UNCHANGED <<dbVars, up, draining, todo, group, disp, stopReq, boundVars, history>>

----------------------------------------------------------------------------
(* Webhooks, recovery, and every dispatched dashboard or headless group:
   observer.resume, then stream_agent, which waits and checks the drain only
   if it waited. *)

HeadlessJob(j) == j \in Headless \/ (j \in Ids /\ ~SlackJob(j))

HeadlessResumes(j) ==
    /\ HeadlessJob(j) /\ AtTurn(j)
    /\ status' = "running"
    /\ Enter(j, "entering")
    /\ UNCHANGED <<entry, up, draining, owner, todo, group, disp, stopReq, boundVars, history>>

AgentClaims(j) ==
    /\ HeadlessJob(j) /\ At(j, "entering") /\ owner = None
    /\ owner' = j
    /\ TurnStarts(j)
    /\ UNCHANGED <<entry, up, draining, disp, stopReq, boundVars>>

AgentWaits(j) ==
    /\ HeadlessJob(j) /\ At(j, "entering") /\ owner # None
    /\ Enter(j, "waiting")
    /\ UNCHANGED <<dbVars, up, draining, owner, todo, group, disp, stopReq, boundVars, history>>

AgentWakes(j) ==
    /\ HeadlessJob(j) /\ At(j, "waiting") /\ owner = None
    /\ owner' = j
    /\ \/ draining /\ Enter(j, "queueing") /\ UNCHANGED <<todo, group, status, history>>
       \/ ~draining /\ TurnStarts(j)
    /\ UNCHANGED <<entry, up, draining, disp, stopReq, boundVars>>

----------------------------------------------------------------------------
(* enqueue, and what its callers do around it. *)

NewEntryKind(j) == IF HeadlessJob(j) THEN "headless" ELSE KindOf(j)

(* insert_one.  A headless run then marks the conversation queued. *)
Enqueue(j) ==
    /\ At(j, "queueing")
    /\ \E i \in Ids :
         /\ Oldest(i, {k \in Ids : entry[k].status = "free"})
         /\ entry' = [entry EXCEPT ![i] = [kind |-> NewEntryKind(j), msgs |-> TurnMsgs(j),
                                           status |-> "queued"]]
    /\ told' = told \cup TurnMsgs(j)
    /\ IF HeadlessJob(j)
       THEN Enter(j, "marking") /\ UNCHANGED <<owner, todo, group>>
       ELSE TurnEnds(j)
    /\ UNCHANGED <<status, up, draining, disp, stopReq, boundVars, started, refused, dropped, discarded>>

MarksQueued(j) ==
    /\ At(j, "marking")
    /\ status' = "queued"
    /\ TurnEnds(j)
    /\ UNCHANGED <<entry, up, draining, disp, stopReq, boundVars, history>>

(* Attachments too large to store (those of a merged group together), or the
   insert failed: DRAIN_MESSAGE.  _run_agent drops what stream_agent yields, so
   of a dispatched dashboard or headless group nobody sees it, and the group's
   entries are deleted as if they had run. *)
QueueRefused(j) ==
    /\ \/ At(j, "queueing") /\ j \notin Dashboard
       \/ At(j, "recording")
    /\ IF j \in Ids /\ HeadlessJob(j)
       THEN discarded' = discarded \cup TurnMsgs(j) /\ UNCHANGED refused
       ELSE refused' = refused \cup TurnMsgs(j) /\ UNCHANGED discarded
    /\ TurnEnds(j)
    /\ UNCHANGED <<dbVars, up, draining, disp, stopReq, boundVars, told, started, dropped>>

RunEnds(j) ==
    /\ At(j, "running")
    /\ status' = "completed"
    /\ TurnEnds(j)
    /\ UNCHANGED <<entry, up, draining, disp, stopReq, boundVars, history>>

----------------------------------------------------------------------------
(* dispatch_pending and _run_group. *)

Queued == {i \in Ids : entry[i].status = "queued"}
SetStatus(S, s) == [i \in Ids |-> IF i \in S THEN [entry[i] EXCEPT !.status = s] ELSE entry[i]]

(* The only drain check of a pass; the lock and the database come after it. *)
DispatchChecksDrain ==
    /\ up /\ disp.at = "idle" /\ ~draining
    /\ Queued # {}
    /\ disp' = [disp EXCEPT !.at = "checked"]
    /\ UNCHANGED <<dbVars, up, draining, jobVars, stopReq, boundVars, history>>

(* Mutant: old entries are deleted, like those of a finished group. *)
DispatchReadsDeletes ==
    /\ disp.at = "checked"
    /\ \E old \in SUBSET Queued :
         /\ entry' = SetStatus(old, "deleted")
         /\ disp' = [Resting EXCEPT !.at = "claiming", !.left = Queued \ old]
    /\ UNCHANGED <<status, up, draining, jobVars, stopReq, boundVars, history>>

(* _expire_old, then the list of queued entries. *)
DispatchReads ==
    /\ disp.at = "checked"
    /\ \E old \in SUBSET Queued :
         /\ entry' = SetStatus(old, "failed")
         /\ disp' = [Resting EXCEPT !.at = "claiming", !.left = Queued \ old]
    /\ UNCHANGED <<status, up, draining, jobVars, stopReq, boundVars, history>>

(* _group: the entries of the kind of the oldest one left come next. *)
DispatchTakesGroup ==
    /\ disp.at = "claiming" /\ disp.now = {} /\ disp.got = {}
    /\ \E i \in Ids :
         /\ Oldest(i, disp.left)
         /\ LET members == {k \in disp.left : entry[k].kind = entry[i].kind}
            IN  disp' = [disp EXCEPT !.left = @ \ members, !.now = members]
    /\ UNCHANGED <<dbVars, up, draining, jobVars, stopReq, boundVars, history>>

(* Mutant: the entry is taken as it was listed, without the status filter. *)
ClaimListed(i) ==
    /\ entry' = SetStatus({i}, "claimed")
    /\ disp' = [disp EXCEPT !.now = @ \ {i}, !.got = @ \cup {i}]

(* _claim: find_one_and_update with status "queued" in its filter. *)
Claim(i) ==
    /\ entry' = SetStatus({i} \cap Queued, "claimed")
    /\ disp' = [disp EXCEPT !.now = @ \ {i}, !.got = @ \cup ({i} \cap Queued)]

DispatchClaims ==
    /\ disp.at = "claiming"
    /\ \E i \in Ids : Oldest(i, disp.now) /\ Claim(i)
    /\ UNCHANGED <<status, up, draining, jobVars, stopReq, boundVars, history>>

(* create_task(_run_group(claimed)) when the group has no entry left. *)
DispatchSpawns ==
    /\ disp.at = "claiming" /\ disp.now = {} /\ disp.got # {}
    /\ \E g \in Ids :
         /\ Oldest(g, disp.got)
         /\ Enter(g, "turn")
         /\ todo' = [todo EXCEPT ![g] = disp.got]
         /\ group' = [group EXCEPT ![g] = disp.got]
    /\ disp' = [disp EXCEPT !.got = {}]
    /\ UNCHANGED <<dbVars, up, draining, owner, stopReq, boundVars, history>>

DispatchEnds ==
    /\ disp = [Resting EXCEPT !.at = "claiming"]
    /\ disp' = Resting
    /\ UNCHANGED <<dbVars, up, draining, jobVars, stopReq, boundVars, history>>

GroupEnds(g) ==
    /\ g \in Ids /\ At(g, "turn") /\ todo[g] = {}
    /\ entry' = SetStatus(group[g], "deleted")
    /\ Enter(g, "idle")
    /\ group' = [group EXCEPT ![g] = {}]
    /\ UNCHANGED <<status, up, draining, owner, todo, disp, stopReq, boundVars, history>>

(* An exception before the run, or while it waits for its turn: every entry of the group is marked failed,
   those it has already run included; the rest is not attempted. *)
GroupFails(g) ==
    /\ g \in Ids /\ up /\ phase[g] \in {"turn", "gated", "starting", "entering", "waiting"}
    /\ todo[g] # {}
    /\ entry' = SetStatus(group[g], "failed")
    /\ Enter(g, "idle")
    /\ todo' = [todo EXCEPT ![g] = {}]
    /\ group' = [group EXCEPT ![g] = {}]
    /\ owner' = IF owner = g THEN None ELSE owner
    /\ UNCHANGED <<status, up, draining, disp, stopReq, boundVars, history>>

----------------------------------------------------------------------------
(* Stop on a queued conversation: handle_interrupt_agent, cancel_conversation. *)

StopReadsQueued ==
    /\ up /\ stopReq = NoStop /\ stops < MaxStops
    /\ status = "queued"
    /\ stopReq' = "deleting"
    /\ stops' = stops + 1
    /\ UNCHANGED <<dbVars, up, draining, jobVars, disp, drains, crashes, history>>

(* Slack entries have no conversation_id and are not matched. *)
StopDeletes ==
    /\ stopReq = "deleting"
    /\ LET hit == {i \in Queued : entry[i].kind # "slack"}
       IN  /\ entry' = SetStatus(hit, "deleted")
           /\ dropped' = dropped \cup MsgsIn(hit)
    /\ stopReq' = "marking"
    /\ UNCHANGED <<status, up, draining, jobVars, disp, boundVars, told, started, refused, discarded>>

StopMarks ==
    /\ stopReq = "marking"
    /\ status' = IF status = "queued" THEN "interrupted" ELSE status
    /\ stopReq' = NoStop
    /\ UNCHANGED <<entry, up, draining, jobVars, disp, boundVars, history>>

----------------------------------------------------------------------------
(* The deploy script and the process. *)

SetDrain ==
    /\ up /\ ~draining /\ drains < MaxDrains
    /\ draining' = TRUE
    /\ drains' = drains + 1
    /\ UNCHANGED <<dbVars, up, jobVars, disp, stopReq, crashes, stops, history>>

(* DELETE /health/drain; the dispatch it schedules is the next pass. *)
ClearDrain ==
    /\ up /\ draining
    /\ draining' = FALSE
    /\ UNCHANGED <<dbVars, up, jobVars, disp, stopReq, boundVars, history>>

(* Everything in memory is gone. *)
ProcessEnds ==
    /\ up' = FALSE /\ draining' = FALSE
    /\ owner' = None
    /\ phase' = [j \in Jobs |-> IF j \in Msgs /\ phase[j] # "idle" THEN "done" ELSE "idle"]
    /\ todo' = [i \in Ids |-> {}] /\ group' = [i \in Ids |-> {}]
    /\ disp' = Resting /\ stopReq' = NoStop

(* docker compose up -d, once nothing runs or the wait timed out: SIGTERM,
   mark_all_running_interrupted, exit. *)
Redeploy ==
    /\ up /\ draining
    /\ status' = IF status = "running" THEN "interrupted" ELSE status
    /\ ProcessEnds
    /\ UNCHANGED <<entry, boundVars, history>>

Crash ==
    /\ up /\ crashes < MaxCrashes
    /\ crashes' = crashes + 1
    /\ ProcessEnds
    /\ UNCHANGED <<dbVars, drains, stops, history>>

Boot ==
    /\ ~up
    /\ up' = TRUE
    /\ UNCHANGED <<dbVars, draining, jobVars, disp, stopReq, boundVars, history>>

(* The job's observer was resumed and still sends heartbeats. *)
Beating(j) ==
    \/ phase[j] \in {"entering", "marking", "running"}
    \/ HeadlessJob(j) /\ phase[j] \in {"waiting", "queueing"}

(* _run_recovery_check of a dashboard conversation whose heartbeat is stale. *)
Recover ==
    /\ up /\ status = "running"
    /\ \A j \in Jobs : ~Beating(j)
    /\ status' = "interrupted"
    /\ UNCHANGED <<entry, up, draining, jobVars, disp, stopReq, boundVars, history>>

----------------------------------------------------------------------------
Arrives(j) == j \in Msgs /\ (ChatClaims(j) \/ SlackChecksDrain(j) \/ HeadlessResumes(j))

JobStep(j) ==
    \/ ChatChecksDrain(j) \/ ChatRecordsQueued(j) \/ ClaimedStarts(j)
    \/ j \in Ids /\ (SlackChecksDrain(j) \/ HeadlessResumes(j))
    \/ SlackClaims(j) \/ SlackWakes(j)
    \/ AgentClaims(j) \/ AgentWaits(j) \/ AgentWakes(j)
    \/ Enqueue(j) \/ MarksQueued(j) \/ RunEnds(j) \/ GroupEnds(j)

DispatchStep ==
    \/ DispatchChecksDrain \/ DispatchReads \/ DispatchTakesGroup \/ DispatchClaims
    \/ DispatchSpawns \/ DispatchEnds

StopStep == StopDeletes \/ StopMarks

Next ==
    \/ \E j \in Jobs : Arrives(j) \/ JobStep(j) \/ QueueRefused(j) \/ GroupFails(j)
    \/ DispatchStep
    \/ StopReadsQueued \/ StopStep
    \/ SetDrain \/ ClearDrain \/ Redeploy \/ Crash \/ Boot \/ Recover

Spec == Init /\ [][Next]_vars

(* Every ready coroutine is resumed, runs end, the deploy script restarts the
   backend or clears the drain, and the container is started again. *)
Fairness ==
    /\ \A j \in Jobs : WF_vars(JobStep(j))
    /\ WF_vars(DispatchStep) /\ WF_vars(StopStep)
    /\ WF_vars(ClearDrain \/ Redeploy) /\ WF_vars(Boot)

FairSpec == Spec /\ Fairness

----------------------------------------------------------------------------
(* Properties. *)

(* Where a message that may still run is: with its handler, in a queued entry,
   with the dispatch pass that claimed it, or with a group that has not come
   to it yet. *)
Undecided == {"idle", "claimed", "recording", "queueing", "gated", "starting", "entering",
              "waiting"}
WithHandler == {m \in Msgs : phase[m] \in Undecided}
WithGroup(g) == IF phase[g] \in {"running", "marking"} THEN MsgsIn(todo[g] \ TurnOf(g))
                ELSE MsgsIn(todo[g])
Open == WithHandler \cup MsgsIn(Queued) \cup MsgsIn(disp.got)
        \cup UNION {WithGroup(g) : g \in Ids}

(* "Each entry is claimed with an atomic update, so it never runs twice"
   (pending_runs.py:20), and neither does a message whose run is queued again,
   whose entry Stop deleted or that a restart cut off. *)
Once == INSTANCE AtMostOnce WITH Items <- Msgs, open <- Open, begun <- started
RunsAtMostOnce == Once!OnceSpec

Failed == MsgsIn({i \in Ids : entry[i].status = "failed"})
Lost == told \ (started \cup refused \cup dropped \cup discarded \cup Failed \cup Open)

(* While the process lives, a queued message leaves the queue only by being
   started, refused, dropped by Stop, marked failed, or discarded when a second
   drain meets its group while that waits. *)
OnlyRestartsLose == [][up' => Lost' \subseteq Lost]_vars

(* A message answered with "Queued" does not stay so: it is started, refused,
   dropped, failed, discarded or lost with the process, whatever drains, restarts and
   runs it had to wait for. *)
QueuedIsSettled == \A m \in Msgs : m \in told ~> m \notin Open

============================================================================
