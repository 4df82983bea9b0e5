---- MODULE BoundedActions ----
(***************************************************************************)
(* The write path of bounded agent work: autonomy/core.py and              *)
(* autonomy/worker.py, for the runs of ONE job.  Workers lease a run, save *)
(* the planner's decision, save the action as an approval, wait for the    *)
(* owner where the policy asks, claim the approved action and call the     *)
(* provider.                                                               *)
(*                                                                         *)
(* Every step between two awaits is one action; a worker may crash or      *)
(* outlive its lease anywhere between them.  Runs, approvals and the job   *)
(* are MongoDB documents and survive.  An action with its arguments is one *)
(* value: its digest.                                                      *)
(*                                                                         *)
(* External: the planner (any decision), the owner (any click, possibly on *)
(* a stale page) and the provider (a call may be delivered and still fail).*)
(***************************************************************************)
EXTENDS Naturals, FiniteSets

CONSTANTS Runs,         \* runs of the job, in any order
          Workers,
          Exacts,       \* exact actions: name and arguments
          Allowed,      \* those the saved policy lets run without asking
          Stoppable,    \* runs the owner may stop
          Slow,         \* workers whose step may outlast its 120 s lease
          Expiring,     \* runs whose deadline and approvals may run out
          MaxSteps,     \* step budget of a run
          MaxEdits, MaxCrashes, \* bounds on the owner's edits and on crashes
          None

ASSUME RunsAssumption ==
    Stoppable \subseteq Runs /\ Expiring \subseteq Runs
ASSUME WorkersAssumption == Slow \subseteq Workers
ASSUME AllowedAssumption == Allowed \subseteq Exacts
ASSUME NoneAssumption == None \notin Runs \cup Workers \cup Exacts
ASSUME BudgetAssumption == MaxSteps \in Nat /\ MaxEdits \in Nat /\ MaxCrashes \in Nat

VARIABLES run,          \* agent_runs
          appr,         \* agent_approvals, unique on (run_id, step)
          active,       \* agent_work.active_run
          granted,      \* work not revoked, agent and account still authorized
          wk,           \* the tick each worker is in
          ready,        \* waiting runs a tick has found ready to wake
          click,        \* the owner's approve/reject request in progress
          cancelling,   \* the run whose cancel has not reached its approvals yet
          edits, crashes,
          sent,         \* history: the writes the provider carried out
          consented,    \* history: what the owner approved, as shown to him
          edited        \* history: approvals whose arguments the owner rewrote

boundVars == <<edits, crashes>>
history == <<sent, consented, edited>>
dbVars == <<run, appr, active, granted>>
vars == <<dbVars, wk, ready, click, cancelling, boundVars, history>>

Steps == 0..(MaxSteps - 1)
Ids == Runs \X Steps
Terminal == {"done", "cancelled", "failed"}
RunStatuses == {"none", "queued", "running", "waiting_approval", "parked"} \cup Terminal
ApprStatuses == {"none", "pending", "approved", "executing", "executed", "uncertain",
                 "rejected", "cancelled", "expired", "preview"}
Decisions == Exacts \cup {"none", "done", "park"}

(* exact: its digest; approved: approved_digest; by: decided_by. *)
Proposals == [status : ApprStatuses, exact : Exacts \cup {None},
              approved : Exacts \cup {None}, by : {"none", "owner", "policy"}]
NoProposal == [status |-> "none", exact |-> None, approved |-> None, by |-> "none"]
Places == {"idle", "checking", "planning", "planned", "saving", "acting", "proposing", "listing",
           "upserting", "previewing", "deciding", "allowing", "parking", "executing",
           "claiming", "rereading", "sending", "calling", "recording", "settling",
           "ending", "failing"}
Idle == [at |-> "idle", run |-> None, step |-> 0, dec |-> "none", prop |-> NoProposal]
NoClick == [at |-> "none", id |-> None, version |-> 0, exact |-> None, choice |-> "none"]

TypeOK ==
    /\ run \in [Runs -> [status : RunStatuses, step : 0..MaxSteps, dec : Decisions,
                         lease : Workers \cup {None}, fresh : BOOLEAN, dry : BOOLEAN]]
    /\ appr \in [Ids -> [prop : Proposals, version : 1..(MaxEdits + 1), late : BOOLEAN]]
    /\ active \in Runs \cup {None} /\ granted \in BOOLEAN
    /\ wk \in [Workers -> [at : Places, run : Runs \cup {None}, step : 0..MaxSteps,
                           dec : Decisions, prop : Proposals]]
    /\ ready \subseteq Runs
    /\ click \in [at : {"none", "seen", "read", "requeue"}, id : Ids \cup {None},
                  version : 0..(MaxEdits + 1), exact : Exacts \cup {None},
                  choice : {"none", "approved", "rejected", "cancelled"}]
    /\ cancelling \in Runs \cup {None}
    /\ edits \in 0..MaxEdits /\ crashes \in 0..MaxCrashes
    /\ sent \subseteq Ids \X Exacts /\ consented \subseteq Ids \X Exacts
    /\ edited \subseteq Ids

Init ==
    /\ run = [r \in Runs |-> [status |-> "none", step |-> 0, dec |-> "none",
                              lease |-> None, fresh |-> FALSE, dry |-> FALSE]]
    /\ appr = [i \in Ids |-> [prop |-> NoProposal, version |-> 1, late |-> FALSE]]
    /\ active = None /\ granted = TRUE
    /\ wk = [w \in Workers |-> Idle]
    /\ ready = {} /\ click = NoClick /\ cancelling = None
    /\ edits = 0 /\ crashes = 0
    /\ sent = {} /\ consented = {} /\ edited = {}

----------------------------------------------------------------------------
(* Helpers. *)

Id(w) == <<wk[w].run, wk[w].step>>
Doc(i) == appr[i].prop
Live(r) == run[r].status \notin Terminal \cup {"none"}
Of(r) == {i \in Ids : i[1] = r}

(* current_authority of a worker: the run is live, the lease is still its own
   and not out of time, and the owner still has the agent and the job. *)
Authorized(w) ==
    LET r == run[wk[w].run]
    IN  r.status \notin Terminal /\ r.lease = w /\ r.fresh /\ granted

(* advance is a compare-and-set on the lease and on status "running". *)
Holds(w) == run[wk[w].run].lease = w /\ run[wk[w].run].status = "running"

InTime(w) == Holds(w) /\ run[wk[w].run].fresh

At(w, place) == wk[w].at = place
Go(w, place) == wk' = [wk EXCEPT ![w].at = place]
Learn(w, place, prop) == wk' = [wk EXCEPT ![w].at = place, ![w].prop = prop]
Leave(w) == wk' = [wk EXCEPT ![w] = Idle]
SetDoc(i, prop) == appr' = [appr EXCEPT ![i].prop = prop]
SetStatusOf(S, old, new) ==
    appr' = [i \in Ids |-> IF i \in S /\ Doc(i).status \in old
                           THEN [appr[i] EXCEPT !.prop.status = new] ELSE appr[i]]

(* A worker's write to its run, and the end of its tick; when the run has
   changed hands or ended, the step fails instead.  The code leaves the token
   on a run that is not running any more, where nothing reads it. *)
Advance(w, status, step, dec) ==
    IF Holds(w)
    THEN /\ run' = [run EXCEPT ![wk[w].run] = [@ EXCEPT !.status = status, !.step = step,
                                               !.dec = dec, !.lease = None, !.fresh = FALSE]]
         /\ Leave(w)
    ELSE Go(w, "failing") /\ UNCHANGED run

Ended(r, status) == [run EXCEPT ![r].status = status, ![r].lease = None, ![r].fresh = FALSE]

UnchangedOutside == UNCHANGED <<active, granted, ready, click, cancelling, boundVars>>

----------------------------------------------------------------------------
(* Runs come and go: enqueue, the reservation of the job, the tick's sweeps. *)

(* A run is started for real or as a safe test (dry_run). *)
Enqueue(r, dry) ==
    /\ granted /\ run[r].status = "none"
    /\ active \in {None, r}
    /\ active' = r
    /\ run' = [run EXCEPT ![r].status = "queued", ![r].dry = dry]
    /\ UNCHANGED <<appr, granted, wk, ready, click, cancelling, boundVars, history>>

FreeReservation ==
    /\ active # None /\ run[active].status \in Terminal
    /\ active' = None
    /\ UNCHANGED <<run, appr, granted, wk, ready, click, cancelling, boundVars, history>>

(* An answer, a finished child or a delay: the step is over. *)
Unpark(r) ==
    /\ run[r].status = "parked"
    /\ run' = [run EXCEPT ![r].status = "queued", ![r].step = @ + 1, ![r].dec = "none"]
    /\ UNCHANGED <<appr, active, granted, wk, ready, click, cancelling, boundVars, history>>

(* The worker died, or is slow. *)
LeaseExpires(r) ==
    /\ run[r].status = "running" /\ run[r].fresh
    /\ run[r].lease \in Slow \/ wk[run[r].lease].run # r
    /\ run' = [run EXCEPT ![r].fresh = FALSE]
    /\ UNCHANGED <<appr, active, granted, wk, ready, click, cancelling, boundVars, history>>

(* expires_at goes by; the status follows with the next tick. *)
Lapse(i) ==
    /\ i[1] \in Expiring /\ ~appr[i].late
    /\ Doc(i).status \in {"pending", "approved"}
    /\ appr' = [appr EXCEPT ![i].late = TRUE]
    /\ UNCHANGED <<run, active, granted, wk, ready, click, cancelling, boundVars, history>>

ExpireApproval(i) ==
    /\ appr[i].late /\ Doc(i).status \in {"pending", "approved"}
    /\ SetStatusOf({i}, ApprStatuses, "expired")
    /\ UNCHANGED <<run, active, granted, wk, ready, click, cancelling, boundVars, history>>

(* The run's deadline. *)
ExpireRun(r) ==
    /\ r \in Expiring /\ Live(r)
    /\ run' = Ended(r, "failed")
    /\ UNCHANGED <<appr, active, granted, wk, ready, click, cancelling, boundVars, history>>

(* The sweep over ended runs: their open approvals go too. *)
CleanUp(r) ==
    /\ run[r].status \in Terminal
    /\ \E i \in Of(r) : Doc(i).status \in {"pending", "approved"}
    /\ \E s \in {"expired", "cancelled"} : SetStatusOf(Of(r), {"pending", "approved"}, s)
    /\ UNCHANGED <<run, active, granted, wk, ready, click, cancelling, boundVars, history>>

(* Mutant: an action nobody reported on may be tried again. *)
SweepRetries(i) ==
    /\ Doc(i).status = "executing"
    /\ ~(run[i[1]].status = "running" /\ run[i[1]].fresh)
    /\ SetStatusOf({i}, ApprStatuses, "approved")
    /\ UNCHANGED <<run, active, granted, wk, ready, click, cancelling, boundVars, history>>

(* Mutant: only a live run's action is looked at. *)
SweepsLiveRuns(i) ==
    /\ Doc(i).status = "executing"
    /\ run[i[1]].status = "running" /\ ~run[i[1]].fresh
    /\ SetStatusOf({i}, ApprStatuses, "uncertain")
    /\ UNCHANGED <<run, active, granted, wk, ready, click, cancelling, boundVars, history>>

(* No receipt 120 s after the claim, hence after the lease of the claimer: a
   worker that goes on with it has none any more, whoever runs the run now. *)
SweepExecuting(i) ==
    /\ Doc(i).status = "executing"
    /\ \A w \in Workers :
          Id(w) = i /\ wk[w].at \in {"sending", "calling", "recording"} => ~InTime(w)
    /\ SetStatusOf({i}, ApprStatuses, "uncertain")
    /\ UNCHANGED <<run, active, granted, wk, ready, click, cancelling, boundVars, history>>

(* Mutant: only runs whose approval was granted are woken. *)
FindsApproved(r) ==
    /\ run[r].status = "waiting_approval" /\ r \notin ready
    /\ Doc(<<r, run[r].step>>).status = "approved"
    /\ ready' = ready \cup {r}
    /\ UNCHANGED <<dbVars, wk, click, cancelling, boundVars, history>>

(* The tick reads the waiting runs and their approvals, then wakes them. *)
FindsReady(r) ==
    /\ run[r].status = "waiting_approval" /\ r \notin ready
    /\ Doc(<<r, run[r].step>>).status # "pending"
    /\ ready' = ready \cup {r}
    /\ UNCHANGED <<dbVars, wk, click, cancelling, boundVars, history>>

Wakes(r) ==
    /\ r \in ready
    /\ ready' = ready \ {r}
    /\ run' = [run EXCEPT ![r].status = IF @ = "waiting_approval" THEN "queued" ELSE @]
    /\ UNCHANGED <<appr, active, granted, wk, click, cancelling, boundVars, history>>

----------------------------------------------------------------------------
(* The step of one leased run: up to its proposal. *)

Lease(w, r) ==
    /\ At(w, "idle")
    /\ run[r].status = "queued" \/ (run[r].status = "running" /\ ~run[r].fresh)
    /\ run' = [run EXCEPT ![r].status = "running", ![r].lease = w, ![r].fresh = TRUE]
    /\ wk' = [wk EXCEPT ![w] = [Idle EXCEPT !.at = "checking", !.run = r,
                                            !.step = run[r].step, !.dec = run[r].dec]]
    /\ UNCHANGED <<appr, history>> /\ UnchangedOutside

(* A saved decision is acted on: an action is proposed, the rest is one write. *)
Doing(w) == IF wk[w].dec \in Exacts THEN "proposing" ELSE "acting"

Checks(w) ==
    /\ At(w, "checking")
    /\ Go(w, IF ~Authorized(w) \/ wk[w].step >= MaxSteps THEN "failing"
             ELSE IF wk[w].dec = "none" THEN "planning" ELSE Doing(w))
    /\ UNCHANGED <<run, appr, history>> /\ UnchangedOutside

PlannerAnswers(w) ==
    /\ At(w, "planning")
    /\ \E d \in Decisions \ {"none"} :
         wk' = [wk EXCEPT ![w].at = "planned", ![w].dec = d]
    /\ UNCHANGED <<run, appr, history>> /\ UnchangedOutside

(* A transport error is tried again later; any other ends the run. *)
PlannerFails(w) ==
    /\ At(w, "planning")
    /\ \/ Advance(w, "queued", wk[w].step, "none")
       \/ Go(w, "failing") /\ UNCHANGED run
    /\ UNCHANGED <<appr, history>> /\ UnchangedOutside

RechecksAfterPlanning(w) ==
    /\ At(w, "planned")
    /\ Go(w, IF Authorized(w) THEN "saving" ELSE "failing")
    /\ UNCHANGED <<run, appr, history>> /\ UnchangedOutside

(* The decision is saved before anything is done about it. *)
SavesDecision(w) ==
    /\ At(w, "saving")
    /\ IF Holds(w)
       THEN run' = [run EXCEPT ![wk[w].run].dec = wk[w].dec] /\ Go(w, Doing(w))
       ELSE Go(w, "failing") /\ UNCHANGED run
    /\ UNCHANGED <<appr, history>> /\ UnchangedOutside

Acts(w) ==
    /\ At(w, "acting")
    /\ \/ wk[w].dec = "done" /\ Advance(w, "done", wk[w].step, wk[w].dec)
       \/ wk[w].dec = "park" /\ Advance(w, "parked", wk[w].step, wk[w].dec)
    /\ UNCHANGED <<appr, history>> /\ UnchangedOutside

(* propose: the policy, then what is known of the same exact action, then the
   upsert, which returns the proposal of this step if there is one. *)
ProposalAllowed(w) ==
    /\ At(w, "proposing")
    /\ Go(w, IF Authorized(w) THEN "listing" ELSE "failing")
    /\ UNCHANGED <<run, appr, history>> /\ UnchangedOutside

Handled == {"rejected", "executed", "uncertain", "executing"}
Unknown == {"uncertain", "executing"}

(* Mutant: only the run's own approvals are looked at. *)
RepeatedInRun(w) ==
    \E i \in Ids : /\ Doc(i).exact = wk[w].dec
                   /\ i[1] = wk[w].run /\ i[2] # wk[w].step /\ Doc(i).status \in Handled

Repeated(w) ==
    \E i \in Ids : /\ Doc(i).exact = wk[w].dec
                   /\ \/ i[1] = wk[w].run /\ i[2] # wk[w].step /\ Doc(i).status \in Handled
                      \/ i[1] # wk[w].run /\ Doc(i).status \in Unknown

ChecksHistory(w) ==
    /\ At(w, "listing")
    /\ Go(w, IF Repeated(w) THEN "failing" ELSE "upserting")
    /\ UNCHANGED <<run, appr, history>> /\ UnchangedOutside

New(w) == [NoProposal EXCEPT !.status = "pending", !.exact = wk[w].dec]

Upserts(w) ==
    /\ At(w, "upserting")
    /\ LET i == Id(w)
           saved == IF Doc(i).status = "none" THEN New(w) ELSE Doc(i)
       IN  /\ SetDoc(i, saved)
           /\ Learn(w, IF run[wk[w].run].dry THEN "previewing" ELSE "deciding", saved)
    /\ UNCHANGED <<run, history>> /\ UnchangedOutside

(* A safe test stops here: the proposal is marked, the step is complete. *)
MarksPreview(w) ==
    /\ At(w, "previewing")
    /\ SetStatusOf({Id(w)}, {"pending"}, "preview")
    /\ Advance(w, "queued", wk[w].step + 1, "none")
    /\ UNCHANGED history /\ UnchangedOutside

----------------------------------------------------------------------------
(* From the proposal to the provider, and back. *)

ReadsMode(w) ==
    /\ At(w, "deciding")
    /\ LET p == wk[w].prop
       IN  Go(w, IF ~Authorized(w) THEN "failing"
                 ELSE IF p.status = "pending" /\ p.exact \in Allowed THEN "allowing"
                 ELSE IF p.status = "pending" THEN "parking"
                 ELSE IF p.status = "approved" THEN "executing"
                 ELSE "settling")
    /\ UNCHANGED <<run, appr, history>> /\ UnchangedOutside

(* The saved policy approves; the worker goes on whether it matched or not. *)
PolicyApproves(w) ==
    /\ At(w, "allowing")
    /\ LET p == wk[w].prop
           granting == [p EXCEPT !.status = "approved", !.approved = p.exact, !.by = "policy"]
       IN  /\ IF Doc(Id(w)).status = "pending"
              THEN SetDoc(Id(w), [granting EXCEPT !.exact = Doc(Id(w)).exact])
              ELSE UNCHANGED appr
           /\ Learn(w, "executing", granting)
    /\ UNCHANGED <<run, history>> /\ UnchangedOutside

WaitsForOwner(w) ==
    /\ At(w, "parking")
    /\ Advance(w, "waiting_approval", wk[w].step, wk[w].dec)
    /\ UNCHANGED <<appr, history>> /\ UnchangedOutside

(* execute_proposal, up to its claim. *)
ChecksApproval(w) ==
    /\ At(w, "executing")
    /\ LET p == wk[w].prop
           asked == p.exact \notin Allowed
       IN  Go(w, IF Authorized(w) /\ (asked => p.by = "owner") /\ p.approved = p.exact
                 THEN "claiming" ELSE "failing")
    /\ UNCHANGED <<run, appr, history>> /\ UnchangedOutside

(* Mutant: the claim looks at the digest only. *)
ClaimableInAnyStatus(i, exact) ==
    Doc(i).exact = exact /\ Doc(i).approved = exact /\ ~appr[i].late

Claimable(i, exact) ==
    /\ Doc(i).status = "approved" /\ ~appr[i].late
    /\ Doc(i).exact = exact /\ Doc(i).approved = exact

Claims(w) ==
    /\ At(w, "claiming")
    /\ IF Claimable(Id(w), wk[w].prop.exact)
       THEN SetStatusOf({Id(w)}, ApprStatuses, "executing") /\ Go(w, "sending")
       ELSE Go(w, "rereading") /\ UNCHANGED appr
    /\ UNCHANGED <<run, history>> /\ UnchangedOutside

Rereads(w) ==
    /\ At(w, "rereading")
    /\ Learn(w, "settling", Doc(Id(w)))
    /\ UNCHANGED <<run, appr, history>> /\ UnchangedOutside

(* Mutant: the authority is not read again after the claim. *)
SendsUnchecked(w) ==
    /\ At(w, "sending")
    /\ Go(w, "calling")
    /\ UNCHANGED <<run, appr, history>> /\ UnchangedOutside

(* effective_policy once more, then the provider call: "calling" starts at the
   read of the authority, the awaits between that and the call included. *)
Sends(w) ==
    /\ At(w, "sending")
    /\ IF Authorized(w) THEN Go(w, "calling")
       ELSE Learn(w, "recording", [wk[w].prop EXCEPT !.status = "uncertain"])
    /\ UNCHANGED <<run, appr, history>> /\ UnchangedOutside

Delivered(w) == sent' = sent \cup {<<Id(w), wk[w].prop.exact>>}

ProviderAnswers(w) ==
    /\ At(w, "calling")
    /\ Delivered(w)
    /\ Learn(w, "recording", [wk[w].prop EXCEPT !.status = "executed"])
    /\ UNCHANGED <<run, appr, consented, edited>> /\ UnchangedOutside

(* An exception or a timeout: the write may have happened. *)
ProviderFails(w) ==
    /\ At(w, "calling")
    /\ Delivered(w) \/ UNCHANGED sent
    /\ Learn(w, "recording", [wk[w].prop EXCEPT !.status = "uncertain"])
    /\ UNCHANGED <<run, appr, consented, edited>> /\ UnchangedOutside

RecordsOutcome(w) ==
    /\ At(w, "recording")
    /\ SetStatusOf({Id(w)}, {"executing"}, wk[w].prop.status)
    /\ Go(w, "settling")
    /\ UNCHANGED <<run, history>> /\ UnchangedOutside

(* What the step makes of the proposal as it last saw it. *)
Settles(w) ==
    /\ At(w, "settling")
    /\ LET s == wk[w].prop.status
       IN  \/ /\ s = "executing"
              /\ SetStatusOf({Id(w)}, {"executing"}, "uncertain")
              /\ Go(w, "ending") /\ UNCHANGED run
           \/ /\ s = "uncertain"
              /\ Go(w, "ending") /\ UNCHANGED <<run, appr>>
           \/ /\ s \in {"executed", "rejected", "expired", "cancelled"}
              /\ Advance(w, "queued", wk[w].step + 1, "none") /\ UNCHANGED appr
           \/ /\ s \in {"pending", "approved", "preview"}
              /\ Go(w, "failing") /\ UNCHANGED <<run, appr>>
    /\ UNCHANGED history /\ UnchangedOutside

EndsUnknown(w) ==
    /\ At(w, "ending")
    /\ Advance(w, "failed", wk[w].step, wk[w].dec)
    /\ UNCHANGED <<appr, history>> /\ UnchangedOutside

(* tick's except clause. *)
Fails(w) ==
    /\ At(w, "failing")
    /\ run' = IF Holds(w) THEN Ended(wk[w].run, "failed") ELSE run
    /\ Leave(w)
    /\ UNCHANGED <<appr, history>> /\ UnchangedOutside

(* The process dies; a call in flight may have been carried out. *)
Crash(w) ==
    /\ ~At(w, "idle") /\ crashes < MaxCrashes
    /\ crashes' = crashes + 1
    /\ (At(w, "calling") /\ Delivered(w)) \/ UNCHANGED sent
    /\ Leave(w)
    /\ UNCHANGED <<dbVars, ready, click, cancelling, edits, consented, edited>>

----------------------------------------------------------------------------
(* The owner: approve, reject or cancel what a page shows, edit, stop, revoke. *)

OwnerClicks(i, choice) ==
    /\ click = NoClick /\ Doc(i).status = "pending"
    /\ click' = [at |-> "seen", id |-> i, version |-> appr[i].version,
                 exact |-> Doc(i).exact, choice |-> choice]
    /\ consented' = IF choice = "approved" THEN consented \cup {<<i, Doc(i).exact>>} ELSE consented
    /\ UNCHANGED <<dbVars, wk, ready, cancelling, boundVars, sent, edited>>

(* decide reads the proposal, the run and, to approve, the authority. *)
DecideReads ==
    /\ click.at = "seen"
    /\ click' = IF Live(click.id[1]) /\ (click.choice = "approved" => granted)
                THEN [click EXCEPT !.at = "read", !.exact = Doc(click.id).exact] ELSE NoClick
    /\ UNCHANGED <<dbVars, wk, ready, cancelling, boundVars, history>>

(* Mutant: the version shown to the owner is not compared. *)
DecidableInAnyVersion(i, version) ==
    Doc(i).status = "pending" /\ ~appr[i].late /\ version \in Nat

Decidable(i, version) ==
    Doc(i).status = "pending" /\ ~appr[i].late /\ appr[i].version = version

DecideWrites ==
    /\ click.at = "read"
    /\ IF Decidable(click.id, click.version)
       THEN /\ SetDoc(click.id, [Doc(click.id) EXCEPT !.status = click.choice, !.by = "owner",
                 !.approved = IF click.choice = "approved" THEN click.exact ELSE @])
            /\ click' = [NoClick EXCEPT !.at = "requeue", !.id = click.id]
       ELSE click' = NoClick /\ UNCHANGED appr
    /\ UNCHANGED <<run, active, granted, wk, ready, cancelling, boundVars, history>>

DecideRequeues ==
    /\ click.at = "requeue"
    /\ run' = [run EXCEPT ![click.id[1]].status = IF @ = "waiting_approval" THEN "queued" ELSE @]
    /\ click' = NoClick
    /\ UNCHANGED <<appr, active, granted, wk, ready, cancelling, boundVars, history>>

(* decide with "edit", from another page: new arguments of the same action, so
   the policy's mode stays, and a new version. *)
OwnerEdits(i, exact) ==
    /\ Doc(i).status = "pending" /\ ~appr[i].late /\ edits < MaxEdits
    /\ Live(i[1]) /\ granted
    /\ exact # Doc(i).exact /\ (exact \in Allowed <=> Doc(i).exact \in Allowed)
    /\ appr' = [appr EXCEPT ![i] = [prop |-> [Doc(i) EXCEPT !.exact = exact, !.by = "owner"],
                                    version |-> @.version + 1, late |-> FALSE]]
    /\ edits' = edits + 1
    /\ edited' = edited \cup {i}
    /\ UNCHANGED <<run, active, granted, wk, ready, click, cancelling, crashes, sent, consented>>

(* cancel: first the run, then its open approvals.  On a run that has ended it
   only does what CleanUp does. *)
CancelsRun(r) ==
    /\ r \in Stoppable /\ cancelling = None /\ Live(r)
    /\ run' = Ended(r, "cancelled")
    /\ cancelling' = r
    /\ UNCHANGED <<appr, active, granted, wk, ready, click, boundVars, history>>

CancelsApprovals ==
    /\ cancelling # None
    /\ SetStatusOf(Of(cancelling), {"pending", "approved"}, "cancelled")
    /\ cancelling' = None
    /\ UNCHANGED <<run, active, granted, wk, ready, click, boundVars, history>>

(* The job is revoked, or the agent or the account is taken away: this stops
   every run. *)
Revoke ==
    /\ granted /\ Stoppable = Runs
    /\ granted' = FALSE
    /\ UNCHANGED <<run, appr, active, wk, ready, click, cancelling, boundVars, history>>

----------------------------------------------------------------------------
WorkerStep(w) ==
    \/ Checks(w) \/ PlannerAnswers(w) \/ PlannerFails(w) \/ RechecksAfterPlanning(w)
    \/ SavesDecision(w) \/ Acts(w) \/ ProposalAllowed(w) \/ ChecksHistory(w) \/ Upserts(w)
    \/ MarksPreview(w) \/ ReadsMode(w) \/ PolicyApproves(w) \/ WaitsForOwner(w)
    \/ ChecksApproval(w) \/ Claims(w) \/ Rereads(w) \/ Sends(w) \/ ProviderAnswers(w)
    \/ ProviderFails(w) \/ RecordsOutcome(w) \/ Settles(w) \/ EndsUnknown(w) \/ Fails(w)

Sweeps ==
    \/ \E r \in Runs : FindsReady(r) \/ Wakes(r) \/ CleanUp(r)
    \/ \E i \in Ids : ExpireApproval(i) \/ SweepExecuting(i)
    \/ FreeReservation

Time == (\E r \in Runs : LeaseExpires(r) \/ ExpireRun(r)) \/ \E i \in Ids : Lapse(i)

Owner ==
    \/ \E r \in Runs : (\E dry \in BOOLEAN : Enqueue(r, dry)) \/ Unpark(r) \/ CancelsRun(r)
    \/ \E i \in Ids : \E c \in {"approved", "rejected", "cancelled"} : OwnerClicks(i, c)
    \/ \E i \in Ids : \E e \in Exacts : OwnerEdits(i, e)
    \/ Revoke

Routes == DecideReads \/ DecideWrites \/ DecideRequeues \/ CancelsApprovals

Next ==
    \/ \E w \in Workers : (\E r \in Runs : Lease(w, r)) \/ WorkerStep(w) \/ Crash(w)
    \/ Sweeps \/ Time \/ Owner \/ Routes

Spec == Init /\ [][Next]_vars

(* The work loop ticks every two seconds, a leased step runs to its end or its
   worker dies, and a lease that is not renewed runs out. *)
Fairness ==
    /\ \A w \in Workers : WF_vars(WorkerStep(w))
    /\ \A r \in Runs : WF_vars(FindsReady(r)) /\ WF_vars(Wakes(r)) /\ WF_vars(LeaseExpires(r))
    /\ \A i \in Ids : WF_vars(SweepExecuting(i))

FairSpec == Spec /\ Fairness

----------------------------------------------------------------------------
(* Properties. *)

CallingFor(i) == {w \in Workers : At(w, "calling") /\ Id(w) = i}

(* An approval still stands for a possible write while it has no outcome and
   while some worker's call for it is on the way. *)
Open == {i \in Ids : \/ Doc(i).status \in {"none", "pending", "approved"}
                     \/ \E w \in Workers : At(w, "sending") /\ Id(w) = i
                     \/ CallingFor(i) # {}}
Begun == {s[1] : s \in sent}

(* core.py:6-7, worker.py:222-228: an approved action is carried out at most
   once, whatever workers crash, outlive their lease or replay the step. *)
Once == INSTANCE AtMostOnce WITH Items <- Ids, open <- Open, begun <- Begun
WritesAtMostOnce == Once!OnceSpec

(* A write that was carried out is on record as such: its approval names exactly
   this action and says executing, executed or uncertain, never that it was
   cancelled, expired, rejected or still waits. *)
WritesAreRecorded ==
    \A s \in sent : /\ Doc(s[1]).exact = s[2]
                    /\ Doc(s[1]).status \in {"executing", "executed", "uncertain"}

(* What the policy asks about is sent only if the owner approved exactly that,
   as his page showed it, whatever was edited in the meantime. *)
AskedWritesHaveConsent == \A s \in sent : s[2] \in Allowed \/ s \in consented

(* Once a run has ended and no worker is past its last check of the authority for
   it, none ever gets there: stop, revoke, deadline and failure all reach a worker
   that already holds an approved or even a claimed action. *)
EndedRunsStayQuiet ==
    [][\A i \in Ids : run[i[1]].status \in Terminal /\ CallingFor(i) = {}
                        => CallingFor(i)' = {}]_vars

(* core.py:6-7: while a write was or may still be carried out and nobody knows
   its outcome, no other approval of the job sends the same exact action, unless
   the owner rewrote that approval. *)
MayHaveBeenSent(exact) ==
    {i \in Ids : /\ Doc(i).status \in Unknown
                 /\ <<i, exact>> \in sent \/ \E w \in CallingFor(i) : wk[w].prop.exact = exact}
Starting(w) == At(w, "sending") /\ At(w, "calling")'
UnknownIsNotRepeated ==
    [][\A w \in Workers : Starting(w) /\ Id(w) \notin edited
         => MayHaveBeenSent(wk[w].prop.exact) \subseteq {Id(w)}]_vars

(* A run that waits for the owner goes on once he decided, even if he did so
   before the run started to wait, or the server died before requeueing it. *)
DecidedRunsResume ==
    \A r \in Runs : \A s \in Steps :
        (run[r].status = "waiting_approval" /\ run[r].step = s /\ Doc(<<r, s>>).status # "pending")
            ~> ~(run[r].status = "waiting_approval" /\ run[r].step = s)

(* No action is left "executing" by a worker that died. *)
ExecutingIsSettled == \A i \in Ids : Doc(i).status = "executing" ~> Doc(i).status # "executing"

============================================================================
