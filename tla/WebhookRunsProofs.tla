---- MODULE WebhookRunsProofs ----
(***************************************************************************)
(* Theorems about WebhookRuns, for any webhooks and any choice of faults,   *)
(* and about ClientPool, for any runs, accounts and sizes of the pool.      *)
(***************************************************************************)
EXTENDS WebhookRuns, ClientPool, FiniteSetTheorems, WellFoundedInduction, TLAPS

USE HooksAssumption, ChoicesAssumption, NoneAssumption
    DEF HooksAssumption, ChoicesAssumption, NoneAssumption

Outcomes == {"none", "skipped", "pending", "running", "completed", "interrupted", "error", "failed"}
Statuses == {"none", "running", "completed", "interrupted", "error"}

(* TypeOK, but for where the tasks with a heartbeat are. *)
Typed ==
    /\ active \in BOOLEAN /\ erred \in BOOLEAN /\ crashes \in 0..MaxCrashes
    /\ log \in [Hooks -> Outcomes] /\ conv \in [Hooks -> Statuses]
    /\ age \in [Hooks -> Nat] /\ \A c \in Hooks : age[c] # 0 => conv[c] # "none"
    /\ at \in [Tasks -> Places] /\ cid \in [Tasks -> Hooks \cup {None}]
    /\ pred \in [Hooks -> Hooks \cup {None}] /\ beats \subseteq Tasks
    /\ claim \in [Hooks -> Tasks \cup {None}]
    /\ inflight \in Hooks \cup {None} /\ newest \in Hooks \cup {None}

(* Places of a task that may still work, and of one that has a conversation. *)
Working == {"new", "reading", "finding", "resuming", "resumed", "failing", "waiting",
            "reclaiming", "agent", "closing"}
Knowing == {"resuming", "resumed", "failing", "waiting", "reclaiming", "agent", "closing",
            "tearing", "settling", "logging"}

(* The conversation of a task exists, and a task that ends has stopped its
   heartbeat. *)
TaskInv ==
    /\ \A t \in Tasks : at[t] \in Knowing => cid[t] \in Hooks /\ conv[cid[t]] # "none"
    /\ \A t \in beats : at[t] \in {"waiting", "reclaiming", "agent", "tearing", "settling"}

(* Whoever may still work for a webhook is the run in flight, and whoever's
   agent works, or is being killed, has the claim. *)
AgentInv ==
    /\ \A h \in Hooks : at[h] \in Working <=> inflight = h
    /\ \A t \in Tasks : at[t] \in Held => claim[cid[t]] = t

(* Until an agent fails there is one conversation, and the look-up matches it. *)
ThreadInv ==
    ~erred => /\ \A c \in Hooks : conv[c] # "error"
              /\ \A c, d \in Hooks : conv[c] # "none" /\ conv[d] # "none" => c = d

IInv == Typed /\ TaskInv /\ AgentInv /\ ThreadInv

----------------------------------------------------------------------------
(* The parts of the state a step may leave alone together. *)

Storage == active \in BOOLEAN /\ log \in [Hooks -> Outcomes]
Dialogs ==
    /\ conv \in [Hooks -> Statuses] /\ age \in [Hooks -> Nat]
    /\ \A c \in Hooks : age[c] # 0 => conv[c] # "none"
Claims == claim \in [Hooks -> Tasks \cup {None}] /\ beats \subseteq Tasks
Runs ==
    /\ at \in [Tasks -> Places] /\ cid \in [Tasks -> Hooks \cup {None}]
    /\ inflight \in Hooks \cup {None}
Marks ==
    /\ pred \in [Hooks -> Hooks \cup {None}] /\ newest \in Hooks \cup {None}
    /\ erred \in BOOLEAN /\ crashes \in 0..MaxCrashes

LEMMA TypedParts ==
    /\ Typed <=> Storage /\ Dialogs /\ Claims /\ Runs /\ Marks
    /\ Typed' <=> Storage' /\ Dialogs' /\ Claims' /\ Runs' /\ Marks'
<1> QED BY DEF Typed, Storage, Dialogs, Claims, Runs, Marks

LEMMA HooksAreTasks == Hooks \subseteq Tasks /\ None \notin Tasks /\ Recovery \in Tasks \ Hooks
<1> QED BY DEF Tasks

LEMMA Initially == Init => IInv
<1> SUFFICES ASSUME Init PROVE IInv
  OBVIOUS
<1>1. Typed
  <2>1. Storage /\ Claims /\ Runs /\ Marks
    <3>1. Storage /\ Claims /\ Runs
      BY DEF Init, Storage, Claims, Runs, Outcomes, Places
    <3>2. 0 \in 0..MaxCrashes
      OBVIOUS
    <3> QED BY <3>1, <3>2 DEF Init, Marks
  <2>2. Dialogs
    BY DEF Init, Dialogs, Statuses
  <2> QED BY <2>1, <2>2, TypedParts
<1>2. TaskInv
  BY DEF Init, TaskInv, Knowing
<1>3. AgentInv
  BY HooksAreTasks DEF Init, AgentInv, Working, Held
<1>4. ThreadInv
  BY DEF Init, ThreadInv
<1> QED BY <1>1, <1>2, <1>3, <1>4 DEF IInv

LEMMA EndsTyped ==
    ASSUME Dialogs, NEW c \in Hooks, NEW status \in Statuses \ {"none"}, Ends(c, status)
    PROVE  Dialogs'
<1>1. conv' \in [Hooks -> Statuses] /\ conv'[c] = status
      /\ \A d \in Hooks \ {c} : conv'[d] = conv[d]
  BY DEF Dialogs, Ends
<1>2. age' \in [Hooks -> Nat]
  BY DEF Dialogs, Ends
<1>3. \A d \in Hooks \ {c} : age'[d] # 0 => age[d] # 0
  BY DEF Dialogs, Ends
<1> QED BY <1>1, <1>2, <1>3 DEF Dialogs

LEMMA GoTyped ==
    ASSUME Runs, NEW t \in Tasks, NEW place \in Places,
           Go(t, place), cid' = cid, inflight' \in Hooks \cup {None}
    PROVE  Runs'
<1> QED BY DEF Runs, Go

----------------------------------------------------------------------------
(* What it takes to keep each part, for a step that moves one task. *)

ConvsStay == \A c \in Hooks : conv[c] # "none" => conv'[c] # "none"

LEMMA TaskMoves ==
    ASSUME Typed, TaskInv, NEW t \in Tasks, NEW place, Go(t, place), ConvsStay,
           \A u \in Tasks \ {t} : cid'[u] = cid[u],
           place \in Knowing => cid'[t] \in Hooks /\ conv'[cid'[t]] # "none",
           beats' \subseteq beats \cup {t},
           t \in beats' => place \in {"waiting", "reclaiming", "agent", "tearing", "settling"}
    PROVE  TaskInv'
<1>1. at' = [at EXCEPT ![t] = place] /\ at \in [Tasks -> Places] /\ beats \subseteq Tasks
  BY DEF Go, Typed
<1>2. at'[t] = place /\ \A u \in Tasks \ {t} : at'[u] = at[u]
  BY <1>1
<1>3. \A u \in Tasks : at'[u] \in Knowing => cid'[u] \in Hooks /\ conv'[cid'[u]] # "none"
  BY <1>2 DEF TaskInv, ConvsStay
<1>4. \A u \in beats' : at'[u] \in {"waiting", "reclaiming", "agent", "tearing", "settling"}
  BY <1>1, <1>2 DEF TaskInv
<1> QED BY <1>3, <1>4 DEF TaskInv

(* Nobody else's claim goes, and the run in flight changes only when it ends. *)
LEMMA AgentMoves ==
    ASSUME Typed, AgentInv, NEW t \in Tasks, NEW place, Go(t, place),
           \A u \in Tasks \ {t} : cid'[u] = cid[u],
           \A u \in Tasks \ {t} : at[u] \in Held => claim'[cid[u]] = u,
           place \in Held => claim'[cid'[t]] = t,
           \/ inflight' = inflight /\ (t \in Hooks => (at[t] \in Working <=> place \in Working))
           \/ /\ inflight' = IF inflight = t THEN None ELSE inflight
              /\ place \notin Working
    PROVE  AgentInv'
<1>1. at' = [at EXCEPT ![t] = place] /\ at \in [Tasks -> Places]
  BY DEF Go, Typed
<1>2. at'[t] = place /\ \A u \in Tasks \ {t} : at'[u] = at[u]
  BY <1>1
<1>3. \A u \in Tasks : at'[u] \in Held => claim'[cid'[u]] = u
  BY <1>2 DEF AgentInv
<1>4. \A h \in Hooks : at'[h] \in Working <=> inflight' = h
  <2> SUFFICES ASSUME NEW h \in Hooks PROVE at'[h] \in Working <=> inflight' = h
    OBVIOUS
  <2>1. h \in Tasks /\ h # None /\ (at[h] \in Working <=> inflight = h)
    BY HooksAreTasks DEF AgentInv
  <2> QED BY <1>2, <2>1
<1> QED BY <1>3, <1>4 DEF AgentInv

LEMMA ThreadKept ==
    ASSUME ThreadInv, erred => erred',
           \A c \in Hooks : conv'[c] # "none" => conv[c] # "none",
           \A c \in Hooks : conv'[c] = "error" => conv[c] = "error" \/ erred'
    PROVE  ThreadInv'
<1> QED BY DEF ThreadInv

(* A conversation that exists is finished. *)
LEMMA EndsThread ==
    ASSUME Typed, ThreadInv, NEW c \in Hooks, conv[c] # "none", NEW status \in Statuses,
           Ends(c, status), erred => erred', status = "error" => erred', status # "none"
    PROVE  ThreadInv' /\ ConvsStay
<1>1. conv'[c] = status /\ \A d \in Hooks \ {c} : conv'[d] = conv[d]
  BY DEF Ends, Typed
<1> QED BY <1>1, ThreadKept DEF ConvsStay

(* The claims of the others stay: of a task that takes a free claim, ... *)
LEMMA ClaimTaken ==
    ASSUME Typed, TaskInv, AgentInv, NEW t \in Tasks, cid[t] \in Hooks, CanClaim(t),
           claim' = [claim EXCEPT ![cid[t]] = t]
    PROVE  claim'[cid[t]] = t /\ \A u \in Tasks \ {t} : at[u] \in Held => claim'[cid[u]] = u
<1>1. claim'[cid[t]] = t /\ \A c \in Hooks \ {cid[t]} : claim'[c] = claim[c]
  BY DEF Typed
<1>2. \A u \in Tasks \ {t} : at[u] \in Held => claim[cid[u]] = u /\ cid[u] \in Hooks /\ u # None
  BY HooksAreTasks DEF AgentInv, TaskInv, Held, Knowing
<1>3. claim[cid[t]] \in {None, t}
  BY DEF CanClaim
<1> QED BY <1>1, <1>2, <1>3

(* ... and of one that gives its own back. *)
LEMMA ClaimGiven ==
    ASSUME Typed, TaskInv, AgentInv, NEW t \in Tasks, at[t] \in Held,
           claim' = [claim EXCEPT ![cid[t]] = None]
    PROVE  \A u \in Tasks \ {t} : at[u] \in Held => claim'[cid[u]] = u
<1>1. \A u \in Tasks : at[u] \in Held => claim[cid[u]] = u /\ cid[u] \in Hooks
  BY DEF AgentInv, TaskInv, Held, Knowing
<1>2. \A c \in Hooks \ {cid[t]} : claim'[c] = claim[c]
  BY DEF Typed
<1> QED BY <1>1, <1>2

----------------------------------------------------------------------------
(* A webhook on its way to its agent. *)

LEMMA PlaceSets ==
    /\ Working \subseteq Places /\ Knowing \subseteq Places /\ Held \subseteq Working
    /\ {"over", "accepted"} \subseteq Places
<1> QED BY DEF Working, Knowing, Places, Held, Early

LEMMA AcceptKeeps ==
    ASSUME IInv, NEW h \in Hooks, Accept(h)
    PROVE  IInv'
<1>1. Typed /\ TaskInv /\ AgentInv /\ ThreadInv /\ h \in Tasks
  BY HooksAreTasks DEF IInv
<1>2. PICK place \in {"accepted", "over"} : Go(h, place)
  BY <1>1 DEF Accept
<1>3. Typed'
  <2>1. Runs'
    BY <1>1, <1>2, GoTyped, PlaceSets, TypedParts DEF Accept, Runs
  <2>2. Storage'
    BY <1>1, TypedParts DEF Accept, Storage, Outcomes
  <2> QED BY <1>1, <2>1, <2>2, TypedParts DEF Accept, Dialogs, Claims, Marks
<1>4. TaskInv'
  BY <1>1, <1>2, TaskMoves DEF Accept, Knowing, ConvsStay, TaskInv
<1>5. AgentInv'
  BY <1>1, <1>2, AgentMoves DEF Accept, Working, Held, AgentInv
<1>6. ThreadInv'
  BY <1>1, ThreadKept DEF Accept
<1> QED BY <1>3, <1>4, <1>5, <1>6 DEF IInv

LEMMA DispatchKeeps ==
    ASSUME IInv, NEW h \in Hooks, Dispatch(h)
    PROVE  IInv'
<1>1. Typed /\ TaskInv /\ AgentInv /\ ThreadInv /\ h \in Tasks
  BY HooksAreTasks DEF IInv
<1>2. inflight \in Hooks => at[inflight] \in Working
  BY <1>1 DEF AgentInv
<1>3. /\ \A t \in Tasks \ {h} : t = inflight =>
             /\ at'[t] \in {"over", "tearing"}
             /\ at[t] \in Working /\ (at'[t] = "over" <=> at[t] \in Early)
      /\ at'[h] = "new" /\ \A t \in Tasks \ {h, inflight} : at'[t] = at[t]
  <2>1. /\ at'[h] = "new" /\ \A t \in Tasks \ {h, inflight} : at'[t] = at[t]
        /\ \A t \in Tasks \ {h} : t = inflight => at'[t] = Cancelled(t)
    BY <1>1 DEF Dispatch
  <2>2. \A t \in Tasks : t = inflight => t \in Hooks
    BY <1>1, HooksAreTasks DEF Typed
  <2>3. \A t : Cancelled(t) \in {"over", "tearing"} /\ (Cancelled(t) = "over" <=> at[t] \in Early)
    BY DEF Cancelled
  <2> QED BY <1>2, <2>1, <2>2, <2>3
<1>4. Typed'
  <2>1. at' \in [Tasks -> Places]
    BY <1>1, <1>3, PlaceSets DEF Dispatch, Typed, Places, Early
  <2>2. Runs'
    BY <1>1, <2>1, TypedParts DEF Dispatch, Runs
  <2>3. Marks'
    BY <1>1, TypedParts DEF Dispatch, Marks, Runs
  <2> QED BY <1>1, <2>2, <2>3, TypedParts DEF Dispatch, records, Storage, Dialogs, Claims
<1>5. TaskInv'
  <2>1. \A t \in Tasks : at'[t] \in Knowing => at[t] \in Knowing
    BY <1>3 DEF Knowing, Working, Early
  <2>2. \A t \in beats : at'[t] \in {"waiting", "reclaiming", "agent", "tearing", "settling"}
    BY <1>1, <1>3 DEF TaskInv, Early, Typed, Dispatch
  <2> QED BY <1>1, <2>1, <2>2 DEF Dispatch, records, TaskInv
<1>6. AgentInv'
  <2>1. \A g \in Hooks : at'[g] \in Working <=> g = h
    BY <1>1, <1>3, HooksAreTasks DEF AgentInv, Working, Dispatch
  <2>2. \A t \in Tasks : at'[t] \in Held => at[t] \in Held
    BY <1>3 DEF Held
  <2> QED BY <1>1, <2>1, <2>2 DEF Dispatch, AgentInv
<1>7. ThreadInv'
  BY <1>1, ThreadKept DEF Dispatch, records
<1> QED BY <1>4, <1>5, <1>6, <1>7 DEF IInv

(* A step of a webhook that has no agent yet, or none any more, and leaves the
   conversations, the claims and the heartbeats alone. *)
LEMMA QuietStep ==
    ASSUME IInv, NEW t \in Tasks, NEW place \in Places, Go(t, place), log' \in [Hooks -> Outcomes],
           UNCHANGED <<active, conv, age, pred, beats, claim, crashes, newest, erred>>,
           \A u \in Tasks \ {t} : cid'[u] = cid[u],
           cid' \in [Tasks -> Hooks \cup {None}],
           place \in Knowing => cid'[t] \in Hooks /\ conv[cid'[t]] # "none",
           place \notin Held, t \notin beats,
           \/ inflight' = inflight /\ (t \in Hooks => (at[t] \in Working <=> place \in Working))
           \/ /\ inflight' = IF inflight = t THEN None ELSE inflight
              /\ place \notin Working
    PROVE  IInv'
<1>1. Typed /\ TaskInv /\ AgentInv /\ ThreadInv
  BY DEF IInv
<1>2. Typed'
  <2>1. Runs'
    BY <1>1, TypedParts DEF Runs, Go
  <2> QED BY <1>1, <2>1, TypedParts DEF Storage, Dialogs, Claims, Marks
<1>3. TaskInv'
  BY <1>1, TaskMoves DEF ConvsStay
<1>4. AgentInv'
  BY <1>1, AgentMoves DEF AgentInv
<1>5. ThreadInv'
  BY <1>1, ThreadKept
<1> QED BY <1>2, <1>3, <1>4, <1>5 DEF IInv

LEMMA QuietKeeps ==
    ASSUME IInv, NEW h \in Hooks,
           \/ Start(h) \/ AccountRefused(h) \/ LogRunning(h) \/ FindsConversation(h)
           \/ LogInterrupted(h)
    PROVE  IInv'
<1>1. Typed /\ TaskInv /\ AgentInv /\ h \in Tasks /\ log \in [Hooks -> Outcomes]
      /\ cid \in [Tasks -> Hooks \cup {None}]
  BY HooksAreTasks DEF IInv, Typed
<1>2. at[h] \in {"new", "reading", "finding", "logging"} => h \notin beats
  BY <1>1 DEF TaskInv
<1>3. \A outcome \in Outcomes : [log EXCEPT ![h] = outcome] \in [Hooks -> Outcomes]
  BY <1>1
<1>4. CASE Start(h)
  <2>1. (Go(h, "reading") /\ UNCHANGED inflight) \/ End(h)
    BY <1>4 DEF Start
  <2> QED BY <1>1, <1>2, <1>4, <2>1, QuietStep DEF Start, End, records, Working, Knowing, Held, Places, Early
<1>5. CASE AccountRefused(h)
  BY <1>1, <1>2, <1>3, <1>5, QuietStep DEF AccountRefused, End, Outcomes, Working, Knowing, Held, Places
<1>6. CASE LogRunning(h)
  BY <1>1, <1>2, <1>3, <1>6, QuietStep
     DEF LogRunning, Outcomes, Working, Knowing, Held, Places, Early
<1>7. CASE FindsConversation(h)
  <2>1. PICK c \in Found : cid' = [cid EXCEPT ![h] = c]
    BY <1>7 DEF FindsConversation
  <2>2. c \in Hooks /\ conv[c] # "none"
    BY DEF Found, Resumable
  <2>3. cid'[h] = c /\ cid' \in [Tasks -> Hooks \cup {None}]
        /\ \A u \in Tasks \ {h} : cid'[u] = cid[u]
    BY <1>1, <2>1, <2>2
  <2> QED BY <1>1, <1>2, <1>7, <2>2, <2>3, QuietStep
          DEF FindsConversation, records, Working, Held, Places, Early
<1>8. CASE LogInterrupted(h)
  BY <1>1, <1>2, <1>3, <1>8, QuietStep DEF LogInterrupted, End, Outcomes, Working, Knowing, Held, Places
<1> QED BY <1>4, <1>5, <1>6, <1>7, <1>8

LEMMA LogErrorKeeps ==
    ASSUME IInv, NEW t \in Tasks, LogError(t)
    PROVE  IInv'
<1>1. Typed /\ TaskInv /\ t \notin beats /\ at[t] = "failing"
  BY DEF IInv, LogError, TaskInv
<1>2. log' \in [Hooks -> Outcomes] /\ cid \in [Tasks -> Hooks \cup {None}]
  BY <1>1 DEF LogError, Typed, Outcomes, Tasks
<1> QED BY <1>1, <1>2, PlaceSets, QuietStep DEF LogError, End, Working, Knowing, Held

(* If the look-up finds nothing and no agent has failed, there is nothing. *)
LEMMA FoundUnlessNone ==
    ASSUME Typed, ThreadInv, Found = {}, ~erred
    PROVE  \A c \in Hooks : conv[c] = "none"
<1>1. Resumable = {}
  <2> DEFINE ended == {c \in Resumable : age[c] # 0}
             ages == {age[c] : c \in ended}
  <2>1. ASSUME ended # {} PROVE FALSE
    <3>1. ages \subseteq Nat /\ ages # {}
      BY <2>1 DEF Typed, Resumable
    <3>2. PICK n \in ages : \A m \in ages : ~(<<m, n>> \in OpToRel(<, Nat))
      BY <3>1, NatLessThanWellFounded, WFMin, Zenon
    <3>3. \A m \in ages : <<m, n>> \in Nat \X Nat
      BY <3>1
    <3>4. \A m \in ages : ~(m < n)
      BY <3>2, <3>3 DEF OpToRel
    <3>5. PICK c \in ended : age[c] = n
      OBVIOUS
    <3>6. \A d \in ended : age[c] <= age[d]
      BY <3>1, <3>4, <3>5
    <3>7. c \in Found
      BY <2>1, <3>6 DEF Found
    <3> QED BY <3>7
  <2> QED BY <2>1 DEF Found
<1> QED BY <1>1 DEF Resumable, ThreadInv, Typed, Statuses

LEMMA StartsConversationKeeps ==
    ASSUME IInv, NEW h \in Hooks, StartsConversation(h)
    PROVE  IInv'
<1>1. Typed /\ TaskInv /\ AgentInv /\ ThreadInv /\ h \in Tasks
  BY HooksAreTasks DEF IInv
<1>2. Go(h, "resumed") /\ at[h] = "finding" /\ inflight' = inflight
  BY DEF StartsConversation
<1>3. /\ conv'[h] = "running" /\ \A c \in Hooks \ {h} : conv'[c] = conv[c]
      /\ conv' \in [Hooks -> Statuses] /\ ConvsStay
      /\ cid'[h] = h /\ \A u \in Tasks \ {h} : cid'[u] = cid[u]
      /\ cid' \in [Tasks -> Hooks \cup {None}]
  BY <1>1 DEF StartsConversation, Typed, Statuses, ConvsStay
<1>4. Typed'
  <2>1. Runs' /\ Dialogs'
    BY <1>1, <1>2, <1>3, PlaceSets, TypedParts DEF StartsConversation, Runs, Go, Dialogs, Working
  <2> QED BY <1>1, <2>1, TypedParts DEF StartsConversation, Storage, Claims, Marks
<1>5. TaskInv'
  BY <1>1, <1>2, <1>3, TaskMoves DEF StartsConversation, TaskInv
<1>6. AgentInv'
  BY <1>1, <1>2, <1>3, AgentMoves DEF StartsConversation, AgentInv, Working, Held
<1>7. ThreadInv'
  <2> SUFFICES ASSUME ~erred' PROVE ThreadInv'
    BY DEF ThreadInv
  <2>1. \A c \in Hooks : conv[c] = "none"
    BY <1>1, FoundUnlessNone DEF StartsConversation
  <2> QED BY <1>3, <2>1 DEF ThreadInv
<1> QED BY <1>4, <1>5, <1>6, <1>7 DEF IInv

----------------------------------------------------------------------------
(* A run with a conversation, of a webhook or of recovery. *)

LEMMA ResumeKeeps ==
    ASSUME IInv, NEW t \in Tasks, Resume(t)
    PROVE  IInv'
<1>1. Typed /\ TaskInv /\ AgentInv /\ ThreadInv
  BY DEF IInv
<1>2. PICK place \in {"resumed", "agent"} :
          Go(t, place) /\ (at[t] = "resuming" <=> place = "resumed")
  BY DEF Resume
<1>3. at[t] \in {"resuming", "reclaiming"} /\ cid[t] \in Hooks /\ conv[cid[t]] # "none"
  BY <1>1 DEF Resume, TaskInv, Knowing
<1>4. /\ conv'[cid[t]] = "running" /\ \A c \in Hooks \ {cid[t]} : conv'[c] = conv[c]
      /\ conv' \in [Hooks -> Statuses] /\ ConvsStay
  BY <1>1, <1>3 DEF Resume, Typed, Statuses, ConvsStay
<1>5. Typed'
  <2>1. Runs' /\ Dialogs'
    BY <1>1, <1>2, <1>4, PlaceSets, TypedParts DEF Resume, Runs, Go, Dialogs, Working
  <2> QED BY <1>1, <2>1, TypedParts DEF Resume, Storage, Claims, Marks
<1>6. TaskInv'
  BY <1>1, <1>2, <1>3, <1>4, TaskMoves DEF Resume, TaskInv
<1>7. AgentInv'
  BY <1>1, <1>2, <1>3, AgentMoves DEF Resume, AgentInv, Working, Held
<1>8. ThreadInv'
  BY <1>1, <1>3, <1>4, ThreadKept DEF Resume
<1> QED BY <1>5, <1>6, <1>7, <1>8 DEF IInv

LEMMA ClaimingKeeps ==
    ASSUME IInv, NEW t \in Tasks, Begin(t) \/ Wakes(t)
    PROVE  IInv'
<1>1. Typed /\ TaskInv /\ AgentInv /\ ThreadInv
  BY DEF IInv
<1>2. PICK place \in {"agent", "waiting", "reclaiming"} :
          /\ Go(t, place)
          /\ place # "waiting" => CanClaim(t) /\ claim' = [claim EXCEPT ![cid[t]] = t]
          /\ place = "waiting" => claim' = claim
  BY DEF Begin, Wakes
<1>3. at[t] \in {"resumed", "waiting"} /\ cid[t] \in Hooks /\ conv[cid[t]] # "none"
  BY <1>1 DEF Begin, Wakes, TaskInv, Knowing
<1>4. beats' \in {beats, beats \cup {t}}
      /\ UNCHANGED <<active, log, conv, age, cid, pred, inflight, crashes, newest, erred>>
  BY DEF Begin, Wakes, records
<1>5. Typed'
  <2>1. Runs'
    BY <1>1, <1>2, <1>4, PlaceSets, TypedParts DEF Runs, Go, Working
  <2>2. Claims'
    BY <1>1, <1>2, <1>4, TypedParts DEF Claims
  <2> QED BY <1>1, <1>4, <2>1, <2>2, TypedParts DEF Storage, Dialogs, Marks
<1>6. TaskInv'
  BY <1>1, <1>2, <1>3, <1>4, TaskMoves DEF ConvsStay
<1>7. AgentInv'
  <2>1. \A u \in Tasks \ {t} : at[u] \in Held => claim'[cid[u]] = u
    BY <1>1, <1>2, <1>3, ClaimTaken DEF AgentInv
  <2>2. place \in Held => claim'[cid[t]] = t
    BY <1>1, <1>2, <1>3, ClaimTaken DEF Held
  <2> QED BY <1>1, <1>2, <1>3, <1>4, <2>1, <2>2, AgentMoves DEF Working
<1>8. ThreadInv'
  BY <1>1, <1>4, ThreadKept
<1> QED BY <1>5, <1>6, <1>7, <1>8 DEF IInv

(* A task writes how its run ended: the agent finished or raised, or the run
   was cancelled. *)
LEMMA FinishingKeeps ==
    ASSUME IInv, NEW t \in Tasks,
           \/ \E status \in {"completed", "error"} : AgentEnds(t, status)
           \/ AgentRaises(t)
           \/ t \in Hooks /\ Settle(t)
    PROVE  IInv'
<1>1. Typed /\ TaskInv /\ AgentInv /\ ThreadInv
  BY DEF IInv
<1>2. PICK place \in {"closing", "failing", "logging"} :
          /\ Go(t, place)
          /\ place = "closing" => at[t] = "agent" /\ claim' = claim
          /\ place = "failing" => at[t] = "agent" /\ claim' = [claim EXCEPT ![cid[t]] = None]
          /\ place = "logging" => at[t] = "settling" /\ claim' = claim
  BY DEF AgentEnds, AgentRaises, Settle
<1>3. cid[t] \in Hooks /\ conv[cid[t]] # "none"
  BY <1>1, <1>2 DEF TaskInv, Knowing
<1>4. PICK status \in Statuses \ {"none"} :
          /\ Finished(t, status) /\ (status = "error" => erred')
          /\ erred' \in BOOLEAN /\ (erred => erred')
  BY <1>1 DEF AgentEnds, AgentRaises, Settle, Statuses, Typed
<1>5. UNCHANGED <<active, log, cid, pred, inflight, crashes, newest>> /\ beats' = beats \ {t}
  BY <1>4 DEF AgentEnds, AgentRaises, Settle, Finished
<1>6. Typed'
  <2>1. Runs'
    BY <1>1, <1>2, <1>5, PlaceSets, TypedParts DEF Runs, Go, Knowing
  <2>2. Claims'
    BY <1>1, <1>2, <1>5, TypedParts DEF Claims
  <2>3. Dialogs'
    BY <1>1, <1>3, <1>4, EndsTyped, TypedParts DEF Finished
  <2> QED BY <1>1, <1>4, <1>5, <2>1, <2>2, <2>3, TypedParts DEF Storage, Marks
<1>7. ThreadInv' /\ ConvsStay
  BY <1>1, <1>3, <1>4, EndsThread DEF Finished
<1>8. TaskInv'
  BY <1>1, <1>2, <1>3, <1>5, <1>7, TaskMoves DEF ConvsStay
<1>9. AgentInv'
  <2>1. \A u \in Tasks \ {t} : at[u] \in Held => claim'[cid[u]] = u
    BY <1>1, <1>2, ClaimGiven DEF AgentInv, Held
  <2>2. place \in Held => claim'[cid[t]] = t
    BY <1>1, <1>2 DEF AgentInv, Held
  <2> QED BY <1>1, <1>2, <1>5, <2>1, <2>2, AgentMoves DEF Working
<1> QED BY <1>6, <1>7, <1>8, <1>9 DEF IInv

LEMMA LeaveKeeps ==
    ASSUME IInv, NEW t \in Tasks, Leave(t)
    PROVE  IInv'
<1>1. Typed /\ TaskInv /\ AgentInv /\ ThreadInv
  BY DEF IInv
<1>2. Go(t, "over") /\ inflight' = (IF inflight = t THEN None ELSE inflight) /\ at[t] = "closing"
  BY DEF Leave, End
<1>3. Typed'
  <2>1. Runs'
    BY <1>1, <1>2, PlaceSets, TypedParts DEF Leave, Runs, Go
  <2>2. Claims'
    BY <1>1, TypedParts DEF Leave, Claims
  <2>3. Storage'
    BY <1>1, TypedParts DEF Leave, Storage, Outcomes, Tasks
  <2> QED BY <1>1, <2>1, <2>2, <2>3, TypedParts DEF Leave, Dialogs, Marks
<1>4. TaskInv'
  <2>1. t \notin beats
    BY <1>1, <1>2 DEF TaskInv
  <2> QED BY <1>1, <1>2, <2>1, TaskMoves DEF Leave, Knowing, ConvsStay
<1>5. AgentInv'
  <2>1. \A u \in Tasks \ {t} : at[u] \in Held => claim'[cid[u]] = u
    BY <1>1, <1>2, ClaimGiven DEF Leave, Held
  <2> QED BY <1>1, <1>2, <2>1, AgentMoves DEF Leave, Working, Held
<1>6. ThreadInv'
  BY <1>1, ThreadKept DEF Leave
<1> QED BY <1>3, <1>4, <1>5, <1>6 DEF IInv

LEMMA TearDownKeeps ==
    ASSUME IInv, NEW h \in Hooks, TearDown(h)
    PROVE  IInv'
<1>1. Typed /\ TaskInv /\ AgentInv /\ ThreadInv /\ h \in Tasks
  BY HooksAreTasks DEF IInv
<1>2. Go(h, "settling") /\ at[h] = "tearing"
      /\ UNCHANGED <<active, log, conv, age, cid, pred, beats, inflight, crashes, newest, erred>>
  BY DEF TearDown, records
<1>3. Typed'
  <2>1. Runs'
    BY <1>1, <1>2, PlaceSets, TypedParts DEF Runs, Go, Knowing
  <2>2. Claims'
    BY <1>1, <1>2, TypedParts DEF TearDown, Claims
  <2> QED BY <1>1, <1>2, <2>1, <2>2, TypedParts DEF Storage, Dialogs, Marks
<1>4. TaskInv'
  BY <1>1, <1>2, TaskMoves DEF ConvsStay, TaskInv, Knowing
<1>5. AgentInv'
  <2>1. \A u \in Tasks \ {h} : at[u] \in Held => claim[cid[u]] = u /\ cid[u] \in Hooks
    BY <1>1 DEF AgentInv, TaskInv, Held, Knowing
  <2>2. \A c \in Hooks : claim[c] # h => claim'[c] = claim[c]
    BY DEF TearDown
  <2> QED BY <1>1, <1>2, <2>1, <2>2, AgentMoves DEF Working, Held
<1>6. ThreadInv'
  BY <1>1, <1>2, ThreadKept
<1> QED BY <1>3, <1>4, <1>5, <1>6 DEF IInv

----------------------------------------------------------------------------
(* The sweep, the owner and a crash. *)

LEMMA SweepKeeps ==
    ASSUME IInv, NEW c \in Hooks, SweepResumes(c) \/ SweepMarks(c)
    PROVE  IInv'
<1>1. Typed /\ TaskInv /\ AgentInv /\ ThreadInv /\ conv[c] = "running"
  BY DEF IInv, SweepResumes, SweepMarks, Stale
<1>2. CASE SweepResumes(c)
  <2>1. cid'[Recovery] = c /\ cid' \in [Tasks -> Hooks \cup {None}]
        /\ \A u \in Tasks \ {Recovery} : cid'[u] = cid[u]
    BY <1>1, <1>2, HooksAreTasks DEF SweepResumes, Typed
  <2>2. Recovery \notin beats
    BY <1>1, <1>2 DEF SweepResumes, TaskInv
  <2> QED BY <1>1, <1>2, <2>1, <2>2, HooksAreTasks, PlaceSets, QuietStep
          DEF SweepResumes, records, Typed, Held, Working
<1>3. CASE SweepMarks(c)
  <2>1. ThreadInv' /\ ConvsStay
    BY <1>1, <1>3, EndsThread DEF SweepMarks, Statuses
  <2>2. Dialogs'
    BY <1>1, <1>3, EndsTyped, TypedParts DEF SweepMarks, Statuses
  <2>3. Typed'
    BY <1>1, <1>3, <2>2, TypedParts DEF SweepMarks, memory, Storage, Claims, Runs, Marks
  <2>4. TaskInv' /\ AgentInv'
    BY <1>1, <1>3, <2>1 DEF SweepMarks, memory, TaskInv, AgentInv, ConvsStay
  <2> QED BY <2>1, <2>3, <2>4 DEF IInv
<1> QED BY <1>2, <1>3

LEMMA PauseKeeps == IInv /\ Pause => IInv'
<1> SUFFICES ASSUME IInv, Pause PROVE IInv'
  OBVIOUS
<1>1. Typed'
  BY TypedParts DEF IInv, Pause, memory, Storage, Dialogs, Claims, Runs, Marks
<1> QED BY <1>1 DEF IInv, Pause, memory, TaskInv, AgentInv, ThreadInv

LEMMA CrashKeeps == IInv /\ Crash => IInv'
<1> SUFFICES ASSUME IInv, Crash PROVE IInv'
  OBVIOUS
<1>1. \A t \in Tasks : at'[t] \in {"none", "over"}
  BY DEF Crash
<1>2. Typed'
  <2>1. Runs' /\ Claims'
    BY <1>1, TypedParts DEF IInv, Crash, records, Runs, Claims, Places
  <2>2. Marks'
    BY TypedParts DEF IInv, Crash, Marks
  <2> QED BY <2>1, <2>2, TypedParts DEF IInv, Crash, records, Storage, Dialogs
<1>3. TaskInv'
  BY <1>1 DEF Crash, TaskInv, Knowing
<1>4. AgentInv'
  BY <1>1, HooksAreTasks DEF Crash, AgentInv, Working, Held
<1> QED BY <1>2, <1>3, <1>4, ThreadKept DEF IInv, Crash, records

LEMMA StepKeeps == IInv /\ [Next]_vars => IInv'
<1>1. ASSUME IInv, Next PROVE IInv'
  <2>1. ASSUME NEW h \in Hooks, WebhookStep(h) PROVE IInv'
    BY <1>1, <2>1, HooksAreTasks, DispatchKeeps, QuietKeeps, StartsConversationKeeps,
       TearDownKeeps, FinishingKeeps DEF WebhookStep
  <2>2. ASSUME NEW t \in Tasks, RunStep(t) PROVE IInv'
    BY <1>1, <2>2, ResumeKeeps, ClaimingKeeps, LeaveKeeps, FinishingKeeps, LogErrorKeeps
       DEF RunStep
  <2>3. CASE Sweep
    BY <1>1, <2>3, SweepKeeps DEF Sweep
  <2> QED BY <1>1, <2>1, <2>2, <2>3, AcceptKeeps, PauseKeeps, CrashKeeps DEF Next, Progress
<1>2. ASSUME IInv, UNCHANGED vars PROVE IInv'
  BY <1>2 DEF vars, records, memory, IInv, Typed, TaskInv, AgentInv, ThreadInv
<1> QED BY <1>1, <1>2

----------------------------------------------------------------------------
LEMMA Invariance == Spec => []IInv
<1> QED BY Initially, StepKeeps, PTL DEF Spec

LEMMA TypesFollow == IInv => TypeOK
<1> SUFFICES ASSUME IInv PROVE TypeOK
  OBVIOUS
<1>1. Typed /\ \A t \in beats : at[t] \notin {"none", "over"}
  BY DEF IInv, TaskInv
<1> QED BY <1>1 DEF TypeOK, Typed, Outcomes, Statuses

LEMMA OneAgentFollows == IInv => OneAgentPerThread
<1> SUFFICES ASSUME IInv PROVE OneAgentPerThread
  OBVIOUS
<1> DEFINE held == {h \in Hooks : at[h] \in Held}
<1>1. held \in SUBSET {inflight}
  BY PlaceSets DEF IInv, AgentInv
<1>2. IsFiniteSet({inflight}) /\ Cardinality({inflight}) = 1
  BY FS_Singleton
<1>3. Cardinality(held) <= 1
  BY <1>1, <1>2, FS_Subset
<1> QED BY <1>3 DEF OneAgentPerThread, IInv, AgentInv

LEMMA OneConversationFollows == IInv => OneConversation
<1> SUFFICES ASSUME IInv, ~erred PROVE OneConversation
  BY DEF OneConversation
<1> DEFINE convs == {c \in Hooks : conv[c] # "none"}
<1>1. \A c, d \in convs : c = d
  BY DEF IInv, ThreadInv
<1>2. CASE convs = {}
  BY <1>2, FS_EmptySet DEF OneConversation
<1>3. CASE convs # {}
  <2>1. PICK c \in convs : TRUE
    BY <1>3
  <2>2. convs = {c}
    BY <1>1, <2>1
  <2> QED BY <2>2, FS_Singleton DEF OneConversation
<1> QED BY <1>2, <1>3

(* A newer webhook cancels the run in flight and starts while that one may
   still be torn down, recovery may resume the thread's conversation, and a
   restart forgets both.  Even so no two webhooks' agents work at once, and
   whoever's agent works has its conversation's claim. *)
THEOREM AgentsDoNotMeet == Spec => []OneAgentPerThread
<1> QED BY Invariance, OneAgentFollows, PTL

(* A thread keeps its conversation through runs cut short at any await, crashes
   and sweeps, as long as no agent of it failed: the look-up always matches
   the one there is. *)
THEOREM ThreadsKeepTheirConversation == Spec => []OneConversation
<1> QED BY Invariance, OneConversationFollows, PTL

(* A thread is kept: its parts together. *)
THEOREM Threads == Spec => []ThreadIsKept
<1>1. IInv => ThreadIsKept
  BY TypesFollow, OneAgentFollows, OneConversationFollows DEF ThreadIsKept
<1> QED BY Invariance, <1>1, PTL

----------------------------------------------------------------------------
(* The client pool. *)

USE SizeAssumption, RequestsAssumption, BoundsAssumption
    DEF SizeAssumption, RequestsAssumption, BoundsAssumption

(* The type invariant but for the clients of the runs that hold one. *)
Turns == {"new", "waiting", "creating", "held", "over"}
Reader == [at : {"none", "asked", "read", "warming", "over"},
           kind : {"none", "refresh", "warmup"}, found : SUBSET Accounts]
Loop == [at : {"off", "looping", "over"}, drained : BOOLEAN, always : BOOLEAN]

PoolTyped ==
    /\ slots \in [Ids -> Slot \cup {Nobody}]
    /\ inUse \in Nat
    /\ req \in [Requests -> Turns]
    /\ accounts \subseteq Accounts /\ enabled \subseteq Accounts /\ cool \subseteq Accounts
    /\ closed \in BOOLEAN
    /\ reader \in [Readers -> Reader] /\ drain \in [Loops -> Loop]
    /\ events \in 0..MaxEvents
    /\ overfilled \in BOOLEAN /\ leaked \in Nat /\ starved \in BOOLEAN
    /\ displaced \in BOOLEAN /\ late \in BOOLEAN

(* What a client has to do with its run, whose place in acquire is in q. *)
Serves(x, q) ==
    \/ x.st = "held" /\ q[x.own] = "held"
    \/ x.own \in OneOff /\ x.st \in {"connecting", "failing"} /\ q[x.own] = "creating"
    \/ x.own \in OneOff /\ x.st \in {"orphan", "closing"} /\ q[x.own] = "over"

SlotOK(x, q) ==
    /\ x.st \in {"held", "orphan"} => x.own \in Requests
    /\ x.own \in Requests => Serves(x, q)
    /\ x.acct = Nobody => x.st \in {"due", "recovering", "failed"}
    /\ x.st = "pausing" => x.tries < WarmRetries

(* No two clients serve one run, and a run that holds a client has one. *)
Sole == \A i, j \in Taken : slots[i].own \in Requests /\ slots[j].own = slots[i].own => i = j

Served == \A r \in Requests : req[r] = "held" =>
             \E i \in Taken : slots[i].st = "held" /\ slots[i].own = r

SlotInv == (\A i \in Taken : SlotOK(slots[i], req)) /\ Sole /\ Served

(* The runs counted in _in_use, and the slots that the size of the pool bounds:
   those in transit included, which PoolBounded leaves out. *)
Using == {r \in Requests : req[r] \in {"held", "creating"}}
Kept == {i \in Taken : slots[i].own \notin OneOff}

UseInv == IsFiniteSet(Using) /\ InUseIsHeld
SizeInv == overfilled \/ Cardinality(Kept) <= PoolSize

PoolInv == PoolTyped /\ SlotInv /\ UseInv /\ SizeInv

(* What is known of the client of a slot. *)
LEMMA SlotTyped ==
    ASSUME PoolTyped, NEW i \in Taken
    PROVE  /\ i \in Ids /\ slots[i] \in Slot
           /\ slots[i].st \in {"due", "connecting", "failing", "pausing", "recovering", "gathered",
                               "failed", "idle", "held", "closing", "orphan"}
           /\ slots[i].own \in {"pool"} \cup Loops \cup Readers \cup Requests
           /\ slots[i].acct \in Accounts \cup {Nobody} /\ slots[i].tries \in 0..WarmRetries
<1>1. i \in Ids /\ slots[i] \in Slot
  BY DEF PoolTyped, Taken
<1> QED BY <1>1 DEF Slot

(* One slot gets a new state; the place of no run changes but of the one it
   served and the one it serves. *)
LEMMA SlotBecomes ==
    ASSUME PoolTyped, SlotInv, NEW i \in Taken, NEW x \in Slot, Becomes(i, x),
           req' \in [Requests -> Turns], SlotOK(x, req'),
           x.own \in Requests => x.own = slots[i].own \/ req[x.own] \in {"new", "waiting"},
           \A r \in Requests : r # slots[i].own /\ r # x.own => req'[r] = req[r],
           \A r \in Requests : req'[r] = "held" =>
              \/ x.st = "held" /\ x.own = r
              \/ req[r] = "held" /\ ~(slots[i].st = "held" /\ slots[i].own = r)
    PROVE  /\ slots' \in [Ids -> Slot \cup {Nobody}] /\ SlotInv'
           /\ (x.own \notin OneOff => slots[i].own \notin OneOff) => Kept' \subseteq Kept
<1>1. x # Nobody
  BY NamesAssumption DEF NamesAssumption
<1>2. i \in Ids
  BY SlotTyped
<1>3. slots' = [slots EXCEPT ![i] = x] /\ slots' \in [Ids -> Slot \cup {Nobody}]
  BY DEF Becomes, PoolTyped
<1>4. slots'[i] = x /\ \A j \in Ids \ {i} : slots'[j] = slots[j]
  BY <1>2, <1>3 DEF PoolTyped
<1>5. Taken' = Taken
  BY <1>1, <1>2, <1>4 DEF Taken
<1>6. \A j \in Taken : j \in Ids
  BY DEF Taken
<1>7. ASSUME NEW j \in Taken, j # i, slots[j].own \in Requests
      PROVE  /\ slots[j].own # slots[i].own /\ slots[j].own # x.own
             /\ req'[slots[j].own] = req[slots[j].own]
  <2>1. slots[j].own # slots[i].own
    BY <1>7 DEF SlotInv, Sole
  <2>2. req[slots[j].own] \notin {"new", "waiting"}
    BY <1>7 DEF SlotInv, SlotOK, Serves
  <2> QED BY <1>7, <2>1, <2>2
<1>8. ASSUME NEW j \in Taken PROVE SlotOK(slots'[j], req')
  <2>1. CASE j = i
    BY <1>4, <2>1
  <2>2. CASE j # i
    <3>1. slots'[j] = slots[j] /\ SlotOK(slots[j], req)
      BY <1>4, <1>6, <2>2 DEF SlotInv
    <3> QED BY <1>7, <2>2, <3>1 DEF SlotOK, Serves
  <2> QED BY <2>1, <2>2
<1>9. Sole'
  <2> SUFFICES ASSUME NEW a \in Taken, NEW b \in Taken,
                      slots'[a].own \in Requests, slots'[b].own = slots'[a].own, a # b
               PROVE  FALSE
    BY <1>5 DEF Sole
  <2>1. CASE a = i
    BY <1>4, <1>6, <1>7, <2>1
  <2>2. CASE b = i
    BY <1>4, <1>6, <1>7, <2>2
  <2>3. CASE a # i /\ b # i
    BY <1>4, <1>6, <2>3 DEF SlotInv, Sole
  <2> QED BY <2>1, <2>2, <2>3
<1>10. Served'
  <2> SUFFICES ASSUME NEW r \in Requests, req'[r] = "held"
               PROVE  \E j \in Taken : slots'[j].st = "held" /\ slots'[j].own = r
    BY <1>5 DEF Served
  <2>1. CASE x.st = "held" /\ x.own = r
    BY <1>4, <2>1
  <2>2. CASE req[r] = "held" /\ ~(slots[i].st = "held" /\ slots[i].own = r)
    <3>1. PICK j \in Taken : slots[j].st = "held" /\ slots[j].own = r
      BY <2>2 DEF SlotInv, Served
    <3> QED BY <1>4, <1>6, <2>2, <3>1
  <2> QED BY <2>1, <2>2
<1>11. SlotInv'
  BY <1>5, <1>8, <1>9, <1>10 DEF SlotInv
<1>12. ASSUME x.own \notin OneOff => slots[i].own \notin OneOff PROVE Kept' \subseteq Kept
  BY <1>4, <1>5, <1>6, <1>12 DEF Kept
<1> QED BY <1>3, <1>11, <1>12

(* One slot ends, and with it the place of the run it served. *)
LEMMA SlotVanishes ==
    ASSUME PoolTyped, SlotInv, NEW i \in Taken, Vanishes(i), req' \in [Requests -> Turns],
           \A r \in Requests : r # slots[i].own => req'[r] = req[r],
           \A r \in Requests : req'[r] = "held" =>
              req[r] = "held" /\ ~(slots[i].st = "held" /\ slots[i].own = r)
    PROVE  slots' \in [Ids -> Slot \cup {Nobody}] /\ SlotInv' /\ Kept' \subseteq Kept
<1>2. i \in Ids
  BY SlotTyped
<1>3. slots' = [slots EXCEPT ![i] = Nobody] /\ slots' \in [Ids -> Slot \cup {Nobody}]
  BY DEF Becomes, Vanishes, PoolTyped
<1>4. slots'[i] = Nobody /\ \A j \in Ids \ {i} : slots'[j] = slots[j]
  BY <1>2, <1>3 DEF PoolTyped
<1>5. Taken' = Taken \ {i}
  BY <1>2, <1>4 DEF Taken
<1>6. \A j \in Taken' : j \in Ids /\ j \in Taken /\ slots'[j] = slots[j]
  BY <1>4, <1>5 DEF Taken
<1>7. ASSUME NEW j \in Taken', slots[j].own \in Requests
      PROVE  req'[slots[j].own] = req[slots[j].own]
  BY <1>5, <1>6, <1>7 DEF SlotInv, Sole
<1>8. ASSUME NEW j \in Taken' PROVE SlotOK(slots'[j], req')
  <2>1. slots'[j] = slots[j] /\ SlotOK(slots[j], req)
    BY <1>6 DEF SlotInv
  <2> QED BY <1>7, <2>1 DEF SlotOK, Serves
<1>9. Sole'
  BY <1>6 DEF SlotInv, Sole
<1>10. Served'
  <2> SUFFICES ASSUME NEW r \in Requests, req'[r] = "held"
               PROVE  \E j \in Taken' : slots'[j].st = "held" /\ slots'[j].own = r
    BY DEF Served
  <2>1. PICK j \in Taken : slots[j].st = "held" /\ slots[j].own = r
    BY DEF SlotInv, Served
  <2> QED BY <1>5, <1>6, <2>1
<1>11. SlotInv'
  BY <1>8, <1>9, <1>10 DEF SlotInv
<1>12. Kept' \subseteq Kept
  BY <1>6 DEF Kept
<1> QED BY <1>3, <1>11, <1>12

(* A client that serves no run gets a new state, or ends. *)
LEMMA SlotMoves ==
    ASSUME PoolTyped, SlotInv, NEW i \in Taken, slots[i].own \notin Requests, UNCHANGED req
    PROVE  /\ \A x \in Slot :
                 /\ Becomes(i, x) /\ x.own \notin Requests /\ x.st \notin {"held", "orphan"}
                 /\ x.acct = Nobody => x.st \in {"due", "recovering", "failed"}
                 /\ x.st = "pausing" => x.tries < WarmRetries
                 => slots' \in [Ids -> Slot \cup {Nobody}] /\ SlotInv' /\ Kept' \subseteq Kept
           /\ Vanishes(i) => slots' \in [Ids -> Slot \cup {Nobody}] /\ SlotInv' /\ Kept' \subseteq Kept
<1>1. slots[i].st # "held"
  BY DEF SlotInv, SlotOK
<1>2. req' = req /\ req' \in [Requests -> Turns]
  BY DEF PoolTyped
<1>3. ASSUME NEW x \in Slot, Becomes(i, x), x.own \notin Requests, x.st \notin {"held", "orphan"},
             x.acct = Nobody => x.st \in {"due", "recovering", "failed"},
             x.st = "pausing" => x.tries < WarmRetries
      PROVE  slots' \in [Ids -> Slot \cup {Nobody}] /\ SlotInv' /\ Kept' \subseteq Kept
  <2>1. SlotOK(x, req')
    BY <1>3 DEF SlotOK
  <2> QED BY <1>1, <1>2, <1>3, <2>1, SlotBecomes
<1>4. ASSUME Vanishes(i)
      PROVE  slots' \in [Ids -> Slot \cup {Nobody}] /\ SlotInv' /\ Kept' \subseteq Kept
  BY <1>1, <1>2, <1>4, SlotVanishes
<1> QED BY <1>3, <1>4

LEMMA NewTyped ==
    /\ \A st \in {"due", "connecting", "recovering", "failed"} :
       \A own \in {"pool"} \cup Loops \cup Readers \cup Requests :
       \A a \in Accounts \cup {Nobody}, n \in 0..WarmRetries :
          LET x == New(st, own, a, n)
          IN  x \in Slot /\ x.st = st /\ x.own = own /\ x.acct = a /\ x.tries = n
    /\ Due \in Slot /\ Due.st = "due" /\ Due.own = "pool" /\ Due.acct = Nobody /\ Due.tries = 0
    /\ "pool" \notin Requests /\ (Readers \cup Loops) \cap Requests = {}
    /\ OneOffs \in BOOLEAN
<1>1. "pool" \notin Requests /\ (Readers \cup Loops) \cap Requests = {}
  BY NamesAssumption DEF NamesAssumption
<1>2. OneOffs \in BOOLEAN
  BY Zenon DEF OneOffs
<1> QED BY <1>1, <1>2 DEF New, Due, Slot

(* Changes of a client's state. *)
States == {"connecting", "failing", "pausing", "gathered", "idle", "held", "closing", "orphan"}
Owners == {"pool"} \cup Loops \cup Readers \cup Requests

LEMMA StateTyped ==
    ASSUME PoolTyped, NEW i \in Taken, NEW st \in States
    PROVE  \E x \in Slot : /\ x = [slots[i] EXCEPT !.st = st] /\ x.st = st /\ x.own = slots[i].own
                           /\ x.acct = slots[i].acct /\ x.tries = slots[i].tries
<1>1. slots[i] \in Slot
  BY SlotTyped
<1>2. \A s \in Slot : LET x == [s EXCEPT !.st = st]
                      IN  /\ x \in Slot /\ x.st = st /\ x.own = s.own /\ x.acct = s.acct
                          /\ x.tries = s.tries
  BY DEF Slot, States
<1> QED BY <1>1, <1>2, Zenon

LEMMA ToTyped ==
    ASSUME PoolTyped, NEW i \in Taken, NEW st \in States
    PROVE  \E x \in Slot : /\ x = To(i, st) /\ x.st = st /\ x.own = slots[i].own
                           /\ x.acct = slots[i].acct
<1>1. slots[i] \in Slot
  BY SlotTyped
<1>2. 0 \in 0..WarmRetries
  OBVIOUS
<1>3. \A s \in Slot, n \in 0..WarmRetries :
         LET x == [s EXCEPT !.st = st, !.tries = n]
         IN  x \in Slot /\ x.st = st /\ x.own = s.own /\ x.acct = s.acct
  BY DEF Slot, States
<1> QED BY <1>1, <1>2, <1>3, Zenon DEF To

(* _warm_one keeps the client in its place, or ends it. *)
LEMMA WarmOneKeeps ==
    ASSUME PoolTyped, SlotInv, NEW i \in Taken, slots[i].own \notin Requests, UNCHANGED req,
           WarmOne(i)
    PROVE  /\ slots' \in [Ids -> Slot \cup {Nobody}] /\ SlotInv' /\ Kept' \subseteq Kept
           /\ starved' \in BOOLEAN /\ displaced' \in BOOLEAN
<1>1. starved \in BOOLEAN /\ displaced \in BOOLEAN /\ Eligible \subseteq Accounts
  BY DEF PoolTyped, Eligible
<1>2. CASE Vanishes(i)
  <2>1. (displaced \/ OneOffs) \in BOOLEAN
    BY Zenon
  <2>2. starved' \in BOOLEAN /\ displaced' \in BOOLEAN
    BY <1>1, <2>1, NewTyped DEF WarmOne
  <2> QED BY <1>2, <2>2, SlotMoves
<1>3. CASE \E a \in Eligible : Becomes(i, New("connecting", "pool", a, 1)) /\ UNCHANGED <<starved, displaced>>
  <2>1. PICK a \in Eligible : Becomes(i, New("connecting", "pool", a, 1)) /\ UNCHANGED <<starved, displaced>>
    BY <1>3
  <2> DEFINE x == New("connecting", "pool", a, 1)
  <2>2. x \in Slot /\ x.st = "connecting" /\ x.own = "pool" /\ x.acct = a
    BY <1>1, NewTyped
  <2>3. a # Nobody /\ "pool" \notin Requests
    BY <1>1, NamesAssumption DEF NamesAssumption
  <2> HIDE DEF x
  <2>4. Becomes(i, x)
    BY <2>1 DEF x
  <2> QED BY <1>1, <2>1, <2>2, <2>3, <2>4, SlotMoves
<1> QED BY <1>2, <1>3 DEF WarmOne

(* What a step does to the runs that hold or have ordered a client, and to
   _in_use. *)
Counted ==
    \/ Using' = Using /\ inUse' = inUse /\ leaked' = leaked
    \/ \E r \in Requests \ Using :
          Using' = Using \cup {r} /\ inUse' = inUse + 1 /\ leaked' = leaked
    \/ \E r \in Using :
          /\ Using' = Using \ {r}
          /\ \/ inUse' = Minus(inUse) /\ leaked' = leaked
             \/ inUse' = inUse /\ leaked' = leaked + 1

LEMMA UseStep == PoolTyped /\ UseInv /\ Counted => UseInv'
<1> SUFFICES ASSUME PoolTyped, UseInv, Counted PROVE UseInv'
  OBVIOUS
<1>1. /\ IsFiniteSet(Using) /\ Cardinality(Using) \in Nat
      /\ inUse = leaked + Cardinality(Using) /\ leaked \in Nat
  BY FS_CardinalityType DEF UseInv, InUseIsHeld, PoolTyped, Using
<1>2. ASSUME IsFiniteSet(Using'), inUse' = leaked' + Cardinality(Using') PROVE UseInv'
  BY <1>2 DEF UseInv, InUseIsHeld, Using
<1>3. CASE Using' = Using /\ inUse' = inUse /\ leaked' = leaked
  BY <1>1, <1>2, <1>3
<1>4. CASE \E r \in Requests \ Using :
              Using' = Using \cup {r} /\ inUse' = inUse + 1 /\ leaked' = leaked
  <2>1. PICK r \in Requests \ Using :
               Using' = Using \cup {r} /\ inUse' = inUse + 1 /\ leaked' = leaked
    BY <1>4
  <2>2. IsFiniteSet(Using') /\ Cardinality(Using') = Cardinality(Using) + 1
    BY <1>1, <2>1, FS_AddElement
  <2> QED BY <1>1, <1>2, <2>1, <2>2
<1>5. ASSUME NEW r \in Using, Using' = Using \ {r},
             \/ inUse' = Minus(inUse) /\ leaked' = leaked
             \/ inUse' = inUse /\ leaked' = leaked + 1
      PROVE  UseInv'
  <2>1. /\ IsFiniteSet(Using') /\ Cardinality(Using') = Cardinality(Using) - 1
        /\ Cardinality(Using') \in Nat
    BY <1>1, <1>5, FS_RemoveElement, FS_CardinalityType
  <2>2. Cardinality(Using) # 0
    BY <1>1, <2>1
  <2>3. ASSUME NEW c \in Nat, NEW d \in Nat, d = c - 1, NEW l \in Nat
        PROVE  Minus(l + c) = l + d /\ l + c = l + 1 + d
    BY <2>3 DEF Minus
  <2>4. Minus(inUse) = leaked + Cardinality(Using') /\ inUse = leaked + 1 + Cardinality(Using')
    BY <1>1, <2>1, <2>3
  <2> QED BY <1>2, <1>5, <2>1, <2>4
<1> QED BY <1>3, <1>4, <1>5 DEF Counted

(* The account of a client that connects, waits or works. *)
LEMMA HasAccount ==
    ASSUME PoolTyped, SlotInv, NEW i \in Taken, slots[i].st \notin {"due", "recovering", "failed"}
    PROVE  slots[i].acct # Nobody /\ slots[i].acct \in Accounts
BY SlotTyped DEF SlotInv, SlotOK

----------------------------------------------------------------------------
(* The life of a slot. *)

LEMMA ConnectsKeeps ==
    ASSUME PoolTyped, SlotInv, NEW i \in Taken, Connects(i)
    PROVE  PoolTyped' /\ SlotInv' /\ Kept' \subseteq Kept /\ Counted /\ overfilled' = overfilled
<1>1. /\ slots[i].st = "connecting" /\ inUse' = inUse /\ leaked' = leaked
      /\ UNCHANGED <<inUse, accounts, enabled, cool, closed, reader, drain, events, ghosts>>
  BY DEF Connects, ghosts
<1>2. slots[i].acct # Nobody /\ slots[i].own \in {"pool"} \cup Loops \cup Readers \cup Requests
  BY <1>1, HasAccount, SlotTyped
<1>3. ASSUME slots' \in [Ids -> Slot \cup {Nobody}], req' \in [Requests -> Turns] PROVE PoolTyped'
  BY <1>1, <1>3 DEF PoolTyped, ghosts
<1>4. ASSUME req' = req, slots[i].own \notin Requests, NEW st \in {"closing", "idle", "gathered"},
             Becomes(i, To(i, st))
      PROVE  PoolTyped' /\ SlotInv' /\ Kept' \subseteq Kept /\ Counted
  <2>1. PICK x \in Slot : x = To(i, st) /\ x.st = st /\ x.own = slots[i].own /\ x.acct = slots[i].acct
    BY ToTyped DEF States
  <2>2. Becomes(i, x)
    BY <1>4, <2>1
  <2>3. slots' \in [Ids -> Slot \cup {Nobody}] /\ SlotInv' /\ Kept' \subseteq Kept
    BY <1>2, <1>4, <2>1, <2>2, SlotMoves
  <2>4. Counted
    BY <1>1, <1>4 DEF Counted, Using
  <2> QED BY <1>3, <1>4, <2>3, <2>4 DEF PoolTyped
<1>5. CASE slots[i].own = "pool" /\ Put(i) /\ UNCHANGED req
  <2>1. "pool" \notin Requests
    BY NewTyped
  <2>2. PICK st \in {"closing", "idle"} : Becomes(i, To(i, st))
    BY <1>5 DEF Put
  <2> QED BY <1>1, <1>4, <1>5, <2>1, <2>2 DEF ghosts
<1>6. CASE slots[i].own \in Readers /\ Becomes(i, To(i, "gathered")) /\ UNCHANGED req
  BY <1>1, <1>4, <1>6, NewTyped DEF ghosts
<1>7. CASE slots[i].own \in OneOff /\ HandOver(i)
  <2>1. PICK x \in Slot : x = To(i, "held") /\ x.st = "held" /\ x.own = slots[i].own /\ x.acct = slots[i].acct
    BY ToTyped DEF States
  <2>2. Becomes(i, x) /\ req' = [req EXCEPT ![slots[i].own] = "held"]
    BY <1>7, <2>1 DEF HandOver
  <2>3. slots[i].own \in Requests /\ req[slots[i].own] = "creating"
    BY <1>1, <1>7 DEF SlotInv, SlotOK, Serves
  <2>4. /\ req' \in [Requests -> Turns] /\ req'[slots[i].own] = "held"
        /\ \A r \in Requests : r # slots[i].own => req'[r] = req[r]
    BY <2>2, <2>3 DEF PoolTyped, Turns
  <2>5. SlotOK(x, req')
    BY <1>2, <2>1, <2>3, <2>4 DEF SlotOK, Serves
  <2>6. slots' \in [Ids -> Slot \cup {Nobody}] /\ SlotInv' /\ Kept' \subseteq Kept
    <3>1. \A r \in Requests : req'[r] = "held" =>
             \/ x.st = "held" /\ x.own = r
             \/ req[r] = "held" /\ ~(slots[i].st = "held" /\ slots[i].own = r)
      BY <1>1, <2>1, <2>4
    <3>2. /\ \A r \in Requests : r # slots[i].own /\ r # x.own => req'[r] = req[r]
          /\ x.own \in Requests => x.own = slots[i].own \/ req[x.own] \in {"new", "waiting"}
          /\ x.own \notin OneOff => slots[i].own \notin OneOff
      BY <2>1, <2>4
    <3>3. Becomes(i, x) /\ req' \in [Requests -> Turns]
      BY <2>2, <2>4
    <3> HIDE <2>2, <2>4
    <3> QED BY <2>5, <3>1, <3>2, <3>3, SlotBecomes
  <2>7. Using' = Using
    BY <2>3, <2>4 DEF Using
  <2> QED BY <1>1, <1>3, <2>4, <2>6, <2>7 DEF Counted, ghosts
<1> QED BY <1>5, <1>6, <1>7 DEF Connects, ghosts

(* A client that does not become a run's, with its run's place as it was. *)
LEMMA FailsKeeps ==
    ASSUME PoolTyped, SlotInv, NEW i \in Taken,
           ConnectFails(i) \/ CreateRaises(i) \/ Again(i) \/ Recovers(i)
    PROVE  PoolTyped' /\ SlotInv' /\ Kept' \subseteq Kept /\ Counted /\ overfilled' = overfilled
<1>1. /\ UNCHANGED <<inUse, req, accounts, enabled, cool, closed, reader, drain,
                     overfilled, leaked, starved, late>>
      /\ events' = events \/ Event
  BY DEF ConnectFails, CreateRaises, Again, Recovers, ghosts
<1>2. Counted /\ overfilled' = overfilled /\ req' = req /\ req' \in [Requests -> Turns]
  BY <1>1 DEF Counted, Using, PoolTyped
<1>3. displaced' \in BOOLEAN
  <2>1. displaced \in BOOLEAN /\ (displaced \/ OneOffs) \in BOOLEAN
    BY Zenon DEF PoolTyped
  <2> QED BY <2>1 DEF ConnectFails, CreateRaises, GivesUp, Again, Recovers, ghosts
<1>4. ASSUME slots' \in [Ids -> Slot \cup {Nobody}] PROVE PoolTyped'
  BY <1>1, <1>3, <1>4 DEF PoolTyped, Event
<1>6. 0 \in 0..WarmRetries /\ Nobody \in Accounts \cup {Nobody}
  OBVIOUS
<1>5. slots' \in [Ids -> Slot \cup {Nobody}] /\ SlotInv' /\ Kept' \subseteq Kept
  <2>1. CASE ConnectFails(i)
    <3>1. PICK x \in Slot : /\ x = [slots[i] EXCEPT !.st = "failing"] /\ x.st = "failing"
                            /\ x.own = slots[i].own /\ x.acct = slots[i].acct
      BY StateTyped DEF States
    <3>2. Becomes(i, x) /\ slots[i].st = "connecting"
      BY <2>1, <3>1 DEF ConnectFails
    <3>3. SlotOK(x, req')
      BY <1>2, <3>1, <3>2 DEF SlotInv, SlotOK, Serves
    <3> QED BY <1>2, <3>1, <3>2, <3>3, SlotBecomes
  <2>2. CASE CreateRaises(i)
    <3>1. /\ slots[i].st = "failing" /\ slots[i].own \notin OneOff
          /\ slots[i].own \in {"pool"} \cup Loops \cup Readers \cup Requests
          /\ slots[i].acct # Nobody /\ slots[i].tries \in 0..WarmRetries
      BY <2>2, HasAccount, SlotTyped DEF CreateRaises
    <3>2. slots[i].own \notin Requests
      BY <3>1 DEF SlotInv, SlotOK, Serves
    <3>3. CASE Vanishes(i)
      BY <1>2, <3>2, <3>3, SlotMoves
    <3>4. CASE Becomes(i, New("recovering", "pool", Nobody, 0))
      <4> DEFINE x == New("recovering", "pool", Nobody, 0)
      <4>1. x \in Slot /\ x.st = "recovering" /\ x.own = "pool" /\ "pool" \notin Requests
        BY NewTyped
      <4>2. Becomes(i, x)
        BY <3>4
      <4> HIDE DEF x
      <4> QED BY <1>2, <3>2, <4>1, <4>2, SlotMoves
    <3>5. CASE Becomes(i, New("failed", slots[i].own, Nobody, 0))
      <4> DEFINE x == New("failed", slots[i].own, Nobody, 0)
      <4>1. x \in Slot /\ x.st = "failed" /\ x.own = slots[i].own
        BY <3>1, <1>6, SMT DEF New, Slot
      <4>2. Becomes(i, x)
        BY <3>5
      <4> HIDE DEF x
      <4> QED BY <1>2, <3>2, <4>1, <4>2, SlotMoves
    <3>6. CASE Becomes(i, [slots[i] EXCEPT !.st = "pausing"]) /\ slots[i].tries # WarmRetries
      <4>1. PICK x \in Slot : /\ x = [slots[i] EXCEPT !.st = "pausing"] /\ x.st = "pausing"
                              /\ x.own = slots[i].own /\ x.acct = slots[i].acct /\ x.tries = slots[i].tries
        BY StateTyped DEF States
      <4>2. Becomes(i, x)
        BY <3>6, <4>1
      <4>3. x.tries < WarmRetries
        BY <3>1, <3>6, <4>1
      <4> QED BY <1>2, <3>1, <3>2, <4>1, <4>2, <4>3, SlotMoves
    <3> QED BY <2>2, <3>3, <3>4, <3>5, <3>6 DEF CreateRaises, GivesUp
  <2>3. CASE Again(i)
    <3>1. /\ slots[i].st = "pausing" /\ slots[i].acct \in Accounts \cup {Nobody}
          /\ slots[i].acct # Nobody /\ slots[i].tries \in 0..WarmRetries
      BY <2>3, HasAccount, SlotTyped DEF Again
    <3>2. slots[i].own \notin Requests /\ slots[i].tries < WarmRetries
      BY <3>1 DEF SlotInv, SlotOK, Serves
    <3>3. CASE Vanishes(i)
      BY <1>2, <3>2, <3>3, SlotMoves
    <3>4. CASE Becomes(i, New("connecting", "pool", slots[i].acct, slots[i].tries + 1))
      <4> DEFINE x == New("connecting", "pool", slots[i].acct, slots[i].tries + 1)
      <4>1. slots[i].tries + 1 \in 0..WarmRetries
        BY <3>1, <3>2
      <4>2. x \in Slot /\ x.st = "connecting" /\ x.own = "pool" /\ "pool" \notin Requests /\ x.acct = slots[i].acct
        BY <3>1, <4>1, NewTyped
      <4>3. Becomes(i, x)
        BY <3>4
      <4> HIDE DEF x
      <4> QED BY <1>2, <3>1, <3>2, <4>2, <4>3, SlotMoves
    <3> QED BY <2>3, <3>3, <3>4 DEF Again
  <2>4. CASE Recovers(i)
    <3>1. slots[i].own \notin Requests
      BY <2>4 DEF Recovers, SlotInv, SlotOK, Serves
    <3>2. CASE Vanishes(i)
      BY <1>2, <3>1, <3>2, SlotMoves
    <3>3. CASE Becomes(i, Due)
      BY <1>2, <3>1, <3>3, NewTyped, SlotMoves
    <3> QED BY <2>4, <3>2, <3>3 DEF Recovers
  <2> QED BY <2>1, <2>2, <2>3, <2>4
<1> QED BY <1>2, <1>4, <1>5

LEMMA WarmsKeeps ==
    ASSUME PoolTyped, SlotInv, NEW i \in Taken, StartsWarming(i) \/ Disconnected(i)
    PROVE  PoolTyped' /\ SlotInv' /\ Kept' \subseteq Kept /\ Counted /\ overfilled' = overfilled
<1>1. UNCHANGED <<inUse, req, accounts, enabled, cool, closed, reader, drain, events,
                  overfilled, leaked, late>>
  BY DEF StartsWarming, Disconnected
<1>2. Counted /\ overfilled' = overfilled /\ req' = req /\ req' \in [Requests -> Turns]
  BY <1>1 DEF Counted, Using, PoolTyped
<1>3. /\ slots' \in [Ids -> Slot \cup {Nobody}] /\ SlotInv' /\ Kept' \subseteq Kept
      /\ starved' \in BOOLEAN /\ displaced' \in BOOLEAN
  <2>1. CASE StartsWarming(i)
    <3>1. slots[i].own \notin Requests /\ WarmOne(i)
      BY <2>1 DEF StartsWarming, SlotInv, SlotOK, Serves
    <3> QED BY <1>2, <3>1, WarmOneKeeps
  <2>2. CASE Disconnected(i) /\ Replaced(i)
    <3>1. slots[i].own \notin Requests /\ WarmOne(i)
      BY <2>2, NewTyped DEF Disconnected, Replaced
    <3> QED BY <1>2, <3>1, WarmOneKeeps
  <2>3. CASE Disconnected(i) /\ ~Replaced(i)
    <3>1. /\ slots[i].st = "closing" /\ Vanishes(i) /\ displaced' = displaced
          /\ starved' = (starved \/ (slots[i].own = "pool" /\ accounts = {}))
      BY <2>3 DEF Disconnected
    <3>2. (starved \/ (slots[i].own = "pool" /\ accounts = {})) \in BOOLEAN
      BY Zenon
    <3>3. slots' \in [Ids -> Slot \cup {Nobody}] /\ SlotInv' /\ Kept' \subseteq Kept
      BY <1>2, <3>1, SlotVanishes
    <3>4. displaced' \in BOOLEAN
      BY <3>1 DEF PoolTyped
    <3> QED BY <3>1, <3>2, <3>3, <3>4
  <2> QED BY <2>1, <2>2, <2>3
<1> QED BY <1>1, <1>2, <1>3 DEF PoolTyped

----------------------------------------------------------------------------
(* acquire and release. *)

LEMMA StaleTyped ==
    ASSUME PoolTyped, SlotInv
    PROVE  /\ WithoutStale \in [Ids -> Slot \cup {Nobody}]
           /\ \A j \in Ids \ Taken : WithoutStale[j] = Nobody
           /\ \A j \in Taken : /\ WithoutStale[j] \in Slot /\ WithoutStale[j] # Nobody
                               /\ WithoutStale[j].own = slots[j].own
                               /\ WithoutStale[j].st = "held" <=> slots[j].st = "held"
                               /\ SlotOK(WithoutStale[j], req)
           /\ \A j \in Idle : j \in Taken /\ slots[j].st = "idle" /\ slots[j].own \notin Requests
<1>1. \A j \in Idle : j \in Taken /\ slots[j].st = "idle"
  BY DEF Idle, In
<1>2. \A j \in Idle : slots[j].own \notin Requests
  BY <1>1 DEF SlotInv, SlotOK, Serves
<1>3. ASSUME NEW j \in Ids \ Taken PROVE WithoutStale[j] = Nobody
  BY <1>1 DEF WithoutStale, Taken
<1>4. ASSUME NEW j \in Taken
      PROVE  /\ j \in Ids /\ WithoutStale[j] \in Slot /\ WithoutStale[j] # Nobody
             /\ WithoutStale[j].own = slots[j].own
             /\ WithoutStale[j].st = "held" <=> slots[j].st = "held"
             /\ SlotOK(WithoutStale[j], req)
  <2>1. j \in Ids /\ slots[j] \in Slot /\ slots[j] # Nobody /\ SlotOK(slots[j], req)
    BY SlotTyped DEF Taken, SlotInv
  <2>2. CASE j \notin Idle \ Ready
    BY <2>1, <2>2 DEF WithoutStale
  <2>3. CASE j \in Idle \ Ready
    <3>1. PICK x \in Slot : /\ x = To(j, "closing") /\ x.st = "closing" /\ x.own = slots[j].own
                            /\ x.acct = slots[j].acct
      BY ToTyped DEF States
    <3>2. WithoutStale[j] = x
      BY <2>1, <2>3, <3>1 DEF WithoutStale
    <3>3. x # Nobody /\ x.acct # Nobody
      BY <1>1, <2>3, <3>1, HasAccount, NamesAssumption DEF NamesAssumption
    <3>4. SlotOK(x, req)
      BY <1>2, <2>3, <3>1, <3>3 DEF SlotOK
    <3> QED BY <1>1, <2>1, <2>3, <3>1, <3>2, <3>3, <3>4
  <2> QED BY <2>2, <2>3
<1>5. WithoutStale \in [Ids -> Slot \cup {Nobody}]
  <2>1. \A j \in Ids : WithoutStale[j] \in Slot \cup {Nobody}
    BY <1>3, <1>4
  <2>2. WithoutStale = [j \in Ids |-> WithoutStale[j]]
    BY DEF WithoutStale
  <2> QED BY <2>1, <2>2
<1> QED BY <1>1, <1>2, <1>3, <1>4, <1>5

LEMMA TakeKeeps ==
    ASSUME PoolTyped, SlotInv, NEW r \in Requests, req[r] \in {"new", "waiting"}, Take(r),
           leaked' = leaked
    PROVE  /\ slots' \in [Ids -> Slot \cup {Nobody}] /\ req' \in [Requests -> Turns]
           /\ inUse' \in Nat /\ SlotInv' /\ Kept' \subseteq Kept /\ Counted
<1>1. ASSUME NEW j \in Taken PROVE slots[j].own # r
  BY <1>1 DEF SlotInv, SlotOK, Serves
<1>2. PICK W : W = WithoutStale
  OBVIOUS
<1>3. /\ W \in [Ids -> Slot \cup {Nobody}] /\ \A j \in Ids \ Taken : W[j] = Nobody
      /\ \A j \in Taken : /\ j \in Ids /\ W[j] \in Slot /\ W[j] # Nobody
                          /\ W[j].own = slots[j].own /\ (W[j].st = "held" <=> slots[j].st = "held")
                          /\ SlotOK(W[j], req)
      /\ \A j \in Idle : j \in Taken /\ slots[j].st = "idle" /\ slots[j].own \notin Requests
  BY <1>2, StaleTyped DEF Taken
<1>4. req \in [Requests -> Turns] /\ inUse \in Nat /\ r \notin Using
  BY DEF PoolTyped, Using
<1>5. ASSUME slots' = W, req' = [req EXCEPT ![r] = "waiting"], UNCHANGED inUse
      PROVE  /\ slots' \in [Ids -> Slot \cup {Nobody}] /\ req' \in [Requests -> Turns]
             /\ inUse' \in Nat /\ SlotInv' /\ Kept' \subseteq Kept /\ Counted
  <2>1. Taken' = Taken
    BY <1>3, <1>5 DEF Taken
  <2>2. /\ req' \in [Requests -> Turns] /\ req'[r] = "waiting"
        /\ \A q \in Requests : q # r => req'[q] = req[q]
    BY <1>4, <1>5 DEF Turns
  <2>3. \A j \in Taken : SlotOK(slots'[j], req')
    <3> TAKE j \in Taken
    <3>1. SlotOK(W[j], req) /\ W[j].own # r
      BY <1>1, <1>3
    <3> QED BY <1>5, <2>2, <3>1 DEF SlotOK, Serves
  <2>4. Sole'
    BY <1>3, <1>5, <2>1 DEF SlotInv, Sole
  <2>5. Served'
    BY <1>3, <1>5, <2>1, <2>2 DEF SlotInv, Served
  <2>6. Kept' \subseteq Kept
    BY <1>3, <1>5, <2>1 DEF Kept
  <2>7. Using' = Using
    BY <2>2 DEF Using
  <2> QED BY <1>3, <1>4, <1>5, <2>1, <2>2, <2>3, <2>4, <2>5, <2>6, <2>7 DEF SlotInv, Counted
<1>6. ASSUME NEW i \in Ready, slots' = [W EXCEPT ![i] = [slots[i] EXCEPT !.st = "held", !.own = r]],
             req' = [req EXCEPT ![r] = "held"], inUse' = inUse + 1
      PROVE  /\ slots' \in [Ids -> Slot \cup {Nobody}] /\ req' \in [Requests -> Turns]
             /\ inUse' \in Nat /\ SlotInv' /\ Kept' \subseteq Kept /\ Counted
  <2>1. i \in Taken /\ slots[i].st = "idle" /\ slots[i].own \notin Requests /\ i \in Ids
    BY <1>3 DEF Ready
  <2>2. PICK x \in Slot : /\ x = [slots[i] EXCEPT !.st = "held", !.own = r] /\ x.st = "held"
                          /\ x.own = r /\ x.acct = slots[i].acct
    <3>1. slots[i] \in Slot
      BY <2>1, SlotTyped
    <3>2. \A s \in Slot : LET x == [s EXCEPT !.st = "held", !.own = r]
                          IN  x \in Slot /\ x.st = "held" /\ x.own = r /\ x.acct = s.acct
      BY DEF Slot
    <3> QED BY <3>1, <3>2, Zenon
  <2>3. slots' = [W EXCEPT ![i] = x] /\ slots' \in [Ids -> Slot \cup {Nobody}]
    BY <1>3, <1>6, <2>2
  <2>4. slots'[i] = x /\ \A j \in Ids \ {i} : slots'[j] = W[j]
    BY <1>3, <2>1, <2>3
  <2>5. x # Nobody /\ x.acct # Nobody
    BY <2>1, <2>2, HasAccount, NamesAssumption DEF NamesAssumption
  <2>6. Taken' = Taken
    BY <1>3, <2>1, <2>4, <2>5 DEF Taken
  <2>7. /\ req' \in [Requests -> Turns] /\ req'[r] = "held"
        /\ \A q \in Requests : q # r => req'[q] = req[q]
    BY <1>4, <1>6 DEF Turns
  <2>8. ASSUME NEW j \in Taken PROVE SlotOK(slots'[j], req')
    <3>1. CASE j = i
      BY <2>2, <2>4, <2>5, <2>7, <3>1 DEF SlotOK, Serves
    <3>2. CASE j # i
      <4>1. slots'[j] = W[j] /\ SlotOK(W[j], req) /\ W[j].own # r
        BY <1>1, <1>3, <2>4, <3>2
      <4> QED BY <2>7, <4>1 DEF SlotOK, Serves
    <3> QED BY <3>1, <3>2
  <2>9. ASSUME NEW j \in Taken PROVE slots'[j].own = slots[j].own \/ (j = i /\ slots'[j].own = r)
    BY <1>3, <2>2, <2>4
  <2>10. Sole'
    BY <1>1, <2>6, <2>9, <2>1 DEF SlotInv, Sole
  <2>11. Served'
    <3> SUFFICES ASSUME NEW q \in Requests, req'[q] = "held"
                 PROVE  \E j \in Taken : slots'[j].st = "held" /\ slots'[j].own = q
      BY <2>6 DEF Served
    <3>1. CASE q = r
      BY <2>1, <2>2, <2>4, <3>1
    <3>2. CASE q # r
      <4>1. PICK j \in Taken : slots[j].st = "held" /\ slots[j].own = q
        BY <2>7, <3>2 DEF SlotInv, Served
      <4> QED BY <1>3, <2>1, <2>4, <4>1
    <3> QED BY <3>1, <3>2
  <2>12. Kept' \subseteq Kept
    BY <2>1, <2>6, <2>9 DEF Kept
  <2>13. Using' = Using \cup {r}
    BY <2>7 DEF Using
  <2>14. SlotInv'
    BY <2>6, <2>8, <2>10, <2>11 DEF SlotInv
  <2>15. Counted
    BY <1>4, <1>6, <2>13 DEF Counted
  <2> QED BY <1>4, <1>6, <2>3, <2>7, <2>12, <2>14, <2>15
<1> QED BY <1>2, <1>5, <1>6 DEF Take

LEMMA AcquireKeeps ==
    ASSUME PoolTyped, SlotInv, NEW r \in Requests, Acquire(r) \/ IsWoken(r) \/ StopsWaiting(r)
    PROVE  PoolTyped' /\ SlotInv' /\ Kept' \subseteq Kept /\ Counted /\ overfilled' = overfilled
<1>1. /\ UNCHANGED <<accounts, enabled, cool, closed, reader, drain, ghosts>>
      /\ events' = events \/ Event
      /\ req[r] \in {"new", "waiting"} /\ leaked' = leaked
  BY DEF Acquire, IsWoken, StopsWaiting, Arrives, ghosts
<1>2. ASSUME slots' \in [Ids -> Slot \cup {Nobody}], req' \in [Requests -> Turns], inUse' \in Nat
      PROVE  PoolTyped'
  BY <1>1, <1>2 DEF PoolTyped, Event, ghosts
<1>3. CASE Take(r)
  BY <1>1, <1>2, <1>3, TakeKeeps DEF ghosts
<1>4. CASE Over(r) /\ UNCHANGED <<slots, inUse>>
  <2>1. /\ req' \in [Requests -> Turns] /\ req'[r] = "over"
        /\ \A q \in Requests : q # r => req'[q] = req[q]
    BY <1>4 DEF Over, PoolTyped, Turns
  <2>2. \A j \in Taken : slots[j].own # r
    BY <1>1 DEF SlotInv, SlotOK, Serves
  <2>3. Taken' = Taken /\ Kept' = Kept /\ slots' = slots
    BY <1>4 DEF Taken, Kept
  <2>4. \A j \in Taken : SlotOK(slots[j], req')
    BY <2>1, <2>2 DEF SlotInv, SlotOK, Serves
  <2>5. Served'
    BY <2>1, <2>3 DEF SlotInv, Served
  <2>6. SlotInv'
    BY <2>3, <2>4, <2>5 DEF SlotInv, Sole
  <2>7. Using' = Using
    BY <1>1, <2>1 DEF Using
  <2>8. slots' \in [Ids -> Slot \cup {Nobody}] /\ inUse' \in Nat
    BY <1>4 DEF PoolTyped
  <2> QED BY <1>1, <1>2, <1>4, <2>1, <2>3, <2>6, <2>7, <2>8 DEF Counted, ghosts
<1> QED BY <1>3, <1>4 DEF Acquire, IsWoken, StopsWaiting

LEMMA AcquireOneOffKeeps ==
    ASSUME PoolTyped, SlotInv, NEW r \in Requests, AcquireOneOff(r)
    PROVE  PoolTyped' /\ SlotInv' /\ Kept' \subseteq Kept /\ Counted /\ overfilled' = overfilled
<1>1. /\ UNCHANGED <<accounts, enabled, cool, closed, reader, drain, events, ghosts>>
      /\ req[r] = "new" /\ r \in OneOff /\ r \notin Using /\ leaked' = leaked
  BY DEF AcquireOneOff, Arrives, ghosts, Using
<1>2. ASSUME slots' \in [Ids -> Slot \cup {Nobody}], req' \in [Requests -> Turns], inUse' \in Nat
      PROVE  PoolTyped'
  BY <1>1, <1>2 DEF PoolTyped, ghosts
<1>3. \A j \in Taken : slots[j].own # r /\ j \in Ids
  BY <1>1 DEF SlotInv, SlotOK, Serves, Taken
<1>4. CASE Over(r) /\ UNCHANGED <<slots, inUse>>
  <2>1. /\ req' \in [Requests -> Turns] /\ req'[r] = "over"
        /\ \A q \in Requests : q # r => req'[q] = req[q]
    BY <1>4 DEF Over, PoolTyped, Turns
  <2>2. Taken' = Taken /\ Kept' = Kept /\ slots' = slots
    BY <1>4 DEF Taken, Kept
  <2>3. \A j \in Taken : SlotOK(slots[j], req')
    BY <1>3, <2>1 DEF SlotInv, SlotOK, Serves
  <2>4. Served'
    BY <2>1, <2>2 DEF SlotInv, Served
  <2>5. SlotInv'
    BY <2>2, <2>3, <2>4 DEF SlotInv, Sole
  <2>6. Using' = Using
    BY <1>1, <2>1 DEF Using
  <2>7. slots' \in [Ids -> Slot \cup {Nobody}] /\ inUse' \in Nat
    BY <1>4 DEF PoolTyped
  <2> QED BY <1>1, <1>2, <1>4, <2>1, <2>2, <2>5, <2>6, <2>7 DEF Counted, ghosts
<1>5. ASSUME NEW i \in Ids \ Taken, NEW a \in Eligible, Becomes(i, New("connecting", r, a, 1)),
             req' = [req EXCEPT ![r] = "creating"], inUse' = inUse + 1
      PROVE  PoolTyped' /\ SlotInv' /\ Kept' \subseteq Kept /\ Counted
  <2>1. a \in Accounts /\ a # Nobody /\ r \in Owners /\ 1 \in 0..WarmRetries
    BY NamesAssumption DEF NamesAssumption, Eligible, PoolTyped, Owners
  <2>2. PICK x \in Slot : x = New("connecting", r, a, 1) /\ x.st = "connecting" /\ x.own = r /\ x.acct = a
    <3> DEFINE y == New("connecting", r, a, 1)
    <3>1. y \in Slot
      BY <2>1 DEF New, Slot
    <3>2. y.st = "connecting" /\ y.own = r /\ y.acct = a
      BY DEF New
    <3> QED BY <3>1, <3>2
  <2>3. slots' = [slots EXCEPT ![i] = x] /\ x # Nobody
    BY <1>5, <2>2, NamesAssumption DEF Becomes, NamesAssumption
  <2>4. /\ slots' \in [Ids -> Slot \cup {Nobody}] /\ slots'[i] = x
        /\ \A j \in Ids \ {i} : slots'[j] = slots[j]
    BY <2>3 DEF PoolTyped
  <2>5. Taken' = Taken \cup {i}
    BY <2>3, <2>4 DEF Taken
  <2>6. /\ req' \in [Requests -> Turns] /\ req'[r] = "creating"
        /\ \A q \in Requests : q # r => req'[q] = req[q]
    BY <1>5 DEF PoolTyped, Turns
  <2>7. \A j \in Taken : slots'[j] = slots[j]
    BY <1>3, <2>4
  <2>8. ASSUME NEW j \in Taken' PROVE SlotOK(slots'[j], req')
    <3>1. CASE j = i
      BY <1>1, <2>1, <2>2, <2>4, <2>6, <3>1 DEF SlotOK, Serves
    <3>2. CASE j # i
      <4>1. j \in Taken /\ slots'[j] = slots[j] /\ SlotOK(slots[j], req) /\ slots[j].own # r
        BY <1>3, <2>5, <2>7, <3>2 DEF SlotInv
      <4> QED BY <2>6, <4>1 DEF SlotOK, Serves
    <3> QED BY <3>1, <3>2
  <2>9. Sole'
    BY <1>3, <2>2, <2>4, <2>5, <2>7 DEF SlotInv, Sole
  <2>10. Served'
    BY <2>5, <2>6, <2>7 DEF SlotInv, Served
  <2>11. SlotInv'
    BY <2>8, <2>9, <2>10 DEF SlotInv
  <2>12. Kept' \subseteq Kept
    BY <1>1, <2>2, <2>4, <2>5, <2>7 DEF Kept
  <2>13. Using' = Using \cup {r}
    BY <2>6 DEF Using
  <2>14. inUse' \in Nat
    BY <1>5 DEF PoolTyped
  <2> QED BY <1>1, <1>2, <1>5, <2>4, <2>6, <2>11, <2>12, <2>13, <2>14 DEF Counted
<1>6. CASE ~(closed \/ Eligible = {})
  <2>1. PICK new \in First(1), a \in Eligible : \E i \in new : Becomes(i, New("connecting", r, a, 1))
    BY <1>6 DEF AcquireOneOff
  <2>2. PICK i \in new : Becomes(i, New("connecting", r, a, 1))
    BY <2>1
  <2>3. i \in Ids \ Taken
    BY <2>1, <2>2 DEF First
  <2>4. req' = [req EXCEPT ![r] = "creating"] /\ inUse' = inUse + 1
    BY <1>6 DEF AcquireOneOff
  <2> QED BY <1>1, <1>5, <2>2, <2>3, <2>4 DEF ghosts
<1> QED BY <1>1, <1>4, <1>6 DEF AcquireOneOff, ghosts

(* The run of a client ends, or its creation does. *)
LEMMA ReleaseKeeps ==
    ASSUME PoolTyped, SlotInv, NEW i \in Taken, OneOffFails(i) \/ OneOffCancelled(i) \/ Release(i)
    PROVE  PoolTyped' /\ SlotInv' /\ Kept' \subseteq Kept /\ Counted /\ overfilled' = overfilled
<1>0. PICK r : r = slots[i].own
  OBVIOUS
<1>1. /\ UNCHANGED <<accounts, enabled, cool, closed, reader, drain, overfilled, starved, displaced, late>>
      /\ Over(r)
      /\ events' = events \/ Event
  BY <1>0 DEF OneOffFails, OneOffCancelled, Release, ghosts
<1>2. r \in Requests /\ r \in Using
  <2>1. r \in Requests
    BY <1>0 DEF OneOffFails, OneOffCancelled, Release, SlotInv, SlotOK
  <2>2. Serves(slots[i], req)
    BY <1>0, <2>1 DEF SlotInv, SlotOK
  <2>3. slots[i].st \in {"failing", "connecting", "held"}
    BY DEF OneOffFails, OneOffCancelled, Release
  <2> QED BY <1>0, <2>1, <2>2, <2>3 DEF Serves, Using
<1>3. /\ req' \in [Requests -> Turns] /\ req'[r] = "over"
      /\ \A q \in Requests : q # r => req'[q] = req[q]
  BY <1>1, <1>2 DEF Over, PoolTyped, Turns
<1>4. Using' = Using \ {r}
  BY <1>3 DEF Using
<1>5. inUse' \in Nat /\ leaked' \in Nat /\ Counted
  <2>1. inUse \in Nat /\ leaked \in Nat
    BY DEF PoolTyped
  <2>2. \/ inUse' = Minus(inUse) /\ leaked' = leaked
        \/ inUse' = inUse /\ leaked' = leaked + 1
    BY DEF OneOffFails, OneOffCancelled, Release, ghosts
  <2>3. \A n \in Nat : Minus(n) \in Nat
    BY DEF Minus
  <2> QED BY <1>2, <1>4, <2>1, <2>2, <2>3 DEF Counted
<1>6. ASSUME slots' \in [Ids -> Slot \cup {Nobody}] PROVE PoolTyped'
  BY <1>1, <1>3, <1>5, <1>6 DEF PoolTyped, Event
<1>7. slots' \in [Ids -> Slot \cup {Nobody}] /\ SlotInv' /\ Kept' \subseteq Kept
  <2>1. \A q \in Requests : req'[q] = "held" => req[q] = "held" /\ ~(slots[i].st = "held" /\ slots[i].own = q)
    BY <1>0, <1>3
  <2>2. CASE OneOffFails(i)
    BY <1>0, <1>3, <2>1, <2>2, SlotVanishes DEF OneOffFails
  <2>3. ASSUME NEW x \in Slot, Becomes(i, x), x.st \in {"orphan", "closing"}, x.acct = slots[i].acct,
               \/ x.own = r /\ r \in OneOff
               \/ x.own = "pool" /\ r \notin OneOff /\ x.st = "closing",
               slots[i].st \in {"connecting", "held"}
        PROVE  slots' \in [Ids -> Slot \cup {Nobody}] /\ SlotInv' /\ Kept' \subseteq Kept
    <3>1. x.acct # Nobody /\ "pool" \notin Requests
      BY <2>3, HasAccount, NewTyped
    <3>2. SlotOK(x, req')
      BY <1>2, <1>3, <2>3, <3>1 DEF SlotOK, Serves
    <3>3. x.own \in Requests => x.own = slots[i].own \/ req[x.own] \in {"new", "waiting"}
      BY <1>0, <2>3, <3>1
    <3>4. /\ \A q \in Requests : q # slots[i].own /\ q # x.own => req'[q] = req[q]
          /\ x.own \notin OneOff => slots[i].own \notin OneOff
      BY <1>0, <1>3, <2>3
    <3> QED BY <1>3, <2>1, <2>3, <3>2, <3>3, <3>4, SlotBecomes
  <2>4. CASE OneOffCancelled(i)
    <3>1. slots[i].st = "connecting" /\ r \in OneOff /\ Becomes(i, To(i, "orphan"))
      BY <1>0, <2>4 DEF OneOffCancelled
    <3>2. PICK x \in Slot : /\ x = To(i, "orphan") /\ x.st = "orphan" /\ x.own = slots[i].own
                            /\ x.acct = slots[i].acct
      BY ToTyped DEF States
    <3> QED BY <1>0, <2>3, <3>1, <3>2
  <2>5. CASE Release(i)
    <3> DEFINE own == IF r \in OneOff THEN r ELSE "pool"
    <3>1. /\ slots[i].st = "held"
          /\ Becomes(i, [slots[i] EXCEPT !.st = "closing", !.own = own])
      BY <1>0, <2>5 DEF Release
    <3>2. slots[i] \in Slot /\ own \in Owners
      BY <1>0, <1>2, SlotTyped DEF Owners
    <3>3. PICK o \in Owners : o = own
      BY <3>2
    <3>4. \A s \in Slot : LET x == [s EXCEPT !.st = "closing", !.own = o]
                          IN  x \in Slot /\ x.st = "closing" /\ x.own = o /\ x.acct = s.acct
      BY DEF Slot, Owners
    <3>5. PICK x \in Slot : /\ x = [slots[i] EXCEPT !.st = "closing", !.own = o] /\ x.st = "closing"
                            /\ x.own = o /\ x.acct = slots[i].acct
      BY <3>2, <3>4, Zenon
    <3>6. Becomes(i, x)
      BY <3>1, <3>3, <3>5
    <3> QED BY <1>2, <2>3, <3>1, <3>3, <3>5, <3>6
  <2> QED BY <2>2, <2>4, <2>5
<1> QED BY <1>1, <1>5, <1>6, <1>7

(* Steps that touch no client: the accounts cool down, users change, the
   loops start. *)
LEMMA OtherKeeps ==
    ASSUME PoolTyped, SlotInv,
           \/ \E i \in Taken : Exhaust(i)
           \/ \E a \in Accounts : CoolsDown(a)
           \/ \E a \in Accounts, k \in Readers : Toggle(a, k)
           \/ \E k \in Readers : Read(k)
           \/ \E always \in BOOLEAN : Reload(always)
           \/ \E l \in Loops : Drained(l)
           \/ Shutdown
           \/ UNCHANGED poolVars
    PROVE  PoolTyped' /\ SlotInv' /\ Kept' \subseteq Kept /\ Counted /\ overfilled' = overfilled
<1>1. /\ UNCHANGED <<slots, inUse, req, accounts, ghosts>>
      /\ events' = events \/ Event
  BY DEF Exhaust, CoolsDown, Toggle, Read, Reload, Drained, Shutdown, poolVars
<1>2. Taken' = Taken /\ Kept' = Kept /\ Counted
  BY <1>1 DEF Taken, Kept, Counted, Using, ghosts
<1>3. SlotInv'
  BY <1>1, <1>2 DEF SlotInv, Sole, Served
<1>4. cool' \subseteq Accounts /\ enabled' \subseteq Accounts
  <2>1. cool \subseteq Accounts /\ enabled \subseteq Accounts
    BY DEF PoolTyped
  <2>2. ASSUME NEW i \in Taken, Exhaust(i) PROVE cool' \subseteq Accounts /\ enabled' \subseteq Accounts
    <3>1. slots[i].acct \in Accounts
      BY <2>2, HasAccount DEF Exhaust
    <3> QED BY <2>1, <2>2, <3>1 DEF Exhaust
  <2>3. ASSUME NEW a \in Accounts, CoolsDown(a) \/ \E k \in Readers : Toggle(a, k)
        PROVE  cool' \subseteq Accounts /\ enabled' \subseteq Accounts
    BY <2>1, <2>3 DEF CoolsDown, Toggle
  <2> QED BY <2>1, <2>2, <2>3 DEF Read, Reload, Drained, Shutdown, poolVars
<1>5. closed' \in BOOLEAN /\ events' \in 0..MaxEvents
  <2>1. closed' \in BOOLEAN
    BY DEF PoolTyped, Exhaust, CoolsDown, Toggle, Read, Reload, Drained, Shutdown, poolVars
  <2> QED BY <1>1, <2>1 DEF PoolTyped, Event
<1>6. reader' \in [Readers -> Reader]
  <2>1. ASSUME NEW k \in Readers, NEW kind \in {"refresh", "warmup"}, Ask(k, kind)
        PROVE  reader' \in [Readers -> Reader]
    BY <2>1 DEF Ask, PoolTyped, Reader
  <2>2. ASSUME NEW k \in Readers, Read(k) PROVE reader' \in [Readers -> Reader]
    <3>1. PICK found \in {enabled, Accounts} : reader' = [reader EXCEPT ![k].at = "read", ![k].found = found]
      BY <2>2 DEF Read
    <3>2. found \subseteq Accounts
      BY DEF PoolTyped
    <3> QED BY <3>1, <3>2 DEF PoolTyped, Reader
  <2> QED BY <2>1, <2>2 DEF PoolTyped, Exhaust, CoolsDown, Toggle, Reload, Drained, Shutdown, poolVars
<1>7. drain' \in [Loops -> Loop]
  <2>1. ASSUME NEW always \in BOOLEAN, Reload(always) PROVE drain' \in [Loops -> Loop]
    BY <2>1 DEF Reload, PoolTyped, Loop
  <2>2. ASSUME NEW l \in Loops, Drained(l) PROVE drain' \in [Loops -> Loop]
    BY <2>2 DEF Drained, PoolTyped, Loop
  <2>3. ASSUME Shutdown PROVE drain' \in [Loops -> Loop]
    BY <2>3 DEF Shutdown, PoolTyped, Loop, Loops
  <2> QED BY <2>1, <2>2, <2>3 DEF PoolTyped, Exhaust, CoolsDown, Toggle, Read, poolVars
<1>8. PoolTyped'
  BY <1>1, <1>4, <1>5, <1>6, <1>7 DEF PoolTyped, ghosts
<1> QED BY <1>1, <1>2, <1>3, <1>8 DEF ghosts

----------------------------------------------------------------------------
(* Accounts, warm-ups and drains. *)

LEMMA DrainOneKeeps ==
    ASSUME PoolTyped, SlotInv, NEW i \in Taken, NEW l \in Loops, DrainOne(l, i)
    PROVE  PoolTyped' /\ SlotInv' /\ Kept' \subseteq Kept /\ Counted /\ overfilled' = overfilled
<1>1. /\ UNCHANGED <<inUse, req, accounts, enabled, cool, closed, reader, events, ghosts>>
      /\ slots[i].st = "idle" /\ slots[i].own \notin Requests /\ l \notin Requests
  BY NewTyped DEF DrainOne, SlotInv, SlotOK, Serves
<1>2. drain' \in [Loops -> Loop]
  BY DEF DrainOne, PoolTyped, Loop
<1>3. slots[i] \in Slot /\ l \in Owners
  BY SlotTyped DEF Owners
<1>4. \A s \in Slot : LET x == [s EXCEPT !.st = "closing", !.own = l]
                      IN  x \in Slot /\ x.st = "closing" /\ x.own = l /\ x.acct = s.acct
  BY DEF Slot
<1>5. PICK x \in Slot : /\ x = [slots[i] EXCEPT !.st = "closing", !.own = l] /\ x.st = "closing"
                        /\ x.own = l /\ x.acct = slots[i].acct
  BY <1>3, <1>4, Zenon
<1>6. Becomes(i, x) /\ x.acct # Nobody
  BY <1>1, <1>5, HasAccount DEF DrainOne
<1>7. slots' \in [Ids -> Slot \cup {Nobody}] /\ SlotInv' /\ Kept' \subseteq Kept
  BY <1>1, <1>5, <1>6, SlotMoves
<1>8. PoolTyped'
  BY <1>1, <1>2, <1>7 DEF PoolTyped, ghosts
<1> QED BY <1>1, <1>7, <1>8 DEF Counted, Using, ghosts

LEMMA GatheredKeeps ==
    ASSUME PoolTyped, SlotInv, NEW k \in Readers, Gathered(k)
    PROVE  PoolTyped' /\ SlotInv' /\ Kept' \subseteq Kept /\ Counted /\ overfilled' = overfilled
<1>1. /\ UNCHANGED <<inUse, req, accounts, enabled, cool, closed, drain, events,
                     overfilled, leaked, starved, displaced>>
      /\ \A i \in Taken : slots[i].own = k => slots[i].st \in {"gathered", "failed"}
      /\ slots' = [i \in Ids |-> IF i \notin Taken \/ slots[i].own # k THEN slots[i]
                                 ELSE IF slots[i].st = "failed" THEN Due
                                 ELSE [slots[i] EXCEPT !.own = "pool", !.st = "idle"]]
  BY DEF Gathered
<1>2. k \notin Requests /\ "pool" \notin Requests
  BY NewTyped
<1>3. ASSUME NEW i \in Taken
      PROVE  \/ slots'[i] = slots[i]
             \/ /\ slots[i].own = k /\ slots'[i] \in Slot /\ slots'[i] # Nobody
                /\ slots'[i].own = "pool" /\ slots'[i].st \in {"due", "idle"}
                /\ slots'[i].acct = Nobody => slots'[i].st = "due"
  <2>1. i \in Ids /\ slots[i] \in Slot
    BY SlotTyped
  <2>2. CASE slots[i].own # k
    BY <1>1, <2>1, <2>2
  <2>3. CASE slots[i].own = k /\ slots[i].st = "failed"
    <3>1. slots'[i] = Due
      BY <1>1, <2>1, <2>3
    <3>2. Due \in Slot /\ Due.st = "due" /\ Due.own = "pool" /\ Due # Nobody
      BY NewTyped, NamesAssumption DEF NamesAssumption
    <3> QED BY <2>3, <3>1, <3>2
  <2>4. CASE slots[i].own = k /\ slots[i].st # "failed"
    <3>1. \A s \in Slot : LET x == [s EXCEPT !.own = "pool", !.st = "idle"]
                          IN  x \in Slot /\ x.st = "idle" /\ x.own = "pool" /\ x.acct = s.acct
      BY DEF Slot
    <3>2. PICK x \in Slot : /\ x = [slots[i] EXCEPT !.own = "pool", !.st = "idle"] /\ x.st = "idle"
                            /\ x.own = "pool" /\ x.acct = slots[i].acct
      BY <2>1, <3>1, Zenon
    <3>3. slots'[i] = x
      BY <1>1, <2>1, <2>4, <3>2
    <3>4. slots[i].st = "gathered"
      BY <1>1, <2>4
    <3>5. x.acct # Nobody /\ x # Nobody
      BY <3>2, <3>4, HasAccount, NamesAssumption DEF NamesAssumption
    <3> QED BY <2>4, <3>2, <3>3, <3>5
  <2> QED BY <2>2, <2>3, <2>4
<1>4. \A i \in Ids \ Taken : slots'[i] = Nobody
  BY <1>1 DEF Taken
<1>5. Taken' = Taken
  BY <1>3, <1>4 DEF Taken
<1>6. slots' \in [Ids -> Slot \cup {Nobody}]
  <2>1. \A i \in Ids : slots'[i] \in Slot \cup {Nobody}
    BY <1>3, <1>4, SlotTyped
  <2>2. slots' = [i \in Ids |-> slots'[i]]
    BY <1>1
  <2> QED BY <2>1, <2>2
<1>7. \A i \in Taken : SlotOK(slots'[i], req')
  <2> TAKE i \in Taken
  <2>1. CASE slots'[i] = slots[i]
    BY <1>1, <2>1 DEF SlotInv
  <2>2. CASE slots'[i] # slots[i]
    BY <1>2, <1>3, <2>2 DEF SlotOK
  <2> QED BY <2>1, <2>2
<1>8. Sole'
  BY <1>2, <1>3, <1>5 DEF SlotInv, Sole
<1>9. Served'
  <2> SUFFICES ASSUME NEW r \in Requests, req[r] = "held"
               PROVE  \E i \in Taken : slots'[i].st = "held" /\ slots'[i].own = r
    BY <1>1, <1>5 DEF Served
  <2>1. PICK i \in Taken : slots[i].st = "held" /\ slots[i].own = r
    BY DEF SlotInv, Served
  <2>2. slots'[i] = slots[i]
    BY <1>2, <1>3, <2>1
  <2> QED BY <2>1, <2>2
<1>10. SlotInv'
  BY <1>5, <1>7, <1>8, <1>9 DEF SlotInv
<1>11. Kept' \subseteq Kept
  BY <1>2, <1>3, <1>5 DEF Kept
<1>12. reader' \in [Readers -> Reader] /\ late' \in BOOLEAN
  <2>1. reader' \in [Readers -> Reader]
    BY DEF Gathered, PoolTyped, Reader
  <2>2. (late \/ closed) \in BOOLEAN
    BY Zenon
  <2> QED BY <2>1, <2>2 DEF Gathered
<1>13. PoolTyped'
  BY <1>1, <1>6, <1>12 DEF PoolTyped
<1> QED BY <1>1, <1>10, <1>11, <1>13 DEF Counted, Using

(* A refresh or a warm-up puts clients into slots that nobody has. *)
LEMMA SlotsAdded ==
    ASSUME PoolTyped, SlotInv, NEW new \in SUBSET (Ids \ Taken), NEW f, UNCHANGED req,
           \A i \in new : f[i] \in Slot /\ f[i].own \notin Requests /\ SlotOK(f[i], req),
           \A i \in new : slots'[i] = f[i], \A i \in Ids \ new : slots'[i] = slots[i],
           slots' = [i \in Ids |-> slots'[i]]
    PROVE  slots' \in [Ids -> Slot \cup {Nobody}] /\ SlotInv' /\ Kept' = Kept \cup new
<1>1. \A i \in new : f[i] # Nobody
  BY NamesAssumption DEF NamesAssumption
<1>2. Taken' = Taken \cup new
  BY <1>1 DEF Taken
<1>3. \A i \in Taken : i \in Ids /\ i \notin new /\ slots'[i] = slots[i]
  BY DEF Taken
<1>4. \A i \in Ids : slots'[i] \in Slot \cup {Nobody}
  BY DEF PoolTyped
<1>5. \A i \in Taken' : SlotOK(slots'[i], req')
  BY <1>2, <1>3 DEF SlotInv
<1>6. Sole'
  BY <1>2, <1>3 DEF SlotInv, Sole
<1>7. Served'
  BY <1>2, <1>3 DEF SlotInv, Served
<1>8. Kept' = Kept \cup new
  BY <1>2, <1>3 DEF Kept
<1> QED BY <1>4, <1>5, <1>6, <1>7, <1>8 DEF SlotInv

(* Refresh and Warmup but for the clients they add. *)
LEMMA ScanTyped ==
    ASSUME PoolTyped, NEW k \in Readers, Refresh(k) \/ Warmup(k)
    PROVE  /\ slots' \in [Ids -> Slot \cup {Nobody}] => PoolTyped'
           /\ Counted /\ req' = req
<1>1. UNCHANGED <<inUse, req, enabled, closed, drain, events, leaked, late>>
  BY DEF Refresh, Warmup
<1>2. accounts' \subseteq Accounts /\ cool' \subseteq Accounts
  <2>1. reader[k].found \subseteq Accounts
    BY DEF PoolTyped, Reader
  <2> QED BY <2>1 DEF Refresh, Warmup, Scan, PoolTyped
<1>3. /\ reader' \in [Readers -> Reader]
      /\ overfilled' \in BOOLEAN /\ starved' \in BOOLEAN /\ displaced' \in BOOLEAN
  <2>1. ASSUME Refresh(k)
        PROVE  /\ reader' \in [Readers -> Reader]
               /\ overfilled' \in BOOLEAN /\ starved' \in BOOLEAN /\ displaced' \in BOOLEAN
    <3>1. reader' \in [Readers -> Reader]
      <4>1. reader' = [reader EXCEPT ![k].at = "over", ![k].found = {}]
        BY <2>1 DEF Refresh
      <4> QED BY <4>1 DEF PoolTyped, Reader
    <3>2. (overfilled \/ ~Settled) \in BOOLEAN /\ OneOffs \in BOOLEAN
      BY NewTyped, Zenon
    <3>3. overfilled \in BOOLEAN /\ starved \in BOOLEAN /\ displaced \in BOOLEAN
      BY DEF PoolTyped
    <3> QED BY <2>1, <3>1, <3>2, <3>3 DEF Refresh
  <2>2. ASSUME Warmup(k)
        PROVE  /\ reader' \in [Readers -> Reader]
               /\ overfilled' \in BOOLEAN /\ starved' \in BOOLEAN /\ displaced' \in BOOLEAN
    <3>1. PICK t : /\ reader' = [reader EXCEPT ![k].at = IF t = 0 THEN "over" ELSE "warming",
                                               ![k].found = {}]
                   /\ starved' = (t = 0) /\ displaced' = (displaced /\ t = 0)
                   /\ overfilled' = (overfilled \/ Taken # {})
      BY <2>2 DEF Warmup
    <3>2. PICK a \in {"over", "warming"} : a = IF t = 0 THEN "over" ELSE "warming"
      OBVIOUS
    <3>3. reader' \in [Readers -> Reader]
      <4>1. reader' = [reader EXCEPT ![k].at = a, ![k].found = {}]
        BY <3>1, <3>2
      <4> QED BY <4>1 DEF PoolTyped, Reader
    <3>4. (t = 0) \in BOOLEAN /\ (displaced /\ t = 0) \in BOOLEAN /\ (overfilled \/ Taken # {}) \in BOOLEAN
      BY Zenon
    <3> QED BY <3>1, <3>3, <3>4
  <2> QED BY <2>1, <2>2
<1> QED BY <1>1, <1>2, <1>3 DEF PoolTyped, Counted, Using

LEMMA UnionBound ==
    ASSUME NEW S, NEW T, IsFiniteSet(S), IsFiniteSet(T)
    PROVE  /\ IsFiniteSet(S \cup T) /\ Cardinality(S \cup T) \in Nat
           /\ Cardinality(S \cup T) <= Cardinality(S) + Cardinality(T)
<1>1. S \cap T \in SUBSET S
  OBVIOUS
<1>2. IsFiniteSet(S \cap T)
  BY <1>1, FS_Subset
<1>3. /\ Cardinality(S) \in Nat /\ Cardinality(T) \in Nat /\ Cardinality(S \cap T) \in Nat
  BY <1>2, FS_CardinalityType
<1>4. /\ IsFiniteSet(S \cup T)
      /\ Cardinality(S \cup T) = Cardinality(S) + Cardinality(T) - Cardinality(S \cap T)
  BY FS_Union
<1> QED BY <1>3, <1>4, FS_CardinalityType

LEMMA FiniteSlots ==
    /\ IsFiniteSet(Ids) /\ IsFiniteSet(Taken) /\ IsFiniteSet(Kept)
    /\ \A states : IsFiniteSet(In(states)) /\ Number(states) \in Nat
    /\ \A S \in SUBSET Ids : IsFiniteSet(S) /\ Cardinality(S) \in Nat
<1>1. IsFiniteSet(Ids)
  BY FS_Interval DEF Ids
<1>2. \A S \in SUBSET Ids : IsFiniteSet(S) /\ Cardinality(S) \in Nat
  BY <1>1, FS_Subset, FS_CardinalityType
<1>3. Taken \in SUBSET Ids /\ Kept \in SUBSET Ids /\ \A states : In(states) \in SUBSET Ids
  BY DEF Taken, Kept, In
<1> QED BY <1>1, <1>2, <1>3 DEF Number

(* Where no slot is between two counts, the pool's clients are among those that
   a refresh counts. *)
LEMMA SettledCount ==
    ASSUME PoolTyped, SlotInv, UseInv, Settled
    PROVE  Cardinality(Kept) <= Available + Warming + inUse
<1> DEFINE I == In({"idle"})
           C == In({"connecting", "failing"})
           H == In({"held"})
<1>1. /\ IsFiniteSet(I) /\ IsFiniteSet(C) /\ IsFiniteSet(H) /\ IsFiniteSet(Kept)
      /\ Cardinality(I) \in Nat /\ Cardinality(C) \in Nat /\ Cardinality(H) \in Nat
      /\ Available = Cardinality(I) /\ Warming = Cardinality(C)
  BY FiniteSlots DEF Number, Available, Warming
<1>2. Kept \subseteq (I \cup C) \cup H
  <2> SUFFICES ASSUME NEW i \in Kept PROVE i \in (I \cup C) \cup H
    OBVIOUS
  <2>1. i \in Taken /\ slots[i].own \notin OneOff
    BY DEF Kept
  <2>2. slots[i].st \notin {"due", "pausing", "recovering", "gathered", "failed", "closing"}
    BY <2>1 DEF Settled, In
  <2>3. slots[i].st # "orphan"
    BY <2>1 DEF SlotInv, SlotOK, Serves
  <2> QED BY <2>1, <2>2, <2>3, SlotTyped DEF In
<1>3. Cardinality(H) <= Cardinality(Using)
  <2> DEFINE f == [i \in H |-> slots[i].own]
  <2>1. ASSUME NEW i \in H PROVE i \in Taken /\ slots[i].own \in Using
    BY DEF In, SlotInv, SlotOK, Serves, Using
  <2>2. f \in [H -> Using]
    BY <2>1
  <2>3. \A i, j \in H : f[i] = f[j] => i = j
    BY <2>1 DEF SlotInv, Sole, Using
  <2>4. IsFiniteSet(Using) /\ Cardinality(Using) \in Nat
    BY FS_CardinalityType DEF UseInv
  <2> HIDE DEF f, H
  <2>5. ~(Cardinality(Using) < Cardinality(H))
    BY <1>1, <2>2, <2>3, <2>4, FS_PigeonHole
  <2> QED BY <1>1, <2>4, <2>5
<1>4. /\ IsFiniteSet((I \cup C) \cup H)
      /\ Cardinality((I \cup C) \cup H) <= Cardinality(I) + Cardinality(C) + Cardinality(H)
  <2> HIDE DEF I, C, H
  <2>1. /\ IsFiniteSet(I \cup C) /\ Cardinality(I \cup C) \in Nat
        /\ Cardinality(I \cup C) <= Cardinality(I) + Cardinality(C)
    BY <1>1, UnionBound
  <2>2. /\ IsFiniteSet((I \cup C) \cup H) /\ Cardinality((I \cup C) \cup H) \in Nat
        /\ Cardinality((I \cup C) \cup H) <= Cardinality(I \cup C) + Cardinality(H)
    BY <1>1, <2>1, UnionBound
  <2> QED BY <1>1, <2>1, <2>2
<1>5. Cardinality(Kept) <= Cardinality((I \cup C) \cup H) /\ Cardinality(Kept) \in Nat
  <2> HIDE DEF I, C, H
  <2> QED BY <1>1, <1>2, <1>4, FS_Subset, FS_CardinalityType
<1>6. inUse = leaked + Cardinality(Using) /\ leaked \in Nat /\ Cardinality(Using) \in Nat
  BY FS_CardinalityType DEF UseInv, InUseIsHeld, Using, PoolTyped
<1>7. Cardinality((I \cup C) \cup H) \in Nat
  BY <1>4, FS_CardinalityType
<1> HIDE DEF I, C, H
<1> QED BY <1>1, <1>3, <1>4, <1>5, <1>6, <1>7

LEMMA RefreshKeeps ==
    ASSUME PoolTyped, SlotInv, UseInv, SizeInv, NEW k \in Readers, Refresh(k)
    PROVE  PoolTyped' /\ SlotInv' /\ Counted /\ SizeInv'
<1>1. CASE UNCHANGED <<slots, overfilled, starved, displaced>>
  <2>1. Taken' = Taken /\ Kept' = Kept /\ req' = req
    BY <1>1, ScanTyped DEF Taken, Kept
  <2>2. SlotInv' /\ SizeInv'
    BY <1>1, <2>1 DEF SlotInv, Sole, Served, SizeInv
  <2>3. slots' \in [Ids -> Slot \cup {Nobody}]
    BY <1>1 DEF PoolTyped
  <2> QED BY <2>2, <2>3, ScanTyped
<1>2. CASE /\ \E new \in First(Deficit) : slots' = [i \in Ids |-> IF i \in new THEN Due ELSE slots[i]]
           /\ overfilled' = (overfilled \/ ~Settled)
  <2>1. PICK new \in First(Deficit) : slots' = [i \in Ids |-> IF i \in new THEN Due ELSE slots[i]]
    BY <1>2
  <2>2. new \in SUBSET (Ids \ Taken) /\ Cardinality(new) = Deficit
    BY DEF First
  <2>3. /\ Due \in Slot /\ Due.own \notin Requests /\ SlotOK(Due, req)
    BY NewTyped DEF SlotOK
  <2>4. /\ \A i \in new : slots'[i] = Due
        /\ \A i \in Ids \ new : slots'[i] = slots[i]
        /\ slots' = [i \in Ids |-> slots'[i]]
    BY <2>1, <2>2
  <2>5. slots' \in [Ids -> Slot \cup {Nobody}] /\ SlotInv' /\ Kept' = Kept \cup new
    <3> DEFINE f == [i \in new |-> Due]
    <3>1. \A i \in new : f[i] = Due
      OBVIOUS
    <3>2. req' = req
      BY ScanTyped
    <3> HIDE DEF f
    <3> QED BY <2>2, <2>3, <2>4, <3>1, <3>2, SlotsAdded
  <2>6. SizeInv'
    <3>1. CASE overfilled'
      BY <3>1 DEF SizeInv
    <3>2. CASE ~overfilled'
      <4>1. Settled /\ Cardinality(Kept) <= PoolSize
        BY <1>2, <3>2 DEF SizeInv
      <4>2. Cardinality(Kept) <= Available + Warming + inUse
        BY <4>1, SettledCount
      <4>3. IsFiniteSet(new) /\ IsFiniteSet(Kept)
        BY <2>2, FiniteSlots
      <4>4. Cardinality(new) \in Nat /\ Cardinality(Kept) \in Nat
        BY <4>3, FS_CardinalityType
      <4>5. Available + Warming + inUse \in Nat
        BY FiniteSlots DEF Available, Warming, PoolTyped
      <4>6. Cardinality(Kept) + Cardinality(new) <= PoolSize
        BY <2>2, <4>1, <4>2, <4>4, <4>5 DEF Deficit
      <4>7. Cardinality(Kept \cup new) \in Nat /\ Cardinality(Kept \cup new) <= Cardinality(Kept) + Cardinality(new)
        BY <4>3, UnionBound
      <4>8. Cardinality(Kept \cup new) <= PoolSize
        BY <4>4, <4>6, <4>7
      <4> QED BY <2>5, <4>8 DEF SizeInv
    <3> QED BY <3>1, <3>2
  <2> QED BY <2>5, <2>6, ScanTyped
<1> QED BY <1>1, <1>2 DEF Refresh

LEMMA WarmupKeeps ==
    ASSUME PoolTyped, SlotInv, UseInv, SizeInv, NEW k \in Readers, Warmup(k)
    PROVE  PoolTyped' /\ SlotInv' /\ Counted /\ SizeInv'
<1>1. PICK m, t : /\ t = IF accounts' \ cool' = {} THEN 0 ELSE IF m < PoolSize THEN m ELSE PoolSize
                  /\ \E new \in First(t) : \E account \in [new -> accounts' \ cool'] :
                        slots' = [i \in Ids |-> IF i \in new THEN New("connecting", k, account[i], 1)
                                                ELSE slots[i]]
  BY DEF Warmup
<1>10. PICK new \in First(t) : \E account \in [new -> accounts' \ cool'] :
         slots' = [i \in Ids |-> IF i \in new THEN New("connecting", k, account[i], 1) ELSE slots[i]]
  BY <1>1
<1>2. PICK account \in [new -> accounts' \ cool'] :
         slots' = [i \in Ids |-> IF i \in new THEN New("connecting", k, account[i], 1) ELSE slots[i]]
  BY <1>10
<1>3. new \in SUBSET (Ids \ Taken) /\ Cardinality(new) = t
  BY DEF First
<1>4. accounts' \subseteq Accounts
  <2>1. reader[k].found \subseteq Accounts
    BY DEF PoolTyped, Reader
  <2> QED BY <2>1 DEF Warmup, Scan
<1> DEFINE f == [i \in new |-> New("connecting", k, account[i], 1)]
<1>5. ASSUME NEW i \in new
      PROVE  f[i] \in Slot /\ f[i].own \notin Requests /\ SlotOK(f[i], req)
  <2>1. account[i] \in Accounts /\ account[i] # Nobody /\ 1 \in 0..WarmRetries /\ k \notin Requests
    BY <1>4, NewTyped, NamesAssumption DEF NamesAssumption
  <2>2. f[i] \in Slot
    BY <2>1 DEF New, Slot
  <2>3. f[i].st = "connecting" /\ f[i].own = k /\ f[i].acct = account[i]
    BY DEF New
  <2> HIDE DEF f
  <2> QED BY <2>1, <2>2, <2>3 DEF SlotOK
<1>6. /\ \A i \in new : slots'[i] = f[i]
      /\ \A i \in Ids \ new : slots'[i] = slots[i]
      /\ slots' = [i \in Ids |-> slots'[i]]
  BY <1>2, <1>3
<1>7. req' = req
  BY ScanTyped
<1>8. slots' \in [Ids -> Slot \cup {Nobody}] /\ SlotInv' /\ Kept' = Kept \cup new
  <2> HIDE DEF f
  <2> QED BY <1>3, <1>5, <1>6, <1>7, SlotsAdded
<1>9. SizeInv'
  <2>1. CASE overfilled'
    BY <2>1 DEF SizeInv
  <2>2. CASE ~overfilled'
    <3>1. Taken = {}
      BY <2>2 DEF Warmup
    <3>2. Kept' = new
      BY <1>8, <3>1 DEF Kept
    <3>3. Cardinality(new) \in Nat
      BY <1>3, FiniteSlots
    <3>4. Cardinality(new) <= PoolSize
      BY <1>1, <1>3, <3>3
    <3> QED BY <3>2, <3>4 DEF SizeInv
  <2> QED BY <2>1, <2>2
<1> QED BY <1>8, <1>9, ScanTyped

----------------------------------------------------------------------------

(* The invariant: it holds at first, every step keeps it, the property follows. *)
LEMMA PoolInitInv == PoolInit => PoolInv
<1> SUFFICES ASSUME PoolInit PROVE PoolInv
  OBVIOUS
<1>1. Taken = {} /\ Kept = {}
  BY DEF PoolInit, Taken, Kept
<1>2. reader \in [Readers -> Reader] /\ drain \in [Loops -> Loop]
  BY DEF PoolInit, Reader, Loop
<1>3. PoolTyped
  <2>1. /\ slots = [i \in Ids |-> Nobody] /\ inUse = 0 /\ leaked = 0 /\ events = 0
        /\ req = [r \in Requests |-> "new"]
        /\ accounts = {} /\ enabled = Accounts /\ cool = {}
    BY DEF PoolInit
  <2>2. /\ closed \in BOOLEAN /\ overfilled \in BOOLEAN /\ starved \in BOOLEAN
        /\ displaced \in BOOLEAN /\ late \in BOOLEAN
    BY DEF PoolInit
  <2> QED BY <1>2, <2>1, <2>2 DEF PoolTyped, Turns
<1>4. SlotInv
  BY <1>1 DEF PoolInit, SlotInv, Sole, Served
<1>5. Using = {}
  BY DEF PoolInit, Using
<1>6. UseInv
  <2>1. IsFiniteSet({}) /\ Cardinality({}) = 0
    BY FS_EmptySet
  <2>2. inUse = 0 /\ leaked = 0
    BY DEF PoolInit
  <2>3. IsFiniteSet(Using) /\ inUse = leaked + Cardinality(Using)
    BY <1>5, <2>1, <2>2
  <2> QED BY <2>3 DEF UseInv, InUseIsHeld, Using
<1>7. SizeInv
  BY <1>1, FS_EmptySet DEF SizeInv
<1> QED BY <1>3, <1>4, <1>6, <1>7 DEF PoolInv

LEMMA PoolStep == PoolInv /\ [PoolNext]_poolVars => PoolInv'
<1> SUFFICES ASSUME PoolInv, [PoolNext]_poolVars PROVE PoolInv'
  OBVIOUS
<1>0. PoolTyped /\ SlotInv /\ UseInv /\ SizeInv
  BY DEF PoolInv
<1>1. ASSUME PoolTyped', SlotInv', Counted, SizeInv' PROVE PoolInv'
  BY <1>0, <1>1, UseStep DEF PoolInv
<1>2. ASSUME PoolTyped', SlotInv', Counted, Kept' \subseteq Kept, overfilled' = overfilled PROVE PoolInv'
  <2>1. IsFiniteSet(Kept) /\ Cardinality(Kept) \in Nat
    BY FiniteSlots, FS_CardinalityType
  <2>2. Cardinality(Kept') <= Cardinality(Kept) /\ Cardinality(Kept') \in Nat
    BY <1>2, <2>1, FS_Subset, FS_CardinalityType
  <2>3. SizeInv'
    BY <1>0, <1>2, <2>1, <2>2 DEF SizeInv
  <2> QED BY <1>1, <1>2, <2>3
<1>3. ASSUME NEW i \in Taken, Connects(i) PROVE PoolInv'
  BY <1>0, <1>2, <1>3, ConnectsKeeps
<1>4. ASSUME NEW i \in Taken, ConnectFails(i) \/ CreateRaises(i) \/ Again(i) \/ Recovers(i) PROVE PoolInv'
  BY <1>0, <1>2, <1>4, FailsKeeps
<1>5. ASSUME NEW i \in Taken, StartsWarming(i) \/ Disconnected(i) PROVE PoolInv'
  BY <1>0, <1>2, <1>5, WarmsKeeps
<1>6. ASSUME NEW i \in Taken, OneOffFails(i) \/ OneOffCancelled(i) \/ Release(i) PROVE PoolInv'
  BY <1>0, <1>2, <1>6, ReleaseKeeps
<1>7. ASSUME NEW i \in Taken, NEW l \in Loops, DrainOne(l, i) PROVE PoolInv'
  BY <1>0, <1>2, <1>7, DrainOneKeeps
<1>8. ASSUME NEW r \in Requests, Acquire(r) \/ IsWoken(r) \/ StopsWaiting(r) PROVE PoolInv'
  BY <1>0, <1>2, <1>8, AcquireKeeps
<1>9. ASSUME NEW r \in Requests, AcquireOneOff(r) PROVE PoolInv'
  BY <1>0, <1>2, <1>9, AcquireOneOffKeeps
<1>10. ASSUME NEW k \in Readers, Gathered(k) PROVE PoolInv'
  BY <1>0, <1>2, <1>10, GatheredKeeps
<1>11. ASSUME NEW k \in Readers, Refresh(k) PROVE PoolInv'
  BY <1>0, <1>1, <1>11, RefreshKeeps
<1>12. ASSUME NEW k \in Readers, Warmup(k) PROVE PoolInv'
  BY <1>0, <1>1, <1>12, WarmupKeeps
<1>13. ASSUME NEW i \in Taken, Exhaust(i) PROVE PoolInv'
  BY <1>0, <1>2, <1>13, OtherKeeps
<1>14. ASSUME NEW a \in Accounts, CoolsDown(a) \/ \E k \in Readers : Toggle(a, k) PROVE PoolInv'
  BY <1>0, <1>2, <1>14, OtherKeeps
<1>15. ASSUME NEW k \in Readers, Read(k) PROVE PoolInv'
  BY <1>0, <1>2, <1>15, OtherKeeps
<1>16. ASSUME NEW l \in Loops, Drained(l) PROVE PoolInv'
  BY <1>0, <1>2, <1>16, OtherKeeps
<1>17. CASE (\E always \in BOOLEAN : Reload(always)) \/ Shutdown \/ UNCHANGED poolVars
  BY <1>0, <1>2, <1>17, OtherKeeps
<1>18. CASE PoolProgress
  <2>1. ASSUME NEW i \in Taken,
               \/ Connects(i) \/ CreateRaises(i) \/ Again(i) \/ Recovers(i) \/ StartsWarming(i)
               \/ Disconnected(i) \/ OneOffFails(i) \/ Release(i)
               \/ \E l \in Loops : DrainOne(l, i)
        PROVE  PoolInv'
    BY <1>3, <1>4, <1>5, <1>6, <1>7, <2>1
  <2>2. ASSUME NEW r \in Requests, IsWoken(r) PROVE PoolInv'
    BY <1>8, <2>2
  <2>3. ASSUME NEW k \in Readers, Read(k) \/ Refresh(k) \/ Warmup(k) \/ Gathered(k) PROVE PoolInv'
    BY <1>10, <1>11, <1>12, <1>15, <2>3
  <2> QED BY <1>16, <1>18, <2>1, <2>2, <2>3, Zenon DEF PoolProgress
<1>19. CASE PoolNext /\ ~PoolProgress
  <2>1. ASSUME NEW i \in Taken, ConnectFails(i) \/ OneOffCancelled(i) \/ Exhaust(i) PROVE PoolInv'
    BY <1>4, <1>6, <1>13, <2>1
  <2>2. ASSUME NEW r \in Requests, Acquire(r) \/ StopsWaiting(r) \/ AcquireOneOff(r) PROVE PoolInv'
    BY <1>8, <1>9, <2>2
  <2> QED BY <1>14, <1>17, <1>19, <2>1, <2>2, Zenon DEF PoolNext
<1> QED BY <1>17, <1>18, <1>19, Zenon

LEMMA PoolInvAccounted == PoolInv => PoolIsAccounted
<1> SUFFICES ASSUME PoolInv PROVE PoolIsAccounted
  OBVIOUS
<1>1. PoolTyped /\ SlotInv /\ UseInv /\ SizeInv
  BY DEF PoolInv
<1>2. \A r \in Requests : req[r] = "held" <=> \E i \in Taken : slots[i].st = "held" /\ slots[i].own = r
  BY <1>1 DEF SlotInv, Served, SlotOK, Serves
<1>3. PoolTypeOK
  BY <1>1, <1>2 DEF PoolTypeOK, PoolTyped, Turns, Reader, Loop
<1>4. PoolBounded
  <2>1. {i \in Clients : slots[i].own \notin OneOff} \subseteq Kept
    BY DEF Clients, In, Kept
  <2>2. IsFiniteSet(Kept) /\ Cardinality(Kept) \in Nat
    BY FiniteSlots, FS_CardinalityType
  <2>3. Pooled \in Nat /\ Pooled <= Cardinality(Kept)
    BY <2>1, <2>2, FS_Subset, FS_CardinalityType DEF Pooled
  <2> QED BY <1>1, <2>2, <2>3 DEF PoolBounded, SizeInv
<1> QED BY <1>1, <1>3, <1>4 DEF PoolIsAccounted, UseInv

(* The pool keeps no more clients than its size while no slots were added beside
   others in transit, and _in_use counts the clients that runs hold or have
   ordered, over any number of releases, failures, retries, refreshes, drains
   and shut-downs. *)
THEOREM PoolAccounted == PoolSpec => []PoolIsAccounted
<1>1. PoolSpec => []PoolInv
  BY PoolInitInv, PoolStep, PTL DEF PoolSpec
<1> QED BY <1>1, PoolInvAccounted, PTL
====
