---- MODULE BoundedActionsProofs ----
(***************************************************************************)
(* Theorems about BoundedActions, for any runs, workers, actions and       *)
(* bounds.                                                                 *)
(***************************************************************************)
EXTENDS BoundedActions, TLAPS

USE RunsAssumption, WorkersAssumption, AllowedAssumption, NoneAssumption, BudgetAssumption
    DEF RunsAssumption, WorkersAssumption, AllowedAssumption, NoneAssumption,
        BudgetAssumption

RunDocs == [status : RunStatuses, step : 0..MaxSteps, dec : Decisions,
            lease : Workers \cup {None}, fresh : BOOLEAN, dry : BOOLEAN]
Approvals == [prop : Proposals, version : 1..(MaxEdits + 1), late : BOOLEAN]
Ticks == [at : Places, run : Runs \cup {None}, step : 0..MaxSteps,
          dec : Decisions, prop : Proposals]

(* An approval whose status says that its write may have been carried out. *)
Taken == {"executing", "executed", "uncertain"}

(* What may be sent under an approval: the policy allows it, or the owner did. *)
MaySend(i, exact) == exact \in Allowed \/ <<i, exact>> \in consented

(* Approved, for the action it names now. *)
Cleared(i) == Doc(i).status = "approved" /\ Doc(i).approved = Doc(i).exact

(* A worker that has claimed an approval and not yet heard of its outcome. *)
Claiming(w) == wk[w].at \in {"sending", "calling"}

(* A run parks only inside its budget. *)
RunInv == \A r \in Runs : run[r].status = "parked" => run[r].step < MaxSteps

(* What a worker knows at the place where it is. *)
TickOK(t) ==
    /\ t.at # "idle" => t.run \in Runs
    /\ t.at \notin {"idle", "checking", "failing"} => t.step < MaxSteps
    /\ t.at \in {"proposing", "listing", "upserting"} => t.dec \in Exacts
    /\ t.at = "allowing" => t.prop.exact \in Allowed
    /\ t.at = "recording" => t.prop.status \in {"executed", "uncertain"}
WorkInv == \A w \in Workers : TickOK(wk[w])

(* A saved approval names an action; an approved one names one that may be sent. *)
DocInv ==
    \A i \in Ids : /\ Doc(i).status # "none" => Doc(i).exact \in Exacts
                   /\ Cleared(i) => MaySend(i, Doc(i).exact)

(* The owner's click is on a saved approval, and speaks of the version he saw. *)
ClickInv ==
    click.at \in {"seen", "read"} =>
        /\ click.id \in Ids /\ click.choice # "none"
        /\ Doc(click.id).status # "none"
        /\ click.version <= appr[click.id].version
        /\ click.choice = "approved" /\ click.version = appr[click.id].version
             => <<click.id, Doc(click.id).exact>> \in consented

(* One worker per claimed approval, for the action the approval names. *)
ClaimInv ==
    /\ \A w \in Workers : Claiming(w) =>
         /\ Doc(Id(w)).status \in Taken
         /\ Doc(Id(w)).exact = wk[w].prop.exact
         /\ MaySend(Id(w), wk[w].prop.exact)
    /\ \A v, w \in Workers : Claiming(v) /\ Claiming(w) /\ Id(v) = Id(w) => v = w

(* What was sent is on record, and could be sent. *)
SentInv ==
    \A s \in sent : /\ Doc(s[1]).status \in Taken
                    /\ Doc(s[1]).exact = s[2]
                    /\ MaySend(s[1], s[2])

(* A version is an edit. *)
EditInv == \A i \in Ids : appr[i].version <= edits + 1

TypeInv == TypeOK /\ RunInv /\ WorkInv /\ EditInv
IInv == TypeInv /\ DocInv /\ ClickInv /\ ClaimInv /\ SentInv

----------------------------------------------------------------------------
(* Updates of the records keep them well formed. *)

LEMMA TypeOKParts ==
    TypeOK <=> /\ run \in [Runs -> RunDocs] /\ appr \in [Ids -> Approvals]
               /\ wk \in [Workers -> Ticks]
               /\ active \in Runs \cup {None} /\ granted \in BOOLEAN
               /\ ready \subseteq Runs
               /\ click \in [at : {"none", "seen", "read", "requeue"}, id : Ids \cup {None},
                             version : 0..(MaxEdits + 1), exact : Exacts \cup {None},
                             choice : {"none", "approved", "rejected", "cancelled"}]
               /\ cancelling \in Runs \cup {None}
               /\ edits \in 0..MaxEdits /\ crashes \in 0..MaxCrashes
               /\ sent \subseteq Ids \X Exacts /\ consented \subseteq Ids \X Exacts
               /\ edited \subseteq Ids
<1> QED BY DEF TypeOK, RunDocs, Approvals, Ticks

LEMMA TickUpdates ==
    ASSUME NEW t \in Ticks
    PROVE  /\ \A p \in Places : [t EXCEPT !.at = p] \in Ticks
           /\ \A p \in Places, q \in Proposals : [t EXCEPT !.at = p, !.prop = q] \in Ticks
           /\ \A p \in Places, d \in Decisions : [t EXCEPT !.at = p, !.dec = d] \in Ticks
<1> QED BY Zenon DEF Ticks

LEMMA IdleTyped == Idle \in Ticks /\ NoProposal \in Proposals
<1>1. NoProposal \in Proposals
  BY DEF NoProposal, Proposals, ApprStatuses
<1>2. 0 \in 0..MaxSteps
  OBVIOUS
<1> QED BY <1>1, <1>2, Zenon DEF Idle, Ticks, Places, Decisions

(* A worker in a place, with what it knew. *)
LEMMA GoMoves ==
    ASSUME wk \in [Workers -> Ticks], NEW w \in Workers, NEW place \in Places,
           Go(w, place)
    PROVE  /\ wk' \in [Workers -> Ticks]
           /\ \A v \in Workers \ {w} : wk'[v] = wk[v]
           /\ wk'[w].at = place /\ wk'[w].run = wk[w].run /\ wk'[w].step = wk[w].step
           /\ wk'[w].dec = wk[w].dec /\ wk'[w].prop = wk[w].prop
<1>1. wk' = [wk EXCEPT ![w] = [wk[w] EXCEPT !.at = place]]
  BY Zenon DEF Go
<1>2. [wk[w] EXCEPT !.at = place] \in Ticks
  BY TickUpdates, Zenon
<1>3. wk' \in [Workers -> Ticks] /\ \A v \in Workers \ {w} : wk'[v] = wk[v]
  BY <1>1, <1>2, Zenon
<1>4. wk'[w] = [wk[w] EXCEPT !.at = place] /\ wk[w] \in Ticks
  BY <1>1, Zenon
<1>5. /\ wk'[w].at = place /\ wk'[w].run = wk[w].run /\ wk'[w].step = wk[w].step
      /\ wk'[w].dec = wk[w].dec /\ wk'[w].prop = wk[w].prop
  BY <1>4 DEF Ticks
<1> QED BY <1>3, <1>5, Zenon

(* A worker in a place, with the proposal it has read or written. *)
LEMMA LearnMoves ==
    ASSUME wk \in [Workers -> Ticks], NEW w \in Workers, NEW place \in Places,
           NEW q \in Proposals, Learn(w, place, q)
    PROVE  /\ wk' \in [Workers -> Ticks]
           /\ \A v \in Workers \ {w} : wk'[v] = wk[v]
           /\ wk'[w].at = place /\ wk'[w].run = wk[w].run /\ wk'[w].step = wk[w].step
           /\ wk'[w].dec = wk[w].dec /\ wk'[w].prop = q
<1>1. wk' = [wk EXCEPT ![w] = [wk[w] EXCEPT !.at = place, !.prop = q]]
  BY Zenon DEF Learn
<1>2. [wk[w] EXCEPT !.at = place, !.prop = q] \in Ticks
  BY TickUpdates, Zenon
<1>3. wk' \in [Workers -> Ticks] /\ \A v \in Workers \ {w} : wk'[v] = wk[v]
  BY <1>1, <1>2, Zenon
<1>4. wk'[w] = [wk[w] EXCEPT !.at = place, !.prop = q] /\ wk[w] \in Ticks
  BY <1>1, Zenon
<1>5. /\ wk'[w].at = place /\ wk'[w].run = wk[w].run /\ wk'[w].step = wk[w].step
      /\ wk'[w].dec = wk[w].dec /\ wk'[w].prop = q
  BY <1>4 DEF Ticks
<1> QED BY <1>3, <1>5, Zenon

(* A worker without a run. *)
LEMMA LeaveMoves ==
    ASSUME wk \in [Workers -> Ticks], NEW w \in Workers, Leave(w)
    PROVE  /\ wk' \in [Workers -> Ticks]
           /\ \A v \in Workers \ {w} : wk'[v] = wk[v]
           /\ wk'[w].at = "idle"
<1> QED BY IdleTyped, Zenon DEF Leave, Idle

LEMMA RunUpdates ==
    ASSUME NEW d \in RunDocs
    PROVE  /\ \A s \in RunStatuses : [d EXCEPT !.status = s] \in RunDocs
           /\ \A e \in Decisions : [d EXCEPT !.dec = e] \in RunDocs
           /\ [d EXCEPT !.fresh = FALSE] \in RunDocs
           /\ \A s \in RunStatuses : [d EXCEPT !.status = s, !.lease = None, !.fresh = FALSE] \in RunDocs
           /\ \A s \in RunStatuses, w \in Workers :
                [d EXCEPT !.status = s, !.lease = w, !.fresh = TRUE] \in RunDocs
           /\ \A s \in RunStatuses, n \in 0..MaxSteps, e \in Decisions :
                /\ [d EXCEPT !.status = s, !.step = n, !.dec = e] \in RunDocs
                /\ [d EXCEPT !.status = s, !.step = n, !.dec = e,
                             !.lease = None, !.fresh = FALSE] \in RunDocs
<1>1. TRUE \in BOOLEAN /\ FALSE \in BOOLEAN /\ None \in Workers \cup {None}
  OBVIOUS
<1>2. \A w \in Workers : w \in Workers \cup {None}
  OBVIOUS
<1> QED BY <1>1, <1>2, Zenon DEF RunDocs

(* One run's document replaced; a parked one keeps inside its budget. *)
LEMMA RunReplaced ==
    ASSUME run \in [Runs -> RunDocs], RunInv, NEW r \in Runs, NEW d \in RunDocs,
           run' = [run EXCEPT ![r] = d], d.status = "parked" => d.step < MaxSteps
    PROVE  run' \in [Runs -> RunDocs] /\ RunInv'
<1> QED BY DEF RunInv

(* What is left of a run that ended is not parked. *)
LEMMA EndedRuns ==
    ASSUME run \in [Runs -> RunDocs], RunInv, NEW r \in Runs, NEW s \in Terminal,
           run' = Ended(r, s)
    PROVE  run' \in [Runs -> RunDocs] /\ RunInv'
<1>1. s \in RunStatuses /\ s # "parked"
  BY DEF Terminal, RunStatuses
<1>2. run' = [run EXCEPT ![r] = [run[r] EXCEPT !.status = s, !.lease = None, !.fresh = FALSE]]
  BY Zenon DEF Ended
<1>3. [run[r] EXCEPT !.status = s, !.lease = None, !.fresh = FALSE] \in RunDocs
  BY <1>1, RunUpdates, Zenon
<1>4. [run[r] EXCEPT !.status = s, !.lease = None, !.fresh = FALSE].status # "parked"
  BY <1>1 DEF RunDocs
<1> QED BY <1>2, <1>3, <1>4, RunReplaced, Zenon

(* A write to the run by its worker, or its failure. *)
LEMMA AdvanceMoves ==
    ASSUME run \in [Runs -> RunDocs], RunInv, wk \in [Workers -> Ticks], NEW w \in Workers,
           wk[w].run \in Runs, NEW s \in RunStatuses, NEW n \in 0..MaxSteps, NEW e \in Decisions,
           s = "parked" => n < MaxSteps, Advance(w, s, n, e)
    PROVE  /\ run' \in [Runs -> RunDocs] /\ RunInv'
           /\ wk' \in [Workers -> Ticks]
           /\ \A v \in Workers \ {w} : wk'[v] = wk[v]
           /\ wk'[w].at \in {"idle", "failing"}
           /\ wk'[w].at = "failing" => wk'[w].run = wk[w].run
<1>1. CASE Holds(w)
  <2> DEFINE d == [run[wk[w].run] EXCEPT !.status = s, !.step = n, !.dec = e,
                                         !.lease = None, !.fresh = FALSE]
  <2>1. run' = [run EXCEPT ![wk[w].run] = d] /\ Leave(w)
    BY <1>1, Zenon DEF Advance
  <2>2. d \in RunDocs
    BY RunUpdates, Zenon
  <2>3. d.status = s /\ d.step = n
    BY DEF RunDocs
  <2> HIDE DEF d
  <2>4. run' \in [Runs -> RunDocs] /\ RunInv'
    BY <2>1, <2>2, <2>3, RunReplaced, Zenon
  <2> QED BY <2>1, <2>4, LeaveMoves, Zenon
<1>2. CASE ~Holds(w)
  <2>1. Go(w, "failing") /\ UNCHANGED run
    BY <1>2, Zenon DEF Advance
  <2>2. RunInv'
    BY <2>1 DEF RunInv
  <2>3. "failing" \in Places
    BY DEF Places
  <2> QED BY <2>1, <2>2, <2>3, GoMoves, Zenon
<1> QED BY <1>1, <1>2

----------------------------------------------------------------------------
(* What any step does to an approval. *)

DocStep(i) ==
    /\ \/ appr'[i].version = appr[i].version
       \/ appr'[i].version = appr[i].version + 1 /\ edits' = edits + 1
    /\ Doc(i).status # "none" => Doc(i)'.status # "none"
    /\ Doc(i).status # "none" /\ appr'[i].version = appr[i].version
         => Doc(i)'.exact = Doc(i).exact
    /\ Doc(i).status \notin {"none", "pending", "approved"}
         => Doc(i)'.status \notin {"none", "pending", "approved"}
    /\ Doc(i).status \in Taken => Doc(i)'.status \in Taken /\ Doc(i)'.exact = Doc(i).exact
    /\ (Doc(i).status # "none" => Doc(i).exact \in Exacts)
         => (Doc(i)'.status # "none" => Doc(i)'.exact \in Exacts)

(* It is only cleared for what was cleared before, or may be sent. *)
ClearStep(i) ==
    Cleared(i)' => \/ Cleared(i) /\ Doc(i)'.exact = Doc(i).exact
                   \/ MaySend(i, Doc(i)'.exact)

DocSteps == appr' \in [Ids -> Approvals] /\ \A i \in Ids : DocStep(i) /\ ClearStep(i)

LEMMA NoDocStep == appr \in [Ids -> Approvals] /\ UNCHANGED appr => DocSteps
<1> QED BY DEF DocSteps, DocStep, ClearStep, Cleared, Doc, Approvals

LEMMA ProposalUpdates ==
    ASSUME NEW a \in Approvals
    PROVE  /\ \A q \in Proposals : [a EXCEPT !.prop = q] \in Approvals
           /\ \A s \in ApprStatuses : [a EXCEPT !.prop.status = s] \in Approvals
           /\ [a EXCEPT !.late = TRUE] \in Approvals
<1>1. \A q \in Proposals : [a EXCEPT !.prop = q] \in Approvals
  BY Zenon DEF Approvals
<1>2. a.prop \in Proposals
  BY DEF Approvals
<1>3. \A s \in ApprStatuses : [a.prop EXCEPT !.status = s] \in Proposals
  BY <1>2, Zenon DEF Proposals
<1>4. \A s \in ApprStatuses :
        [a EXCEPT !.prop.status = s] = [a EXCEPT !.prop = [a.prop EXCEPT !.status = s]]
  BY Zenon DEF Approvals
<1>5. [a EXCEPT !.late = TRUE] \in Approvals
  BY Zenon DEF Approvals
<1> QED BY <1>1, <1>3, <1>4, <1>5, Zenon

(* A new status that clears nothing, for open approvals or a claimed one. *)
LEMMA StatusSteps ==
    ASSUME appr \in [Ids -> Approvals], NEW S, NEW old,
           NEW new \in ApprStatuses \ {"none", "pending", "approved"},
           SetStatusOf(S, old, new),
           \A i \in Ids : i \in S /\ Doc(i).status \in old =>
               \/ Doc(i).status \in {"pending", "approved"}
               \/ Doc(i).status = "executing" /\ new \in Taken
    PROVE  /\ DocSteps
           /\ \A i \in S \cap Ids : Doc(i).status \in old =>
                Doc(i)'.status = new /\ Doc(i)'.exact = Doc(i).exact
<1>1. ASSUME NEW i \in Ids
      PROVE  /\ appr'[i] \in Approvals
             /\ appr'[i].version = appr[i].version
             /\ Doc(i)'.exact = Doc(i).exact /\ Doc(i)'.approved = Doc(i).approved
             /\ Doc(i)'.status = IF i \in S /\ Doc(i).status \in old THEN new ELSE Doc(i).status
  <2>1. appr[i] \in Approvals /\ appr[i].prop \in Proposals
    BY DEF Approvals
  <2>2. CASE i \in S /\ Doc(i).status \in old
    <3>1. appr'[i] = [appr[i] EXCEPT !.prop.status = new]
      BY <2>2, Zenon DEF SetStatusOf
    <3>2. appr'[i] \in Approvals
      BY <3>1, <2>1, ProposalUpdates, Zenon
    <3>3. /\ appr'[i].version = appr[i].version
          /\ appr'[i].prop = [appr[i].prop EXCEPT !.status = new]
      BY <3>1, <2>1 DEF Approvals
    <3>4. /\ appr'[i].prop.status = new /\ appr'[i].prop.exact = appr[i].prop.exact
          /\ appr'[i].prop.approved = appr[i].prop.approved
      BY <3>3, <2>1 DEF Proposals
    <3> QED BY <2>2, <3>2, <3>3, <3>4 DEF Doc
  <2>3. CASE ~(i \in S /\ Doc(i).status \in old)
    <3>1. appr'[i] = appr[i]
      BY <2>3, Zenon DEF SetStatusOf
    <3> QED BY <2>1, <2>3, <3>1 DEF Doc
  <2> QED BY <2>2, <2>3
<1>2. appr' \in [Ids -> Approvals]
  <2>1. appr' = [i \in Ids |-> appr'[i]]
    BY Zenon DEF SetStatusOf
  <2> QED BY <2>1, <1>1, Zenon
<1>3. ASSUME NEW i \in Ids PROVE DocStep(i) /\ ClearStep(i)
  <2>1. appr[i].version \in 1..(MaxEdits + 1)
    BY DEF Approvals
  <2>2. DocStep(i)
    BY <1>1, <2>1 DEF DocStep, Taken
  <2>3. ClearStep(i)
    BY <1>1 DEF ClearStep, Cleared
  <2> QED BY <2>2, <2>3
<1> QED BY <1>1, <1>2, <1>3 DEF DocSteps

(* One approval's proposal replaced. *)
LEMMA ProposalReplaced ==
    ASSUME appr \in [Ids -> Approvals], NEW i \in Ids, NEW q \in Proposals, SetDoc(i, q)
    PROVE  /\ appr' \in [Ids -> Approvals]
           /\ Doc(i)' = q /\ appr'[i].version = appr[i].version
           /\ \A j \in Ids \ {i} : appr'[j] = appr[j]
           /\ DocStep(i) /\ ClearStep(i) => DocSteps
<1>1. appr' = [appr EXCEPT ![i] = [appr[i] EXCEPT !.prop = q]]
  BY Zenon DEF SetDoc
<1>2. [appr[i] EXCEPT !.prop = q] \in Approvals
  BY ProposalUpdates, Zenon
<1>3. appr' \in [Ids -> Approvals] /\ \A j \in Ids \ {i} : appr'[j] = appr[j]
  BY <1>1, <1>2, Zenon
<1>4. appr'[i] = [appr[i] EXCEPT !.prop = q] /\ appr[i] \in Approvals
  BY <1>1, Zenon
<1>5. Doc(i)' = q /\ appr'[i].version = appr[i].version
  BY <1>4 DEF Approvals, Doc
<1>6. \A j \in Ids \ {i} : DocStep(j) /\ ClearStep(j)
  <2> TAKE j \in Ids \ {i}
  <2>1. appr'[j] = appr[j] /\ appr[j].version \in 1..(MaxEdits + 1)
    BY <1>3 DEF Approvals
  <2> QED BY <2>1 DEF DocStep, ClearStep, Cleared, Doc
<1> QED BY <1>3, <1>5, <1>6 DEF DocSteps

----------------------------------------------------------------------------
(* What a step of a worker does. *)

(* It enters the provider call only from an approval it found cleared, for the
   action that approval names, and marks it. *)
ClaimMove(w) ==
    Claiming(w)' =>
        /\ Id(w)' = Id(w) /\ wk'[w].prop = wk[w].prop
        /\ \/ Claiming(w)
           \/ /\ Cleared(Id(w)) /\ Doc(Id(w)).exact = wk[w].prop.exact
              /\ appr'[Id(w)].prop.status = "executing"
              /\ appr'[Id(w)].prop.exact = wk[w].prop.exact

(* It calls the provider only with the authority just read. *)
CallMove(w) == wk'[w].at = "calling" => wk[w].at = "sending" /\ Id(w)' = Id(w) /\ Authorized(w)

TickMove(w) ==
    /\ run' \in [Runs -> RunDocs] /\ RunInv'
    /\ wk' \in [Workers -> Ticks]
    /\ \A v \in Workers \ {w} : wk'[v] = wk[v]
    /\ TickOK(wk'[w])
    /\ ClaimMove(w) /\ CallMove(w)

LEMMA GoTicks ==
    ASSUME TypeInv, NEW w \in Workers, wk[w].run \in Runs,
           NEW place \in Places \ {"idle", "recording"}, Go(w, place),
           run' \in [Runs -> RunDocs], RunInv',
           place \notin {"checking", "failing"} => wk[w].step < MaxSteps,
           place \in {"proposing", "listing", "upserting"} => wk[w].dec \in Exacts,
           place = "allowing" => wk[w].prop.exact \in Allowed,
           place = "calling" => wk[w].at = "sending" /\ Authorized(w),
           place \in {"sending", "calling"} =>
             \/ Claiming(w)
             \/ /\ Cleared(Id(w)) /\ Doc(Id(w)).exact = wk[w].prop.exact
                /\ appr'[Id(w)].prop.status = "executing"
                /\ appr'[Id(w)].prop.exact = wk[w].prop.exact
    PROVE  TickMove(w)
<1>1. wk \in [Workers -> Ticks] /\ place \in Places
  BY TypeOKParts, Zenon DEF TypeInv
<1>2. /\ wk' \in [Workers -> Ticks]
      /\ \A v \in Workers \ {w} : wk'[v] = wk[v]
      /\ wk'[w].at = place /\ wk'[w].run = wk[w].run /\ wk'[w].step = wk[w].step
      /\ wk'[w].dec = wk[w].dec /\ wk'[w].prop = wk[w].prop
  BY <1>1, GoMoves, Zenon
<1>3. TickOK(wk'[w])
  BY <1>2 DEF TickOK
<1>4. ClaimMove(w) /\ CallMove(w)
  BY <1>2 DEF ClaimMove, CallMove, Claiming, Id
<1> QED BY <1>2, <1>3, <1>4 DEF TickMove

LEMMA LearnTicks ==
    ASSUME TypeInv, NEW w \in Workers, wk[w].run \in Runs,
           NEW place \in Places \ {"idle", "allowing", "proposing", "listing", "upserting",
                                   "sending", "calling"},
           NEW q \in Proposals, Learn(w, place, q),
           run' \in [Runs -> RunDocs], RunInv',
           wk[w].step < MaxSteps,
           place = "recording" => q.status \in {"executed", "uncertain"}
    PROVE  TickMove(w)
<1>1. wk \in [Workers -> Ticks] /\ place \in Places
  BY TypeOKParts, Zenon DEF TypeInv
<1>2. /\ wk' \in [Workers -> Ticks]
      /\ \A v \in Workers \ {w} : wk'[v] = wk[v]
      /\ wk'[w].at = place /\ wk'[w].run = wk[w].run /\ wk'[w].step = wk[w].step
      /\ wk'[w].dec = wk[w].dec /\ wk'[w].prop = q
  BY <1>1, LearnMoves, Zenon
<1>3. TickOK(wk'[w])
  BY <1>2 DEF TickOK
<1>4. ClaimMove(w) /\ CallMove(w)
  BY <1>2 DEF ClaimMove, CallMove, Claiming
<1> QED BY <1>2, <1>3, <1>4 DEF TickMove

LEMMA AdvanceTicks ==
    ASSUME TypeInv, NEW w \in Workers, wk[w].run \in Runs,
           NEW s \in RunStatuses, NEW n \in 0..MaxSteps, NEW e \in Decisions,
           s = "parked" => n < MaxSteps, Advance(w, s, n, e)
    PROVE  TickMove(w)
<1>1. wk \in [Workers -> Ticks] /\ run \in [Runs -> RunDocs] /\ RunInv
  BY TypeOKParts, Zenon DEF TypeInv
<1>2. /\ run' \in [Runs -> RunDocs] /\ RunInv'
      /\ wk' \in [Workers -> Ticks]
      /\ \A v \in Workers \ {w} : wk'[v] = wk[v]
      /\ wk'[w].at \in {"idle", "failing"}
      /\ wk'[w].at = "failing" => wk'[w].run = wk[w].run
  BY <1>1, AdvanceMoves, Zenon
<1>3. TickOK(wk'[w])
  BY <1>2 DEF TickOK
<1>4. ClaimMove(w) /\ CallMove(w)
  BY <1>2 DEF ClaimMove, CallMove, Claiming
<1> QED BY <1>2, <1>3, <1>4 DEF TickMove

LEMMA LeaveTicks ==
    ASSUME TypeInv, NEW w \in Workers, Leave(w), run' \in [Runs -> RunDocs], RunInv'
    PROVE  TickMove(w)
<1>1. wk \in [Workers -> Ticks]
  BY TypeOKParts, Zenon DEF TypeInv
<1>2. /\ wk' \in [Workers -> Ticks]
      /\ \A v \in Workers \ {w} : wk'[v] = wk[v]
      /\ wk'[w].at = "idle"
  BY <1>1, LeaveMoves, Zenon
<1>3. TickOK(wk'[w])
  BY <1>2 DEF TickOK
<1>4. ClaimMove(w) /\ CallMove(w)
  BY <1>2 DEF ClaimMove, CallMove, Claiming
<1> QED BY <1>2, <1>3, <1>4 DEF TickMove

(* The steps of a worker up to its proposal. *)
LEMMA PlanningSteps ==
    ASSUME TypeInv, NEW w \in Workers,
           \/ \E r \in Runs : Lease(w, r)
           \/ Checks(w) \/ PlannerAnswers(w) \/ PlannerFails(w) \/ RechecksAfterPlanning(w)
           \/ SavesDecision(w) \/ Acts(w) \/ ProposalAllowed(w) \/ ChecksHistory(w)
    PROVE  TickMove(w) /\ DocSteps
<1>1. /\ wk \in [Workers -> Ticks] /\ run \in [Runs -> RunDocs] /\ RunInv
      /\ appr \in [Ids -> Approvals]
  BY TypeOKParts, Zenon DEF TypeInv
<1>2. TickOK(wk[w]) /\ wk[w] \in Ticks
  BY <1>1, Zenon DEF TypeInv, WorkInv
<1>3. DocSteps
  <2>1. UNCHANGED appr
    BY Zenon DEF Lease, Checks, PlannerAnswers, PlannerFails, RechecksAfterPlanning,
                 SavesDecision, Acts, ProposalAllowed, ChecksHistory
  <2> QED BY <2>1, <1>1, NoDocStep, Zenon
<1>4. UNCHANGED run => run' \in [Runs -> RunDocs] /\ RunInv'
  BY <1>1 DEF RunInv
<1>5. /\ wk[w].step \in 0..MaxSteps /\ wk[w].dec \in Decisions
      /\ wk[w].at # "idle" => wk[w].run \in Runs
  BY <1>2 DEF Ticks, TickOK
<1>6. {"planning", "saving", "listing", "upserting", "failing", "proposing", "acting"}
        \subseteq Places \ {"idle", "recording"}
  BY DEF Places
<1>7. {"queued", "done", "parked", "running"} \subseteq RunStatuses /\ "none" \in Decisions
  BY DEF RunStatuses, Terminal, Decisions
<1>8. Doing(w) \in {"proposing", "acting"} /\ (Doing(w) = "proposing" => wk[w].dec \in Exacts)
  BY DEF Doing
<1>9. ASSUME NEW r \in Runs, Lease(w, r) PROVE TickMove(w)
  <2> DEFINE t == [Idle EXCEPT !.at = "checking", !.run = r,
                               !.step = run[r].step, !.dec = run[r].dec]
             d == [run[r] EXCEPT !.status = "running", !.lease = w, !.fresh = TRUE]
  <2>1. run[r] \in RunDocs /\ run[r].step \in 0..MaxSteps /\ run[r].dec \in Decisions
    BY <1>1 DEF RunDocs
  <2>2. t.at = "checking" /\ t.run = r
    BY DEF Idle
  <2>3. t \in Ticks
    <3>1. "checking" \in Places /\ r \in Runs \cup {None}
      BY DEF Places
    <3> QED BY <3>1, <2>1, IdleTyped, Zenon DEF Ticks
  <2>4. wk' = [wk EXCEPT ![w] = t]
    BY <1>9, Zenon DEF Lease
  <2>5. d \in RunDocs
    BY <2>1, <1>7, RunUpdates, Zenon
  <2>6. d.status # "parked"
    BY <2>1 DEF RunDocs
  <2>7. run' = [run EXCEPT ![r] = d]
    BY <1>9, Zenon DEF Lease
  <2> HIDE DEF t, d
  <2>8. run' \in [Runs -> RunDocs] /\ RunInv'
    BY <1>1, <2>5, <2>6, <2>7, RunReplaced, Zenon
  <2>9. wk' \in [Workers -> Ticks] /\ wk'[w] = t /\ \A v \in Workers \ {w} : wk'[v] = wk[v]
    BY <1>1, <2>3, <2>4, Zenon
  <2>10. TickOK(t)
    BY <2>2 DEF TickOK
  <2>11. ClaimMove(w) /\ CallMove(w)
    BY <2>2, <2>9 DEF ClaimMove, CallMove, Claiming
  <2> QED BY <2>8, <2>9, <2>10, <2>11, Zenon DEF TickMove
<1>10. ASSUME Checks(w) PROVE TickMove(w)
  <2>1. wk[w].run \in Runs /\ UNCHANGED run
    BY <1>10, <1>5 DEF Checks, At
  <2>2. PICK p \in {"failing", "planning", "proposing", "acting"} :
          /\ Go(w, p)
          /\ p # "failing" => ~(wk[w].step >= MaxSteps)
          /\ p = "proposing" => wk[w].dec \in Exacts
    <3>1. CASE ~Authorized(w) \/ wk[w].step >= MaxSteps
      BY <3>1, <1>10 DEF Checks
    <3>2. CASE ~(~Authorized(w) \/ wk[w].step >= MaxSteps) /\ wk[w].dec = "none"
      BY <3>2, <1>10 DEF Checks
    <3>3. CASE ~(~Authorized(w) \/ wk[w].step >= MaxSteps) /\ wk[w].dec # "none"
      BY <3>3, <1>10, <1>8 DEF Checks
    <3> QED BY <3>1, <3>2, <3>3
  <2>3. p \in Places \ {"idle", "recording"} /\ (p # "failing" => wk[w].step < MaxSteps)
    BY <2>2, <1>5, <1>6
  <2> QED BY <2>1, <2>2, <2>3, <1>4, GoTicks
<1>11. ASSUME PlannerAnswers(w) PROVE TickMove(w)
  <2>1. wk[w].run \in Runs /\ UNCHANGED run /\ wk[w].step < MaxSteps
    BY <1>11, <1>2, <1>5 DEF PlannerAnswers, At, TickOK
  <2>2. PICK d \in Decisions : wk' = [wk EXCEPT ![w] = [wk[w] EXCEPT !.at = "planned", !.dec = d]]
    BY <1>11, Zenon DEF PlannerAnswers
  <2>3. "planned" \in Places
    BY DEF Places
  <2>4. [wk[w] EXCEPT !.at = "planned", !.dec = d] \in Ticks
    BY <2>3, <1>2, TickUpdates, Zenon
  <2>5. /\ wk' \in [Workers -> Ticks] /\ wk'[w] = [wk[w] EXCEPT !.at = "planned", !.dec = d]
        /\ \A v \in Workers \ {w} : wk'[v] = wk[v]
    BY <1>1, <2>2, <2>4, Zenon
  <2>6. wk'[w].at = "planned" /\ wk'[w].run = wk[w].run /\ wk'[w].step = wk[w].step
    BY <2>5, <1>2 DEF Ticks
  <2>7. TickOK(wk'[w]) /\ ClaimMove(w) /\ CallMove(w)
    BY <2>1, <2>6 DEF TickOK, ClaimMove, CallMove, Claiming
  <2> QED BY <2>1, <2>5, <2>7, <1>4 DEF TickMove
<1>12. ASSUME PlannerFails(w) PROVE TickMove(w)
  <2>1. wk[w].run \in Runs
    BY <1>12, <1>5 DEF PlannerFails, At
  <2>2. CASE Advance(w, "queued", wk[w].step, "none")
    BY <2>1, <2>2, <1>5, <1>7, AdvanceTicks
  <2>3. CASE Go(w, "failing") /\ UNCHANGED run
    BY <2>1, <2>3, <1>4, <1>6, GoTicks
  <2> QED BY <1>12, <2>2, <2>3 DEF PlannerFails
<1>13. ASSUME RechecksAfterPlanning(w) PROVE TickMove(w)
  <2>1. wk[w].run \in Runs /\ UNCHANGED run /\ wk[w].step < MaxSteps
    BY <1>13, <1>2, <1>5 DEF RechecksAfterPlanning, At, TickOK
  <2>2. Go(w, "saving") \/ Go(w, "failing")
    BY <1>13 DEF RechecksAfterPlanning
  <2> QED BY <2>1, <2>2, <1>4, <1>6, GoTicks
<1>14. ASSUME SavesDecision(w) PROVE TickMove(w)
  <2>1. wk[w].run \in Runs /\ wk[w].step < MaxSteps
    BY <1>14, <1>2, <1>5 DEF SavesDecision, At, TickOK
  <2>2. CASE Holds(w)
    <3> DEFINE d == [run[wk[w].run] EXCEPT !.dec = wk[w].dec]
    <3>1. run' = [run EXCEPT ![wk[w].run] = d] /\ Go(w, Doing(w))
      BY <1>14, <2>2, Zenon DEF SavesDecision
    <3>2. d \in RunDocs
      BY <1>1, <1>5, <2>1, RunUpdates, Zenon
    <3>3. d.status # "parked"
      BY <1>1, <2>1, <2>2 DEF RunDocs, Holds
    <3> HIDE DEF d
    <3>4. run' \in [Runs -> RunDocs] /\ RunInv'
      BY <1>1, <2>1, <3>1, <3>2, <3>3, RunReplaced, Zenon
    <3> QED BY <2>1, <3>1, <3>4, <1>6, <1>8, GoTicks
  <2>3. CASE ~Holds(w)
    <3>1. Go(w, "failing") /\ UNCHANGED run
      BY <1>14, <2>3 DEF SavesDecision
    <3> QED BY <2>1, <3>1, <1>4, <1>6, GoTicks
  <2> QED BY <2>2, <2>3
<1>15. ASSUME Acts(w) PROVE TickMove(w)
  <2>1. wk[w].run \in Runs /\ wk[w].step < MaxSteps
    BY <1>15, <1>2, <1>5 DEF Acts, At, TickOK
  <2>2. \E s \in {"done", "parked"} : Advance(w, s, wk[w].step, wk[w].dec)
    BY <1>15 DEF Acts
  <2> QED BY <2>1, <2>2, <1>5, <1>7, AdvanceTicks
<1>16. ASSUME ProposalAllowed(w) PROVE TickMove(w)
  <2>1. /\ wk[w].run \in Runs /\ UNCHANGED run /\ wk[w].step < MaxSteps
        /\ wk[w].dec \in Exacts
    BY <1>16, <1>2, <1>5 DEF ProposalAllowed, At, TickOK
  <2>2. Go(w, "listing") \/ Go(w, "failing")
    BY <1>16 DEF ProposalAllowed
  <2> QED BY <2>1, <2>2, <1>4, <1>6, GoTicks
<1>17. ASSUME ChecksHistory(w) PROVE TickMove(w)
  <2>1. /\ wk[w].run \in Runs /\ UNCHANGED run /\ wk[w].step < MaxSteps
        /\ wk[w].dec \in Exacts
    BY <1>17, <1>2, <1>5 DEF ChecksHistory, At, TickOK
  <2>2. Go(w, "failing") \/ Go(w, "upserting")
    BY <1>17 DEF ChecksHistory
  <2> QED BY <2>1, <2>2, <1>4, <1>6, GoTicks
<1> QED BY <1>3, <1>9, <1>10, <1>11, <1>12, <1>13, <1>14, <1>15, <1>16, <1>17

(* The steps of a worker that write to an approval. *)
LEMMA WritingSteps ==
    ASSUME TypeInv, NEW w \in Workers,
           \/ Upserts(w) \/ MarksPreview(w) \/ PolicyApproves(w) \/ Claims(w)
           \/ RecordsOutcome(w) \/ Settles(w)
    PROVE  TickMove(w) /\ DocSteps
<1>1. /\ wk \in [Workers -> Ticks] /\ run \in [Runs -> RunDocs] /\ RunInv
      /\ appr \in [Ids -> Approvals]
  BY TypeOKParts, Zenon DEF TypeInv
<1>2. TickOK(wk[w]) /\ wk[w] \in Ticks
  BY <1>1, Zenon DEF TypeInv, WorkInv
<1>3. UNCHANGED run => run' \in [Runs -> RunDocs] /\ RunInv'
  BY <1>1 DEF RunInv
<1>4. /\ wk[w].run \in Runs /\ wk[w].step \in 0..MaxSteps /\ wk[w].step < MaxSteps
      /\ wk[w].step + 1 \in 0..MaxSteps /\ Id(w) \in Ids /\ wk[w].prop \in Proposals
  <2>1. wk[w].run \in Runs /\ wk[w].step \in 0..MaxSteps /\ wk[w].step < MaxSteps
    BY <1>2 DEF Ticks, TickOK, Upserts, MarksPreview, PolicyApproves, Claims, RecordsOutcome,
                Settles, At
  <2>2. wk[w].step + 1 \in 0..MaxSteps /\ wk[w].step \in Steps
    BY <2>1 DEF Steps
  <2>3. wk[w].prop \in Proposals
    BY <1>2 DEF Ticks
  <2> QED BY <2>1, <2>2, <2>3 DEF Ids, Id
<1>5. {"previewing", "deciding", "executing", "settling", "recording", "rereading", "failing",
       "ending", "sending"} \subseteq Places
  BY DEF Places
<1>6. /\ {"queued", "failed"} \subseteq RunStatuses /\ "none" \in Decisions
      /\ {"preview", "executing", "uncertain", "executed"}
           \subseteq ApprStatuses \ {"none", "pending", "approved"}
  BY DEF RunStatuses, Terminal, Decisions, ApprStatuses
<1>7. appr[Id(w)] \in Approvals /\ Doc(Id(w)) \in Proposals
  BY <1>1, <1>4 DEF Approvals, Doc
<1>8. ASSUME Upserts(w) PROVE TickMove(w) /\ DocSteps
  <2>1. wk[w].dec \in Exacts /\ UNCHANGED run
    BY <1>8, <1>2 DEF TickOK, Upserts, At
  <2>2. New(w).status = "pending" /\ New(w).exact = wk[w].dec
    BY DEF New, NoProposal
  <2>3. New(w) \in Proposals
    <3>1. "pending" \in ApprStatuses /\ wk[w].dec \in Exacts \cup {None}
      BY <2>1 DEF ApprStatuses
    <3> QED BY <3>1, IdleTyped, Zenon DEF New, Proposals
  <2>4. PICK q \in Proposals :
          /\ SetDoc(Id(w), q)
          /\ \E p \in {"previewing", "deciding"} : Learn(w, p, q)
          /\ IF Doc(Id(w)).status = "none" THEN q = New(w) ELSE q = Doc(Id(w))
    BY <1>8, <1>7, <2>3 DEF Upserts
  <2>5. TickMove(w)
    BY <2>1, <2>4, <1>3, <1>4, <1>5, LearnTicks
  <2>6. PICK i \in Ids : i = Id(w)
    BY <1>4
  <2>7. /\ Doc(i)' = q /\ appr'[i].version = appr[i].version
        /\ DocStep(i) /\ ClearStep(i) => DocSteps
    <3>1. SetDoc(i, q)
      BY <2>4, <2>6
    <3> QED BY <1>1, <3>1, ProposalReplaced, Zenon
  <2>8. appr[i].version \in 1..(MaxEdits + 1)
    BY <1>1 DEF Approvals
  <2>9. DocStep(i) /\ ClearStep(i)
    BY <2>1, <2>2, <2>4, <2>6, <2>7, <2>8 DEF DocStep, ClearStep, Cleared, Taken
  <2> QED BY <2>5, <2>7, <2>9
<1>9. ASSUME MarksPreview(w) PROVE TickMove(w) /\ DocSteps
  <2>1. TickMove(w)
    <3>1. Advance(w, "queued", wk[w].step + 1, "none")
      BY <1>9, Zenon DEF MarksPreview
    <3> QED BY <3>1, <1>4, <1>6, AdvanceTicks
  <2>2. SetStatusOf({Id(w)}, {"pending"}, "preview")
    BY <1>9, Zenon DEF MarksPreview
  <2> QED BY <2>1, <2>2, <1>1, <1>6, StatusSteps
<1>10. ASSUME PolicyApproves(w) PROVE TickMove(w) /\ DocSteps
  <2> DEFINE p == wk[w].prop
             granting == [p EXCEPT !.status = "approved", !.approved = p.exact, !.by = "policy"]
             q == [granting EXCEPT !.exact = Doc(Id(w)).exact]
  <2>1. p.exact \in Allowed /\ UNCHANGED run
    BY <1>10, <1>2 DEF TickOK, PolicyApproves, At
  <2>2. /\ p.exact \in Exacts \cup {None} /\ Doc(Id(w)).exact \in Exacts \cup {None}
        /\ "approved" \in ApprStatuses
    BY <1>4, <1>7 DEF Proposals, ApprStatuses
  <2>3. granting \in Proposals
    BY <1>4, <2>2, Zenon DEF Proposals
  <2>4. q \in Proposals
    BY <2>3, <2>2, Zenon DEF Proposals
  <2>5. q.status = "approved" /\ q.approved = p.exact /\ q.exact = Doc(Id(w)).exact
    BY <1>4 DEF Proposals
  <2>6. /\ Learn(w, "executing", granting)
        /\ IF Doc(Id(w)).status = "pending" THEN SetDoc(Id(w), q) ELSE UNCHANGED appr
    BY <1>10, Zenon DEF PolicyApproves
  <2> HIDE DEF q, granting
  <2>7. TickMove(w)
    BY <2>1, <2>3, <2>6, <1>3, <1>4, <1>5, LearnTicks
  <2>8. CASE Doc(Id(w)).status = "pending"
    <3>1. PICK i \in Ids : i = Id(w)
      BY <1>4
    <3>2. /\ Doc(i)' = q /\ appr'[i].version = appr[i].version
          /\ DocStep(i) /\ ClearStep(i) => DocSteps
      <4>1. SetDoc(i, q)
        BY <2>6, <2>8, <3>1
      <4> QED BY <1>1, <2>4, <4>1, ProposalReplaced, Zenon
    <3>3. appr[i].version \in 1..(MaxEdits + 1)
      BY <1>1 DEF Approvals
    <3>4. DocStep(i)
      BY <2>5, <2>8, <3>1, <3>2, <3>3 DEF DocStep, Taken
    <3>5. ClearStep(i)
      BY <2>1, <2>5, <3>1, <3>2 DEF ClearStep, Cleared, MaySend
    <3> QED BY <2>7, <3>2, <3>4, <3>5
  <2>9. CASE Doc(Id(w)).status # "pending"
    BY <2>6, <2>7, <2>9, <1>1, NoDocStep
  <2> QED BY <2>8, <2>9
<1>11. ASSUME Claims(w) PROVE TickMove(w) /\ DocSteps
  <2>1. UNCHANGED run
    BY <1>11 DEF Claims
  <2>2. CASE Claimable(Id(w), wk[w].prop.exact)
    <3>1. SetStatusOf({Id(w)}, ApprStatuses, "executing") /\ Go(w, "sending")
      BY <1>11, <2>2, Zenon DEF Claims
    <3>2. /\ Cleared(Id(w)) /\ Doc(Id(w)).exact = wk[w].prop.exact
          /\ Doc(Id(w)).status = "approved"
      BY <2>2 DEF Claimable, Cleared
    <3>3. "executing" \in ApprStatuses \ {"none", "pending", "approved"} /\ "approved" \in ApprStatuses
      BY <1>6 DEF ApprStatuses
    <3>4. \A i \in Ids : i \in {Id(w)} /\ Doc(i).status \in ApprStatuses =>
            \/ Doc(i).status \in {"pending", "approved"}
            \/ Doc(i).status = "executing" /\ "executing" \in Taken
      BY <3>2
    <3>5. /\ DocSteps
          /\ \A i \in {Id(w)} \cap Ids : Doc(i).status \in ApprStatuses =>
               Doc(i)'.status = "executing" /\ Doc(i)'.exact = Doc(i).exact
      <4>1. PICK S : S = {Id(w)}
        OBVIOUS
      <4>2. SetStatusOf(S, ApprStatuses, "executing")
        BY <3>1, <4>1
      <4>3. /\ DocSteps
            /\ \A i \in S \cap Ids : Doc(i).status \in ApprStatuses =>
                 Doc(i)'.status = "executing" /\ Doc(i)'.exact = Doc(i).exact
        BY <1>1, <3>3, <3>4, <4>1, <4>2, StatusSteps
      <4> QED BY <4>1, <4>3
    <3>6. /\ appr'[Id(w)].prop.status = "executing"
          /\ appr'[Id(w)].prop.exact = wk[w].prop.exact
      <4>1. PICK i \in Ids : i = Id(w)
        BY <1>4
      <4> QED BY <3>2, <3>3, <3>5, <4>1 DEF Doc
    <3> QED BY <2>1, <3>1, <3>2, <3>5, <3>6, <1>3, <1>4, <1>5, GoTicks
  <2>3. CASE ~Claimable(Id(w), wk[w].prop.exact)
    <3>1. Go(w, "rereading") /\ UNCHANGED appr
      BY <1>11, <2>3, Zenon DEF Claims
    <3> QED BY <2>1, <3>1, <1>1, <1>3, <1>4, <1>5, GoTicks, NoDocStep
  <2> QED BY <2>2, <2>3
<1>12. ASSUME RecordsOutcome(w) PROVE TickMove(w) /\ DocSteps
  <2>1. UNCHANGED run /\ wk[w].prop.status \in {"executed", "uncertain"}
    BY <1>12, <1>2 DEF RecordsOutcome, At, TickOK
  <2>2. SetStatusOf({Id(w)}, {"executing"}, wk[w].prop.status) /\ Go(w, "settling")
    BY <1>12 DEF RecordsOutcome
  <2>3. TickMove(w)
    BY <2>1, <2>2, <1>3, <1>4, <1>5, GoTicks
  <2>4. wk[w].prop.status \in Taken
    BY <2>1 DEF Taken
  <2>5. DocSteps
    BY <2>1, <2>2, <2>4, <1>1, <1>6, StatusSteps
  <2> QED BY <2>3, <2>5
<1>13. ASSUME Settles(w) PROVE TickMove(w) /\ DocSteps
  <2>1. CASE SetStatusOf({Id(w)}, {"executing"}, "uncertain") /\ Go(w, "ending") /\ UNCHANGED run
    <3>1. TickMove(w)
      BY <2>1, <1>3, <1>4, <1>5, GoTicks
    <3>2. DocSteps
      BY <2>1, <1>1, <1>6, StatusSteps DEF Taken
    <3> QED BY <3>1, <3>2
  <2>2. CASE /\ \E p \in {"ending", "failing"} : Go(w, p)
             /\ UNCHANGED <<run, appr>>
    <3>1. DocSteps
      BY <2>2, <1>1, NoDocStep
    <3> QED BY <2>2, <3>1, <1>3, <1>4, <1>5, GoTicks
  <2>3. CASE Advance(w, "queued", wk[w].step + 1, "none") /\ UNCHANGED appr
    <3>1. DocSteps
      BY <2>3, <1>1, NoDocStep
    <3> QED BY <2>3, <3>1, <1>4, <1>6, AdvanceTicks
  <2> QED BY <1>13, <2>1, <2>2, <2>3 DEF Settles
<1> QED BY <1>8, <1>9, <1>10, <1>11, <1>12, <1>13

(* Its other steps, up to the end of its tick or of its process. *)
LEMMA CallingSteps ==
    ASSUME TypeInv, NEW w \in Workers,
           \/ ReadsMode(w) \/ WaitsForOwner(w) \/ ChecksApproval(w) \/ Rereads(w) \/ Sends(w)
           \/ ProviderAnswers(w) \/ ProviderFails(w) \/ EndsUnknown(w) \/ Fails(w) \/ Crash(w)
    PROVE  TickMove(w) /\ DocSteps
<1>1. /\ wk \in [Workers -> Ticks] /\ run \in [Runs -> RunDocs] /\ RunInv
      /\ appr \in [Ids -> Approvals]
  BY TypeOKParts, Zenon DEF TypeInv
<1>2. TickOK(wk[w]) /\ wk[w] \in Ticks
  BY <1>1, Zenon DEF TypeInv, WorkInv
<1>3. DocSteps
  <2>1. UNCHANGED appr
    BY Zenon DEF ReadsMode, WaitsForOwner, ChecksApproval, Rereads, Sends, ProviderAnswers,
                 ProviderFails, EndsUnknown, Fails, Crash, dbVars
  <2> QED BY <2>1, <1>1, NoDocStep, Zenon
<1>4. UNCHANGED run => run' \in [Runs -> RunDocs] /\ RunInv'
  BY <1>1 DEF RunInv
<1>5. /\ wk[w].run \in Runs /\ wk[w].step \in 0..MaxSteps /\ wk[w].prop \in Proposals
      /\ wk[w].dec \in Decisions
      /\ wk[w].at \notin {"idle", "checking", "failing"} => wk[w].step < MaxSteps
  <2>1. wk[w].at # "idle"
    BY DEF ReadsMode, WaitsForOwner, ChecksApproval, Rereads, Sends,
           ProviderAnswers, ProviderFails, EndsUnknown, Fails, Crash, At
  <2> QED BY <2>1, <1>2 DEF Ticks, TickOK
<1>6. {"failing", "allowing", "parking", "executing", "settling", "claiming", "calling", "recording"}
        \subseteq Places
  BY DEF Places
<1>7. {"waiting_approval", "failed"} \subseteq RunStatuses
  BY DEF RunStatuses, Terminal
<1>8. \A s \in {"uncertain", "executed"} : [wk[w].prop EXCEPT !.status = s] \in Proposals
  <2>1. {"uncertain", "executed"} \subseteq ApprStatuses
    BY DEF ApprStatuses
  <2> QED BY <2>1, <1>5, Zenon DEF Proposals
<1>9. \A s \in {"uncertain", "executed"} : [wk[w].prop EXCEPT !.status = s].status = s
  BY <1>5 DEF Proposals
<1>10. ASSUME ReadsMode(w) PROVE TickMove(w)
  <2>1. UNCHANGED run /\ wk[w].step < MaxSteps
    BY <1>10, <1>5 DEF ReadsMode, At
  <2>2. \/ Go(w, "allowing") /\ wk[w].prop.exact \in Allowed
        \/ \E p \in {"failing", "parking", "executing", "settling"} : Go(w, p)
    BY <1>10 DEF ReadsMode
  <2> QED BY <2>1, <2>2, <1>4, <1>5, <1>6, GoTicks
<1>11. ASSUME WaitsForOwner(w) PROVE TickMove(w)
  <2>1. wk[w].step < MaxSteps /\ Advance(w, "waiting_approval", wk[w].step, wk[w].dec)
    BY <1>11, <1>5 DEF WaitsForOwner, At
  <2> QED BY <2>1, <1>5, <1>7, AdvanceTicks
<1>12. ASSUME ChecksApproval(w) PROVE TickMove(w)
  <2>1. UNCHANGED run /\ wk[w].step < MaxSteps
    BY <1>12, <1>5 DEF ChecksApproval, At
  <2>2. Go(w, "claiming") \/ Go(w, "failing")
    BY <1>12 DEF ChecksApproval
  <2> QED BY <2>1, <2>2, <1>4, <1>5, <1>6, GoTicks
<1>13. ASSUME Rereads(w) PROVE TickMove(w)
  <2>1. UNCHANGED run /\ wk[w].step < MaxSteps /\ Learn(w, "settling", Doc(Id(w)))
    BY <1>13, <1>5 DEF Rereads, At
  <2>2. Id(w) \in Ids
    BY <2>1, <1>5 DEF Ids, Id, Steps
  <2>3. Doc(Id(w)) \in Proposals
    BY <2>2, <1>1 DEF Approvals, Doc
  <2> QED BY <2>1, <2>3, <1>4, <1>5, <1>6, LearnTicks
<1>14. ASSUME Sends(w) PROVE TickMove(w)
  <2>1. UNCHANGED run /\ wk[w].step < MaxSteps /\ Claiming(w) /\ wk[w].at = "sending"
    BY <1>14, <1>5 DEF Sends, At, Claiming
  <2>2. CASE Authorized(w) /\ Go(w, "calling")
    BY <2>1, <2>2, <1>4, <1>5, <1>6, GoTicks
  <2>3. CASE Learn(w, "recording", [wk[w].prop EXCEPT !.status = "uncertain"])
    BY <2>1, <2>3, <1>4, <1>5, <1>6, <1>8, <1>9, LearnTicks
  <2> QED BY <1>14, <2>2, <2>3 DEF Sends
<1>15. ASSUME ProviderAnswers(w) PROVE TickMove(w)
  <2>1. /\ UNCHANGED run /\ wk[w].step < MaxSteps
        /\ Learn(w, "recording", [wk[w].prop EXCEPT !.status = "executed"])
    BY <1>15, <1>5 DEF ProviderAnswers, At
  <2> QED BY <2>1, <1>4, <1>5, <1>6, <1>8, <1>9, LearnTicks
<1>16. ASSUME ProviderFails(w) PROVE TickMove(w)
  <2>1. /\ UNCHANGED run /\ wk[w].step < MaxSteps
        /\ Learn(w, "recording", [wk[w].prop EXCEPT !.status = "uncertain"])
    BY <1>16, <1>5 DEF ProviderFails, At
  <2> QED BY <2>1, <1>4, <1>5, <1>6, <1>8, <1>9, LearnTicks
<1>17. ASSUME EndsUnknown(w) PROVE TickMove(w)
  <2>1. Advance(w, "failed", wk[w].step, wk[w].dec)
    BY <1>17 DEF EndsUnknown
  <2> QED BY <2>1, <1>5, <1>7, AdvanceTicks
<1>18. ASSUME Fails(w) PROVE TickMove(w)
  <2>1. Leave(w) /\ (UNCHANGED run \/ run' = Ended(wk[w].run, "failed"))
    BY <1>18, Zenon DEF Fails
  <2>2. run' \in [Runs -> RunDocs] /\ RunInv'
    <3>1. "failed" \in Terminal
      BY DEF Terminal
    <3> QED BY <2>1, <3>1, <1>1, <1>4, <1>5, EndedRuns, Zenon
  <2> QED BY <2>1, <2>2, LeaveTicks
<1>19. ASSUME Crash(w) PROVE TickMove(w)
  <2>1. Leave(w) /\ UNCHANGED run
    BY <1>19, Zenon DEF Crash, dbVars
  <2> QED BY <2>1, <1>4, LeaveTicks
<1> QED
  BY <1>3, <1>10, <1>11, <1>12, <1>13, <1>14, <1>15, <1>16, <1>17, <1>18, <1>19

----------------------------------------------------------------------------
(* Steps of the sweeps, of time, of the owner and of the routes. *)

Outsider ==
    \/ Sweeps \/ Time \/ Owner \/ Routes

LEMMA RunStatusSteps ==
    ASSUME run \in [Runs -> RunDocs], RunInv, NEW r \in Runs, NEW s \in RunStatuses,
           run' = [run EXCEPT ![r].status = s], s = "parked" => run[r].status = "parked"
    PROVE  run' \in [Runs -> RunDocs] /\ RunInv'
<1>1. run' = [run EXCEPT ![r] = [run[r] EXCEPT !.status = s]]
  BY Zenon
<1>2. [run[r] EXCEPT !.status = s] \in RunDocs
  BY RunUpdates, Zenon
<1>3. [run[r] EXCEPT !.status = s].status = s /\ [run[r] EXCEPT !.status = s].step = run[r].step
  BY DEF RunDocs
<1>4. s = "parked" => run[r].step < MaxSteps
  BY DEF RunInv
<1> QED BY <1>1, <1>2, <1>3, <1>4, RunReplaced

(* What they do to the runs. *)
LEMMA OutsiderRuns ==
    ASSUME TypeInv, ClickInv, Outsider
    PROVE  run' \in [Runs -> RunDocs] /\ RunInv'
<1>1. run \in [Runs -> RunDocs] /\ RunInv
  BY TypeOKParts, Zenon DEF TypeInv
<1>2. UNCHANGED run => run' \in [Runs -> RunDocs] /\ RunInv'
  BY <1>1 DEF RunInv
<1>3. \A r \in Runs : run[r] \in RunDocs /\ run[r].status \in RunStatuses
  BY <1>1 DEF RunDocs
<1>4. {"queued", "cancelled", "failed"} \subseteq RunStatuses /\ {"cancelled", "failed"} \subseteq Terminal
      /\ "none" \in Decisions /\ FALSE \in BOOLEAN
  BY DEF RunStatuses, Terminal, Decisions
<1>5. ASSUME NEW r \in Runs, NEW dry \in BOOLEAN, Enqueue(r, dry)
       PROVE  run' \in [Runs -> RunDocs] /\ RunInv'
  <2> DEFINE d == [run[r] EXCEPT !.status = "queued", !.dry = dry]
  <2>1. run' = [run EXCEPT ![r] = d]
    BY <1>5, Zenon DEF Enqueue
  <2>2. d \in RunDocs
    BY <1>3, <1>4, Zenon DEF RunDocs
  <2>3. d.status # "parked"
    BY <1>3 DEF RunDocs
  <2> HIDE DEF d
  <2> QED BY <1>1, <2>1, <2>2, <2>3, RunReplaced
<1>6. ASSUME NEW r \in Runs, Unpark(r) PROVE run' \in [Runs -> RunDocs] /\ RunInv'
  <2> DEFINE n == run[r].step + 1
             d == [run[r] EXCEPT !.status = "queued", !.step = n, !.dec = "none"]
  <2>1. run' = [run EXCEPT ![r] = d]
    BY <1>6, Zenon DEF Unpark
  <2>2. run[r].step \in 0..MaxSteps /\ run[r].step < MaxSteps
    BY <1>1, <1>3, <1>6 DEF RunInv, RunDocs, Unpark
  <2>3. n \in 0..MaxSteps
    BY <2>2
  <2> HIDE DEF n
  <2>4. d \in RunDocs
    BY <1>3, <1>4, <2>3, RunUpdates, Zenon
  <2>5. d.status # "parked"
    BY <1>3 DEF RunDocs
  <2> HIDE DEF d
  <2> QED BY <1>1, <2>1, <2>4, <2>5, RunReplaced
<1>7. ASSUME NEW r \in Runs, LeaseExpires(r) PROVE run' \in [Runs -> RunDocs] /\ RunInv'
  <2> DEFINE d == [run[r] EXCEPT !.fresh = FALSE]
  <2>1. run' = [run EXCEPT ![r] = d]
    BY <1>7, Zenon DEF LeaseExpires
  <2>2. d \in RunDocs
    BY <1>3, RunUpdates, Zenon
  <2>3. d.status = run[r].status /\ run[r].status = "running"
    BY <1>3, <1>7 DEF RunDocs, LeaseExpires
  <2> HIDE DEF d
  <2> QED BY <1>1, <2>1, <2>2, <2>3, RunReplaced
<1>8. ASSUME NEW r \in Runs, ExpireRun(r) \/ CancelsRun(r)
       PROVE  run' \in [Runs -> RunDocs] /\ RunInv'
  BY <1>1, <1>4, <1>8, EndedRuns DEF ExpireRun, CancelsRun
<1>9. ASSUME NEW r \in Runs,
              run' = [run EXCEPT ![r].status = IF @ = "waiting_approval" THEN "queued" ELSE @]
       PROVE  run' \in [Runs -> RunDocs] /\ RunInv'
  <2> DEFINE s == IF run[r].status = "waiting_approval" THEN "queued" ELSE run[r].status
  <2>1. run' = [run EXCEPT ![r].status = s]
    BY <1>9, Zenon
  <2>2. s \in RunStatuses /\ (s = "parked" => run[r].status = "parked")
    BY <1>3, <1>4
  <2> HIDE DEF s
  <2> QED BY <1>1, <2>1, <2>2, RunStatusSteps, Zenon
<1>10. ASSUME NEW r \in Runs, Wakes(r) PROVE run' \in [Runs -> RunDocs] /\ RunInv'
  BY <1>9, <1>10 DEF Wakes
<1>11. ASSUME DecideRequeues PROVE run' \in [Runs -> RunDocs] /\ RunInv'
  <2>1. CASE click.id[1] \in Runs
    BY <1>9, <1>11, <2>1 DEF DecideRequeues
  <2>2. CASE click.id[1] \notin Runs
    <3>1. run' = run
      BY <1>1, <1>11, <2>2 DEF DecideRequeues
    <3> QED BY <3>1, <1>2
  <2> QED BY <2>1, <2>2
<1>12. ASSUME \/ FreeReservation \/ DecideReads \/ DecideWrites \/ CancelsApprovals \/ Revoke
              \/ \E r \in Runs : FindsReady(r) \/ CleanUp(r)
              \/ \E i \in Ids : Lapse(i) \/ ExpireApproval(i) \/ SweepExecuting(i)
              \/ \E i \in Ids : \E c \in {"approved", "rejected", "cancelled"} : OwnerClicks(i, c)
              \/ \E i \in Ids : \E e \in Exacts : OwnerEdits(i, e)
       PROVE  UNCHANGED run
  BY <1>12, Zenon
     DEF FreeReservation, DecideReads, DecideWrites, CancelsApprovals, Revoke, FindsReady, CleanUp,
         Lapse, ExpireApproval, SweepExecuting, OwnerClicks, OwnerEdits, dbVars
<1> QED
  BY <1>2, <1>5, <1>6, <1>7, <1>8, <1>10, <1>11, <1>12
     DEF Outsider, Sweeps, Time, Owner, Routes

(* What they do to the approvals. *)
LEMMA OutsiderDocs ==
    ASSUME TypeInv, ClickInv, Outsider
    PROVE  DocSteps
<1>1. appr \in [Ids -> Approvals]
  BY TypeOKParts, Zenon DEF TypeInv
<1>2. {"expired", "cancelled", "uncertain"} \subseteq ApprStatuses \ {"none", "pending", "approved"}
  BY DEF ApprStatuses
<1>3. \A i \in Ids : /\ appr[i] \in Approvals /\ Doc(i) \in Proposals
                     /\ appr[i].version \in 1..(MaxEdits + 1) /\ Doc(i).status \in ApprStatuses
  BY <1>1 DEF Approvals, Doc, Proposals
<1>4. ASSUME NEW i \in Ids, Lapse(i) PROVE DocSteps
  <2>1. appr' = [appr EXCEPT ![i] = [appr[i] EXCEPT !.late = TRUE]]
    BY <1>4, Zenon DEF Lapse
  <2>2. [appr[i] EXCEPT !.late = TRUE] \in Approvals
    BY <1>3, ProposalUpdates, Zenon
  <2>3. appr' \in [Ids -> Approvals]
    BY <1>1, <2>1, <2>2, Zenon
  <2>4. \A j \in Ids : appr'[j].prop = appr[j].prop /\ appr'[j].version = appr[j].version
    BY <1>1, <1>3, <2>1 DEF Approvals
  <2> QED BY <1>3, <2>3, <2>4 DEF DocSteps, DocStep, ClearStep, Cleared, Doc
<1>5. ASSUME NEW i \in Ids, ExpireApproval(i) PROVE DocSteps
  <2>1. SetStatusOf({i}, ApprStatuses, "expired") /\ Doc(i).status \in {"pending", "approved"}
    BY <1>5 DEF ExpireApproval
  <2>2. \A j \in Ids : j \in {i} => Doc(j).status \in {"pending", "approved"}
    BY <2>1
  <2> QED BY <1>1, <1>2, <2>1, <2>2, StatusSteps
<1>6. ASSUME NEW i \in Ids, SweepExecuting(i) PROVE DocSteps
  <2>1. SetStatusOf({i}, ApprStatuses, "uncertain") /\ Doc(i).status = "executing"
    BY <1>6 DEF SweepExecuting
  <2>2. \A j \in Ids : j \in {i} => Doc(j).status = "executing"
    BY <2>1
  <2> QED BY <1>1, <1>2, <2>1, <2>2, StatusSteps DEF Taken
<1>7. ASSUME NEW r, \E s \in {"expired", "cancelled"} : SetStatusOf(Of(r), {"pending", "approved"}, s)
       PROVE  DocSteps
  <2>1. PICK S : S = Of(r)
    OBVIOUS
  <2>2. PICK s \in {"expired", "cancelled"} : SetStatusOf(S, {"pending", "approved"}, s)
    BY <1>7, <2>1
  <2> QED BY <1>1, <1>2, <2>2, StatusSteps
<1>8. ASSUME NEW r \in Runs, CleanUp(r) PROVE DocSteps
  BY <1>7, <1>8 DEF CleanUp
<1>9. ASSUME CancelsApprovals PROVE DocSteps
  <2>1. \E s \in {"expired", "cancelled"} : SetStatusOf(Of(cancelling), {"pending", "approved"}, s)
    BY <1>9 DEF CancelsApprovals
  <2> QED BY <1>7, <2>1
<1>10. ASSUME DecideWrites PROVE DocSteps
  <2>1. CASE Decidable(click.id, click.version)
    <3> DEFINE q == [Doc(click.id) EXCEPT !.status = click.choice, !.by = "owner",
                       !.approved = IF click.choice = "approved" THEN click.exact ELSE @]
               a == IF click.choice = "approved" THEN click.exact ELSE Doc(click.id).approved
    <3>1. click.id \in Ids /\ click.choice # "none"
      BY <1>10 DEF DecideWrites, ClickInv
    <3>2. /\ click.choice \in {"none", "approved", "rejected", "cancelled"}
          /\ click.exact \in Exacts \cup {None}
      BY TypeOKParts DEF TypeInv
    <3>3. PICK i \in Ids : i = click.id
      BY <3>1
    <3>4. q = [Doc(i) EXCEPT !.status = click.choice, !.by = "owner", !.approved = a]
      BY <3>3, Zenon
    <3>5. a \in Exacts \cup {None} /\ click.choice \in ApprStatuses
      BY <1>3, <3>1, <3>2 DEF Proposals, ApprStatuses
    <3>6. (a = click.exact) \/ click.choice # "approved"
      OBVIOUS
    <3>7. SetDoc(i, q)
      BY <1>10, <2>1, <3>3, Zenon DEF DecideWrites
    <3> HIDE DEF a, q
    <3>8. q \in Proposals
      BY <1>3, <3>4, <3>5, Zenon DEF Proposals
    <3>9. q.status = click.choice /\ q.exact = Doc(i).exact
      BY <1>3, <3>4 DEF Proposals
    <3>10. /\ Doc(i)' = q /\ appr'[i].version = appr[i].version
           /\ DocStep(i) /\ ClearStep(i) => DocSteps
      BY <1>1, <3>7, <3>8, ProposalReplaced, Zenon
    <3>11. Doc(i).status = "pending" /\ appr[i].version = click.version
      BY <2>1, <3>3 DEF Decidable
    <3>12. DocStep(i)
      BY <1>3, <3>1, <3>2, <3>9, <3>10, <3>11 DEF DocStep, Taken
    <3>13. click.choice = "approved" => <<i, Doc(i).exact>> \in consented
      BY <1>10, <3>3, <3>11 DEF DecideWrites, ClickInv
    <3>14. ClearStep(i)
      BY <3>9, <3>10, <3>13 DEF ClearStep, Cleared, MaySend
    <3> QED BY <3>10, <3>12, <3>14
  <2>2. CASE ~Decidable(click.id, click.version)
    BY <1>1, <1>10, <2>2, NoDocStep DEF DecideWrites
  <2> QED BY <2>1, <2>2
<1>11. ASSUME NEW i \in Ids, NEW e \in Exacts, OwnerEdits(i, e) PROVE DocSteps
  <2> DEFINE q == [Doc(i) EXCEPT !.exact = e, !.by = "owner"]
             a == [prop |-> q, version |-> appr[i].version + 1, late |-> FALSE]
  <2>1. appr' = [appr EXCEPT ![i] = a]
    BY <1>11, Zenon DEF OwnerEdits
  <2>2. q \in Proposals /\ q.status = "pending" /\ q.exact = e
    BY <1>3, <1>11 DEF Proposals, OwnerEdits
  <2>3. Doc(i).status = "pending"
    BY <1>11 DEF OwnerEdits
  <2> HIDE DEF q
  <2>4. /\ appr[i].version + 1 \in 1..(MaxEdits + 1)
        /\ edits' = edits + 1 /\ appr[i].version # appr[i].version + 1
    <3>1. edits \in Nat /\ edits < MaxEdits /\ edits' = edits + 1
      BY <1>11, TypeOKParts DEF TypeInv, OwnerEdits
    <3>2. appr[i].version \in 1..(MaxEdits + 1) /\ appr[i].version <= edits + 1
      BY <1>3 DEF TypeInv, EditInv
    <3> QED BY <3>1, <3>2
  <2>5. a \in Approvals
    BY <2>2, <2>4, Zenon DEF Approvals
  <2>6. a.prop = q /\ a.version = appr[i].version + 1
    OBVIOUS
  <2> HIDE DEF a
  <2>7. /\ appr' \in [Ids -> Approvals] /\ appr'[i] = a
        /\ \A j \in Ids \ {i} : appr'[j] = appr[j]
    BY <1>1, <2>1, <2>5, Zenon
  <2>8. DocStep(i) /\ ClearStep(i)
    BY <1>3, <2>2, <2>3, <2>4, <2>6, <2>7 DEF DocStep, ClearStep, Cleared, Doc, Taken
  <2>9. \A j \in Ids \ {i} : DocStep(j) /\ ClearStep(j)
    BY <1>3, <2>7 DEF DocStep, ClearStep, Cleared, Doc
  <2> QED BY <2>7, <2>8, <2>9 DEF DocSteps
<1>12. ASSUME \/ FreeReservation \/ DecideReads \/ DecideRequeues \/ Revoke
              \/ \E r \in Runs : FindsReady(r) \/ Unpark(r) \/ LeaseExpires(r) \/ ExpireRun(r)
              \/ \E r \in Runs : Wakes(r) \/ CancelsRun(r)
              \/ \E r \in Runs : \E dry \in BOOLEAN : Enqueue(r, dry)
              \/ \E i \in Ids : \E c \in {"approved", "rejected", "cancelled"} : OwnerClicks(i, c)
       PROVE  DocSteps
  <2>1. UNCHANGED appr
    BY <1>12, Zenon
       DEF FreeReservation, DecideReads, DecideRequeues, Revoke, FindsReady, Unpark, LeaseExpires,
           ExpireRun, Wakes, CancelsRun, Enqueue, OwnerClicks, dbVars
  <2> QED BY <1>1, <2>1, NoDocStep
<1> QED
  BY <1>4, <1>5, <1>6, <1>8, <1>9, <1>10, <1>11, <1>12
     DEF Outsider, Sweeps, Time, Owner, Routes

----------------------------------------------------------------------------
(* Any step. *)

WorkerMoves(w) == (\E r \in Runs : Lease(w, r)) \/ WorkerStep(w) \/ Crash(w)

LEMMA NextKinds == Next <=> Outsider \/ \E w \in Workers : WorkerMoves(w)
<1> QED BY Zenon DEF Next, Outsider, WorkerMoves

LEMMA WorkerEffects ==
    ASSUME TypeInv, NEW w \in Workers, WorkerMoves(w)
    PROVE  TickMove(w) /\ DocSteps
<1> QED BY PlanningSteps, WritingSteps, CallingSteps, Zenon DEF WorkerMoves, WorkerStep

(* Only a call under way is ever carried out, and is then over. *)
Sending(w) == /\ wk[w].at = "calling" /\ ~Claiming(w)'
              /\ sent' = sent \cup {<<Id(w), wk[w].prop.exact>>}

LEMMA WorkerOutside ==
    ASSUME TypeInv, NEW w \in Workers, WorkerMoves(w)
    PROVE  /\ UNCHANGED <<active, granted, click, cancelling, edits, consented, edited, ready>>
           /\ UNCHANGED sent \/ Sending(w)
           /\ UNCHANGED crashes \/ (crashes < MaxCrashes /\ crashes' = crashes + 1)
<1>1. UNCHANGED <<active, granted, click, cancelling, edits, consented, edited, ready>>
  BY Zenon DEF WorkerMoves, WorkerStep, Lease, Checks, PlannerAnswers, PlannerFails, RechecksAfterPlanning,
     SavesDecision, Acts, ProposalAllowed, ChecksHistory, Upserts, MarksPreview, ReadsMode,
     PolicyApproves, WaitsForOwner, ChecksApproval, Claims, Rereads, Sends, ProviderAnswers,
     ProviderFails, RecordsOutcome, Settles, EndsUnknown, Fails, Crash, UnchangedOutside, boundVars,
     history, dbVars
<1>2. UNCHANGED sent \/ Sending(w)
  <2>1. \/ UNCHANGED sent
        \/ /\ ProviderAnswers(w) \/ ProviderFails(w) \/ (Crash(w) /\ At(w, "calling"))
           /\ Delivered(w)
    BY Zenon DEF WorkerMoves, WorkerStep, Lease, Checks, PlannerAnswers, PlannerFails,
       RechecksAfterPlanning, SavesDecision, Acts, ProposalAllowed, ChecksHistory, Upserts,
       MarksPreview, ReadsMode, PolicyApproves, WaitsForOwner, ChecksApproval, Claims, Rereads,
       Sends, ProviderAnswers, ProviderFails, RecordsOutcome, Settles, EndsUnknown, Fails, Crash,
       history
  <2>2. wk \in [Workers -> Ticks]
    BY TypeOKParts DEF TypeInv
  <2>3. CASE Crash(w) /\ At(w, "calling") /\ Delivered(w)
    <3>1. wk'[w].at = "idle"
      BY <2>2, <2>3, LeaveMoves DEF Crash
    <3> QED BY <2>3, <3>1 DEF Sending, Claiming, Delivered, At
  <2>4. CASE (ProviderAnswers(w) \/ ProviderFails(w)) /\ Delivered(w)
    <3>1. \E s \in {"uncertain", "executed"} : wk' =
            [wk EXCEPT ![w] = [wk[w] EXCEPT !.at = "recording", !.prop = [wk[w].prop EXCEPT !.status = s]]]
      BY <2>4, Zenon DEF ProviderAnswers, ProviderFails, Learn
    <3>2. wk'[w].at = "recording"
      BY <2>2, <3>1 DEF Ticks
    <3> QED BY <2>4, <3>2 DEF Sending, Claiming, Delivered, At, ProviderAnswers, ProviderFails
  <2> QED BY <2>1, <2>3, <2>4
<1>3. UNCHANGED crashes \/ (crashes < MaxCrashes /\ crashes' = crashes + 1)
  BY Zenon DEF WorkerMoves, WorkerStep, Lease, Checks, PlannerAnswers, PlannerFails, RechecksAfterPlanning,
     SavesDecision, Acts, ProposalAllowed, ChecksHistory, Upserts, MarksPreview, ReadsMode,
     PolicyApproves, WaitsForOwner, ChecksApproval, Claims, Rereads, Sends, ProviderAnswers,
     ProviderFails, RecordsOutcome, Settles, EndsUnknown, Fails, Crash, UnchangedOutside, boundVars
<1> QED BY <1>1, <1>2, <1>3

LEMMA OutsiderOutside ==
    ASSUME Outsider
    PROVE  UNCHANGED <<wk, sent, crashes>>
<1> QED
  BY Zenon DEF Outsider, Sweeps, Time, Owner, Routes, FreeReservation, Unpark, LeaseExpires, ExpireRun,
     Wakes, CancelsRun, Enqueue, DecideRequeues, DecideReads, DecideWrites, CancelsApprovals, Revoke,
     FindsReady, CleanUp, Lapse, ExpireApproval, SweepExecuting, OwnerClicks, OwnerEdits, dbVars,
     boundVars, history

(* What they do to the rest. *)
Clicks == [at : {"none", "seen", "read", "requeue"}, id : Ids \cup {None},
           version : 0..(MaxEdits + 1), exact : Exacts \cup {None},
           choice : {"none", "approved", "rejected", "cancelled"}]

LEMMA OutsiderTypes ==
    ASSUME TypeInv, DocInv, ClickInv, Outsider
    PROVE  /\ active' \in Runs \cup {None} /\ granted' \in BOOLEAN /\ ready' \subseteq Runs
           /\ click' \in Clicks /\ cancelling' \in Runs \cup {None}
           /\ edits' \in 0..MaxEdits /\ edits <= edits' /\ edited' \subseteq Ids
           /\ consented' \subseteq Ids \X Exacts /\ consented \subseteq consented'
<1>1. /\ active \in Runs \cup {None} /\ granted \in BOOLEAN /\ ready \subseteq Runs
      /\ click \in Clicks /\ cancelling \in Runs \cup {None}
      /\ edits \in 0..MaxEdits /\ edited \subseteq Ids /\ consented \subseteq Ids \X Exacts
      /\ appr \in [Ids -> Approvals]
  BY TypeOKParts DEF TypeInv, Clicks
<1>2. NoClick \in Clicks /\ \A i \in Ids : [NoClick EXCEPT !.at = "requeue", !.id = i] \in Clicks
  <2>1. 0 \in 0..(MaxEdits + 1)
    OBVIOUS
  <2>2. NoClick \in Clicks
    BY <2>1, Zenon DEF NoClick, Clicks
  <2> QED BY <2>2, Zenon DEF Clicks
<1>3. active' \in Runs \cup {None} /\ granted' \in BOOLEAN /\ ready' \subseteq Runs
  BY <1>1 DEF Outsider, Sweeps, Time, Owner, Routes, FreeReservation, Unpark, LeaseExpires, ExpireRun,
     Wakes, CancelsRun, Enqueue, DecideRequeues, DecideReads, DecideWrites, CancelsApprovals, Revoke,
     FindsReady, CleanUp, Lapse, ExpireApproval, SweepExecuting, OwnerClicks, OwnerEdits, dbVars
<1>4. cancelling' \in Runs \cup {None} /\ edited' \subseteq Ids
  BY <1>1 DEF Outsider, Sweeps, Time, Owner, Routes, FreeReservation, Unpark, LeaseExpires, ExpireRun,
     Wakes, CancelsRun, Enqueue, DecideRequeues, DecideReads, DecideWrites, CancelsApprovals, Revoke,
     FindsReady, CleanUp, Lapse, ExpireApproval, SweepExecuting, OwnerClicks, OwnerEdits, history
<1>5. edits' \in 0..MaxEdits /\ edits <= edits'
  <2>1. UNCHANGED edits \/ (edits < MaxEdits /\ edits' = edits + 1)
    BY Zenon DEF Outsider, Sweeps, Time, Owner, Routes, FreeReservation, Unpark, LeaseExpires, ExpireRun,
       Wakes, CancelsRun, Enqueue, DecideRequeues, DecideReads, DecideWrites, CancelsApprovals, Revoke,
       FindsReady, CleanUp, Lapse, ExpireApproval, SweepExecuting, OwnerClicks, OwnerEdits, boundVars
  <2> QED BY <1>1, <2>1
<1>6. \/ UNCHANGED <<click, consented>>
      \/ UNCHANGED consented /\ (DecideReads \/ DecideWrites \/ DecideRequeues)
      \/ \E i \in Ids : \E c \in {"approved", "rejected", "cancelled"} : OwnerClicks(i, c)
  BY Zenon DEF Outsider, Sweeps, Time, Owner, Routes, FreeReservation, Unpark, LeaseExpires, ExpireRun,
     Wakes, CancelsRun, Enqueue, DecideRequeues, DecideReads, DecideWrites, CancelsApprovals, Revoke,
     FindsReady, CleanUp, Lapse, ExpireApproval, SweepExecuting, OwnerEdits, history
<1>7. ASSUME NEW i \in Ids, NEW c \in {"approved", "rejected", "cancelled"}, OwnerClicks(i, c)
      PROVE  /\ click' \in Clicks /\ consented' \subseteq Ids \X Exacts /\ consented \subseteq consented'
  <2>1. Doc(i).exact \in Exacts
    BY <1>7 DEF OwnerClicks, DocInv
  <2>2. appr[i].version \in 0..(MaxEdits + 1)
    BY <1>1 DEF Approvals
  <2> QED BY <1>1, <1>7, <2>1, <2>2 DEF OwnerClicks, Clicks
<1>8. ASSUME DecideReads PROVE click' \in Clicks
  <2>1. click.id \in Ids
    BY <1>8 DEF DecideReads, ClickInv
  <2>2. Doc(click.id).exact \in Exacts \cup {None}
    BY <1>1, <2>1 DEF Approvals, Proposals, Doc
  <2>3. [click EXCEPT !.at = "read", !.exact = Doc(click.id).exact] \in Clicks
    BY <1>1, <2>2, Zenon DEF Clicks
  <2> QED BY <1>2, <1>8, <2>3 DEF DecideReads
<1>9. ASSUME DecideWrites \/ DecideRequeues PROVE click' \in Clicks
  <2>1. DecideWrites => click.id \in Ids
    BY DEF DecideWrites, ClickInv
  <2> QED BY <1>2, <1>9, <2>1, Zenon DEF DecideWrites, DecideRequeues
<1>10. /\ click' \in Clicks /\ consented' \subseteq Ids \X Exacts
       /\ consented \subseteq consented'
  BY <1>1, <1>6, <1>7, <1>8, <1>9
<1> QED BY <1>3, <1>4, <1>5, <1>10

----------------------------------------------------------------------------
(* The invariant. *)

(* What every step has in common. *)
Effects ==
    /\ DocSteps /\ run' \in [Runs -> RunDocs] /\ RunInv'
    /\ (\E w \in Workers : TickMove(w)) \/ UNCHANGED wk
    /\ UNCHANGED sent \/ \E w \in Workers : Sending(w)
    /\ consented \subseteq consented'
    /\ edits' \in 0..MaxEdits /\ edits <= edits'

LEMMA NextEffects ==
    ASSUME IInv, Next
    PROVE  Effects
<1>1. consented \subseteq Ids \X Exacts /\ edits \in 0..MaxEdits
  BY TypeOKParts DEF IInv, TypeInv
<1>2. ASSUME NEW w \in Workers, WorkerMoves(w) PROVE Effects
  <2>1. TickMove(w) /\ DocSteps
    BY <1>2, WorkerEffects DEF IInv
  <2>2. UNCHANGED <<edits, consented>> /\ (UNCHANGED sent \/ Sending(w))
    BY <1>2, WorkerOutside DEF IInv
  <2>3. run' \in [Runs -> RunDocs] /\ RunInv'
    BY <2>1 DEF TickMove
  <2> QED BY <1>1, <2>1, <2>2, <2>3 DEF Effects
<1>3. ASSUME Outsider PROVE Effects
  <2>1. run' \in [Runs -> RunDocs] /\ RunInv' /\ DocSteps
    BY <1>3, OutsiderRuns, OutsiderDocs DEF IInv
  <2>2. UNCHANGED wk /\ UNCHANGED sent
    BY <1>3, OutsiderOutside
  <2>3. consented \subseteq consented' /\ edits' \in 0..MaxEdits /\ edits <= edits'
    BY <1>3, OutsiderTypes DEF IInv
  <2> QED BY <2>1, <2>2, <2>3 DEF Effects
<1> QED BY <1>2, <1>3, NextKinds

(* A claimed approval can be found, and names an action. *)
LEMMA ClaimingIds ==
    ASSUME IInv, NEW w \in Workers, Claiming(w)
    PROVE  Id(w) \in Ids /\ wk[w].prop.exact \in Exacts
<1>1. wk[w] \in Ticks /\ TickOK(wk[w]) /\ consented \subseteq Ids \X Exacts
  BY TypeOKParts DEF IInv, TypeInv, WorkInv
<1>2. wk[w].run \in Runs /\ wk[w].step \in Steps
  BY <1>1 DEF Claiming, TickOK, Ticks, Steps
<1>3. Id(w) \in Ids
  BY <1>2 DEF Id, Ids
<1>4. MaySend(Id(w), wk[w].prop.exact)
  BY DEF IInv, ClaimInv
<1> QED BY <1>1, <1>3, <1>4 DEF MaySend

LEMMA KeepsTypes ==
    ASSUME IInv, Next
    PROVE  TypeInv'
<1>1. Effects
  BY NextEffects
<1>2. /\ wk \in [Workers -> Ticks] /\ sent \subseteq Ids \X Exacts /\ crashes \in 0..MaxCrashes
      /\ appr \in [Ids -> Approvals] /\ edits \in 0..MaxEdits
      /\ active \in Runs \cup {None} /\ granted \in BOOLEAN /\ ready \subseteq Runs
      /\ click \in Clicks /\ cancelling \in Runs \cup {None} /\ edited \subseteq Ids
      /\ consented \subseteq Ids \X Exacts
  BY TypeOKParts DEF IInv, TypeInv, Clicks
<1>3. wk' \in [Workers -> Ticks] /\ WorkInv'
  <2>1. CASE UNCHANGED wk
    BY <2>1, <1>2 DEF IInv, TypeInv, WorkInv, TickOK
  <2>2. ASSUME NEW w \in Workers, TickMove(w) PROVE wk' \in [Workers -> Ticks] /\ WorkInv'
    BY <2>2 DEF TickMove, IInv, TypeInv, WorkInv
  <2> QED BY <1>1, <2>1, <2>2 DEF Effects
<1>4. sent' \subseteq Ids \X Exacts
  <2>1. ASSUME NEW w \in Workers, Sending(w) PROVE sent' \subseteq Ids \X Exacts
    <3>1. Claiming(w)
      BY <2>1 DEF Sending, Claiming
    <3> QED BY <2>1, <3>1, <1>2, ClaimingIds DEF Sending
  <2> QED BY <1>1, <1>2, <2>1 DEF Effects
<1>5. EditInv'
  <2> SUFFICES ASSUME NEW i \in Ids PROVE appr'[i].version <= edits' + 1
    BY DEF EditInv
  <2>1. appr[i].version \in 1..(MaxEdits + 1) /\ appr[i].version <= edits + 1
    BY <1>2 DEF Approvals, IInv, TypeInv, EditInv
  <2>2. DocStep(i) /\ edits' \in 0..MaxEdits /\ edits <= edits'
    BY <1>1 DEF Effects, DocSteps
  <2> QED BY <1>2, <2>1, <2>2 DEF DocStep
<1>6. /\ active' \in Runs \cup {None} /\ granted' \in BOOLEAN /\ ready' \subseteq Runs
      /\ click' \in Clicks /\ cancelling' \in Runs \cup {None} /\ edited' \subseteq Ids
      /\ consented' \subseteq Ids \X Exacts /\ crashes' \in 0..MaxCrashes
  <2>1. CASE Outsider
    <3>1. UNCHANGED crashes
      BY <2>1, OutsiderOutside
    <3> QED BY <2>1, <3>1, <1>2, OutsiderTypes DEF IInv
  <2>2. ASSUME NEW w \in Workers, WorkerMoves(w)
        PROVE  /\ UNCHANGED <<active, granted, click, cancelling, consented, edited, ready>>
               /\ crashes' \in 0..MaxCrashes
    BY <2>2, <1>2, WorkerOutside DEF IInv
  <2> QED BY <1>2, <2>1, <2>2, NextKinds
<1>7. TypeOK'
  <2>1. appr' \in [Ids -> Approvals] /\ run' \in [Runs -> RunDocs] /\ edits' \in 0..MaxEdits
    BY <1>1 DEF Effects, DocSteps
  <2> QED BY <1>3, <1>4, <1>6, <2>1 DEF TypeOK, RunDocs, Approvals, Ticks, Clicks
<1> QED BY <1>1, <1>3, <1>5, <1>7 DEF TypeInv, Effects

LEMMA KeepsDocs ==
    ASSUME IInv, Next
    PROVE  DocInv'
<1> SUFFICES ASSUME NEW i \in Ids
             PROVE  /\ Doc(i)'.status # "none" => Doc(i)'.exact \in Exacts
                    /\ Cleared(i)' => MaySend(i, Doc(i).exact)'
  BY DEF DocInv
<1>1. DocStep(i) /\ ClearStep(i) /\ consented \subseteq consented'
  BY NextEffects DEF Effects, DocSteps
<1>2. /\ Doc(i).status # "none" => Doc(i).exact \in Exacts
      /\ Cleared(i) => MaySend(i, Doc(i).exact)
  BY DEF IInv, DocInv
<1>3. Doc(i)'.status # "none" => Doc(i)'.exact \in Exacts
  BY <1>1, <1>2 DEF DocStep
<1>4. Cleared(i)' => MaySend(i, Doc(i)'.exact)
  BY <1>1, <1>2 DEF ClearStep
<1>5. MaySend(i, Doc(i)'.exact) => MaySend(i, Doc(i).exact)'
  BY <1>1 DEF MaySend
<1> QED BY <1>3, <1>4, <1>5

LEMMA KeepsClicks ==
    ASSUME IInv, Next
    PROVE  ClickInv'
<1>1. appr \in [Ids -> Approvals] /\ appr' \in [Ids -> Approvals] /\ click \in Clicks
  BY TypeOKParts, NextEffects DEF IInv, TypeInv, Clicks, Effects, DocSteps
<1>2. \A i \in Ids : DocStep(i)
  BY NextEffects DEF Effects, DocSteps
<1>3. consented \subseteq consented' /\ edits \in 0..MaxEdits
  BY TypeOKParts, NextEffects DEF IInv, TypeInv, Effects
<1>4. ASSUME NEW i \in Ids
      PROVE  appr[i].version \in Nat /\ appr[i].version <= appr'[i].version
  <2>1. appr[i].version \in Nat
    BY <1>1 DEF Approvals
  <2> QED BY <2>1, <1>2 DEF DocStep
<1>5. CASE UNCHANGED click
  <2> SUFFICES ASSUME click.at \in {"seen", "read"}
               PROVE  /\ click.id \in Ids /\ click.choice # "none"
                      /\ Doc(click.id)'.status # "none"
                      /\ click.version <= appr'[click.id].version
                      /\ click.choice = "approved" /\ click.version = appr'[click.id].version
                           => <<click.id, Doc(click.id)'.exact>> \in consented'
    BY <1>5 DEF ClickInv, Doc
  <2>1. PICK i \in Ids : i = click.id
    BY DEF IInv, ClickInv
  <2>2. /\ click.choice # "none" /\ Doc(i).status # "none"
        /\ click.version <= appr[i].version
        /\ click.choice = "approved" /\ click.version = appr[i].version
             => <<i, Doc(i).exact>> \in consented
    BY <2>1 DEF IInv, ClickInv
  <2>3. click.version \in Nat
    BY <1>1 DEF Clicks
  <2>4. Doc(i)'.status # "none" /\ click.version <= appr'[i].version
    BY <1>2, <1>4, <2>2, <2>3 DEF DocStep
  <2>5. ASSUME click.choice = "approved", click.version = appr'[i].version
        PROVE  <<i, Doc(i)'.exact>> \in consented'
    <3>1. appr'[i].version = appr[i].version
      BY <1>2, <1>4, <2>2, <2>3, <2>5 DEF DocStep
    <3>2. Doc(i)'.exact = Doc(i).exact
      BY <1>2, <2>2, <3>1 DEF DocStep
    <3> QED BY <1>3, <2>2, <2>5, <3>1, <3>2
  <2> QED BY <1>5, <2>1, <2>2, <2>4, <2>5 DEF Doc
<1>6. ASSUME NEW i \in Ids, NEW c \in {"approved", "rejected", "cancelled"}, OwnerClicks(i, c)
      PROVE  ClickInv'
  <2>1. /\ click' = [at |-> "seen", id |-> i, version |-> appr[i].version,
                     exact |-> Doc(i).exact, choice |-> c]
        /\ Doc(i).status = "pending" /\ UNCHANGED appr
        /\ c = "approved" => <<i, Doc(i).exact>> \in consented'
    BY <1>6 DEF OwnerClicks, dbVars
  <2>2. /\ click'.id = i /\ click'.version = appr[i].version /\ click'.choice = c
        /\ Doc(i)' = Doc(i) /\ appr'[i].version = appr[i].version
    BY <2>1 DEF Doc
  <2>3. appr[i].version <= appr'[i].version
    BY <1>4
  <2> QED BY <2>1, <2>2, <2>3 DEF ClickInv, Doc
<1>7. ASSUME DecideReads PROVE ClickInv'
  <2>1. UNCHANGED <<appr, consented>> /\ click.at = "seen"
    BY <1>7 DEF DecideReads, dbVars, history
  <2>2. CASE click' = NoClick
    BY <2>2 DEF NoClick, ClickInv
  <2>3. CASE click' = [click EXCEPT !.at = "read", !.exact = Doc(click.id).exact]
    <3>1. click'.id = click.id /\ click'.version = click.version /\ click'.choice = click.choice
      BY <2>3, <1>1 DEF Clicks
    <3> QED BY <2>1, <3>1 DEF ClickInv, IInv, Doc
  <2> QED BY <1>7, <2>2, <2>3, Zenon DEF DecideReads
<1>8. ASSUME DecideWrites \/ DecideRequeues PROVE ClickInv'
  <2>1. click'.at \in {"none", "requeue"}
    <3>1. click' = NoClick \/ click' = [NoClick EXCEPT !.at = "requeue", !.id = click.id]
      BY <1>8 DEF DecideWrites, DecideRequeues
    <3>2. NoClick.at = "none"
      BY DEF NoClick
    <3>3. [NoClick EXCEPT !.at = "requeue", !.id = click.id].at = "requeue"
      BY DEF NoClick
    <3> QED BY <3>1, <3>2, <3>3, Zenon
  <2> QED BY <2>1 DEF ClickInv
<1>9. \/ UNCHANGED click \/ DecideReads \/ DecideWrites \/ DecideRequeues
      \/ \E i \in Ids : \E c \in {"approved", "rejected", "cancelled"} : OwnerClicks(i, c)
  <2>1. ASSUME NEW w \in Workers, WorkerMoves(w) PROVE UNCHANGED click
    BY <2>1, WorkerOutside DEF IInv
  <2>2. ASSUME Outsider
        PROVE  \/ UNCHANGED click \/ DecideReads \/ DecideWrites \/ DecideRequeues
               \/ \E i \in Ids : \E c \in {"approved", "rejected", "cancelled"} : OwnerClicks(i, c)
    BY <2>2, Zenon
       DEF Outsider, Sweeps, Time, Owner, Routes, FreeReservation, Unpark, LeaseExpires, ExpireRun,
           Wakes, CancelsRun, Enqueue, CancelsApprovals, Revoke,
           FindsReady, CleanUp, Lapse, ExpireApproval, SweepExecuting, OwnerEdits
  <2> QED BY <2>1, <2>2, NextKinds
<1> QED BY <1>5, <1>6, <1>7, <1>8, <1>9

LEMMA KeepsClaims ==
    ASSUME IInv, Next
    PROVE  ClaimInv'
<1>1. Effects
  BY NextEffects
<1>2. \A i \in Ids : DocStep(i) /\ consented \subseteq consented'
  BY <1>1 DEF Effects, DocSteps
<1>3. ASSUME NEW w \in Workers, Claiming(w)'
      PROVE  /\ Id(w)' = Id(w) /\ wk'[w].prop = wk[w].prop /\ Id(w) \in Ids
             /\ \/ Claiming(w)
                \/ /\ Cleared(Id(w)) /\ Doc(Id(w)).exact = wk[w].prop.exact
                   /\ appr'[Id(w)].prop.status = "executing"
                   /\ appr'[Id(w)].prop.exact = wk[w].prop.exact
                   /\ \A v \in Workers \ {w} : wk'[v] = wk[v]
  <2>1. /\ Id(w)' = Id(w) /\ wk'[w].prop = wk[w].prop
        /\ \/ Claiming(w)
           \/ /\ Cleared(Id(w)) /\ Doc(Id(w)).exact = wk[w].prop.exact
              /\ appr'[Id(w)].prop.status = "executing"
              /\ appr'[Id(w)].prop.exact = wk[w].prop.exact
              /\ \A v \in Workers \ {w} : wk'[v] = wk[v]
    <3>1. CASE UNCHANGED wk
      BY <1>3, <3>1 DEF Claiming, Id
    <3>2. ASSUME NEW u \in Workers \ {w}, TickMove(u) PROVE wk'[w] = wk[w]
      BY <3>2 DEF TickMove
    <3>3. CASE wk'[w] = wk[w]
      BY <1>3, <3>3 DEF Claiming, Id
    <3>4. CASE TickMove(w)
      BY <1>3, <3>4 DEF TickMove, ClaimMove
    <3> QED BY <1>1, <3>1, <3>2, <3>3, <3>4 DEF Effects
  <2>2. Id(w) \in Ids
    <3>1. wk' \in [Workers -> Ticks] /\ TickOK(wk'[w])
      BY KeepsTypes DEF TypeInv, TypeOK, WorkInv, Ticks
    <3>2. wk'[w].run \in Runs /\ wk'[w].step \in Steps
      BY <1>3, <3>1 DEF Claiming, TickOK, Ticks, Steps
    <3> QED BY <2>1, <3>2 DEF Id, Ids
  <2> QED BY <2>1, <2>2
<1>4. ASSUME NEW w \in Workers, Claiming(w)'
      PROVE  /\ Doc(Id(w))'.status \in Taken
             /\ Doc(Id(w))'.exact = wk'[w].prop.exact
             /\ MaySend(Id(w), wk[w].prop.exact)'
  <2>1. PICK i \in Ids : i = Id(w) /\ i = Id(w)'
    BY <1>3, <1>4
  <2>2. CASE Claiming(w)
    <3>1. /\ Doc(i).status \in Taken /\ Doc(i).exact = wk[w].prop.exact
          /\ MaySend(i, wk[w].prop.exact)
      BY <2>1, <2>2 DEF IInv, ClaimInv
    <3>2. Doc(i)'.status \in Taken /\ Doc(i)'.exact = wk[w].prop.exact
      BY <1>2, <3>1 DEF DocStep
    <3> QED BY <1>2, <1>3, <1>4, <2>1, <3>1, <3>2 DEF Doc, MaySend
  <2>3. CASE ~Claiming(w)
    <3>1. /\ Cleared(i) /\ Doc(i).exact = wk[w].prop.exact
          /\ Doc(i)'.status = "executing" /\ Doc(i)'.exact = wk[w].prop.exact
      BY <1>3, <1>4, <2>1, <2>3 DEF Doc
    <3>2. MaySend(i, wk[w].prop.exact)
      BY <3>1 DEF IInv, DocInv
    <3> QED BY <1>2, <1>3, <1>4, <2>1, <3>1, <3>2 DEF Doc, MaySend, Taken
  <2> QED BY <2>2, <2>3
<1>5. ASSUME NEW v \in Workers, NEW w \in Workers, Claiming(v)', Claiming(w)', Id(v)' = Id(w)'
      PROVE  v = w
  <2>1. Id(v) = Id(w) /\ Id(w) \in Ids
    BY <1>3, <1>5
  <2>2. CASE Claiming(v) /\ Claiming(w)
    BY <2>1, <2>2 DEF IInv, ClaimInv
  <2>3. ASSUME NEW x \in Workers, NEW y \in Workers, Claiming(x), ~Claiming(y),
               Claiming(y)', Id(x) = Id(y)
        PROVE  FALSE
    <3>1. Doc(Id(x)).status \in Taken
      BY <2>3 DEF IInv, ClaimInv
    <3>2. Doc(Id(y)).status = "approved"
      BY <1>3, <2>3 DEF Cleared
    <3> QED BY <2>3, <3>1, <3>2 DEF Taken
  <2>4. CASE ~Claiming(v) /\ ~Claiming(w)
    <3>1. SUFFICES ASSUME v # w PROVE FALSE
      OBVIOUS
    <3>2. wk'[v] = wk[v]
      BY <1>3, <1>5, <2>4, <3>1
    <3> QED BY <1>5, <2>4, <3>2 DEF Claiming
  <2> QED BY <1>5, <2>1, <2>2, <2>3, <2>4
<1> QED BY <1>4, <1>5 DEF ClaimInv

LEMMA KeepsSent ==
    ASSUME IInv, Next
    PROVE  SentInv'
<1>1. /\ \A i \in Ids : DocStep(i)
      /\ consented \subseteq consented' /\ sent \subseteq Ids \X Exacts
      /\ UNCHANGED sent \/ \E w \in Workers : Sending(w)
  BY TypeOKParts, NextEffects DEF IInv, TypeInv, Effects, DocSteps
<1> SUFFICES ASSUME NEW s \in sent'
             PROVE  /\ Doc(s[1])'.status \in Taken /\ Doc(s[1])'.exact = s[2]
                    /\ MaySend(s[1], s[2])'
  BY DEF SentInv
<1>2. /\ s[1] \in Ids /\ Doc(s[1]).status \in Taken /\ Doc(s[1]).exact = s[2]
      /\ MaySend(s[1], s[2])
  <2>1. CASE s \in sent
    BY <1>1, <2>1 DEF IInv, SentInv
  <2>2. ASSUME NEW w \in Workers, Sending(w), s = <<Id(w), wk[w].prop.exact>>
        PROVE  /\ s[1] \in Ids /\ Doc(s[1]).status \in Taken /\ Doc(s[1]).exact = s[2]
               /\ MaySend(s[1], s[2])
    <3>1. Claiming(w)
      BY <2>2 DEF Sending, Claiming
    <3>2. /\ Doc(Id(w)).status \in Taken /\ Doc(Id(w)).exact = wk[w].prop.exact
          /\ MaySend(Id(w), wk[w].prop.exact)
      BY <3>1 DEF IInv, ClaimInv
    <3>3. Id(w) \in Ids
      BY <3>1, ClaimingIds
    <3>4. s[1] = Id(w) /\ s[2] = wk[w].prop.exact
      BY <2>2
    <3> QED BY <3>2, <3>3, <3>4
  <2> QED BY <1>1, <2>1, <2>2 DEF Sending
<1>3. Doc(s[1])'.status \in Taken /\ Doc(s[1])'.exact = s[2]
  BY <1>1, <1>2 DEF DocStep
<1> QED BY <1>1, <1>2, <1>3 DEF MaySend

LEMMA KeepsInvariant == IInv /\ [Next]_vars => IInv'
<1> SUFFICES ASSUME IInv, [Next]_vars PROVE IInv'
  OBVIOUS
<1>1. CASE Next
  BY <1>1, KeepsTypes, KeepsDocs, KeepsClicks, KeepsClaims, KeepsSent DEF IInv
<1>2. CASE UNCHANGED vars
  <2> USE <1>2 DEF vars, dbVars, boundVars, history
  <2>1. TypeInv'
    BY DEF IInv, TypeInv, TypeOK, RunInv, WorkInv, EditInv, TickOK
  <2>2. DocInv' /\ SentInv'
    BY DEF IInv, DocInv, SentInv, Cleared, MaySend, Doc
  <2>3. ClickInv'
    BY DEF IInv, ClickInv, Doc
  <2>4. ClaimInv'
    BY DEF IInv, ClaimInv, Claiming, Id, Doc, MaySend
  <2> QED BY <2>1, <2>2, <2>3, <2>4 DEF IInv
<1> QED BY <1>1, <1>2

LEMMA StartsInvariant == Init => IInv
<1> SUFFICES ASSUME Init PROVE IInv
  OBVIOUS
<1>1. /\ run = [r \in Runs |-> [status |-> "none", step |-> 0, dec |-> "none",
                                lease |-> None, fresh |-> FALSE, dry |-> FALSE]]
      /\ appr = [i \in Ids |-> [prop |-> NoProposal, version |-> 1, late |-> FALSE]]
      /\ wk = [w \in Workers |-> Idle] /\ click = NoClick
      /\ active = None /\ granted = TRUE /\ ready = {} /\ cancelling = None
      /\ edits = 0 /\ crashes = 0 /\ sent = {} /\ consented = {} /\ edited = {}
  BY DEF Init
<1>2. 0 \in 0..MaxSteps /\ 1 \in 1..(MaxEdits + 1) /\ 0 \in 0..(MaxEdits + 1)
      /\ 0 \in 0..MaxEdits /\ 0 \in 0..MaxCrashes
  OBVIOUS
<1>3. run \in [Runs -> RunDocs]
  <2>1. "none" \in RunStatuses /\ "none" \in Decisions
    BY DEF RunStatuses, Decisions
  <2>2. [status |-> "none", step |-> 0, dec |-> "none",
         lease |-> None, fresh |-> FALSE, dry |-> FALSE] \in RunDocs
    BY <2>1, <1>2 DEF RunDocs
  <2> QED BY <1>1, <2>2
<1>4. appr \in [Ids -> Approvals]
  <2>1. [prop |-> NoProposal, version |-> 1, late |-> FALSE] \in Approvals
    BY <1>2, IdleTyped DEF Approvals
  <2> QED BY <1>1, <2>1
<1>5. wk \in [Workers -> Ticks]
  BY <1>1, IdleTyped
<1>6. click \in Clicks
  BY <1>1, <1>2, Zenon DEF NoClick, Clicks
<1>7. TypeOK
  BY <1>1, <1>2, <1>3, <1>4, <1>5, <1>6 DEF TypeOK, RunDocs, Approvals, Ticks, Clicks
<1>8. RunInv
  BY <1>1 DEF RunInv
<1>9. \A w \in Workers : wk[w].at = "idle"
  BY <1>1 DEF Idle
<1>10. \A i \in Ids : appr[i].version = 1 /\ Doc(i).status = "none"
  BY <1>1 DEF Doc, NoProposal
<1>11. WorkInv /\ ClaimInv
  BY <1>9 DEF WorkInv, TickOK, ClaimInv, Claiming
<1>12. EditInv /\ DocInv
  BY <1>1, <1>10 DEF EditInv, DocInv, Cleared
<1>13. ClickInv /\ SentInv
  BY <1>1 DEF ClickInv, NoClick, SentInv
<1> QED BY <1>7, <1>8, <1>11, <1>12, <1>13 DEF IInv, TypeInv

LEMMA AlwaysInvariant == Spec => []IInv
<1> QED BY StartsInvariant, KeepsInvariant, PTL DEF Spec

----------------------------------------------------------------------------
(* The order of the runs and of their steps: one run of the job at a time is
   live, and it takes one step after the other. *)

Busy(w) == wk[w].at # "idle"

LiveInv ==
    /\ \A r \in Runs : Live(r) => active = r
    /\ \A r \in Runs : run[r].lease # None => run[r].status = "running"

(* Nothing is known of a run before it starts, nor of a step before the run is
   there; the holder of the lease is at the step of the run. *)
StepInv ==
    /\ \A w \in Workers : Busy(w) =>
         /\ run[wk[w].run].status # "none"
         /\ wk[w].step <= run[wk[w].run].step
         /\ run[wk[w].run].lease = w => wk[w].step = run[wk[w].run].step
    /\ \A i \in Ids : Doc(i).status # "none" =>
         run[i[1]].status # "none" /\ i[2] <= run[i[1]].step

(* i may have sent e, and nobody knows. *)
Hot(i, e) ==
    /\ Doc(i).status \in Unknown
    /\ <<i, e>> \in sent \/ \E w \in CallingFor(i) : wk[w].prop.exact = e

Current(i) == Live(i[1]) /\ run[i[1]].step = i[2]

(* i is about to ask for e, or has been saved with it. *)
Wants(i, e) ==
    \/ Doc(i).status # "none" /\ i \notin edited /\ Doc(i).exact = e
    \/ \E w \in Workers : At(w, "upserting") /\ Id(w) = i /\ wk[w].dec = e

(* Why an action of unknown outcome is not repeated: the step that is the live
   run's turn read the approvals when it proposed its action, and only that step
   can send anything. *)
RepeatInv ==
    \A i, j \in Ids : \A e \in Exacts : Current(j) /\ Wants(j, e) /\ Hot(i, e) => i = j

(* What a step does to a run ... *)
RunChange(r, d) ==
    /\ run[r].step <= d.step
    /\ d.step # run[r].step => d.lease = None
    /\ run[r].status # "none" => d.status # "none"
    /\ d.status \notin Terminal \cup {"none"} /\ ~Live(r)
         => run[r].status = "none" /\ active' = r
    /\ d.lease # None => d.status = "running"
    /\ d.lease \in {None, run[r].lease} \/ \E w \in Workers :
         d.lease = w /\ wk'[w].run = r /\ wk'[w].step = d.step
RunChanges == \A r \in Runs : RunChange(r, run'[r])

(* ... to the tick of a worker ... *)
PlaceStep(w) ==
    /\ Busy(w)' => \/ Busy(w) /\ wk'[w].run = wk[w].run /\ wk'[w].step = wk[w].step
                   \/ /\ wk'[w].run \in Runs /\ Live(wk'[w].run)
                      /\ wk'[w].step = run[wk'[w].run].step
    /\ wk'[w].at = "upserting" =>
         /\ At(w, "upserting") \/ (At(w, "listing") /\ ~Repeated(w))
         /\ wk'[w].dec = wk[w].dec /\ wk'[w].run = wk[w].run /\ wk'[w].step = wk[w].step
    /\ wk'[w].at = "calling" => At(w, "calling") \/ UNCHANGED run

(* ... and to an approval. *)
DocNews(i) ==
    /\ Doc(i).status = "none" /\ Doc(i)'.status # "none" =>
         \E w \in Workers : At(w, "upserting") /\ Id(w) = i /\ wk[w].dec = Doc(i)'.exact
    /\ Doc(i)'.status \in Unknown => Doc(i).status \in Unknown \cup {"approved"}
    /\ appr'[i].version # appr[i].version => i \in edited'

LEMMA SameRuns ==
    ASSUME LiveInv, run \in [Runs -> RunDocs], NEW r \in Runs, run'[r] = run[r]
    PROVE  RunChange(r, run'[r])
<1>1. run[r].step \in Nat
  BY DEF RunDocs
<1> QED BY <1>1 DEF RunChange, LiveInv, Live

LEMMA OneRunChanges ==
    ASSUME LiveInv, run \in [Runs -> RunDocs], NEW r \in Runs, NEW d,
           run' = [run EXCEPT ![r] = d], RunChange(r, d)
    PROVE  RunChanges
<1>1. run'[r] = d
  BY Zenon
<1>2. ASSUME NEW q \in Runs, q # r PROVE RunChange(q, run'[q])
  <2>1. run'[q] = run[q]
    BY <1>2
  <2> QED BY <2>1, SameRuns
<1> QED BY <1>1, <1>2 DEF RunChanges

(* A worker writes to its run and its tick ends, or its step fails. *)
LEMMA AdvanceChanges ==
    ASSUME TypeInv, LiveInv, StepInv, NEW w \in Workers, Busy(w), wk[w].run \in Runs,
           NEW s \in RunStatuses \ {"none"}, NEW n \in 0..MaxSteps, NEW e \in Decisions,
           wk[w].step <= n, Advance(w, s, n, e)
    PROVE  RunChanges
<1>1. run \in [Runs -> RunDocs]
  BY TypeOKParts, Zenon DEF TypeInv
<1>2. CASE Holds(w)
  <2> DEFINE d == [run[wk[w].run] EXCEPT !.status = s, !.step = n, !.dec = e,
                                         !.lease = None, !.fresh = FALSE]
  <2>1. run' = [run EXCEPT ![wk[w].run] = d]
    BY <1>2, Zenon DEF Advance
  <2>2. d.status = s /\ d.step = n /\ d.lease = None
    BY <1>1 DEF RunDocs
  <2> HIDE DEF d
  <2>3. PICK r \in Runs : r = wk[w].run
    OBVIOUS
  <2>4. run[r].status = "running" /\ run[r].step <= n
    BY <1>2, <2>3 DEF Holds, StepInv
  <2>5. RunChange(r, d)
    BY <2>2, <2>4 DEF RunChange, Live, Terminal
  <2> QED BY <1>1, <2>1, <2>3, <2>5, OneRunChanges
<1>3. CASE ~Holds(w)
  <2>1. run' = run
    BY <1>3, Zenon DEF Advance
  <2> QED BY <1>1, <2>1, SameRuns DEF RunChanges
<1> QED BY <1>2, <1>3

LEMMA EndingChanges ==
    ASSUME LiveInv, run \in [Runs -> RunDocs], NEW r \in Runs, NEW s \in Terminal,
           run[r].status # "none", run' = Ended(r, s)
    PROVE  RunChanges
<1> DEFINE d == [run[r] EXCEPT !.status = s, !.lease = None, !.fresh = FALSE]
<1>1. run' = [run EXCEPT ![r] = d]
  BY Zenon DEF Ended
<1>2. d.status = s /\ d.step = run[r].step /\ d.lease = None /\ run[r].step \in Nat
  BY DEF RunDocs
<1> HIDE DEF d
<1>3. RunChange(r, d)
  BY <1>2 DEF RunChange, Live, Terminal
<1> QED BY <1>1, <1>3, OneRunChanges

(* The worker's steps. *)
LEMMA WorkerRunChanges ==
    ASSUME TypeInv, LiveInv, StepInv, NEW w \in Workers, WorkerMoves(w)
    PROVE  RunChanges
<1>1. /\ wk \in [Workers -> Ticks] /\ run \in [Runs -> RunDocs]
      /\ TickOK(wk[w]) /\ wk[w] \in Ticks
  BY TypeOKParts, Zenon DEF TypeInv, WorkInv
<1>2. /\ wk[w].step \in 0..MaxSteps /\ wk[w].dec \in Decisions
      /\ Busy(w) => wk[w].run \in Runs
      /\ wk[w].at \notin {"idle", "checking", "failing"} => wk[w].step + 1 \in 0..MaxSteps
  BY <1>1 DEF Ticks, TickOK, Busy
<1>3. UNCHANGED run => RunChanges
  BY <1>1, SameRuns DEF RunChanges
<1>4. /\ {"queued", "done", "parked", "failed", "waiting_approval"} \subseteq RunStatuses \ {"none"}
      /\ "none" \in Decisions
  BY DEF RunStatuses, Terminal, Decisions
<1>5. ASSUME NEW s \in {"queued", "done", "parked", "failed", "waiting_approval"},
             NEW n \in {wk[w].step, wk[w].step + 1}, NEW e \in {"none", wk[w].dec},
             wk[w].at \notin {"idle", "checking", "failing"}, Advance(w, s, n, e)
      PROVE  RunChanges
  <2>1. Busy(w) /\ n \in 0..MaxSteps /\ wk[w].step <= n /\ e \in Decisions
    BY <1>2, <1>4, <1>5 DEF Busy
  <2>2. s \in RunStatuses \ {"none"} /\ wk[w].run \in Runs
    BY <1>2, <1>4, <2>1
  <2> QED BY <1>5, <2>1, <2>2, AdvanceChanges
<1>6. ASSUME NEW r \in Runs, Lease(w, r) PROVE RunChanges
  <2> DEFINE d == [run[r] EXCEPT !.status = "running", !.lease = w, !.fresh = TRUE]
  <2>1. run' = [run EXCEPT ![r] = d]
    BY <1>6, Zenon DEF Lease
  <2>2. d.status = "running" /\ d.step = run[r].step /\ d.lease = w /\ run[r].step \in Nat
    BY <1>1 DEF RunDocs
  <2> HIDE DEF d
  <2>3. wk'[w].run = r /\ wk'[w].step = run[r].step
    BY <1>1, <1>6 DEF Lease, Idle
  <2>4. Live(r)
    BY <1>6 DEF Lease, Live, Terminal
  <2>5. RunChange(r, d)
    BY <2>2, <2>3, <2>4 DEF RunChange
  <2> QED BY <1>1, <2>1, <2>5, OneRunChanges
<1>7. ASSUME PlannerFails(w) PROVE RunChanges
  BY <1>3, <1>5, <1>7 DEF PlannerFails, At
<1>8. ASSUME SavesDecision(w) PROVE RunChanges
  <2>1. CASE Holds(w)
    <3> DEFINE d == [run[wk[w].run] EXCEPT !.dec = wk[w].dec]
    <3>1. run' = [run EXCEPT ![wk[w].run] = d]
      BY <1>8, <2>1, Zenon DEF SavesDecision
    <3>2. PICK r \in Runs : r = wk[w].run
      BY <1>2, <1>8 DEF SavesDecision, At, Busy
    <3>3. /\ d.status = run[r].status /\ d.step = run[r].step /\ d.lease = run[r].lease
          /\ run[r].step \in Nat
      BY <1>1, <3>2 DEF RunDocs
    <3> HIDE DEF d
    <3>4. RunChange(r, d)
      BY <3>3 DEF RunChange, LiveInv, Live
    <3> QED BY <1>1, <3>1, <3>2, <3>4, OneRunChanges
  <2>2. CASE ~Holds(w)
    BY <1>3, <1>8, <2>2 DEF SavesDecision
  <2> QED BY <2>1, <2>2
<1>9. ASSUME Acts(w) PROVE RunChanges
  BY <1>5, <1>9 DEF Acts, At
<1>10. ASSUME MarksPreview(w) PROVE RunChanges
  BY <1>5, <1>10 DEF MarksPreview, At
<1>11. ASSUME WaitsForOwner(w) PROVE RunChanges
  BY <1>5, <1>11 DEF WaitsForOwner, At
<1>12. ASSUME Settles(w) PROVE RunChanges
  <2>1. UNCHANGED run \/ Advance(w, "queued", wk[w].step + 1, "none")
    BY <1>12 DEF Settles
  <2> QED BY <1>3, <1>5, <1>12, <2>1 DEF Settles, At
<1>13. ASSUME EndsUnknown(w) PROVE RunChanges
  BY <1>5, <1>13 DEF EndsUnknown, At
<1>14. ASSUME Fails(w) PROVE RunChanges
  <2>1. CASE Holds(w)
    <3>1. run' = Ended(wk[w].run, "failed") /\ run[wk[w].run].status = "running"
      BY <1>14, <2>1 DEF Fails, Holds
    <3>2. wk[w].run \in Runs /\ "failed" \in Terminal
      BY <1>2, <1>14 DEF Fails, At, Busy, Terminal
    <3> QED BY <1>1, <3>1, <3>2, EndingChanges
  <2>2. CASE ~Holds(w)
    BY <1>3, <1>14, <2>2 DEF Fails
  <2> QED BY <2>1, <2>2
<1>15. ASSUME \/ Checks(w) \/ PlannerAnswers(w) \/ RechecksAfterPlanning(w) \/ ProposalAllowed(w)
              \/ ChecksHistory(w) \/ Upserts(w) \/ ReadsMode(w) \/ PolicyApproves(w)
              \/ ChecksApproval(w) \/ Claims(w) \/ Rereads(w) \/ Sends(w) \/ ProviderAnswers(w)
              \/ ProviderFails(w) \/ RecordsOutcome(w) \/ Crash(w)
       PROVE  UNCHANGED run
  BY <1>15, Zenon DEF Checks, PlannerAnswers, RechecksAfterPlanning, ProposalAllowed, ChecksHistory,
     Upserts, ReadsMode, PolicyApproves, ChecksApproval, Claims, Rereads, Sends, ProviderAnswers,
     ProviderFails, RecordsOutcome, Crash, dbVars
<1> QED
  BY <1>3, <1>6, <1>7, <1>8, <1>9, <1>10, <1>11, <1>12, <1>13, <1>14, <1>15
     DEF WorkerMoves, WorkerStep

(* The other steps. *)
LEMMA OutsiderRunChanges ==
    ASSUME TypeInv, LiveInv, Outsider
    PROVE  RunChanges
<1>1. run \in [Runs -> RunDocs] /\ RunInv
  BY TypeOKParts, Zenon DEF TypeInv
<1>2. UNCHANGED run => RunChanges
  BY <1>1, SameRuns DEF RunChanges
<1>3. \A r \in Runs : run[r] \in RunDocs /\ run[r].step \in Nat
  BY <1>1 DEF RunDocs
<1>4. ASSUME NEW r \in Runs, NEW dry \in BOOLEAN, Enqueue(r, dry) PROVE RunChanges
  <2> DEFINE d == [run[r] EXCEPT !.status = "queued", !.dry = dry]
  <2>1. run' = [run EXCEPT ![r] = d]
    BY <1>4, Zenon DEF Enqueue
  <2>2. d.status = "queued" /\ d.step = run[r].step /\ d.lease = run[r].lease
    BY <1>3 DEF RunDocs
  <2> HIDE DEF d
  <2>3. run[r].status = "none" /\ active' = r /\ run[r].lease = None
    BY <1>4 DEF Enqueue, LiveInv
  <2>4. RunChange(r, d)
    BY <1>3, <2>2, <2>3 DEF RunChange
  <2> QED BY <1>1, <2>1, <2>4, OneRunChanges
<1>5. ASSUME NEW r \in Runs, Unpark(r) PROVE RunChanges
  <2> DEFINE n == run[r].step + 1
             d == [run[r] EXCEPT !.status = "queued", !.step = n, !.dec = "none"]
  <2>1. run' = [run EXCEPT ![r] = d]
    BY <1>5, Zenon DEF Unpark
  <2>2. d.status = "queued" /\ d.step = run[r].step + 1 /\ d.lease = run[r].lease
    BY <1>3 DEF RunDocs
  <2> HIDE DEF d, n
  <2>3. run[r].status = "parked" /\ run[r].lease = None
    BY <1>5 DEF Unpark, LiveInv
  <2>4. RunChange(r, d)
    BY <1>3, <2>2, <2>3 DEF RunChange, Live, Terminal
  <2> QED BY <1>1, <2>1, <2>4, OneRunChanges
<1>6. ASSUME NEW r \in Runs, LeaseExpires(r) PROVE RunChanges
  <2> DEFINE d == [run[r] EXCEPT !.fresh = FALSE]
  <2>1. run' = [run EXCEPT ![r] = d]
    BY <1>6, Zenon DEF LeaseExpires
  <2>2. d.status = run[r].status /\ d.step = run[r].step /\ d.lease = run[r].lease
    BY <1>3 DEF RunDocs
  <2> HIDE DEF d
  <2>3. RunChange(r, d)
    BY <1>3, <2>2 DEF RunChange, Live, LiveInv
  <2> QED BY <1>1, <2>1, <2>3, OneRunChanges
<1>7. ASSUME NEW r \in Runs, ExpireRun(r) \/ CancelsRun(r) PROVE RunChanges
  BY <1>1, <1>7, EndingChanges DEF ExpireRun, CancelsRun, Live, Terminal
<1>8. ASSUME NEW r \in Runs,
              run' = [run EXCEPT ![r].status = IF @ = "waiting_approval" THEN "queued" ELSE @]
       PROVE  RunChanges
  <2> DEFINE s == IF run[r].status = "waiting_approval" THEN "queued" ELSE run[r].status
             d == [run[r] EXCEPT !.status = s]
  <2>1. run' = [run EXCEPT ![r] = d]
    BY <1>8, Zenon
  <2>2. d.status = s /\ d.step = run[r].step /\ d.lease = run[r].lease
    BY <1>3 DEF RunDocs
  <2> HIDE DEF d
  <2>3. RunChange(r, d)
    BY <1>3, <2>2 DEF RunChange, Live, LiveInv, Terminal
  <2> QED BY <1>1, <2>1, <2>3, OneRunChanges
<1>9. ASSUME NEW r \in Runs, Wakes(r) PROVE RunChanges
  BY <1>8, <1>9 DEF Wakes
<1>10. ASSUME DecideRequeues PROVE RunChanges
  <2>1. CASE click.id[1] \in Runs
    BY <1>8, <1>10, <2>1 DEF DecideRequeues
  <2>2. CASE click.id[1] \notin Runs
    <3>1. run' = run
      BY <1>1, <1>10, <2>2 DEF DecideRequeues
    <3> QED BY <3>1, <1>2
  <2> QED BY <2>1, <2>2
<1>11. ASSUME \/ FreeReservation \/ DecideReads \/ DecideWrites \/ CancelsApprovals \/ Revoke
              \/ \E r \in Runs : FindsReady(r) \/ CleanUp(r)
              \/ \E i \in Ids : Lapse(i) \/ ExpireApproval(i) \/ SweepExecuting(i)
              \/ \E i \in Ids : \E c \in {"approved", "rejected", "cancelled"} : OwnerClicks(i, c)
              \/ \E i \in Ids : \E e \in Exacts : OwnerEdits(i, e)
       PROVE  UNCHANGED run
  BY <1>11, Zenon
     DEF FreeReservation, DecideReads, DecideWrites, CancelsApprovals, Revoke, FindsReady, CleanUp,
         Lapse, ExpireApproval, SweepExecuting, OwnerClicks, OwnerEdits, dbVars
<1> QED
  BY <1>2, <1>4, <1>5, <1>6, <1>7, <1>9, <1>10, <1>11
     DEF Outsider, Sweeps, Time, Owner, Routes

(* Most steps of a worker do not take it to a proposal or to a call. *)
LEMMA PlainMoves ==
    ASSUME wk \in [Workers -> Ticks], NEW w \in Workers, Busy(w)
    PROVE  /\ Leave(w) => PlaceStep(w)
           /\ \A p \in Places \ {"upserting", "calling"} :
                Go(w, p) \/ (\E q : Learn(w, p, q)) => PlaceStep(w)
<1>1. ASSUME Leave(w) PROVE PlaceStep(w)
  <2>1. wk'[w].at = "idle"
    BY <1>1, LeaveMoves
  <2> QED BY <2>1 DEF PlaceStep, Busy
<1>2. ASSUME NEW p \in Places \ {"upserting", "calling"}, NEW t,
             t.at = p, t.run = wk[w].run, t.step = wk[w].step, wk' = [wk EXCEPT ![w] = t]
      PROVE  PlaceStep(w)
  BY <1>2 DEF PlaceStep, Busy
<1>3. ASSUME NEW p \in Places \ {"upserting", "calling"}, Go(w, p) PROVE PlaceStep(w)
  <2> DEFINE t == [wk[w] EXCEPT !.at = p]
  <2>1. t.at = p /\ t.run = wk[w].run /\ t.step = wk[w].step
    BY DEF Ticks
  <2>2. wk' = [wk EXCEPT ![w] = t]
    BY <1>3, Zenon DEF Go
  <2> QED BY <1>2, <2>1, <2>2, Zenon
<1>4. ASSUME NEW p \in Places \ {"upserting", "calling"}, NEW q, Learn(w, p, q)
      PROVE  PlaceStep(w)
  <2> DEFINE t == [wk[w] EXCEPT !.at = p, !.prop = q]
  <2>1. t.at = p /\ t.run = wk[w].run /\ t.step = wk[w].step
    BY DEF Ticks
  <2>2. wk' = [wk EXCEPT ![w] = t]
    BY <1>4, Zenon DEF Learn
  <2> QED BY <1>2, <2>1, <2>2, Zenon
<1> QED BY <1>1, <1>3, <1>4

LEMMA PlaceSteps ==
    ASSUME TypeInv, NEW w \in Workers, WorkerMoves(w)
    PROVE  PlaceStep(w)
<1>1. /\ wk \in [Workers -> Ticks] /\ run \in [Runs -> RunDocs] /\ wk[w] \in Ticks
  BY TypeOKParts, Zenon DEF TypeInv
<1> DEFINE plain == Places \ {"upserting", "calling"}
<1>2. {"failing", "planning", "planned", "proposing", "acting", "saving", "listing", "previewing",
       "deciding", "allowing", "parking", "executing", "settling", "claiming", "sending",
       "rereading", "recording", "ending"} \subseteq plain
  BY DEF Places
<1>3. Busy(w) /\ Leave(w) => PlaceStep(w)
  BY <1>1, PlainMoves
<1>4. \A p \in plain : Busy(w) /\ (Go(w, p) \/ \E q : Learn(w, p, q)) => PlaceStep(w)
  BY <1>1, PlainMoves
<1> HIDE DEF plain
<1>5. ASSUME NEW p \in {"failing", "planning", "planned", "proposing", "acting", "saving", "listing",
                        "previewing", "deciding", "allowing", "parking", "executing", "settling",
                        "claiming", "sending", "rereading", "recording", "ending"},
             Busy(w), Go(w, p) \/ \E q : Learn(w, p, q)
      PROVE  PlaceStep(w)
  BY <1>2, <1>4, <1>5
<1>6. \A s, n, e : Busy(w) /\ Advance(w, s, n, e) => PlaceStep(w)
  BY <1>3, <1>5 DEF Advance
<1>7. Doing(w) \in {"proposing", "acting"}
  BY DEF Doing
<1>8. ASSUME NEW r \in Runs, Lease(w, r) PROVE PlaceStep(w)
  <2>1. wk'[w].at = "checking" /\ wk'[w].run = r /\ wk'[w].step = run[r].step
    BY <1>1, <1>8 DEF Lease, Idle
  <2>2. Live(r)
    BY <1>8 DEF Lease, Live, Terminal
  <2> QED BY <2>1, <2>2 DEF PlaceStep
<1>9. ASSUME Checks(w) PROVE PlaceStep(w)
  <2>1. \E p \in {"failing", "planning", "proposing", "acting"} : Go(w, p)
    BY <1>7, <1>9 DEF Checks
  <2> QED BY <1>5, <1>9, <2>1 DEF Checks, At, Busy
<1>10. ASSUME PlannerAnswers(w) PROVE PlaceStep(w)
  <2>1. PICK d \in Decisions : wk' = [wk EXCEPT ![w] = [wk[w] EXCEPT !.at = "planned", !.dec = d]]
    BY <1>10, Zenon DEF PlannerAnswers
  <2>2. wk'[w].at = "planned" /\ wk'[w].run = wk[w].run /\ wk'[w].step = wk[w].step
    BY <1>1, <2>1 DEF Ticks
  <2> QED BY <1>10, <2>2 DEF PlaceStep, PlannerAnswers, At, Busy
<1>11. ASSUME PlannerFails(w) PROVE PlaceStep(w)
  BY <1>5, <1>6, <1>11 DEF PlannerFails, At, Busy
<1>12. ASSUME RechecksAfterPlanning(w) PROVE PlaceStep(w)
  <2>1. Go(w, "saving") \/ Go(w, "failing")
    BY <1>12 DEF RechecksAfterPlanning
  <2> QED BY <1>5, <1>12, <2>1 DEF RechecksAfterPlanning, At, Busy
<1>13. ASSUME SavesDecision(w) PROVE PlaceStep(w)
  <2>1. Go(w, Doing(w)) \/ Go(w, "failing")
    BY <1>13 DEF SavesDecision
  <2> QED BY <1>5, <1>7, <1>13, <2>1 DEF SavesDecision, At, Busy
<1>14. ASSUME Acts(w) PROVE PlaceStep(w)
  BY <1>6, <1>14 DEF Acts, At, Busy
<1>15. ASSUME ProposalAllowed(w) PROVE PlaceStep(w)
  <2>1. Go(w, "listing") \/ Go(w, "failing")
    BY <1>15 DEF ProposalAllowed
  <2> QED BY <1>5, <1>15, <2>1 DEF ProposalAllowed, At, Busy
<1>16. ASSUME ChecksHistory(w) PROVE PlaceStep(w)
  <2>1. CASE Repeated(w)
    BY <1>5, <1>16, <2>1 DEF ChecksHistory, At, Busy
  <2>2. CASE ~Repeated(w)
    <3>1. Go(w, "upserting") /\ At(w, "listing") /\ "upserting" \in Places
      BY <1>16, <2>2 DEF ChecksHistory, Places
    <3>2. /\ wk'[w].at = "upserting" /\ wk'[w].run = wk[w].run /\ wk'[w].step = wk[w].step
          /\ wk'[w].dec = wk[w].dec
      BY <1>1, <3>1, GoMoves
    <3> QED BY <2>2, <3>1, <3>2 DEF PlaceStep, Busy, At
  <2> QED BY <2>1, <2>2
<1>17. ASSUME Upserts(w) PROVE PlaceStep(w)
  <2>1. \E p \in {"previewing", "deciding"} : \E q : Learn(w, p, q)
    BY <1>17, Zenon DEF Upserts
  <2> QED BY <1>5, <1>17, <2>1 DEF Upserts, At, Busy
<1>18. ASSUME MarksPreview(w) PROVE PlaceStep(w)
  BY <1>6, <1>18 DEF MarksPreview, At, Busy
<1>19. ASSUME ReadsMode(w) PROVE PlaceStep(w)
  <2>1. \E p \in {"allowing", "failing", "parking", "executing", "settling"} : Go(w, p)
    BY <1>19 DEF ReadsMode
  <2> QED BY <1>5, <1>19, <2>1 DEF ReadsMode, At, Busy
<1>20. ASSUME PolicyApproves(w) PROVE PlaceStep(w)
  <2>1. \E q : Learn(w, "executing", q)
    BY <1>20, Zenon DEF PolicyApproves
  <2> QED BY <1>5, <1>20, <2>1 DEF PolicyApproves, At, Busy
<1>21. ASSUME WaitsForOwner(w) PROVE PlaceStep(w)
  BY <1>6, <1>21 DEF WaitsForOwner, At, Busy
<1>22. ASSUME ChecksApproval(w) PROVE PlaceStep(w)
  <2>1. Go(w, "claiming") \/ Go(w, "failing")
    BY <1>22 DEF ChecksApproval
  <2> QED BY <1>5, <1>22, <2>1 DEF ChecksApproval, At, Busy
<1>23. ASSUME Claims(w) PROVE PlaceStep(w)
  <2>1. Go(w, "sending") \/ Go(w, "rereading")
    BY <1>23 DEF Claims
  <2> QED BY <1>5, <1>23, <2>1 DEF Claims, At, Busy
<1>24. ASSUME Rereads(w) PROVE PlaceStep(w)
  <2>1. \E q : Learn(w, "settling", q)
    BY <1>24, Zenon DEF Rereads
  <2> QED BY <1>5, <1>24, <2>1 DEF Rereads, At, Busy
<1>25. ASSUME Sends(w) PROVE PlaceStep(w)
  <2>1. CASE Go(w, "calling")
    <3>1. "calling" \in Places
      BY DEF Places
    <3>2. wk'[w].at = "calling" /\ wk'[w].run = wk[w].run /\ wk'[w].step = wk[w].step
      BY <1>1, <2>1, <3>1, GoMoves
    <3> QED BY <1>25, <3>2 DEF PlaceStep, Sends, At, Busy
  <2>2. CASE \E q : Learn(w, "recording", q)
    BY <1>5, <1>25, <2>2 DEF Sends, At, Busy
  <2> QED BY <1>25, <2>1, <2>2, Zenon DEF Sends
<1>26. ASSUME ProviderAnswers(w) \/ ProviderFails(w) PROVE PlaceStep(w)
  <2>1. \E q : Learn(w, "recording", q)
    BY <1>26, Zenon DEF ProviderAnswers, ProviderFails
  <2> QED BY <1>5, <1>26, <2>1 DEF ProviderAnswers, ProviderFails, At, Busy
<1>27. ASSUME RecordsOutcome(w) PROVE PlaceStep(w)
  BY <1>5, <1>27 DEF RecordsOutcome, At, Busy
<1>28. ASSUME Settles(w) PROVE PlaceStep(w)
  <2>1. \/ \E p \in {"ending", "failing"} : Go(w, p)
        \/ Advance(w, "queued", wk[w].step + 1, "none")
    BY <1>28 DEF Settles
  <2> QED BY <1>5, <1>6, <1>28, <2>1 DEF Settles, At, Busy
<1>29. ASSUME EndsUnknown(w) PROVE PlaceStep(w)
  BY <1>6, <1>29 DEF EndsUnknown, At, Busy
<1>30. ASSUME Fails(w) \/ Crash(w) PROVE PlaceStep(w)
  BY <1>3, <1>30 DEF Fails, Crash, At, Busy
<1> QED
  BY <1>8, <1>9, <1>10, <1>11, <1>12, <1>13, <1>14, <1>15, <1>16, <1>17, <1>18, <1>19, <1>20,
     <1>21, <1>22, <1>23, <1>24, <1>25, <1>26, <1>27, <1>28, <1>29, <1>30 DEF WorkerMoves, WorkerStep


(* What a step does to the approvals. *)
LEMMA NoNews ==
    ASSUME NEW i \in Ids, appr'[i].prop = appr[i].prop, appr'[i].version = appr[i].version
    PROVE  DocNews(i)
<1> QED BY DEF DocNews, Doc

LEMMA StatusNews ==
    ASSUME appr \in [Ids -> Approvals], NEW S, NEW old, NEW new, SetStatusOf(S, old, new),
           \A i \in Ids : i \in S /\ Doc(i).status \in old =>
               /\ Doc(i).status \in {"pending", "approved", "executing"}
               /\ new \in Unknown => Doc(i).status \in {"approved", "executing"}
    PROVE  \A i \in Ids : DocNews(i)
<1> TAKE i \in Ids
<1>1. appr[i] \in Approvals /\ appr[i].prop \in Proposals
  BY DEF Approvals
<1>2. CASE i \in S /\ Doc(i).status \in old
  <2>1. appr'[i] = [appr[i] EXCEPT !.prop.status = new]
    BY <1>2, Zenon DEF SetStatusOf
  <2>2. /\ appr'[i].version = appr[i].version
        /\ appr'[i].prop = [appr[i].prop EXCEPT !.status = new]
    BY <1>1, <2>1 DEF Approvals
  <2>3. Doc(i)'.status = new
    BY <1>1, <2>2 DEF Proposals, Doc
  <2> QED BY <1>2, <2>2, <2>3 DEF DocNews, Unknown
<1>3. CASE ~(i \in S /\ Doc(i).status \in old)
  <2>1. appr'[i] = appr[i]
    BY <1>3, Zenon DEF SetStatusOf
  <2> QED BY <2>1, NoNews
<1> QED BY <1>2, <1>3

LEMMA ProposalNews ==
    ASSUME appr \in [Ids -> Approvals], NEW i \in Ids, NEW q \in Proposals, SetDoc(i, q),
           q.status \in Unknown => Doc(i).status \in Unknown,
           Doc(i).status = "none" /\ q.status # "none" =>
             \E w \in Workers : At(w, "upserting") /\ Id(w) = i /\ wk[w].dec = q.exact
    PROVE  \A j \in Ids : DocNews(j)
<1>1. /\ Doc(i)' = q /\ appr'[i].version = appr[i].version
      /\ \A j \in Ids \ {i} : appr'[j] = appr[j]
  BY ProposalReplaced, Zenon
<1>2. DocNews(i)
  BY <1>1 DEF DocNews
<1>3. \A j \in Ids \ {i} : DocNews(j)
  BY <1>1, NoNews
<1> QED BY <1>2, <1>3

LEMMA WorkerNews ==
    ASSUME TypeInv, NEW w \in Workers, WorkerMoves(w)
    PROVE  \A i \in Ids : DocNews(i)
<1>1. /\ wk \in [Workers -> Ticks] /\ appr \in [Ids -> Approvals]
      /\ TickOK(wk[w]) /\ wk[w] \in Ticks
  BY TypeOKParts, Zenon DEF TypeInv, WorkInv
<1>2. wk[w].at \notin {"idle", "checking", "failing"} => Id(w) \in Ids
  BY <1>1 DEF Ticks, TickOK, Id, Ids, Steps
<1>3. \A i \in Ids : appr[i] \in Approvals /\ Doc(i) \in Proposals
  BY <1>1 DEF Approvals, Doc
<1>4. ASSUME Upserts(w) PROVE \A i \in Ids : DocNews(i)
  <2>1. PICK i \in Ids : i = Id(w)
    BY <1>2, <1>4 DEF Upserts, At
  <2>2. wk[w].dec \in Exacts /\ At(w, "upserting")
    BY <1>1, <1>4 DEF TickOK, Upserts, At
  <2>3. New(w).status = "pending" /\ New(w).exact = wk[w].dec
    BY DEF New, NoProposal
  <2>4. New(w) \in Proposals
    <3>1. "pending" \in ApprStatuses /\ wk[w].dec \in Exacts \cup {None}
      BY <2>2 DEF ApprStatuses
    <3> QED BY <3>1, IdleTyped, Zenon DEF New, Proposals
  <2>5. PICK q \in Proposals :
          /\ SetDoc(i, q)
          /\ IF Doc(i).status = "none" THEN q = New(w) ELSE q = Doc(i)
    BY <1>3, <1>4, <2>1, <2>4 DEF Upserts
  <2>6. /\ q.status \in Unknown => Doc(i).status \in Unknown
        /\ Doc(i).status = "none" /\ q.status # "none" => q.exact = wk[w].dec
    BY <2>3, <2>5 DEF Unknown
  <2> QED BY <1>1, <2>1, <2>2, <2>5, <2>6, ProposalNews
<1>5. ASSUME MarksPreview(w) PROVE \A i \in Ids : DocNews(i)
  <2>1. SetStatusOf({Id(w)}, {"pending"}, "preview")
    BY <1>5, Zenon DEF MarksPreview
  <2> QED BY <1>1, <2>1, StatusNews DEF Unknown
<1>6. ASSUME PolicyApproves(w) PROVE \A i \in Ids : DocNews(i)
  <2>1. PICK i \in Ids : i = Id(w)
    BY <1>2, <1>6 DEF PolicyApproves, At
  <2>2. CASE Doc(i).status = "pending"
    <3> DEFINE p == wk[w].prop
               granting == [p EXCEPT !.status = "approved", !.approved = p.exact, !.by = "policy"]
               q == [granting EXCEPT !.exact = Doc(i).exact]
    <3>1. /\ p \in Proposals /\ p.exact \in Exacts \cup {None}
          /\ Doc(i).exact \in Exacts \cup {None} /\ "approved" \in ApprStatuses
      BY <1>1, <1>3 DEF Ticks, Proposals, ApprStatuses
    <3>2. granting \in Proposals
      BY <3>1, Zenon DEF Proposals
    <3>3. q \in Proposals
      BY <3>1, <3>2, Zenon DEF Proposals
    <3>4. q.status = "approved"
      BY <3>1 DEF Proposals
    <3>5. SetDoc(i, q)
      BY <1>6, <2>1, <2>2, Zenon DEF PolicyApproves
    <3> HIDE DEF q
    <3> QED BY <1>1, <2>2, <3>3, <3>4, <3>5, ProposalNews DEF Unknown
  <2>3. CASE Doc(i).status # "pending"
    <3>1. UNCHANGED appr
      BY <1>6, <2>1, <2>3, Zenon DEF PolicyApproves
    <3> QED BY <3>1, NoNews
  <2> QED BY <2>2, <2>3
<1>7. ASSUME Claims(w) PROVE \A i \in Ids : DocNews(i)
  <2>1. CASE Claimable(Id(w), wk[w].prop.exact)
    <3>1. SetStatusOf({Id(w)}, ApprStatuses, "executing") /\ Doc(Id(w)).status = "approved"
      BY <1>7, <2>1, Zenon DEF Claims, Claimable
    <3> QED BY <1>1, <3>1, StatusNews
  <2>2. CASE ~Claimable(Id(w), wk[w].prop.exact)
    BY <1>7, <2>2, NoNews DEF Claims
  <2> QED BY <2>1, <2>2
<1>8. ASSUME RecordsOutcome(w) PROVE \A i \in Ids : DocNews(i)
  <2>1. SetStatusOf({Id(w)}, {"executing"}, wk[w].prop.status)
    BY <1>8 DEF RecordsOutcome
  <2> QED BY <1>1, <2>1, StatusNews
<1>9. ASSUME Settles(w) PROVE \A i \in Ids : DocNews(i)
  <2>1. SetStatusOf({Id(w)}, {"executing"}, "uncertain") \/ UNCHANGED appr
    BY <1>9 DEF Settles
  <2> QED BY <1>1, <2>1, StatusNews, NoNews
<1>10. ASSUME \/ \E r \in Runs : Lease(w, r)
              \/ Checks(w) \/ PlannerAnswers(w) \/ PlannerFails(w) \/ RechecksAfterPlanning(w)
              \/ SavesDecision(w) \/ Acts(w) \/ ProposalAllowed(w) \/ ChecksHistory(w)
              \/ ReadsMode(w) \/ WaitsForOwner(w) \/ ChecksApproval(w) \/ Rereads(w) \/ Sends(w)
              \/ ProviderAnswers(w) \/ ProviderFails(w) \/ EndsUnknown(w) \/ Fails(w) \/ Crash(w)
       PROVE  \A i \in Ids : DocNews(i)
  <2>1. UNCHANGED appr
    BY <1>10, Zenon DEF Lease, Checks, PlannerAnswers, PlannerFails, RechecksAfterPlanning,
       SavesDecision, Acts, ProposalAllowed, ChecksHistory, ReadsMode, WaitsForOwner, ChecksApproval,
       Rereads, Sends, ProviderAnswers, ProviderFails, EndsUnknown, Fails, Crash, dbVars
  <2> QED BY <2>1, NoNews
<1> QED BY <1>4, <1>5, <1>6, <1>7, <1>8, <1>9, <1>10 DEF WorkerMoves, WorkerStep

LEMMA OutsiderNews ==
    ASSUME TypeInv, ClickInv, Outsider
    PROVE  \A i \in Ids : DocNews(i)
<1>1. appr \in [Ids -> Approvals]
  BY TypeOKParts, Zenon DEF TypeInv
<1>2. \A i \in Ids : appr[i] \in Approvals /\ Doc(i) \in Proposals
  BY <1>1 DEF Approvals, Doc
<1>3. ASSUME NEW i \in Ids, Lapse(i) PROVE \A j \in Ids : DocNews(j)
  <2>1. appr' = [appr EXCEPT ![i] = [appr[i] EXCEPT !.late = TRUE]]
    BY <1>3, Zenon DEF Lapse
  <2>2. \A j \in Ids : appr'[j].prop = appr[j].prop /\ appr'[j].version = appr[j].version
    BY <1>1, <1>2, <2>1 DEF Approvals
  <2> QED BY <2>2, NoNews
<1>4. ASSUME NEW i \in Ids, ExpireApproval(i) PROVE \A j \in Ids : DocNews(j)
  <2>1. SetStatusOf({i}, ApprStatuses, "expired") /\ Doc(i).status \in {"pending", "approved"}
    BY <1>4 DEF ExpireApproval
  <2> QED BY <1>1, <2>1, StatusNews DEF Unknown
<1>5. ASSUME NEW i \in Ids, SweepExecuting(i) PROVE \A j \in Ids : DocNews(j)
  <2>1. SetStatusOf({i}, ApprStatuses, "uncertain") /\ Doc(i).status = "executing"
    BY <1>5 DEF SweepExecuting
  <2> QED BY <1>1, <2>1, StatusNews
<1>6. ASSUME NEW r, \E s \in {"expired", "cancelled"} : SetStatusOf(Of(r), {"pending", "approved"}, s)
       PROVE  \A j \in Ids : DocNews(j)
  <2>1. PICK S : S = Of(r)
    OBVIOUS
  <2>2. PICK s \in {"expired", "cancelled"} : SetStatusOf(S, {"pending", "approved"}, s)
    BY <1>6, <2>1
  <2> QED BY <1>1, <2>2, StatusNews DEF Unknown
<1>7. ASSUME NEW r \in Runs, CleanUp(r) PROVE \A j \in Ids : DocNews(j)
  BY <1>6, <1>7 DEF CleanUp
<1>8. ASSUME CancelsApprovals PROVE \A j \in Ids : DocNews(j)
  <2>1. \E s \in {"expired", "cancelled"} : SetStatusOf(Of(cancelling), {"pending", "approved"}, s)
    BY <1>8 DEF CancelsApprovals
  <2> QED BY <1>6, <2>1
<1>9. ASSUME DecideWrites PROVE \A j \in Ids : DocNews(j)
  <2>1. CASE Decidable(click.id, click.version)
    <3> DEFINE q == [Doc(click.id) EXCEPT !.status = click.choice, !.by = "owner",
                       !.approved = IF click.choice = "approved" THEN click.exact ELSE @]
               a == IF click.choice = "approved" THEN click.exact ELSE Doc(click.id).approved
    <3>1. click.id \in Ids /\ click.choice # "none"
      BY <1>9 DEF DecideWrites, ClickInv
    <3>2. /\ click.choice \in {"none", "approved", "rejected", "cancelled"}
          /\ click.exact \in Exacts \cup {None}
      BY TypeOKParts DEF TypeInv
    <3>3. PICK i \in Ids : i = click.id
      BY <3>1
    <3>4. q = [Doc(i) EXCEPT !.status = click.choice, !.by = "owner", !.approved = a]
      BY <3>3, Zenon
    <3>5. a \in Exacts \cup {None} /\ click.choice \in ApprStatuses
      BY <1>2, <3>1, <3>2 DEF Proposals, ApprStatuses
    <3>6. SetDoc(i, q)
      BY <1>9, <2>1, <3>3, Zenon DEF DecideWrites
    <3> HIDE DEF a, q
    <3>7. q \in Proposals
      BY <1>2, <3>4, <3>5, Zenon DEF Proposals
    <3>8. q.status = click.choice /\ q.status \notin Unknown
      BY <1>2, <3>2, <3>4 DEF Proposals, Unknown
    <3>9. Doc(i).status = "pending"
      BY <2>1, <3>3 DEF Decidable
    <3> QED BY <1>1, <3>6, <3>7, <3>8, <3>9, ProposalNews
  <2>2. CASE ~Decidable(click.id, click.version)
    BY <1>9, <2>2, NoNews DEF DecideWrites
  <2> QED BY <2>1, <2>2
<1>10. ASSUME NEW i \in Ids, NEW e \in Exacts, OwnerEdits(i, e) PROVE \A j \in Ids : DocNews(j)
  <2> DEFINE q == [Doc(i) EXCEPT !.exact = e, !.by = "owner"]
             a == [prop |-> q, version |-> appr[i].version + 1, late |-> FALSE]
  <2>1. appr' = [appr EXCEPT ![i] = a] /\ Doc(i).status = "pending" /\ i \in edited'
    BY <1>10, Zenon DEF OwnerEdits
  <2>2. q.status = "pending"
    BY <1>2, <2>1 DEF Proposals
  <2>3. a.prop.status = "pending"
    BY <2>2
  <2> HIDE DEF q, a
  <2>4. appr'[i] = a /\ \A j \in Ids \ {i} : appr'[j] = appr[j]
    BY <1>1, <2>1
  <2>5. DocNews(i)
    BY <2>1, <2>3, <2>4 DEF DocNews, Doc, Unknown
  <2> QED BY <2>4, <2>5, NoNews
<1>11. ASSUME \/ FreeReservation \/ DecideReads \/ DecideRequeues \/ Revoke
              \/ \E r \in Runs : FindsReady(r) \/ Unpark(r) \/ LeaseExpires(r) \/ ExpireRun(r)
              \/ \E r \in Runs : Wakes(r) \/ CancelsRun(r)
              \/ \E r \in Runs : \E dry \in BOOLEAN : Enqueue(r, dry)
              \/ \E i \in Ids : \E c \in {"approved", "rejected", "cancelled"} : OwnerClicks(i, c)
       PROVE  \A j \in Ids : DocNews(j)
  <2>1. UNCHANGED appr
    BY <1>11, Zenon
       DEF FreeReservation, DecideReads, DecideRequeues, Revoke, FindsReady, Unpark, LeaseExpires,
           ExpireRun, Wakes, CancelsRun, Enqueue, OwnerClicks, dbVars
  <2> QED BY <2>1, NoNews
<1> QED
  BY <1>3, <1>4, <1>5, <1>7, <1>8, <1>9, <1>10, <1>11
     DEF Outsider, Sweeps, Time, Owner, Routes

(* What every step does. *)
News ==
    /\ RunChanges /\ \A w \in Workers : PlaceStep(w)
    /\ \A i \in Ids : DocNews(i)
    /\ edited \subseteq edited'
    /\ \A r \in Runs : Live(r) => active' = r

LEMMA NextNews ==
    ASSUME IInv, LiveInv, StepInv, Next
    PROVE  News
<1>1. ASSUME NEW w \in Workers, WorkerMoves(w) PROVE News
  <2>1. RunChanges /\ \A i \in Ids : DocNews(i)
    BY <1>1, WorkerRunChanges, WorkerNews DEF IInv
  <2>2. UNCHANGED <<active, edited>>
    BY <1>1, WorkerOutside DEF IInv
  <2>3. ASSUME NEW v \in Workers PROVE PlaceStep(v)
    <3>1. CASE v = w
      BY <1>1, <3>1, PlaceSteps DEF IInv
    <3>2. CASE v # w
      <4>1. wk'[v] = wk[v]
        BY <1>1, <3>2, WorkerEffects DEF IInv, TickMove
      <4> QED BY <4>1 DEF PlaceStep, Busy, At
    <3> QED BY <3>1, <3>2
  <2> QED BY <2>1, <2>2, <2>3 DEF News, LiveInv
<1>2. ASSUME Outsider PROVE News
  <2>1. RunChanges /\ \A i \in Ids : DocNews(i)
    BY <1>2, OutsiderRunChanges, OutsiderNews DEF IInv
  <2>2. UNCHANGED wk
    BY <1>2, OutsiderOutside
  <2>3. \A v \in Workers : PlaceStep(v)
    BY <2>2 DEF PlaceStep, Busy, At
  <2>4. /\ UNCHANGED edited \/ \E i \in Ids : \E e \in Exacts : OwnerEdits(i, e)
        /\ \/ UNCHANGED active \/ FreeReservation
           \/ \E r \in Runs : \E dry \in BOOLEAN : Enqueue(r, dry)
    BY <1>2, Zenon DEF Outsider, Sweeps, Time, Owner, Routes, FreeReservation, Unpark, LeaseExpires,
       ExpireRun, Wakes, CancelsRun, Enqueue, DecideRequeues, DecideReads, DecideWrites,
       CancelsApprovals, Revoke, FindsReady, CleanUp, Lapse, ExpireApproval, SweepExecuting,
       OwnerClicks, OwnerEdits, dbVars, history
  <2>5. edited \subseteq edited'
    BY <2>4 DEF OwnerEdits
  <2>6. ASSUME NEW r \in Runs, Live(r) PROVE active' = r
    <3>1. active = r
      BY <2>6 DEF LiveInv
    <3>2. ~FreeReservation
      BY <2>6, <3>1 DEF FreeReservation, Live
    <3> QED BY <2>4, <3>1, <3>2 DEF Enqueue
  <2> QED BY <2>1, <2>3, <2>5, <2>6 DEF News
<1> QED BY <1>1, <1>2, NextKinds

LEMMA KeepsLive ==
    ASSUME IInv, LiveInv, StepInv, Next
    PROVE  LiveInv'
<1>1. News
  BY NextNews
<1>2. ASSUME NEW r \in Runs, Live(r)' PROVE active' = r
  <2>1. RunChange(r, run'[r])
    BY <1>1 DEF News, RunChanges
  <2> QED BY <1>1, <1>2, <2>1 DEF News, RunChange, Live
<1>3. ASSUME NEW r \in Runs, run'[r].lease # None PROVE run'[r].status = "running"
  BY <1>1, <1>3 DEF News, RunChanges, RunChange
<1> QED BY <1>2, <1>3 DEF LiveInv

LEMMA KeepsSteps ==
    ASSUME IInv, LiveInv, StepInv, Next
    PROVE  StepInv'
<1>1. /\ News /\ TypeInv' /\ run \in [Runs -> RunDocs] /\ run' \in [Runs -> RunDocs]
      /\ \A w \in Workers : wk[w] \in Ticks /\ TickOK(wk[w])
  BY NextNews, NextEffects, KeepsTypes, TypeOKParts DEF IInv, TypeInv, WorkInv, Effects
<1>2. \A r \in Runs : run[r].step \in Nat /\ run'[r].step \in Nat
  BY <1>1 DEF RunDocs
<1>3. \A w \in Workers : wk[w].step \in Nat /\ wk[w].run \in Runs \cup {None}
  BY <1>1 DEF Ticks
<1>4. ASSUME NEW w \in Workers, Busy(w)'
      PROVE  LET r == wk'[w].run
             IN  /\ run'[r].status # "none" /\ wk'[w].step <= run'[r].step
                 /\ run'[r].lease = w => wk'[w].step = run'[r].step
  <2>1. PICK r \in Runs :
          /\ r = wk'[w].run /\ run[r].status # "none"
          /\ wk'[w].step \in Nat /\ wk'[w].step <= run[r].step
          /\ run[r].lease = w => wk'[w].step = run[r].step
    <3>1. CASE Busy(w) /\ wk'[w].run = wk[w].run /\ wk'[w].step = wk[w].step
      <4>1. wk[w].run \in Runs
        BY <1>1, <3>1 DEF Busy, TickOK
      <4> QED BY <1>3, <3>1, <4>1 DEF StepInv
    <3>2. CASE /\ wk'[w].run \in Runs /\ Live(wk'[w].run)
               /\ wk'[w].step = run[wk'[w].run].step
      BY <1>2, <3>2 DEF Live
    <3> QED BY <1>1, <1>4, <3>1, <3>2 DEF News, PlaceStep
  <2>2. RunChange(r, run'[r]) /\ w # None
    BY <1>1 DEF News, RunChanges
  <2>3. run'[r].status # "none" /\ wk'[w].step <= run'[r].step
    BY <1>2, <2>1, <2>2 DEF RunChange
  <2>4. run'[r].lease = w => wk'[w].step = run'[r].step
    BY <2>1, <2>2 DEF RunChange
  <2> QED BY <2>1, <2>3, <2>4
<1>5. ASSUME NEW i \in Ids, Doc(i)'.status # "none"
      PROVE  run'[i[1]].status # "none" /\ i[2] <= run'[i[1]].step
  <2>1. i[1] \in Runs /\ i[2] \in Nat
    BY DEF Ids, Steps
  <2>2. run[i[1]].status # "none" /\ i[2] <= run[i[1]].step
    <3>1. CASE Doc(i).status # "none"
      BY <3>1 DEF StepInv
    <3>2. CASE Doc(i).status = "none"
      <4>1. PICK w \in Workers : At(w, "upserting") /\ Id(w) = i
        BY <1>1, <1>5, <3>2 DEF News, DocNews
      <4>2. Busy(w) /\ wk[w].run = i[1] /\ wk[w].step = i[2]
        BY <4>1 DEF At, Busy, Id
      <4> QED BY <4>2 DEF StepInv
    <3> QED BY <3>1, <3>2
  <2>3. RunChange(i[1], run'[i[1]])
    BY <1>1, <2>1 DEF News, RunChanges
  <2> QED BY <1>2, <2>1, <2>2, <2>3 DEF RunChange
<1> QED BY <1>4, <1>5 DEF StepInv

(* An action of unknown outcome becomes one when its call starts, which takes a
   worker with the run's authority. *)
LEMMA HotNews ==
    ASSUME IInv, LiveInv, StepInv, Next, NEW i \in Ids, NEW e \in Exacts, Hot(i, e)'
    PROVE  /\ Doc(i).status \in Unknown /\ Doc(i).exact = e
           /\ \/ Hot(i, e)
              \/ \E w \in Workers : At(w, "sending") /\ Id(w) = i /\ Authorized(w) /\ UNCHANGED run
<1>1. Effects /\ News
  BY NextEffects, NextNews
<1>2. Doc(i)'.status \in Unknown /\ Doc(i).status \in Unknown \cup {"approved"}
  BY <1>1 DEF Hot, Doc, News, DocNews
<1>3. ASSUME Doc(i).status \in Taken PROVE Doc(i).status \in Unknown
  BY <1>2, <1>3 DEF Taken, Unknown
<1>4. ASSUME NEW w \in Workers, Claiming(w), Id(w) = i, wk[w].prop.exact = e
      PROVE  Doc(i).status \in Unknown /\ Doc(i).exact = e
  BY <1>3, <1>4 DEF IInv, ClaimInv
<1>5. CASE <<i, e>> \in sent
  <2>1. Doc(i).status \in Taken /\ Doc(i).exact = e
    BY <1>5 DEF IInv, SentInv
  <2> QED BY <1>3, <1>5, <2>1 DEF Hot
<1>6. CASE <<i, e>> \in sent' /\ <<i, e>> \notin sent
  <2>1. PICK w \in Workers : Sending(w) /\ <<i, e>> = <<Id(w), wk[w].prop.exact>>
    BY <1>1, <1>6 DEF Effects, Sending
  <2>2. w \in CallingFor(i) /\ Claiming(w) /\ Id(w) = i /\ wk[w].prop.exact = e
    BY <2>1 DEF Sending, CallingFor, At, Claiming
  <2> QED BY <1>4, <2>2 DEF Hot
<1>7. ASSUME NEW w \in Workers, w \in CallingFor(i)', wk'[w].prop.exact = e
      PROVE  /\ Doc(i).status \in Unknown /\ Doc(i).exact = e
             /\ \/ Hot(i, e)
                \/ /\ At(w, "sending") /\ Id(w) = i /\ Authorized(w) /\ UNCHANGED run
  <2>1. wk'[w].at = "calling" /\ Id(w)' = i
    BY <1>7 DEF CallingFor, At
  <2>2. wk'[w] = wk[w] \/ TickMove(w)
    BY <1>1 DEF Effects, TickMove
  <2>3. CASE wk'[w] = wk[w]
    <3>1. w \in CallingFor(i) /\ Claiming(w) /\ Id(w) = i /\ wk[w].prop.exact = e
      BY <1>7, <2>1, <2>3 DEF CallingFor, At, Claiming, Id
    <3> QED BY <1>4, <3>1 DEF Hot
  <2>4. CASE TickMove(w)
    <3>1. At(w, "sending") /\ Id(w) = i /\ Authorized(w)
      BY <2>1, <2>4 DEF TickMove, CallMove, At
    <3>2. wk[w].prop.exact = e /\ Claiming(w)
      BY <1>7, <2>1, <2>4, <3>1 DEF TickMove, ClaimMove, Claiming, At
    <3>3. UNCHANGED run
      BY <1>1, <2>1, <3>1 DEF News, PlaceStep, At
    <3> QED BY <1>4, <3>1, <3>2, <3>3
  <2> QED BY <2>2, <2>3, <2>4
<1>8. \/ <<i, e>> \in sent'
      \/ \E w \in Workers : w \in CallingFor(i)' /\ wk'[w].prop.exact = e
  BY DEF Hot, CallingFor
<1> QED BY <1>5, <1>6, <1>7, <1>8

(* The holder of a live lease is at the current step of the live run. *)
LEMMA AuthorizedIsCurrent ==
    ASSUME IInv, LiveInv, StepInv, NEW w \in Workers, Claiming(w), Authorized(w)
    PROVE  Current(Id(w))
<1>1. wk[w].run \in Runs
  BY DEF IInv, TypeInv, WorkInv, TickOK, Claiming
<1>2. PICK r \in Runs : r = wk[w].run
  BY <1>1
<1>3. run[r].lease = w /\ run[r].status \notin Terminal /\ w # None
  BY <1>2 DEF Authorized
<1>4. run[r].status = "running"
  BY <1>3 DEF LiveInv
<1>5. wk[w].step = run[r].step
  BY <1>2, <1>3 DEF StepInv, Busy, Claiming
<1> QED BY <1>2, <1>4, <1>5 DEF Current, Id, Live, Terminal

LEMMA OneCurrent ==
    ASSUME LiveInv, NEW i \in Ids, NEW j \in Ids, Current(i), Current(j)
    PROVE  i = j
<1>1. i[1] \in Runs /\ j[1] \in Runs /\ i = <<i[1], i[2]>> /\ j = <<j[1], j[2]>>
  BY DEF Ids
<1>2. i[1] = j[1]
  BY <1>1 DEF Current, LiveInv
<1> QED BY <1>1, <1>2 DEF Current

LEMMA KeepsRepeat ==
    ASSUME IInv, LiveInv, StepInv, RepeatInv, Next
    PROVE  RepeatInv'
<1>1. Effects /\ News
  BY NextEffects, NextNews
<1> SUFFICES ASSUME NEW i \in Ids, NEW j \in Ids, NEW e \in Exacts,
                    Current(j)', Wants(j, e)', Hot(i, e)'
             PROVE  i = j
  BY DEF RepeatInv
<1>2. /\ Doc(i).status \in Unknown /\ Doc(i).exact = e
      /\ \/ Hot(i, e)
         \/ \E w \in Workers : At(w, "sending") /\ Id(w) = i /\ Authorized(w) /\ UNCHANGED run
  BY HotNews
<1>3. /\ \A w \in Workers : wk[w] \in Ticks
      /\ run \in [Runs -> RunDocs] /\ run' \in [Runs -> RunDocs]
  BY <1>1, TypeOKParts DEF IInv, TypeInv, Effects
<1>4. Wants(j, e) \/ i = j
  <2>1. CASE Doc(j)'.status # "none" /\ j \notin edited' /\ Doc(j)'.exact = e
    <3>1. CASE Doc(j).status # "none"
      <4>1. appr'[j].version = appr[j].version /\ j \notin edited
        BY <1>1, <2>1 DEF News, DocNews
      <4>2. Doc(j)'.exact = Doc(j).exact
        BY <1>1, <3>1, <4>1 DEF Effects, DocSteps, DocStep
      <4> QED BY <2>1, <3>1, <4>1, <4>2 DEF Wants
    <3>2. CASE Doc(j).status = "none"
      BY <1>1, <2>1, <3>2 DEF News, DocNews, Wants
    <3> QED BY <3>1, <3>2
  <2>2. ASSUME NEW w \in Workers, wk'[w].at = "upserting", Id(w)' = j, wk'[w].dec = e
        PROVE  Wants(j, e) \/ i = j
    <3>1. /\ At(w, "upserting") \/ (At(w, "listing") /\ ~Repeated(w))
          /\ wk[w].dec = e /\ wk[w].run = wk'[w].run /\ wk[w].step = wk'[w].step
      BY <1>1, <2>2 DEF News, PlaceStep
    <3>2. Id(w) = j
      BY <2>2, <3>1 DEF Id
    <3>3. CASE At(w, "upserting")
      BY <3>1, <3>2, <3>3 DEF Wants
    <3>4. CASE ~Repeated(w)
      <4>1. i = <<i[1], i[2]>> /\ j = <<wk[w].run, wk[w].step>>
        BY <3>2 DEF Id, Ids
      <4>2. Doc(i).exact = wk[w].dec /\ Doc(i).status \in Handled
        BY <1>2, <3>1 DEF Unknown, Handled
      <4> QED BY <1>2, <3>4, <4>1, <4>2 DEF Repeated
    <3> QED BY <3>1, <3>3, <3>4
  <2> QED BY <2>1, <2>2 DEF Wants, At, Doc
<1>5. ASSUME Wants(j, e) PROVE Current(j)
  <2>1. j[1] \in Runs /\ j[2] \in Nat
    BY DEF Ids, Steps
  <2>2. PICK r \in Runs : r = j[1]
    BY <2>1
  <2>3. run[r].status # "none" /\ j[2] <= run[r].step
    <3>1. CASE Doc(j).status # "none"
      BY <2>2, <3>1 DEF StepInv
    <3>2. ASSUME NEW w \in Workers, At(w, "upserting"), Id(w) = j
          PROVE  run[r].status # "none" /\ j[2] <= run[r].step
      <4>1. Busy(w) /\ wk[w].run = r /\ wk[w].step = j[2]
        BY <2>2, <3>2 DEF At, Busy, Id
      <4> QED BY <4>1 DEF StepInv
    <3> QED BY <1>5, <3>1, <3>2 DEF Wants
  <2>4. RunChange(r, run'[r]) /\ run[r].step \in Nat /\ run'[r].step \in Nat
    BY <1>1, <1>3 DEF News, RunChanges, RunDocs
  <2>5. Live(r)' /\ run'[r].step = j[2]
    BY <2>2 DEF Current, Live
  <2>6. Live(r)
    BY <2>3, <2>4, <2>5 DEF RunChange, Live
  <2>7. run[r].step = j[2]
    BY <2>1, <2>3, <2>4, <2>5 DEF RunChange
  <2> QED BY <2>2, <2>6, <2>7 DEF Current
<1>6. CASE Hot(i, e) /\ Wants(j, e)
  BY <1>5, <1>6 DEF RepeatInv
<1>7. ASSUME NEW w \in Workers, At(w, "sending"), Id(w) = i, Authorized(w), Wants(j, e)
      PROVE  i = j
  <2>1. Current(i)
    BY <1>7, AuthorizedIsCurrent DEF At, Claiming
  <2> QED BY <1>5, <1>7, <2>1, OneCurrent
<1> QED BY <1>2, <1>4, <1>6, <1>7

LEMMA AlwaysInOrder == Spec => [](LiveInv /\ StepInv /\ RepeatInv)
<1>1. Init => LiveInv /\ StepInv /\ RepeatInv
  <2> SUFFICES ASSUME Init PROVE LiveInv /\ StepInv /\ RepeatInv
    OBVIOUS
  <2>1. /\ \A r \in Runs : run[r].status = "none" /\ run[r].lease = None
        /\ \A i \in Ids : Doc(i).status = "none"
        /\ \A w \in Workers : wk[w].at = "idle"
    BY DEF Init, Doc, NoProposal, Idle
  <2> QED BY <2>1 DEF LiveInv, StepInv, RepeatInv, Live, Busy, Hot, Unknown
<1>2. IInv /\ LiveInv /\ StepInv /\ RepeatInv /\ Next => (LiveInv /\ StepInv /\ RepeatInv)'
  BY KeepsLive, KeepsSteps, KeepsRepeat
<1>3. LiveInv /\ StepInv /\ RepeatInv /\ UNCHANGED vars => (LiveInv /\ StepInv /\ RepeatInv)'
  BY DEF vars, dbVars, boundVars, history, LiveInv, StepInv, RepeatInv, Live, Busy, Doc, Current,
         Wants, Hot, At, Id, CallingFor
<1> QED BY <1>1, <1>2, <1>3, AlwaysInvariant, PTL DEF Spec
----------------------------------------------------------------------------
(* Theorems. *)

(* Every reachable state of the write path is well typed: in particular every
   worker's step stays inside the budget of its run, and every approval that a
   write can be sent under has a name. *)
THEOREM ActionsTyped == Spec => []TypeOK
<1>1. IInv => TypeOK
  BY DEF IInv, TypeInv
<1> QED BY <1>1, AlwaysInvariant, PTL

(* However workers crash, outlive their leases or replay a step, a write that
   was carried out is on record under exactly the action that was sent. *)
THEOREM WritesRecorded == Spec => []WritesAreRecorded
<1>1. IInv => WritesAreRecorded
  BY DEF IInv, SentInv, WritesAreRecorded, Taken
<1> QED BY <1>1, AlwaysInvariant, PTL

(* No edit, stale page or replay gets an action past the owner that the policy
   asks about. *)
THEOREM WritesConsented == Spec => []AskedWritesHaveConsent
<1>1. IInv => AskedWritesHaveConsent
  <2> SUFFICES ASSUME IInv, NEW s \in sent PROVE s[2] \in Allowed \/ s \in consented
    BY DEF AskedWritesHaveConsent
  <2>1. s \in Ids \X Exacts /\ MaySend(s[1], s[2])
    BY TypeOKParts DEF IInv, TypeInv, SentInv
  <2> QED BY <2>1 DEF MaySend
<1> QED BY <1>1, AlwaysInvariant, PTL

(* Once a run has ended and no call for it is on the way, no call ever starts:
   the authority is read between the claim and the call. *)
THEOREM EndedRunsQuiet == Spec => EndedRunsStayQuiet
<1>1. IInv /\ [Next]_vars =>
        [\A i \in Ids : run[i[1]].status \in Terminal /\ CallingFor(i) = {}
                          => CallingFor(i)' = {}]_vars
  <2> SUFFICES ASSUME IInv, Next, NEW i \in Ids, run[i[1]].status \in Terminal,
                      CallingFor(i) = {}, NEW w \in Workers, wk'[w].at = "calling", Id(w)' = i
               PROVE  FALSE
    BY DEF CallingFor, At, Id
  <2>1. wk[w].at # "calling" \/ Id(w) # i
    BY DEF CallingFor, At
  <2>2. wk'[w] # wk[w]
    BY <2>1 DEF Id
  <2>3. TickMove(w)
    BY <2>2, NextEffects DEF Effects, TickMove
  <2>4. wk[w].at = "sending" /\ Id(w) = i /\ Authorized(w)
    BY <2>3 DEF TickMove, CallMove
  <2>5. i[1] = wk[w].run
    BY <2>4 DEF Id
  <2> QED BY <2>4, <2>5 DEF Authorized
<1> QED BY <1>1, AlwaysInvariant, PTL DEF EndedRunsStayQuiet, Spec

(* An approved action is carried out at most once: the write path implements
   the queue of work that loses rather than repeats. *)
THEOREM AtMostOneWrite == Spec => WritesAtMostOnce
<1>1. Init => Open = Ids /\ Begun = {}
  <2> SUFFICES ASSUME Init PROVE Open = Ids /\ Begun = {}
    OBVIOUS
  <2>1. \A i \in Ids : Doc(i).status = "none"
    BY DEF Init, Doc, NoProposal
  <2> QED BY <2>1 DEF Open, Begun, Init
<1>2. IInv /\ Next => \/ UNCHANGED <<Open, Begun>> \/ Once!OnceNext
  <2> SUFFICES ASSUME IInv, Next PROVE Once!OnceNext
    OBVIOUS
  <2>1. /\ \A i \in Ids : DocStep(i)
        /\ UNCHANGED sent \/ \E w \in Workers : Sending(w)
    BY NextEffects DEF Effects, DocSteps
  <2>2. ASSUME NEW i \in Ids, i \in Open' PROVE i \in Open
    <3>1. CASE Doc(i)'.status \in {"none", "pending", "approved"}
      BY <2>1, <3>1 DEF DocStep, Open
    <3>2. ASSUME NEW w \in Workers, Claiming(w)', Id(w)' = i PROVE i \in Open
      <4>1. wk'[w] = wk[w] \/ TickMove(w)
        BY NextEffects DEF Effects, TickMove
      <4>2. CASE wk'[w] = wk[w]
        <5>1. Claiming(w) /\ Id(w) = i
          BY <3>2, <4>2 DEF Claiming, Id
        <5> QED BY <5>1 DEF Open, CallingFor, At, Claiming
      <4>3. CASE TickMove(w)
        <5>1. Id(w) = i /\ (Claiming(w) \/ Cleared(i))
          BY <3>2, <4>3 DEF TickMove, ClaimMove
        <5> QED BY <5>1 DEF Open, CallingFor, At, Claiming, Cleared
      <4> QED BY <4>1, <4>2, <4>3
    <3> QED BY <2>2, <3>1, <3>2 DEF Open, CallingFor, At, Claiming
  <2>3. Open' \subseteq Open
    BY <2>2 DEF Open
  <2>4. CASE UNCHANGED sent
    BY <2>3, <2>4 DEF Begun, Once!OnceNext, Once!GiveUp
  <2>5. ASSUME NEW w \in Workers, Sending(w) PROVE Once!OnceNext
    <3>1. Claiming(w) /\ Id(w) \in Ids
      BY <2>5, ClaimingIds DEF Sending, Claiming
    <3>2. PICK i \in Ids : i = Id(w)
      BY <3>1
    <3>3. i \in Open
      BY <2>5, <3>2 DEF Open, CallingFor, Sending, At
    <3>4. Begun' = Begun \cup {i}
      <4>1. \A x : x \in Begun' <=> \E s \in sent' : x = s[1]
        BY DEF Begun
      <4>2. \A x : x \in Begun <=> \E s \in sent : x = s[1]
        BY DEF Begun
      <4>3. sent' = sent \cup {<<i, wk[w].prop.exact>>} /\ <<i, wk[w].prop.exact>>[1] = i
        BY <2>5, <3>2 DEF Sending
      <4> QED BY <4>1, <4>2, <4>3
    <3>5. i \notin Open'
      <4>1. Doc(i)'.status \in Taken
        BY <2>1, <3>1, <3>2 DEF IInv, ClaimInv, DocStep
      <4>2. ASSUME NEW v \in Workers, Claiming(v)', Id(v)' = i PROVE FALSE
        <5>1. v # w
          BY <2>5, <4>2 DEF Sending
        <5>2. wk'[v] = wk[v] \/ TickMove(v)
          BY NextEffects DEF Effects, TickMove
        <5>3. Id(v) = i /\ (Claiming(v) \/ Cleared(i))
          BY <4>2, <5>2 DEF TickMove, ClaimMove, Claiming, Id
        <5>4. Doc(i).status \in Taken
          BY <3>1, <3>2 DEF IInv, ClaimInv
        <5>5. ~Cleared(i)
          BY <5>4 DEF Cleared, Taken
        <5> QED BY <3>1, <3>2, <5>1, <5>3, <5>5 DEF IInv, ClaimInv
      <4> QED BY <4>1, <4>2 DEF Open, Taken, CallingFor, At, Claiming
    <3>6. Once!Begin({i})
      BY <2>3, <3>3, <3>4, <3>5 DEF Once!Begin
    <3> QED BY <3>3, <3>6 DEF Once!OnceNext
  <2> QED BY <2>1, <2>4, <2>5
<1>3. UNCHANGED vars => UNCHANGED <<Open, Begun>>
  BY DEF vars, dbVars, boundVars, history, Open, Begun, Doc, At, Id, CallingFor
<1>4. IInv /\ [Next]_vars => [Once!OnceNext]_<<Open, Begun>>
  BY <1>2, <1>3
<1> QED BY <1>1, <1>4, AlwaysInvariant, PTL DEF Spec, WritesAtMostOnce, Once!OnceSpec, Once!OnceInit

(* While a write was or may still be carried out and nobody knows its outcome,
   no other approval of the job sends the same exact action: the step that is
   the live run's turn read every approval when it proposed its action, and a
   call can only start for that step. *)
THEOREM UnknownNotRepeated == Spec => UnknownIsNotRepeated
<1>1. IInv /\ LiveInv /\ StepInv /\ RepeatInv /\ [Next]_vars =>
        [\A w \in Workers : Starting(w) /\ Id(w) \notin edited
           => MayHaveBeenSent(wk[w].prop.exact) \subseteq {Id(w)}]_vars
  <2> SUFFICES ASSUME IInv, LiveInv, StepInv, RepeatInv, Next, NEW w \in Workers,
                      Starting(w), Id(w) \notin edited,
                      NEW i \in MayHaveBeenSent(wk[w].prop.exact)
               PROVE  i = Id(w)
    OBVIOUS
  <2>1. wk[w].at = "sending" /\ wk'[w].at = "calling" /\ Claiming(w)
    BY DEF Starting, At, Claiming
  <2>2. TickMove(w)
    BY <2>1, NextEffects DEF Effects, TickMove
  <2>3. Authorized(w)
    BY <2>1, <2>2 DEF TickMove, CallMove
  <2>4. PICK j \in Ids : j = Id(w)
    BY <2>1, ClaimingIds
  <2>5. PICK e \in Exacts : e = wk[w].prop.exact
    BY <2>1, ClaimingIds
  <2>6. Current(j)
    BY <2>1, <2>3, <2>4, AuthorizedIsCurrent
  <2>7. Wants(j, e)
    BY <2>1, <2>4, <2>5 DEF IInv, ClaimInv, Taken, Wants
  <2>8. i \in Ids /\ Hot(i, e)
    BY <2>5 DEF MayHaveBeenSent, Hot
  <2> QED BY <2>4, <2>6, <2>7, <2>8 DEF RepeatInv
<1> QED BY <1>1, AlwaysInvariant, AlwaysInOrder, PTL DEF UnknownIsNotRepeated, Spec

============================================================================
