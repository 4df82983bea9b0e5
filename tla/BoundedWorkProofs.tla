---- MODULE BoundedWorkProofs ----
(***************************************************************************)
(* Theorems about BoundedWork, for any events, workers, prices and bounds. *)
(***************************************************************************)
EXTENDS BoundedWork, FiniteSetTheorems, TLAPS

USE EventsAssumption, WorkersAssumption, OpsAssumption, BudgetAssumption,
    NoneAssumption, NamesAssumption
    DEF EventsAssumption, WorkersAssumption, OpsAssumption, BudgetAssumption,
        NoneAssumption, NamesAssumption

RunDocs == [status : Statuses, step : 0..MaxSteps, dec : Ops \cup {"none"},
            lease : Workers \cup {None}, fresh : BOOLEAN, retries : 0..MaxRetries,
            noticed : Attention \cup {"none"}, tainted : BOOLEAN]
Ledgers == [calls : 0..MaxSteps, committed : Nat, blocked : BOOLEAN]
Ticks == [at : Places, run : Ids \cup {None}, step : 0..MaxSteps, dec : Ops \cup {"none"}]
Deliveries == [at : {"new", "reserving", "inserting", "over"}, tainted : BOOLEAN]

(* Only the runs the planner may delegate from save a delegation, and a run
   that waits still has the step it waits in. *)
RunOK(i, d) ==
    /\ d.dec = "delegate" => i \in Delegating
    /\ d.status \in {"needs_input", "waiting_child"} => d.step < MaxSteps

(* What a worker knows at the place where it is. *)
TickOK(t) ==
    /\ t.at # "idle" => t.run \in Ids
    /\ t.at \notin {"idle", "releasing", "failing"} => t.step < MaxSteps
    /\ t.at = "idle" => t.dec = "none"
    /\ t.at \in {"hiring", "parking"} => t.dec = "delegate"
    /\ t.dec = "delegate" => t.run \in Delegating

TypeInv ==
    /\ TypeOK
    /\ \A i \in Ids : RunOK(i, run[i])
    /\ \A w \in Workers : TickOK(wk[w])

(* The ceiling of every call under way is part of what its root's ledger has
   committed, and so is what the calls before it have cost. *)
Calling(e) == {w \in Workers : wk[w].at = "calling" /\ Root(wk[w].run) = e}
HeldFor(e) == Reserved * Cardinality(Calling(e))
LedgerInv ==
    \A e \in Events :
        /\ HeldFor(e) <= budget[e].committed
        /\ budget[e].committed <= Cap
        /\ e \notin over => billed[e] + HeldFor(e) <= budget[e].committed

(* Until a slot is released in error, it is held by the run that lives, and by
   the request that is about to insert one. *)
SlotInv ==
    lapsed \/ /\ \A e \in Events : Live(e) => active = e
              /\ \A q \in Requests : req[q].at = "inserting" =>
                     active = q[1] \/ run[q[1]].status # "none"

IInv == TypeInv /\ LedgerInv /\ SlotInv

----------------------------------------------------------------------------
(* The parts of TypeOK. *)

Spent == billed \in [Events -> Nat] /\ over \subseteq Events
Rest ==
    /\ cleaned \subseteq Events /\ late \subseteq Expiring
    /\ active \in Events \cup {None} /\ overdue \in BOOLEAN /\ revoked \in BOOLEAN
    /\ req \in [Requests -> Deliveries]
    /\ stopping \in [at : {"none", "listed", "marking", "over"}, ids : SUBSET Ids,
                     revoke : BOOLEAN]
    /\ crashes \in 0..MaxCrashes
    /\ told \subseteq Ids \X Attention \X (0..MaxSteps) /\ lapsed \in BOOLEAN

LEMMA TypeOKParts ==
    TypeOK <=> /\ run \in [Ids -> RunDocs] /\ budget \in [Events -> Ledgers]
               /\ wk \in [Workers -> Ticks] /\ Spent /\ Rest
<1> QED BY Zenon DEF TypeOK, RunDocs, Ledgers, Ticks, Deliveries, Spent, Rest

LEMMA Names ==
    /\ Events \subseteq Ids /\ Children \subseteq Ids
    /\ \A i \in Ids : Root(i) \in Events
    /\ \A e \in Events : Root(e) = e /\ ChildrenOf(e) \subseteq Children
    /\ \A i \in Events, n \in Steps : <<i, n>> \in Children
    /\ \A n \in 0..MaxSteps : n < MaxSteps => n \in Steps /\ n + 1 \in 0..MaxSteps
<1>1. \A n \in 0..MaxSteps : n < MaxSteps => n \in Steps /\ n + 1 \in 0..MaxSteps
  BY DEF Steps
<1>2. \A i \in Children : i[1] \in Events
  BY DEF Children
<1>3. \A e \in Events : ChildrenOf(e) \subseteq Children
  BY DEF ChildrenOf, Children
<1> QED BY <1>1, <1>2, <1>3 DEF Ids, Root, Children

----------------------------------------------------------------------------
(* What any step does to a run: one that is over stays as it is, and one is
   inserted by the request of its event, or as a child. *)

Inserting(i) == \E q \in Requests : q[1] = i /\ req[q].at = "inserting"
RunMove(i) ==
    /\ RunOK(i, run'[i])
    /\ Ended(i) => run'[i].status = run[i].status
    /\ run[i].status # "none" => run'[i].status # "none"
    /\ run[i].status = "none" /\ run'[i].status # "none" => i \in Children \/ Inserting(i)
RunMoves == run' \in [Ids -> RunDocs] /\ \A i \in Ids : RunMove(i)

LEMMA RunFacts ==
    ASSUME TypeInv
    PROVE  run \in [Ids -> RunDocs] /\ \A i \in Ids : RunOK(i, run[i])
<1> QED BY TypeOKParts, Zenon DEF TypeInv

LEMMA RunKept == TypeInv /\ UNCHANGED run => RunMoves
<1> SUFFICES ASSUME TypeInv, UNCHANGED run PROVE RunMoves
  OBVIOUS
<1>1. run' = run
  OBVIOUS
<1>2. \A i \in Ids : RunMove(i)
  BY <1>1, RunFacts, Zenon DEF RunMove
<1> QED BY <1>1, <1>2, RunFacts, Zenon DEF RunMoves

LEMMA StatusUpdates ==
    ASSUME NEW d \in RunDocs, NEW s \in Statuses
    PROVE  /\ WithStatus(d, s) \in RunDocs
           /\ WithStatus(d, s).status = s
           /\ WithStatus(d, s).step = d.step /\ WithStatus(d, s).dec = d.dec
<1>1. FALSE \in BOOLEAN /\ None \in Workers \cup {None}
  OBVIOUS
<1>2. WithStatus(d, s) \in RunDocs
  BY <1>1, Zenon DEF WithStatus, RunDocs
<1>3. /\ WithStatus(d, s).status = s
      /\ WithStatus(d, s).step = d.step /\ WithStatus(d, s).dec = d.dec
  BY DEF WithStatus, RunDocs
<1> QED BY <1>2, <1>3

(* One run's document replaced. *)
LEMMA RunReplaced ==
    ASSUME TypeInv, NEW i \in Ids, NEW d \in RunDocs, run' = [run EXCEPT ![i] = d],
           RunOK(i, d),
           \/ Live(i) /\ d.status # "none"
           \/ d.status = run[i].status
           \/ run[i].status = "none" /\ (i \in Children \/ Inserting(i))
    PROVE  RunMoves
<1>1. run \in [Ids -> RunDocs] /\ \A j \in Ids : RunOK(j, run[j])
  BY RunFacts
<1>2. run' \in [Ids -> RunDocs] /\ run'[i] = d /\ \A j \in Ids \ {i} : run'[j] = run[j]
  BY <1>1, Zenon
<1>3. RunMove(i)
  BY <1>2 DEF RunMove, Ended, Live, Terminal
<1>4. \A j \in Ids \ {i} : RunMove(j)
  BY <1>1, <1>2, Zenon DEF RunMove
<1> QED BY <1>2, <1>3, <1>4 DEF RunMoves

(* A live run that ends. *)
LEMMA RunEnds ==
    ASSUME TypeInv, NEW i \in Ids, Live(i), NEW s \in Terminal,
           run' = [run EXCEPT ![i] = WithStatus(run[i], s)]
    PROVE  RunMoves
<1>1. run[i] \in RunDocs /\ RunOK(i, run[i])
  BY RunFacts, Zenon
<1>2. s \in Statuses /\ s \notin {"none", "needs_input", "waiting_child"}
  BY DEF Statuses, Terminal
<1>3. WithStatus(run[i], s) \in RunDocs /\ WithStatus(run[i], s).status = s
      /\ WithStatus(run[i], s).dec = run[i].dec
  BY <1>1, <1>2, StatusUpdates, Zenon
<1>4. RunOK(i, WithStatus(run[i], s)) /\ WithStatus(run[i], s).status # "none"
  BY <1>1, <1>2, <1>3, Zenon DEF RunOK
<1> QED BY <1>3, <1>4, RunReplaced, Zenon

(* The live runs of a set, cancelled. *)
LEMMA RunsCancelled ==
    ASSUME TypeInv, NEW S,
           run' = [i \in Ids |-> IF i \in S /\ Live(i)
                                 THEN WithStatus(run[i], "cancelled") ELSE run[i]]
    PROVE  RunMoves
<1>1. ASSUME NEW i \in Ids PROVE run'[i] \in RunDocs /\ RunMove(i)
  <2>1. run[i] \in RunDocs /\ RunOK(i, run[i])
    BY RunFacts, Zenon
  <2>2. CASE i \in S /\ Live(i)
    <3>1. run'[i] = WithStatus(run[i], "cancelled")
      BY <2>2, Zenon
    <3>2. "cancelled" \in Statuses
      BY DEF Statuses, Terminal
    <3> DEFINE d == WithStatus(run[i], "cancelled")
    <3>3. d \in RunDocs /\ d.status = "cancelled" /\ d.dec = run[i].dec
      BY <2>1, <3>2, StatusUpdates, Zenon
    <3> HIDE DEF d
    <3>4. run'[i] = d
      BY <3>1 DEF d
    <3>5. RunMove(i)
      BY <2>1, <2>2, <3>3, <3>4 DEF RunMove, RunOK, Ended, Live, Terminal
    <3> QED BY <3>3, <3>4, <3>5
  <2>3. CASE ~(i \in S /\ Live(i))
    <3>1. run'[i] = run[i]
      BY <2>3, Zenon
    <3> QED BY <2>1, <3>1, Zenon DEF RunMove
  <2> QED BY <2>2, <2>3
<1>2. run' = [i \in Ids |-> run'[i]]
  BY Zenon
<1> QED BY <1>1, <1>2, Zenon DEF RunMoves

----------------------------------------------------------------------------
(* What a worker's step does to what it knows. *)

TickMove(w) ==
    /\ wk' \in [Workers -> Ticks] /\ TickOK(wk'[w])
    /\ \A v \in Workers \ {w} : wk'[v] = wk[v]

LEMMA TickFacts ==
    ASSUME TypeInv
    PROVE  wk \in [Workers -> Ticks] /\ \A w \in Workers : TickOK(wk[w])
<1> QED BY TypeOKParts, Zenon DEF TypeInv

LEMMA TickUpdates ==
    ASSUME NEW t \in Ticks
    PROVE  /\ \A p \in Places : [t EXCEPT !.at = p] \in Ticks
           /\ \A p \in Places, d \in Ops \cup {"none"} : [t EXCEPT !.at = p, !.dec = d] \in Ticks
           /\ \A p \in Places, i \in Ids : [t EXCEPT !.at = p, !.run = i] \in Ticks
           /\ \A p \in Places, i \in Ids, n \in 0..MaxSteps :
                [t EXCEPT !.at = p, !.run = i, !.step = n] \in Ticks
<1>1. \A i \in Ids : i \in Ids \cup {None}
  OBVIOUS
<1> QED BY <1>1, Zenon DEF Ticks

LEMMA GoMoves ==
    ASSUME TypeInv, NEW w \in Workers, NEW place \in Places \ {"idle"}, Go(w, place),
           wk[w].at # "idle",
           place \notin {"releasing", "failing"} => wk[w].step < MaxSteps,
           place \in {"hiring", "parking"} => wk[w].dec = "delegate"
    PROVE  /\ TickMove(w)
           /\ wk'[w].at = place /\ wk'[w].run = wk[w].run /\ wk'[w].dec = wk[w].dec
<1>1. wk \in [Workers -> Ticks] /\ TickOK(wk[w]) /\ wk[w] \in Ticks
  BY TickFacts, Zenon
<1>2. wk' = [wk EXCEPT ![w] = [wk[w] EXCEPT !.at = place]]
  BY Zenon DEF Go
<1>3. [wk[w] EXCEPT !.at = place] \in Ticks
  BY <1>1, TickUpdates, Zenon
<1>4. /\ wk' \in [Workers -> Ticks] /\ \A v \in Workers \ {w} : wk'[v] = wk[v]
      /\ wk'[w] = [wk[w] EXCEPT !.at = place]
  BY <1>1, <1>2, <1>3, Zenon
<1>5. /\ wk'[w].at = place /\ wk'[w].run = wk[w].run /\ wk'[w].dec = wk[w].dec
      /\ wk'[w].step = wk[w].step
  BY <1>1, <1>4 DEF Ticks
<1>6. TickOK(wk'[w])
  BY <1>1, <1>5 DEF TickOK
<1> QED BY <1>4, <1>5, <1>6 DEF TickMove

LEMMA ActMoves ==
    ASSUME TypeInv, NEW w \in Workers, NEW d \in Ops, Act(w, d),
           wk[w].at # "idle", wk[w].step < MaxSteps, d = "delegate" => wk[w].run \in Delegating
    PROVE  TickMove(w) /\ wk'[w].at = "acting"
<1>1. wk \in [Workers -> Ticks] /\ TickOK(wk[w]) /\ wk[w] \in Ticks
  BY TickFacts, Zenon
<1> DEFINE t == [wk[w] EXCEPT !.at = "acting", !.dec = d]
<1>2. wk' = [wk EXCEPT ![w] = t]
  BY Zenon DEF Act
<1>3. "acting" \in Places /\ d \in Ops \cup {"none"}
  BY DEF Places
<1>4. t \in Ticks
  BY <1>1, <1>3, TickUpdates, Zenon
<1>5. t.at = "acting" /\ t.run = wk[w].run /\ t.dec = d /\ t.step = wk[w].step
  BY <1>1 DEF Ticks
<1> HIDE DEF t
<1>6. /\ wk' \in [Workers -> Ticks] /\ \A v \in Workers \ {w} : wk'[v] = wk[v]
      /\ wk'[w] = t
  BY <1>1, <1>2, <1>4, Zenon
<1>7. TickOK(wk'[w])
  BY <1>1, <1>5, <1>6 DEF TickOK
<1> QED BY <1>5, <1>6, <1>7 DEF TickMove

LEMMA LeaveMoves ==
    ASSUME TypeInv, NEW w \in Workers, Leave(w)
    PROVE  TickMove(w) /\ wk'[w].at = "idle"
<1>1. wk \in [Workers -> Ticks]
  BY TickFacts, Zenon
<1>2. "none" \in Ops \cup {"none"} /\ None \in Ids \cup {None} /\ 0 \in 0..MaxSteps
      /\ "idle" \in Places
  BY DEF Places
<1>3. Idle \in Ticks
  BY <1>2, Zenon DEF Idle, Ticks
<1>4. wk' \in [Workers -> Ticks] /\ wk'[w] = Idle /\ \A v \in Workers \ {w} : wk'[v] = wk[v]
  BY <1>1, <1>3, Zenon DEF Leave
<1>5. "none" # "delegate" /\ Idle.at = "idle" /\ Idle.dec = "none"
  BY DEF Idle
<1>6. TickOK(wk'[w])
  BY <1>4, <1>5 DEF TickOK
<1> QED BY <1>4, <1>5, <1>6 DEF TickMove

(* A write to the run by its worker, or its failure. *)
LEMMA AdvanceMoves ==
    ASSUME TypeInv, NEW w \in Workers, wk[w].at # "idle",
           NEW s \in Statuses \ {"none"}, NEW n \in 0..MaxSteps, NEW d \in Ops \cup {"none"},
           NEW k \in 0..MaxRetries,
           d = "delegate" => wk[w].run \in Delegating,
           s \in {"needs_input", "waiting_child"} => n < MaxSteps,
           Advance(w, s, n, d, k)
    PROVE  RunMoves /\ TickMove(w) /\ wk'[w].at \in {"idle", "failing"}
<1>1. wk[w].run \in Ids
  BY TickFacts DEF TickOK
<1>2. CASE Holds(w)
  <2> DEFINE i == wk[w].run
             c == AfterAdvance([WithStatus(run[i], s) EXCEPT !.step = n, !.dec = d, !.retries = k])
  <2>1. run' = [run EXCEPT ![i] = c] /\ Leave(w)
    BY <1>2, Zenon DEF Advance
  <2>2. run[i] \in RunDocs /\ RunOK(i, run[i])
    BY <1>1, RunFacts, Zenon
  <2>3. c = [run[i] EXCEPT !.status = s, !.lease = None, !.fresh = FALSE, !.step = n,
                           !.dec = d, !.retries = k, !.noticed = "none"]
    BY <2>2 DEF AfterAdvance, WithStatus, RunDocs
  <2>4. /\ FALSE \in BOOLEAN /\ None \in Workers \cup {None} /\ s \in Statuses
        /\ "none" \in Attention \cup {"none"}
    OBVIOUS
  <2> HIDE DEF c
  <2>5. c \in RunDocs
    BY <2>2, <2>3, <2>4, Zenon DEF RunDocs
  <2>6. c.status = s /\ c.step = n /\ c.dec = d
    BY <2>2, <2>3 DEF RunDocs
  <2>7. RunOK(i, c) /\ c.status # "none" /\ Live(i)
    BY <1>2, <2>6 DEF RunOK, Holds, Live, Terminal
  <2>8. RunMoves
    BY <1>1, <2>1, <2>5, <2>7, RunReplaced, Zenon
  <2> QED BY <2>1, <2>8, LeaveMoves, Zenon
<1>3. CASE ~Holds(w)
  <2>1. Go(w, "failing") /\ UNCHANGED run
    BY <1>3, Zenon DEF Advance
  <2>2. "failing" \in Places \ {"idle"} /\ "failing" \in {"releasing", "failing"}
        /\ "failing" \notin {"hiring", "parking"}
    BY DEF Places
  <2>3. TickMove(w) /\ wk'[w].at = "failing"
    BY <2>1, <2>2, GoMoves, Zenon
  <2> QED BY <2>1, <2>3, RunKept, Zenon
<1> QED BY <1>2, <1>3

----------------------------------------------------------------------------
(* The calls under way. *)

LEMMA CallingFinite ==
    ASSUME NEW e
    PROVE  IsFiniteSet(Calling(e)) /\ Cardinality(Calling(e)) \in Nat /\ HeldFor(e) \in Nat
<1>1. Calling(e) \in SUBSET Workers
  BY DEF Calling
<1>2. IsFiniteSet(Calling(e))
  BY <1>1, FS_Subset, Zenon
<1>3. Cardinality(Calling(e)) \in Nat
  BY <1>2, FS_CardinalityType, Zenon
<1> QED BY <1>2, <1>3 DEF HeldFor

LEMMA CallingKept ==
    ASSUME NEW w \in Workers, TickMove(w), wk[w].at # "calling", wk'[w].at # "calling", NEW e
    PROVE  Calling(e)' = Calling(e)
<1> QED BY DEF Calling, TickMove

(* One call starts: its ceiling is held. *)
LEMMA CallStarts ==
    ASSUME NEW w \in Workers, TickMove(w), wk[w].at # "calling", wk'[w].at = "calling",
           wk'[w].run = wk[w].run, NEW e
    PROVE  HeldFor(e)' = IF e = Root(wk[w].run) THEN HeldFor(e) + Reserved ELSE HeldFor(e)
<1>1. CASE e = Root(wk[w].run)
  <2>1. Calling(e)' = Calling(e) \cup {w} /\ w \notin Calling(e)
    BY <1>1 DEF Calling, TickMove
  <2>2. Cardinality(Calling(e)') = Cardinality(Calling(e)) + 1 /\ Cardinality(Calling(e)) \in Nat
    BY <2>1, CallingFinite, FS_AddElement, Zenon
  <2> QED BY <1>1, <2>2 DEF HeldFor
<1>2. CASE e # Root(wk[w].run)
  <2>1. Calling(e)' = Calling(e)
    BY <1>2 DEF Calling, TickMove
  <2> QED BY <1>2, <2>1 DEF HeldFor
<1> QED BY <1>1, <1>2

(* One call is over. *)
LEMMA CallEnds ==
    ASSUME NEW w \in Workers, TickMove(w), wk[w].at = "calling", wk'[w].at # "calling", NEW e
    PROVE  /\ HeldFor(e)' \in Nat
           /\ HeldFor(e) = IF e = Root(wk[w].run) THEN HeldFor(e)' + Reserved ELSE HeldFor(e)'
<1>1. CASE e = Root(wk[w].run)
  <2>1. Calling(e)' = Calling(e) \ {w} /\ w \in Calling(e)
    BY <1>1 DEF Calling, TickMove
  <2>2. Cardinality(Calling(e)') = Cardinality(Calling(e)) - 1 /\ Cardinality(Calling(e)) \in Nat
    BY <2>1, CallingFinite, FS_RemoveElement, Zenon
  <2>3. IsFiniteSet(Calling(e) \ {w})
    BY CallingFinite, FS_RemoveElement, Zenon
  <2>4. Cardinality(Calling(e)') \in Nat
    BY <2>1, <2>3, FS_CardinalityType
  <2> QED BY <1>1, <2>2, <2>4 DEF HeldFor
<1>2. CASE e # Root(wk[w].run)
  <2>1. Calling(e)' = Calling(e)
    BY <1>2 DEF Calling, TickMove
  <2>2. HeldFor(e)' = HeldFor(e)
    BY <2>1 DEF HeldFor
  <2> QED BY <1>2, <2>2, CallingFinite, Zenon
<1> QED BY <1>1, <1>2

LEMMA LedgerKept ==
    ASSUME LedgerInv, \A e \in Events : Calling(e)' = Calling(e),
           \A e \in Events : budget'[e].committed = budget[e].committed,
           UNCHANGED <<billed, over>>
    PROVE  LedgerInv'
<1>1. \A e \in Events : HeldFor(e)' = HeldFor(e)
  BY DEF HeldFor
<1>2. billed' = billed /\ over' = over
  OBVIOUS
<1> QED BY <1>1, <1>2, Zenon DEF LedgerInv

----------------------------------------------------------------------------
(* Steps by what they touch. *)

Kept == RunMoves /\ TypeInv' /\ LedgerInv'

LEMMA Combined ==
    ASSUME RunMoves, budget' \in [Events -> Ledgers], wk' \in [Workers -> Ticks],
           \A w \in Workers : TickOK(wk'[w]), Spent', Rest'
    PROVE  TypeInv'
<1>1. TypeOK'
  <2>1. run' \in [Ids -> RunDocs]
    BY Zenon DEF RunMoves
  <2> QED BY <2>1, Zenon DEF TypeOK, RunDocs, Ledgers, Ticks, Deliveries, Spent, Rest
<1>2. \A i \in Ids : RunOK(i, run'[i])
  BY Zenon DEF RunMoves, RunMove
<1> QED BY <1>1, <1>2 DEF TypeInv

LEMMA TicksTyped ==
    ASSUME TypeInv, NEW w \in Workers, TickMove(w)
    PROVE  wk' \in [Workers -> Ticks] /\ \A v \in Workers : TickOK(wk'[v])
<1>1. \A v \in Workers : TickOK(wk[v])
  BY TickFacts
<1> QED BY <1>1, Zenon DEF TickMove

(* The database only, or a request, or the owner: no worker moves. *)
LEMMA OtherSteps ==
    ASSUME TypeInv, LedgerInv, RunMoves, UNCHANGED <<budget, wk, billed, over>>, Rest'
    PROVE  Kept
<1>1. /\ budget \in [Events -> Ledgers] /\ wk \in [Workers -> Ticks] /\ Spent
      /\ \A w \in Workers : TickOK(wk[w])
  BY TypeOKParts, Zenon DEF TypeInv
<1>2. budget' = budget /\ wk' = wk /\ billed' = billed /\ over' = over
  OBVIOUS
<1>3. Spent'
  BY <1>1, <1>2 DEF Spent
<1>4. \A e \in Events : Calling(e)' = Calling(e)
  BY <1>2 DEF Calling
<1>5. LedgerInv'
  BY <1>2, <1>4, LedgerKept, Zenon
<1>6. TypeInv'
  BY <1>1, <1>2, <1>3, Combined, Zenon
<1> QED BY <1>5, <1>6 DEF Kept

(* A worker moves, and no call starts or ends. *)
LEMMA WorkerSteps ==
    ASSUME TypeInv, LedgerInv, RunMoves, NEW w \in Workers, TickMove(w),
           wk[w].at # "calling", wk'[w].at # "calling",
           budget' \in [Events -> Ledgers],
           \A e \in Events : budget'[e].committed = budget[e].committed,
           UNCHANGED <<billed, over>>, Rest'
    PROVE  Kept
<1>1. Spent
  BY TypeOKParts, Zenon DEF TypeInv
<1>2. Spent'
  BY <1>1 DEF Spent
<1>3. \A e \in Events : Calling(e)' = Calling(e)
  BY CallingKept, Zenon
<1>4. LedgerInv'
  BY <1>3, LedgerKept, Zenon
<1>5. wk' \in [Workers -> Ticks] /\ \A v \in Workers : TickOK(wk'[v])
  BY TicksTyped, Zenon
<1>6. TypeInv'
  BY <1>2, <1>5, Combined, Zenon
<1> QED BY <1>4, <1>6 DEF Kept

LEMMA RestKept ==
    ASSUME TypeInv, UNCHANGED <<cleaned, job, late, req, stopping, crashes, told, lapsed>>
    PROVE  Rest'
<1>1. Rest
  BY TypeOKParts, Zenon DEF TypeInv
<1>2. /\ cleaned' = cleaned /\ active' = active /\ overdue' = overdue /\ revoked' = revoked
      /\ late' = late /\ req' = req /\ stopping' = stopping /\ crashes' = crashes
      /\ told' = told /\ lapsed' = lapsed
  BY DEF job
<1> QED BY <1>1, <1>2, Zenon DEF Rest

LEMMA StepSteps ==
    ASSUME TypeInv, LedgerInv, RunMoves, NEW w \in Workers, TickMove(w),
           wk[w].at # "calling", wk'[w].at # "calling", UNCHANGED budget, StepOnly
    PROVE  Kept
<1>1. UNCHANGED <<cleaned, job, late, req, stopping, crashes, told, lapsed>>
      /\ UNCHANGED <<billed, over>>
  BY DEF StepOnly, ghosts
<1>2. Rest'
  BY <1>1, RestKept, Zenon
<1>3. budget \in [Events -> Ledgers] /\ budget' = budget
  BY TypeOKParts, Zenon DEF TypeInv
<1> QED BY <1>1, <1>2, <1>3, WorkerSteps, Zenon

----------------------------------------------------------------------------
(* The requests that deliver an event. *)

LEMMA RestFacts ==
    ASSUME TypeInv
    PROVE  Rest /\ Spent /\ budget \in [Events -> Ledgers]
<1> QED BY TypeOKParts, Zenon DEF TypeInv

LEMMA RequestNames == \A q \in Requests : q[1] \in Events
<1> QED BY DEF Requests

LEMMA DeliveryUpdates ==
    ASSUME req \in [Requests -> Deliveries], NEW q \in Requests,
           NEW place \in {"new", "reserving", "inserting", "over"}, GoReq(q, place)
    PROVE  req' \in [Requests -> Deliveries]
<1>1. req' = [req EXCEPT ![q] = [req[q] EXCEPT !.at = place]]
  BY Zenon DEF GoReq
<1>2. [req[q] EXCEPT !.at = place] \in Deliveries
  BY Zenon DEF Deliveries
<1> QED BY <1>1, <1>2, Zenon

LEMMA RequestRest ==
    ASSUME TypeInv, req' \in [Requests -> Deliveries], active' \in Events \cup {None},
           overdue' \in BOOLEAN, ReqOnly
    PROVE  Rest' /\ UNCHANGED <<budget, wk, billed, over>>
<1>1. /\ cleaned' = cleaned /\ revoked' = revoked /\ late' = late /\ stopping' = stopping
      /\ crashes' = crashes /\ told' = told /\ lapsed' = lapsed
      /\ UNCHANGED <<budget, wk, billed, over>>
  BY DEF ReqOnly, ghosts
<1> QED BY <1>1, RestFacts, Zenon DEF Rest

LEMMA ReceiveKeeps ==
    ASSUME TypeInv, LedgerInv, NEW q \in Requests, Receive(q)
    PROVE  Kept
<1>1. req \in [Requests -> Deliveries] /\ active \in Events \cup {None} /\ overdue \in BOOLEAN
  BY RestFacts, Zenon DEF Rest
<1> DEFINE d == [tainted |-> active # None,
                 at |-> IF run[q[1]].status = "none" THEN "reserving" ELSE "over"]
<1>2. d \in Deliveries
  BY DEF Deliveries
<1>3. req' = [req EXCEPT ![q] = d]
  BY Zenon DEF Receive
<1> HIDE DEF d
<1>4. req' \in [Requests -> Deliveries]
  BY <1>1, <1>2, <1>3, Zenon
<1>5. active' = active /\ overdue' = overdue /\ UNCHANGED run /\ ReqOnly
  BY Zenon DEF Receive
<1> QED BY <1>1, <1>4, <1>5, RunKept, RequestRest, OtherSteps, Zenon

LEMMA ReserveKeeps ==
    ASSUME TypeInv, LedgerInv, NEW q \in Requests, Reserve(q)
    PROVE  Kept
<1>1. /\ req \in [Requests -> Deliveries] /\ active \in Events \cup {None}
      /\ overdue \in BOOLEAN /\ q[1] \in Events
  BY RestFacts, RequestNames, Zenon DEF Rest
<1>2. /\ \E place \in {"inserting", "over"} : GoReq(q, place)
      /\ active' \in Events \cup {None} /\ overdue' \in BOOLEAN
  BY <1>1 DEF Reserve
<1>3. req' \in [Requests -> Deliveries]
  BY <1>1, <1>2, DeliveryUpdates
<1>4. UNCHANGED run /\ ReqOnly
  BY Zenon DEF Reserve
<1> QED BY <1>2, <1>3, <1>4, RunKept, RequestRest, OtherSteps, Zenon

LEMMA InsertKeeps ==
    ASSUME TypeInv, LedgerInv, NEW q \in Requests, Insert(q)
    PROVE  Kept
<1>1. /\ req \in [Requests -> Deliveries] /\ active \in Events \cup {None}
      /\ overdue \in BOOLEAN /\ q[1] \in Ids
  BY RestFacts, RequestNames, Names, Zenon DEF Rest
<1>2. GoReq(q, "over") /\ active' = active /\ overdue' = overdue /\ ReqOnly
      /\ req[q].at = "inserting"
  BY Zenon DEF Insert
<1>3. req' \in [Requests -> Deliveries]
  BY <1>1, <1>2, DeliveryUpdates
<1>4. CASE run[q[1]].status # "none"
  <2>1. UNCHANGED run
    BY <1>4, Zenon DEF Insert
  <2> QED BY <1>1, <1>2, <1>3, <2>1, RunKept, RequestRest, OtherSteps, Zenon
<1>5. CASE run[q[1]].status = "none"
  <2> DEFINE d == [run[q[1]] EXCEPT !.status = "queued", !.tainted = req[q].tainted]
  <2>1. run' = [run EXCEPT ![q[1]] = d]
    BY <1>5, Zenon DEF Insert
  <2>2. run[q[1]] \in RunDocs /\ RunOK(q[1], run[q[1]])
    BY <1>1, RunFacts, Zenon
  <2>3. "queued" \in Statuses /\ req[q].tainted \in BOOLEAN
    BY <1>1 DEF Statuses, Deliveries
  <2>4. d \in RunDocs
    BY <2>2, <2>3, Zenon DEF RunDocs
  <2>5. d.status = "queued" /\ d.dec = run[q[1]].dec
    BY <2>2 DEF RunDocs
  <2> HIDE DEF d
  <2>6. RunOK(q[1], d) /\ Inserting(q[1])
    BY <1>2, <2>2, <2>5 DEF RunOK, Inserting
  <2>7. RunMoves
    BY <1>1, <1>5, <2>1, <2>4, <2>6, RunReplaced, Zenon
  <2> QED BY <1>1, <1>2, <1>3, <2>7, RequestRest, OtherSteps, Zenon
<1> QED BY <1>4, <1>5

LEMMA RequestDiesKeeps ==
    ASSUME TypeInv, LedgerInv, NEW q \in Requests, RequestDies(q)
    PROVE  Kept
<1>1. /\ req \in [Requests -> Deliveries] /\ active \in Events \cup {None}
      /\ overdue \in BOOLEAN
  BY RestFacts, Zenon DEF Rest
<1>2. GoReq(q, "over") /\ active' = active /\ overdue' = overdue /\ ReqOnly /\ UNCHANGED run
  BY Zenon DEF RequestDies
<1>3. req' \in [Requests -> Deliveries]
  BY <1>1, <1>2, DeliveryUpdates
<1> QED BY <1>1, <1>2, <1>3, RunKept, RequestRest, OtherSteps, Zenon

----------------------------------------------------------------------------
(* The sweeps, the owner and time. *)

LEMMA DbRest ==
    ASSUME TypeInv, cleaned' \subseteq Events, late' \subseteq Expiring,
           active' \in Events \cup {None}, overdue' \in BOOLEAN, UNCHANGED revoked, DbOnly
    PROVE  Rest' /\ UNCHANGED <<wk, billed, over>>
<1>1. /\ revoked' = revoked /\ req' = req /\ stopping' = stopping /\ crashes' = crashes
      /\ told' = told /\ lapsed' = lapsed /\ UNCHANGED <<wk, billed, over>>
  BY DEF DbOnly, ghosts
<1> QED BY <1>1, RestFacts, Zenon DEF Rest

LEMMA JobKept ==
    ASSUME TypeInv, UNCHANGED job
    PROVE  active' \in Events \cup {None} /\ overdue' \in BOOLEAN /\ UNCHANGED revoked
<1> QED BY RestFacts DEF job, Rest

LEMMA ExpireKeeps ==
    ASSUME TypeInv, LedgerInv, NEW i \in Ids, Expire(i)
    PROVE  Kept
<1>1. /\ Live(i) /\ run' = [run EXCEPT ![i] = WithStatus(run[i], "failed")]
      /\ UNCHANGED <<budget, cleaned, job, late>> /\ DbOnly
  BY Zenon DEF Expire
<1>2. "failed" \in Terminal
  BY DEF Terminal
<1>3. RunMoves
  BY <1>1, <1>2, RunEnds, Zenon
<1>4. cleaned' \subseteq Events /\ late' \subseteq Expiring /\ UNCHANGED budget /\ UNCHANGED job
  BY <1>1, RestFacts DEF Rest
<1> QED BY <1>1, <1>3, <1>4, JobKept, DbRest, OtherSteps, Zenon

LEMMA NotifyKeeps ==
    ASSUME TypeInv, LedgerInv, NEW i \in Ids, Notify(i)
    PROVE  Kept
<1> DEFINE d == [run[i] EXCEPT !.noticed = run[i].status]
<1>1. /\ run' = [run EXCEPT ![i] = d]
      /\ run[i].status \in Attention
      /\ told' = told \cup {<<i, run[i].status, run[i].step>>}
  BY Zenon DEF Notify
<1>2. run[i] \in RunDocs /\ RunOK(i, run[i])
  BY RunFacts, Zenon
<1>3. d \in RunDocs
  BY <1>1, <1>2, Zenon DEF RunDocs
<1>4. d.status = run[i].status /\ d.dec = run[i].dec /\ d.step = run[i].step
      /\ run[i].step \in 0..MaxSteps
  BY <1>2 DEF RunDocs
<1> HIDE DEF d
<1>5. RunOK(i, d)
  BY <1>2, <1>4, Zenon DEF RunOK
<1>6. RunMoves
  BY <1>1, <1>3, <1>4, <1>5, RunReplaced, Zenon
<1>7. Rest /\ told' \subseteq Ids \X Attention \X (0..MaxSteps)
  BY <1>1, <1>4, RestFacts DEF Rest
<1>8. /\ cleaned' = cleaned /\ active' = active /\ overdue' = overdue /\ revoked' = revoked
      /\ late' = late /\ req' = req /\ stopping' = stopping /\ crashes' = crashes
      /\ lapsed' = lapsed /\ UNCHANGED <<budget, wk, billed, over>>
  BY DEF Notify, job
<1>9. Rest'
  BY <1>7, <1>8, Zenon DEF Rest
<1> QED BY <1>6, <1>8, <1>9, OtherSteps, Zenon

LEMMA ReleaseEndedKeeps ==
    ASSUME TypeInv, LedgerInv, ReleaseEnded
    PROVE  Kept
<1>1. /\ UNCHANGED run /\ UNCHANGED budget /\ UNCHANGED revoked /\ DbOnly
      /\ active' \in Events \cup {None} /\ overdue' \in BOOLEAN
      /\ cleaned' = cleaned /\ late' = late
  BY DEF ReleaseEnded
<1>2. cleaned' \subseteq Events /\ late' \subseteq Expiring
  BY <1>1, RestFacts DEF Rest
<1> QED BY <1>1, <1>2, RunKept, DbRest, OtherSteps, Zenon

LEMMA EndChildrenKeeps ==
    ASSUME TypeInv, LedgerInv, NEW e \in Events, EndChildren(e)
    PROVE  Kept
<1>1. RunMoves
  <2>1. run' = [i \in Ids |-> IF i \in ChildrenOf(e) /\ Live(i)
                              THEN WithStatus(run[i], "cancelled") ELSE run[i]]
    BY Zenon DEF EndChildren
  <2> QED BY <2>1, RunsCancelled, Zenon
<1>2. /\ UNCHANGED budget /\ UNCHANGED job /\ DbOnly
      /\ cleaned' = cleaned \cup {e} /\ late' = late
  BY DEF EndChildren
<1>3. cleaned' \subseteq Events /\ late' \subseteq Expiring
  BY <1>2, RestFacts DEF Rest
<1> QED BY <1>1, <1>2, <1>3, JobKept, DbRest, OtherSteps, Zenon

LEMMA AnswerKeeps ==
    ASSUME TypeInv, LedgerInv, NEW i \in Ids, Answer(i)
    PROVE  Kept
<1> DEFINE c == WithStatus(run[i], "queued")
           d == [c EXCEPT !.dec = "none", !.step = run[i].step + 1]
<1>1. /\ run' = [run EXCEPT ![i] = d]
      /\ run[i].status = "needs_input"
      /\ UNCHANGED <<budget, cleaned, job, late>> /\ DbOnly
  BY Zenon DEF Answer
<1>2. run[i] \in RunDocs /\ RunOK(i, run[i]) /\ "queued" \in Statuses
  BY RunFacts, Zenon DEF Statuses
<1>3. c \in RunDocs /\ c.step = run[i].step /\ run[i].step < MaxSteps
      /\ run[i].step \in 0..MaxSteps /\ c.status = "queued"
  BY <1>1, <1>2, StatusUpdates DEF RunDocs, RunOK
<1>4. run[i].step + 1 \in 0..MaxSteps
  BY <1>3
<1> HIDE DEF c
<1>5. d \in RunDocs
  BY <1>3, <1>4, Zenon DEF RunDocs
<1>6. d.status = "queued" /\ d.dec = "none"
  BY <1>3 DEF RunDocs
<1> HIDE DEF d
<1>7. RunOK(i, d) /\ Live(i) /\ d.status # "none"
  BY <1>1, <1>6 DEF RunOK, Live, Terminal
<1>8. RunMoves
  BY <1>1, <1>5, <1>7, RunReplaced, Zenon
<1>9. cleaned' \subseteq Events /\ late' \subseteq Expiring /\ UNCHANGED budget /\ UNCHANGED job
  BY <1>1, RestFacts DEF Rest
<1> QED BY <1>1, <1>8, <1>9, JobKept, DbRest, OtherSteps, Zenon

LEMMA TimeKeeps ==
    ASSUME TypeInv, LedgerInv, Time
    PROVE  Kept
<1>1. CASE GracePasses
  <2>1. /\ UNCHANGED run /\ UNCHANGED budget /\ UNCHANGED revoked /\ DbOnly
        /\ active' = active /\ overdue' = TRUE /\ cleaned' = cleaned /\ late' = late
    BY <1>1 DEF GracePasses
  <2>2. /\ cleaned' \subseteq Events /\ late' \subseteq Expiring
        /\ active' \in Events \cup {None} /\ overdue' \in BOOLEAN
    BY <2>1, RestFacts DEF Rest
  <2> QED BY <2>1, <2>2, RunKept, DbRest, OtherSteps, Zenon
<1>2. ASSUME NEW e \in Events, DeadlinePasses(e) PROVE Kept
  <2>1. /\ UNCHANGED run /\ UNCHANGED budget /\ UNCHANGED job /\ DbOnly
        /\ cleaned' = cleaned /\ late' = late \cup {e} /\ e \in Expiring
    BY <1>2 DEF DeadlinePasses
  <2>2. cleaned' \subseteq Events /\ late' \subseteq Expiring
    BY <2>1, RestFacts DEF Rest
  <2> QED BY <2>1, <2>2, RunKept, JobKept, DbRest, OtherSteps, Zenon
<1>3. ASSUME NEW i \in Ids, LeaseLapses(i) PROVE Kept
  <2> DEFINE d == [run[i] EXCEPT !.fresh = FALSE]
  <2>1. /\ run' = [run EXCEPT ![i] = d] /\ DbOnly
        /\ UNCHANGED <<budget, cleaned, job, late>>
    BY <1>3, Zenon DEF LeaseLapses
  <2>2. run[i] \in RunDocs /\ RunOK(i, run[i]) /\ FALSE \in BOOLEAN
    BY RunFacts, Zenon
  <2>3. d \in RunDocs
    BY <2>2, Zenon DEF RunDocs
  <2>4. d.status = run[i].status /\ d.dec = run[i].dec /\ d.step = run[i].step
    BY <2>2 DEF RunDocs
  <2> HIDE DEF d
  <2>5. RunMoves
    BY <2>1, <2>2, <2>3, <2>4, RunReplaced, Zenon DEF RunOK
  <2>6. cleaned' \subseteq Events /\ late' \subseteq Expiring /\ UNCHANGED budget /\ UNCHANGED job
    BY <2>1, RestFacts DEF Rest
  <2> QED BY <2>1, <2>5, <2>6, JobKept, DbRest, OtherSteps, Zenon
<1> QED BY <1>1, <1>2, <1>3, Zenon DEF Time

LEMMA OwnerKeeps ==
    ASSUME TypeInv, LedgerInv, Owner
    PROVE  Kept
<1> DEFINE Stops == [at : {"none", "listed", "marking", "over"}, ids : SUBSET Ids,
                     revoke : BOOLEAN]
<1>1. Rest /\ stopping \in Stops
  BY RestFacts DEF Rest
<1>2. ASSUME RunMoves, stopping' \in Stops, revoked' \in BOOLEAN,
             UNCHANGED <<budget, cleaned, active, overdue, late, req, wk, crashes, ghosts>>
      PROVE  Kept
  <2>1. /\ cleaned' = cleaned /\ active' = active /\ overdue' = overdue
        /\ late' = late /\ req' = req /\ crashes' = crashes /\ told' = told
        /\ lapsed' = lapsed /\ UNCHANGED <<budget, wk, billed, over>>
    BY <1>2 DEF ghosts
  <2>2. Rest'
    BY <1>1, <1>2, <2>1, Zenon DEF Rest
  <2> QED BY <1>2, <2>1, <2>2, OtherSteps, Zenon
<1>3. ASSUME NEW e \in Events, Cancel(e) PROVE Kept
  <2>1. stopping' = [at |-> "listed", revoke |-> FALSE,
                     ids |-> {e} \cup {c \in ChildrenOf(e) : run[c].status # "none"}]
    BY <1>3, Zenon DEF Cancel
  <2>2. {e} \cup {c \in ChildrenOf(e) : run[c].status # "none"} \subseteq Ids
    BY Names
  <2>3. stopping' \in Stops
    BY <2>1, <2>2
  <2>4. UNCHANGED <<run, budget, cleaned, active, overdue, revoked, late, req, wk, crashes, ghosts>>
    BY <1>3, Zenon DEF Cancel, job
  <2>5. RunMoves /\ revoked' \in BOOLEAN
    BY <1>1, <2>4, RunKept DEF Rest
  <2> QED BY <1>2, <2>3, <2>4, <2>5, Zenon
<1>4. CASE Revoke
  <2> DEFINE roots == {e \in Events : Live(e)}
             listed == roots \cup {c \in Children : c[1] \in roots /\ run[c].status # "none"}
  <2>1. stopping' = [at |-> "listed", revoke |-> TRUE, ids |-> listed]
    BY <1>4, Zenon DEF Revoke
  <2>2. listed \subseteq Ids
    BY Names
  <2> HIDE DEF listed
  <2>3. stopping' \in Stops
    BY <2>1, <2>2
  <2>4. UNCHANGED <<run, budget, cleaned, active, overdue, revoked, late, req, wk, crashes, ghosts>>
    BY <1>4, Zenon DEF Revoke, job
  <2>5. RunMoves /\ revoked' \in BOOLEAN
    BY <1>1, <2>4, RunKept DEF Rest
  <2> QED BY <1>2, <2>3, <2>4, <2>5, Zenon
<1>5. CASE EndListed
  <2>1. run' = [i \in Ids |-> IF i \in stopping.ids /\ Live(i)
                              THEN WithStatus(run[i], "cancelled") ELSE run[i]]
    BY <1>5, Zenon DEF EndListed
  <2>2. RunMoves
    BY <2>1, RunsCancelled, Zenon
  <2>3. stopping' \in Stops
    BY <1>1, <1>5 DEF EndListed, Stopped, Nobody
  <2>4. UNCHANGED <<budget, cleaned, active, overdue, revoked, late, req, wk, crashes, ghosts>>
    BY <1>5, Zenon DEF EndListed, job
  <2>5. revoked' \in BOOLEAN
    BY <1>1, <2>4 DEF Rest
  <2> QED BY <1>2, <2>2, <2>3, <2>4, <2>5, Zenon
<1>6. CASE MarkRevoked
  <2>1. stopping' \in Stops /\ revoked' \in BOOLEAN
    BY <1>6 DEF MarkRevoked, Stopped, Nobody
  <2>2. UNCHANGED <<run, budget, cleaned, active, overdue, late, req, wk, crashes, ghosts>>
    BY <1>6, Zenon DEF MarkRevoked
  <2>3. RunMoves
    BY <2>2, RunKept
  <2> QED BY <1>2, <2>1, <2>2, <2>3, Zenon
<1> QED BY <1>3, <1>4, <1>5, <1>6, Zenon DEF Owner

----------------------------------------------------------------------------
(* The workers. *)

LEMMA AtFacts ==
    ASSUME TypeInv, NEW w \in Workers, wk[w].at # "idle"
    PROVE  /\ wk[w].run \in Ids /\ Root(wk[w].run) \in Events
           /\ wk[w].step \in 0..MaxSteps /\ wk[w].dec \in Ops \cup {"none"}
           /\ wk[w].at \notin {"releasing", "failing"} => wk[w].step < MaxSteps
           /\ wk[w].at \in {"hiring", "parking"} => wk[w].dec = "delegate"
           /\ wk[w].dec = "delegate" => wk[w].run \in Delegating
           /\ run[wk[w].run] \in RunDocs /\ RunOK(wk[w].run, run[wk[w].run])
<1>1. wk[w] \in Ticks /\ TickOK(wk[w])
  BY TickFacts, Zenon
<1>2. /\ wk[w].run \in Ids /\ wk[w].step \in 0..MaxSteps /\ wk[w].dec \in Ops \cup {"none"}
      /\ wk[w].at \notin {"releasing", "failing"} => wk[w].step < MaxSteps
      /\ wk[w].at \in {"hiring", "parking"} => wk[w].dec = "delegate"
      /\ wk[w].dec = "delegate" => wk[w].run \in Delegating
  BY <1>1 DEF Ticks, TickOK
<1> QED BY <1>2, Names, RunFacts, Zenon

(* A run replaced or not, and the worker goes on to another place. *)
LEMMA GoSteps ==
    ASSUME TypeInv, LedgerInv, RunMoves, NEW w \in Workers,
           NEW place \in Places \ {"idle", "calling"}, Go(w, place),
           wk[w].at \notin {"idle", "calling"},
           place \notin {"releasing", "failing"} => wk[w].step < MaxSteps,
           place \in {"hiring", "parking"} => wk[w].dec = "delegate",
           UNCHANGED budget, StepOnly
    PROVE  Kept
<1>1. place \in Places \ {"idle"} /\ wk[w].at # "idle" /\ wk[w].at # "calling"
      /\ place # "calling"
  OBVIOUS
<1>2. TickMove(w) /\ wk'[w].at = place
  BY <1>1, GoMoves, Zenon
<1> QED BY <1>1, <1>2, StepSteps, Zenon

LEMMA LeaveSteps ==
    ASSUME TypeInv, LedgerInv, RunMoves, NEW w \in Workers, Leave(w),
           wk[w].at # "calling", UNCHANGED budget, StepOnly
    PROVE  Kept
<1>1. "idle" # "calling"
  OBVIOUS
<1> QED BY <1>1, LeaveMoves, StepSteps, Zenon

LEMMA AdvanceSteps ==
    ASSUME TypeInv, LedgerInv, NEW w \in Workers, wk[w].at \notin {"idle", "calling"},
           NEW s \in Statuses \ {"none"}, NEW n \in 0..MaxSteps, NEW d \in Ops \cup {"none"},
           NEW k \in 0..MaxRetries,
           d = "delegate" => wk[w].run \in Delegating,
           s \in {"needs_input", "waiting_child"} => n < MaxSteps,
           Advance(w, s, n, d, k), UNCHANGED budget, StepOnly
    PROVE  Kept
<1>1. wk[w].at # "idle" /\ wk[w].at # "calling"
  OBVIOUS
<1>2. RunMoves /\ TickMove(w) /\ wk'[w].at \in {"idle", "failing"}
  BY <1>1, AdvanceMoves, Zenon
<1>3. wk'[w].at # "calling"
  BY <1>2
<1> QED BY <1>1, <1>2, <1>3, StepSteps, Zenon

LEMMA FindMissingKeeps ==
    ASSUME TypeInv, LedgerInv, NEW w \in Workers, FindMissing(w)
    PROVE  Kept
<1> DEFINE t == [wk[w] EXCEPT !.at = "releasing", !.run = active]
<1>1. /\ wk' = [wk EXCEPT ![w] = t]
      /\ UNCHANGED run /\ UNCHANGED budget /\ StepOnly
      /\ wk[w].at = "idle" /\ active # None
  BY Zenon DEF FindMissing, At
<1>2. active \in Ids
  BY <1>1, RestFacts, Names DEF Rest
<1>3. wk \in [Workers -> Ticks] /\ wk[w] \in Ticks /\ TickOK(wk[w]) /\ "releasing" \in Places
  BY TickFacts, Zenon DEF Places
<1>4. t \in Ticks
  BY <1>2, <1>3, TickUpdates, Zenon
<1>5. t.at = "releasing" /\ t.run = active /\ t.dec = "none"
  BY <1>1, <1>3 DEF Ticks, TickOK
<1> HIDE DEF t
<1>6. /\ wk' \in [Workers -> Ticks] /\ wk'[w] = t
      /\ \A v \in Workers \ {w} : wk'[v] = wk[v]
  BY <1>1, <1>3, <1>4, Zenon
<1>7. TickMove(w) /\ wk[w].at # "calling" /\ wk'[w].at # "calling"
  BY <1>1, <1>2, <1>5, <1>6 DEF TickMove, TickOK
<1> QED BY <1>1, <1>7, RunKept, StepSteps, Zenon

LEMMA FindReadyKeeps ==
    ASSUME TypeInv, LedgerInv, NEW w \in Workers, NEW e \in Events, FindReady(w, e)
    PROVE  Kept
<1> DEFINE t == [wk[w] EXCEPT !.at = "waking", !.run = e, !.step = run[e].step]
<1>1. /\ wk' = [wk EXCEPT ![w] = t]
      /\ UNCHANGED run /\ UNCHANGED budget /\ StepOnly
      /\ wk[w].at = "idle" /\ run[e].status = "waiting_child"
  BY Zenon DEF FindReady, At
<1>2. e \in Ids
  BY Names, Zenon
<1>3. run[e].step \in 0..MaxSteps /\ run[e].step < MaxSteps
  BY <1>1, <1>2, RunFacts DEF RunDocs, RunOK
<1>4. wk \in [Workers -> Ticks] /\ wk[w] \in Ticks /\ TickOK(wk[w]) /\ "waking" \in Places
  BY TickFacts, Zenon DEF Places
<1>5. t \in Ticks
  BY <1>2, <1>3, <1>4, TickUpdates, Zenon
<1>6. t.at = "waking" /\ t.run = e /\ t.dec = "none" /\ t.step = run[e].step
  BY <1>1, <1>4 DEF Ticks, TickOK
<1> HIDE DEF t
<1>7. /\ wk' \in [Workers -> Ticks] /\ wk'[w] = t
      /\ \A v \in Workers \ {w} : wk'[v] = wk[v]
  BY <1>1, <1>4, <1>5, Zenon
<1>8. TickMove(w) /\ wk[w].at # "calling" /\ wk'[w].at # "calling"
  BY <1>1, <1>2, <1>3, <1>6, <1>7 DEF TickMove, TickOK
<1> QED BY <1>1, <1>8, RunKept, StepSteps, Zenon

LEMMA WakeKeeps ==
    ASSUME TypeInv, LedgerInv, NEW w \in Workers, Wake(w)
    PROVE  Kept
<1>1. wk[w].at = "waking" /\ Leave(w) /\ UNCHANGED budget /\ StepOnly
  BY Zenon DEF Wake, At
<1>2. wk[w].at # "idle" /\ wk[w].at # "calling" /\ wk[w].at \notin {"releasing", "failing"}
  BY <1>1
<1> DEFINE i == wk[w].run
<1>3. /\ i \in Ids /\ wk[w].step + 1 \in 0..MaxSteps /\ run[i] \in RunDocs
  BY <1>2, AtFacts
<1>4. CASE run[i].status # "waiting_child"
  <2>1. UNCHANGED run
    BY <1>4, Zenon DEF Wake
  <2> QED BY <1>1, <1>2, <2>1, RunKept, LeaveSteps, Zenon
<1>5. CASE run[i].status = "waiting_child"
  <2> DEFINE c == WithStatus(run[i], "queued")
             d == [c EXCEPT !.step = wk[w].step + 1, !.dec = "none"]
  <2>1. run' = [run EXCEPT ![i] = d]
    BY <1>5, Zenon DEF Wake
  <2>2. "queued" \in Statuses
    BY DEF Statuses
  <2>3. c \in RunDocs /\ c.status = "queued"
    BY <1>3, <2>2, StatusUpdates, Zenon
  <2> HIDE DEF c
  <2>4. d \in RunDocs
    BY <1>3, <2>3, Zenon DEF RunDocs
  <2>5. d.status = "queued" /\ d.dec = "none"
    BY <2>3 DEF RunDocs
  <2> HIDE DEF d
  <2>6. RunOK(i, d) /\ Live(i) /\ d.status # "none"
    BY <1>5, <2>5 DEF RunOK, Live, Terminal
  <2>7. RunMoves
    BY <1>3, <2>1, <2>4, <2>6, RunReplaced, Zenon
  <2> QED BY <1>1, <1>2, <2>7, LeaveSteps, Zenon
<1> QED BY <1>4, <1>5

LEMMA ReleaseMissingKeeps ==
    ASSUME TypeInv, LedgerInv, NEW w \in Workers, ReleaseMissing(w)
    PROVE  Kept
<1>1. wk[w].at = "releasing" /\ Leave(w)
      /\ UNCHANGED <<run, budget, cleaned, revoked, late, req, stopping, crashes,
                     billed, over, told>>
  BY Zenon DEF ReleaseMissing, At
<1>2. TickMove(w) /\ wk'[w].at = "idle"
  BY <1>1, LeaveMoves, Zenon
<1>3. /\ active' \in Events \cup {None} /\ overdue' \in BOOLEAN /\ lapsed' \in BOOLEAN
  BY RestFacts DEF ReleaseMissing, Rest, Returned
<1>4. /\ run' = run /\ budget' = budget /\ cleaned' = cleaned /\ revoked' = revoked
      /\ late' = late /\ req' = req /\ stopping' = stopping /\ crashes' = crashes
      /\ told' = told /\ UNCHANGED <<billed, over>>
  BY <1>1
<1>5. Rest' /\ budget' \in [Events -> Ledgers]
  BY <1>3, <1>4, RestFacts, Zenon DEF Rest
<1>6. wk[w].at # "calling" /\ wk'[w].at # "calling"
  BY <1>1, <1>2
<1> QED BY <1>2, <1>4, <1>5, <1>6, RunKept, WorkerSteps, Zenon

LEMMA LeaseKeeps ==
    ASSUME TypeInv, LedgerInv, NEW w \in Workers, NEW i \in Ids, Lease(w, i)
    PROVE  Kept
<1> DEFINE d == [run[i] EXCEPT !.status = "running", !.lease = w, !.fresh = TRUE]
           t(p) == [at |-> p, run |-> i, step |-> run[i].step, dec |-> run[i].dec]
<1>1. /\ run' = [run EXCEPT ![i] = d] /\ wk[w].at = "idle" /\ StepOnly
      /\ run[i].status = "queued" \/ run[i].status = "running"
  BY Zenon DEF Lease, At
<1>2. run[i] \in RunDocs /\ RunOK(i, run[i]) /\ "running" \in Statuses /\ TRUE \in BOOLEAN
      /\ w \in Workers \cup {None}
  BY RunFacts DEF Statuses
<1>3. d \in RunDocs
  BY <1>2, Zenon DEF RunDocs
<1>4. d.status = "running" /\ d.dec = run[i].dec
  BY <1>2 DEF RunDocs
<1>5. RunMoves
  <2> HIDE DEF d
  <2>1. RunOK(i, d) /\ Live(i) /\ d.status # "none"
    BY <1>1, <1>2, <1>4 DEF RunOK, Live, Terminal
  <2> QED BY <1>1, <1>3, <2>1, RunReplaced, Zenon
<1>6. PICK p \in {"acting", "reserving", "failing"} :
        wk' = [wk EXCEPT ![w] = t(p)] /\ (p # "failing" => run[i].step < MaxSteps)
  <2>1. run[i].step \in 0..MaxSteps
    BY <1>2 DEF RunDocs
  <2>2. \/ wk' = [wk EXCEPT ![w] = t("acting")] /\ run[i].step < MaxSteps
        \/ wk' = [wk EXCEPT ![w] = t("reserving")] /\ run[i].step < MaxSteps
        \/ wk' = [wk EXCEPT ![w] = t("failing")]
    BY Zenon DEF Lease
  <2> HIDE DEF t
  <2> QED BY <2>2
<1>7. TickMove(w) /\ wk'[w].at # "calling" /\ wk[w].at # "calling"
  <2>1. /\ run[i].step \in 0..MaxSteps /\ run[i].dec \in Ops \cup {"none"}
        /\ i \in Ids \cup {None} /\ p \in Places
        /\ run[i].dec = "delegate" => i \in Delegating
    BY <1>2 DEF RunDocs, Places, RunOK
  <2>2. t(p) \in Ticks
    BY <2>1, Zenon DEF Ticks
  <2>3. wk \in [Workers -> Ticks]
    BY TickFacts, Zenon
  <2>4. /\ wk' \in [Workers -> Ticks] /\ \A v \in Workers \ {w} : wk'[v] = wk[v]
        /\ wk'[w] = t(p)
    BY <1>6, <2>2, <2>3, Zenon
  <2>5. TickOK(t(p)) /\ t(p).at = p
    BY <1>6, <2>1 DEF TickOK
  <2> HIDE DEF t
  <2>6. p # "calling" /\ wk[w].at # "calling"
    BY <1>1
  <2> QED BY <2>4, <2>5, <2>6, Zenon DEF TickMove
<1>8. /\ budget' \in [Events -> Ledgers]
      /\ \A e \in Events : budget'[e].committed = budget[e].committed
  <2>1. budget \in [Events -> Ledgers] /\ Root(i) \in Events /\ budget[Root(i)] \in Ledgers
    BY RestFacts, Names, Zenon
  <2> DEFINE b == [budget[Root(i)] EXCEPT !.calls = budget[Root(i)].calls + 1]
  <2>2. \/ UNCHANGED budget
        \/ MayCall(Root(i)) /\ budget' = [budget EXCEPT ![Root(i)] = b]
    BY Zenon DEF Lease
  <2>3. CASE UNCHANGED budget
    BY <2>1, <2>3
  <2>4. CASE MayCall(Root(i)) /\ budget' = [budget EXCEPT ![Root(i)] = b]
    <3>1. budget[Root(i)].calls + 1 \in 0..MaxSteps
      BY <2>1, <2>4 DEF MayCall, Ledgers
    <3>2. b \in Ledgers
      BY <2>1, <3>1, Zenon DEF Ledgers
    <3>3. b.committed = budget[Root(i)].committed
      BY <2>1 DEF Ledgers
    <3> HIDE DEF b
    <3> QED BY <2>1, <2>4, <3>2, <3>3, Zenon
  <2> QED BY <2>2, <2>3, <2>4
<1>9. UNCHANGED <<cleaned, job, late, req, stopping, crashes, told, lapsed>>
      /\ UNCHANGED <<billed, over>>
  BY <1>1 DEF StepOnly, ghosts
<1>10. Rest'
  BY <1>9, RestKept, Zenon
<1> QED BY <1>5, <1>7, <1>8, <1>9, <1>10, WorkerSteps, Zenon

(* The four steps that move the ledger.  The rest of the state is as it was. *)
LEMMA CallSteps ==
    ASSUME TypeInv, RunMoves, NEW w \in Workers, TickMove(w),
           budget' \in [Events -> Ledgers], Spent', Rest', LedgerInv'
    PROVE  Kept
<1>1. wk' \in [Workers -> Ticks] /\ \A v \in Workers : TickOK(wk'[v])
  BY TicksTyped, Zenon
<1> QED BY <1>1, Combined, Zenon DEF Kept

LEMMA LedgerFacts ==
    ASSUME TypeInv, NEW e \in Events
    PROVE  budget[e] \in Ledgers /\ budget[e].committed \in Nat /\ billed[e] \in Nat
<1>1. budget[e] \in Ledgers /\ billed[e] \in Nat
  BY RestFacts, Zenon DEF Spent
<1> QED BY <1>1 DEF Ledgers

LEMMA Committed ==
    ASSUME TypeInv, NEW e \in Events, NEW n \in Nat,
           budget' = [budget EXCEPT ![e].committed = n]
    PROVE  /\ budget' \in [Events -> Ledgers] /\ budget'[e].committed = n
           /\ \A f \in Events \ {e} : budget'[f] = budget[f]
<1> DEFINE b == [budget[e] EXCEPT !.committed = n]
<1>1. budget' = [budget EXCEPT ![e] = b]
  BY Zenon
<1>2. budget \in [Events -> Ledgers] /\ budget[e] \in Ledgers
  BY RestFacts, Zenon
<1>3. b \in Ledgers
  BY <1>2, Zenon DEF Ledgers
<1>4. b.committed = n
  BY <1>2 DEF Ledgers
<1> HIDE DEF b
<1> QED BY <1>1, <1>2, <1>3, <1>4, Zenon

LEMMA HoldCostKeeps ==
    ASSUME TypeInv, LedgerInv, NEW w \in Workers, HoldCost(w)
    PROVE  Kept
<1> DEFINE e == Root(wk[w].run)
<1>1. wk[w].at = "reserving" /\ UNCHANGED run /\ StepOnly
  BY Zenon DEF HoldCost, At
<1>2. wk[w].at # "idle" /\ wk[w].at # "calling" /\ wk[w].at \notin {"idle", "calling"}
      /\ wk[w].at \notin {"releasing", "failing"}
  BY <1>1
<1>3. e \in Events /\ wk[w].step < MaxSteps
  BY <1>2, AtFacts, Zenon
<1>4. CASE Go(w, "failing") /\ UNCHANGED budget
  <2>1. "failing" \in Places \ {"idle", "calling"} /\ "failing" \in {"releasing", "failing"}
        /\ "failing" \notin {"hiring", "parking"}
    BY DEF Places
  <2> QED BY <1>1, <1>2, <1>4, <2>1, RunKept, GoSteps, Zenon
<1>5. CASE /\ Go(w, "calling") /\ budget[e].committed + Reserved <= Cap
           /\ budget' = [budget EXCEPT ![e].committed = budget[e].committed + Reserved]
  <2>1. "calling" \in Places \ {"idle"} /\ "calling" \notin {"hiring", "parking"}
    BY DEF Places
  <2>2. /\ TickMove(w) /\ wk'[w].at = "calling" /\ wk'[w].run = wk[w].run
    BY <1>2, <1>3, <1>5, <2>1, GoMoves, Zenon
  <2>3. budget[e].committed + Reserved \in Nat
    BY <1>3, LedgerFacts
  <2>4. /\ budget' \in [Events -> Ledgers]
        /\ budget'[e].committed = budget[e].committed + Reserved
        /\ \A f \in Events \ {e} : budget'[f] = budget[f]
    BY <1>3, <1>5, <2>3, Committed, Zenon
  <2>5. billed' = billed /\ over' = over
    BY <1>1 DEF StepOnly, ghosts
  <2>6. ASSUME NEW f \in Events
        PROVE  /\ HeldFor(f)' <= budget'[f].committed /\ budget'[f].committed <= Cap
               /\ f \notin over' => billed'[f] + HeldFor(f)' <= budget'[f].committed
    <3>1. HeldFor(f)' = IF f = e THEN HeldFor(f) + Reserved ELSE HeldFor(f)
      BY <1>2, <2>2, CallStarts, Zenon
    <3>2. /\ HeldFor(f) <= budget[f].committed /\ budget[f].committed <= Cap
          /\ f \notin over => billed[f] + HeldFor(f) <= budget[f].committed
      BY DEF LedgerInv
    <3>3. HeldFor(f) \in Nat /\ budget[f].committed \in Nat /\ billed[f] \in Nat
      BY CallingFinite, LedgerFacts, Zenon
    <3> HIDE DEF e
    <3> QED BY <1>5, <2>4, <2>5, <3>1, <3>2, <3>3
  <2>7. LedgerInv'
    BY <2>6, Zenon DEF LedgerInv
  <2>8. UNCHANGED <<cleaned, job, late, req, stopping, crashes, told, lapsed>>
    BY <1>1 DEF StepOnly, ghosts
  <2>9. Spent' /\ Rest'
    BY <2>5, <2>8, RestKept, RestFacts DEF Spent
  <2> QED BY <1>1, <2>2, <2>4, <2>7, <2>9, RunKept, CallSteps, Zenon
<1> QED BY <1>4, <1>5, Zenon DEF HoldCost

(* A call is over, one way or the other. *)
LEMMA CallOver ==
    ASSUME TypeInv, LedgerInv, NEW w \in Workers, wk[w].at = "calling",
           TickMove(w), wk'[w].at # "calling", NEW b \in Nat,
           UNCHANGED run,
           billed' = [billed EXCEPT ![Root(wk[w].run)] = billed[Root(wk[w].run)] + b],
           \/ b <= Reserved /\ UNCHANGED <<budget, over>>
           \/ /\ b <= Reserved /\ UNCHANGED over
              /\ budget' = [budget EXCEPT ![Root(wk[w].run)].committed =
                                budget[Root(wk[w].run)].committed + b - Reserved]
           \/ /\ over' = over \cup {Root(wk[w].run)}
              /\ budget' = [budget EXCEPT ![Root(wk[w].run)].blocked = TRUE],
           Rest'
    PROVE  Kept
<1>0. PICK e \in Events : e = Root(wk[w].run)
  BY AtFacts
<1>1. e \in Events
  BY <1>0
<1>2. /\ billed' \in [Events -> Nat] /\ billed'[e] = billed[e] + b
      /\ \A f \in Events \ {e} : billed'[f] = billed[f]
  <2>1. billed \in [Events -> Nat] /\ billed[e] + b \in Nat
    BY <1>1, RestFacts DEF Spent
  <2>2. billed' = [billed EXCEPT ![e] = billed[e] + b]
    BY <1>0, Zenon
  <2> QED BY ONLY <1>1, <2>1, <2>2, SMT
<1>3. \A f \in Events : /\ HeldFor(f)' \in Nat
                        /\ HeldFor(f) = IF f = e THEN HeldFor(f)' + Reserved ELSE HeldFor(f)'
  BY <1>0, CallEnds, Zenon
<1>4. \A f \in Events : /\ HeldFor(f) <= budget[f].committed /\ budget[f].committed <= Cap
                        /\ f \notin over => billed[f] + HeldFor(f) <= budget[f].committed
  BY DEF LedgerInv
<1>5. \A f \in Events : budget[f].committed \in Nat /\ billed[f] \in Nat
  BY LedgerFacts, Zenon
<1>6. /\ budget' \in [Events -> Ledgers] /\ over' \subseteq Events /\ over \subseteq over'
      /\ \A f \in Events \ {e} : budget'[f] = budget[f]
      /\ \/ b <= Reserved /\ budget'[e].committed \in {budget[e].committed,
                                                       budget[e].committed + b - Reserved}
         \/ e \in over' /\ budget'[e].committed = budget[e].committed
  <2>1. budget \in [Events -> Ledgers] /\ over \subseteq Events /\ budget[e] \in Ledgers
    BY <1>1, RestFacts, Zenon DEF Spent
  <2>2. CASE b <= Reserved /\ UNCHANGED <<budget, over>>
    BY <2>1, <2>2
  <2>3. CASE /\ b <= Reserved /\ UNCHANGED over
             /\ budget' = [budget EXCEPT ![e].committed = budget[e].committed + b - Reserved]
    <3>1. HeldFor(e) <= budget[e].committed /\ HeldFor(e) = HeldFor(e)' + Reserved
          /\ HeldFor(e)' \in Nat /\ budget[e].committed \in Nat
      BY <1>1, <1>3, <1>4, <1>5, Zenon
    <3>2. budget[e].committed + b - Reserved \in Nat
      BY <3>1
    <3>3. /\ budget' \in [Events -> Ledgers]
          /\ budget'[e].committed = budget[e].committed + b - Reserved
          /\ \A f \in Events \ {e} : budget'[f] = budget[f]
      BY <1>1, <2>3, <3>2, Committed, Zenon
    <3> QED BY <2>1, <2>3, <3>3
  <2>4. CASE /\ over' = over \cup {e}
             /\ budget' = [budget EXCEPT ![e].blocked = TRUE]
    <3> DEFINE d == [budget[e] EXCEPT !.blocked = TRUE]
    <3>1. d \in Ledgers /\ d.committed = budget[e].committed
      BY <2>1 DEF Ledgers
    <3>2. budget' = [budget EXCEPT ![e] = d]
      BY <2>4, Zenon
    <3> HIDE DEF d
    <3>3. /\ budget' \in [Events -> Ledgers] /\ budget'[e] = d
          /\ \A f \in Events \ {e} : budget'[f] = budget[f]
      BY <1>1, <2>1, <3>1, <3>2, Zenon
    <3> QED BY <1>1, <2>1, <2>4, <3>1, <3>3
  <2> QED BY <1>0, <2>2, <2>3, <2>4, Zenon
<1>7. ASSUME NEW f \in Events
      PROVE  /\ HeldFor(f)' <= budget'[f].committed /\ budget'[f].committed <= Cap
             /\ f \notin over' => billed'[f] + HeldFor(f)' <= budget'[f].committed
  <2>1. CASE f # e
    BY <1>2, <1>3, <1>4, <1>6, <2>1
  <2>2. CASE f = e
    <3>1. /\ HeldFor(e)' \in Nat /\ HeldFor(e) = HeldFor(e)' + Reserved
          /\ HeldFor(e) <= budget[e].committed /\ budget[e].committed <= Cap
          /\ e \notin over => billed[e] + HeldFor(e) <= budget[e].committed
          /\ budget[e].committed \in Nat /\ billed[e] \in Nat
      BY <1>1, <1>3, <1>4, <1>5, Zenon
    <3> QED BY <1>2, <1>6, <2>2, <3>1
  <2> QED BY <2>1, <2>2
<1>8. LedgerInv'
  BY <1>7, Zenon DEF LedgerInv
<1>9. Spent'
  BY <1>2, <1>6 DEF Spent
<1> QED BY <1>6, <1>8, <1>9, RunKept, CallSteps, Zenon

LEMMA CallRest ==
    ASSUME TypeInv, CallUnchanged
    PROVE  Rest' /\ UNCHANGED run
<1>1. UNCHANGED <<cleaned, job, late, req, stopping, crashes, told, lapsed>> /\ UNCHANGED run
  BY DEF CallUnchanged
<1> QED BY <1>1, RestKept, Zenon

LEMMA GoFromCall ==
    ASSUME TypeInv, NEW w \in Workers, wk[w].at = "calling",
           NEW place \in {"retrying", "failing", "deciding"}, Go(w, place)
    PROVE  TickMove(w) /\ wk'[w].at # "calling"
<1>1. place \in Places \ {"idle"} /\ place \notin {"hiring", "parking"} /\ place # "calling"
  BY DEF Places
<1>2. wk[w].at # "idle" /\ wk[w].at \notin {"releasing", "failing"}
  OBVIOUS
<1>3. wk[w].step < MaxSteps
  BY <1>2, AtFacts, Zenon
<1> QED BY <1>1, <1>2, <1>3, GoMoves, Zenon

LEMMA ModelAnswersKeeps ==
    ASSUME TypeInv, LedgerInv, NEW w \in Workers, ModelAnswers(w)
    PROVE  Kept
<1> DEFINE e == Root(wk[w].run)
<1>1. wk[w].at = "calling" /\ CallUnchanged
  BY Zenon DEF ModelAnswers, At
<1>2. PICK b \in Bills :
        /\ billed' = [billed EXCEPT ![e] = billed[e] + b]
        /\ IF b > Reserved
           THEN /\ budget' = [budget EXCEPT ![e].blocked = TRUE]
                /\ over' = over \cup {e} /\ Go(w, "failing")
           ELSE /\ budget' = [budget EXCEPT ![e].committed = budget[e].committed + b - Reserved]
                /\ Go(w, "deciding") /\ UNCHANGED over
  BY Zenon DEF ModelAnswers
<1>3. b \in Nat /\ (b <= Reserved \/ b > Reserved) /\ ~(b <= Reserved /\ b > Reserved)
  OBVIOUS
<1>4. TickMove(w) /\ wk'[w].at # "calling"
  BY <1>1, <1>2, GoFromCall
<1> QED BY <1>1, <1>2, <1>3, <1>4, CallRest, CallOver, Zenon

LEMMA Unbilled == Unreported \subseteq Nat /\ \A b \in Unreported : b <= Reserved
<1>1. 0 \in Nat /\ 0 <= Reserved
  OBVIOUS
<1> QED BY <1>1, Zenon DEF Unreported

LEMMA ModelFailsKeeps ==
    ASSUME TypeInv, LedgerInv, NEW w \in Workers, ModelFails(w)
    PROVE  Kept
<1>1. wk[w].at = "calling" /\ CallUnchanged /\ UNCHANGED <<budget, over>>
  BY Zenon DEF ModelFails, At
<1>2. PICK b \in Unreported :
        billed' = [billed EXCEPT ![Root(wk[w].run)] = billed[Root(wk[w].run)] + b]
  BY Zenon DEF ModelFails
<1>3. b \in Nat /\ b <= Reserved
  BY Unbilled
<1>4. \E place \in {"retrying", "failing"} : Go(w, place)
  BY Zenon DEF ModelFails
<1>5. TickMove(w) /\ wk'[w].at # "calling"
  BY <1>1, <1>4, GoFromCall
<1> QED BY <1>1, <1>2, <1>3, <1>5, CallRest, CallOver, Zenon

LEMMA CrashKeeps ==
    ASSUME TypeInv, LedgerInv, NEW w \in Workers, Crash(w)
    PROVE  Kept
<1>1. /\ crashes < MaxCrashes /\ crashes' = crashes + 1 /\ Leave(w)
      /\ UNCHANGED <<run, budget, cleaned, job, late, req, stopping, over, told, lapsed>>
      /\ wk[w].at # "idle"
  BY Zenon DEF Crash
<1>2. TickMove(w) /\ wk'[w].at = "idle"
  BY <1>1, LeaveMoves, Zenon
<1>3. wk'[w].at # "calling"
  BY <1>2
<1>4. Rest'
  <2>1. /\ cleaned' = cleaned /\ active' = active /\ overdue' = overdue /\ revoked' = revoked
        /\ late' = late /\ req' = req /\ stopping' = stopping
        /\ told' = told /\ lapsed' = lapsed
    BY <1>1 DEF job
  <2>2. crashes' \in 0..MaxCrashes
    BY <1>1, RestFacts DEF Rest
  <2> QED BY <2>1, <2>2, RestFacts, Zenon DEF Rest
<1>5. CASE wk[w].at = "calling"
  <2>1. PICK b \in Unreported :
          billed' = [billed EXCEPT ![Root(wk[w].run)] = billed[Root(wk[w].run)] + b]
    BY <1>5, Zenon DEF Crash, At
  <2>2. b \in Nat /\ b <= Reserved
    BY Unbilled
  <2>3. UNCHANGED <<budget, over>> /\ UNCHANGED run
    BY <1>1
  <2> QED BY <1>2, <1>3, <1>4, <1>5, <2>1, <2>2, <2>3, CallOver, Zenon
<1>6. CASE wk[w].at # "calling"
  <2>1. UNCHANGED billed
    BY <1>6, Zenon DEF Crash, At
  <2>2. UNCHANGED <<billed, over>> /\ UNCHANGED run /\ budget' = budget
    BY <1>1, <2>1
  <2> QED BY <1>2, <1>3, <1>4, <1>6, <2>2, RestFacts, RunKept, WorkerSteps, Zenon
<1> QED BY <1>5, <1>6

LEMMA DecideKeeps ==
    ASSUME TypeInv, LedgerInv, NEW w \in Workers, Decide(w)
    PROVE  Kept
<1> DEFINE i == wk[w].run
<1>1. wk[w].at = "deciding" /\ UNCHANGED budget /\ StepOnly
  BY Zenon DEF Decide, At
<1>2. wk[w].at # "idle" /\ wk[w].at # "calling" /\ wk[w].at \notin {"releasing", "failing"}
      /\ wk[w].at \notin {"idle", "calling"}
  BY <1>1
<1>3. /\ i \in Ids /\ wk[w].step < MaxSteps
      /\ run[i] \in RunDocs /\ RunOK(i, run[i])
  BY <1>2, AtFacts, Zenon
<1>4. CASE Authorized(w)
  <2>1. PICK d \in IF i \in Delegating THEN Ops ELSE Ops \ {"delegate"} :
          /\ run' = [run EXCEPT ![i] = AfterAdvance([run[i] EXCEPT !.dec = d])]
          /\ Act(w, d)
    BY <1>4, Zenon DEF Decide
  <2>2. d \in Ops /\ (d = "delegate" => i \in Delegating)
    BY <2>1
  <2>3. TickMove(w) /\ wk'[w].at = "acting"
    BY <1>2, <1>3, <2>1, <2>2, ActMoves, Zenon
  <2> DEFINE c == AfterAdvance([run[i] EXCEPT !.dec = d])
  <2>4. c = [run[i] EXCEPT !.dec = d, !.noticed = "none"]
    BY <1>3 DEF AfterAdvance, RunDocs
  <2>5. d \in Ops \cup {"none"} /\ "none" \in Attention \cup {"none"}
    BY <2>2
  <2>6. c.status = run[i].status /\ c.dec = d /\ c.step = run[i].step
    BY <1>3 DEF AfterAdvance, RunDocs
  <2> HIDE DEF c
  <2>7. c \in RunDocs
    BY <1>3, <2>4, <2>5, Zenon DEF RunDocs
  <2>8. RunOK(i, c)
    BY <1>3, <2>2, <2>6 DEF RunOK
  <2>9. run' = [run EXCEPT ![i] = c]
    BY <2>1 DEF c
  <2>10. RunMoves
    BY <1>3, <2>6, <2>7, <2>8, <2>9, RunReplaced, Zenon
  <2>11. wk'[w].at # "calling"
    BY <2>3
  <2> QED BY <1>1, <1>2, <2>3, <2>10, <2>11, StepSteps, Zenon
<1>5. CASE ~Authorized(w)
  <2>1. Go(w, "failing") /\ UNCHANGED run
    BY <1>5, Zenon DEF Decide
  <2>2. "failing" \in Places \ {"idle", "calling"} /\ "failing" \in {"releasing", "failing"}
        /\ "failing" \notin {"hiring", "parking"}
    BY DEF Places
  <2> QED BY <1>1, <1>2, <2>1, <2>2, RunKept, GoSteps, Zenon
<1> QED BY <1>4, <1>5

LEMMA RetriesTyped ==
    ASSUME TypeInv, NEW w \in Workers, wk[w].at # "idle"
    PROVE  run[wk[w].run].retries \in 0..MaxRetries
<1> QED BY AtFacts DEF RunDocs

LEMMA EndOfStepKeeps ==
    ASSUME TypeInv, LedgerInv, NEW w \in Workers,
           Finish(w) \/ AskOwner(w) \/ CompleteStep(w) \/ Park(w)
    PROVE  Kept
<1> DEFINE k == run[wk[w].run].retries
<1>1. wk[w].at \in {"acting", "parking"} /\ UNCHANGED budget /\ StepOnly
  BY Zenon DEF Finish, AskOwner, CompleteStep, Park, At
<1>2. wk[w].at # "idle" /\ wk[w].at \notin {"idle", "calling"}
      /\ wk[w].at \notin {"releasing", "failing"}
  BY <1>1
<1>3. /\ wk[w].step < MaxSteps /\ wk[w].step \in 0..MaxSteps
      /\ wk[w].dec \in Ops \cup {"none"} /\ k \in 0..MaxRetries
      /\ wk[w].at \in {"hiring", "parking"} => wk[w].dec = "delegate"
      /\ wk[w].dec = "delegate" => wk[w].run \in Delegating
  BY <1>2, AtFacts, RetriesTyped, Zenon
<1>4. wk[w].step + 1 \in 0..MaxSteps
  BY <1>3
<1>5. /\ \A s \in {"done", "needs_input", "queued", "waiting_child"} : s \in Statuses \ {"none"}
      /\ "none" \in Ops \cup {"none"}
  BY DEF Statuses, Terminal
<1> HIDE DEF k
<1>6. CASE Finish(w)
  <2>1. Advance(w, "done", wk[w].step, "done", k) /\ wk[w].dec = "done"
    BY <1>6, Zenon DEF Finish, k
  <2>2. "done" # "delegate" /\ "done" \notin {"needs_input", "waiting_child"}
    OBVIOUS
  <2> QED BY <1>1, <1>2, <1>3, <1>5, <2>1, <2>2, AdvanceSteps, Zenon
<1>7. CASE AskOwner(w)
  <2>1. Advance(w, "needs_input", wk[w].step, "input", k) /\ wk[w].dec = "input"
    BY <1>7, Zenon DEF AskOwner, k
  <2>2. "input" # "delegate"
    OBVIOUS
  <2> QED BY <1>1, <1>2, <1>3, <1>5, <2>1, <2>2, AdvanceSteps, Zenon
<1>8. CASE CompleteStep(w)
  <2>1. Advance(w, "queued", wk[w].step + 1, "none", k)
    BY <1>8, Zenon DEF CompleteStep, k
  <2>2. "none" # "delegate" /\ "queued" \notin {"needs_input", "waiting_child"}
    OBVIOUS
  <2> QED BY <1>1, <1>2, <1>3, <1>4, <1>5, <2>1, <2>2, AdvanceSteps, Zenon
<1>9. CASE Park(w)
  <2>1. Advance(w, "waiting_child", wk[w].step, "delegate", k) /\ wk[w].at = "parking"
    BY <1>9, Zenon DEF Park, At, k
  <2>2. wk[w].dec = "delegate" /\ "delegate" \in Ops \cup {"none"} /\ wk[w].run \in Delegating
    BY <1>3, <2>1
  <2> QED BY <1>1, <1>2, <1>3, <1>5, <2>1, <2>2, AdvanceSteps, Zenon
<1> QED BY <1>6, <1>7, <1>8, <1>9

LEMMA DelegateKeeps ==
    ASSUME TypeInv, LedgerInv, NEW w \in Workers, Delegate(w)
    PROVE  Kept
<1>1. /\ wk[w].at = "acting" /\ wk[w].dec = "delegate"
      /\ UNCHANGED run /\ UNCHANGED budget /\ StepOnly
  BY Zenon DEF Delegate, At
<1>2. wk[w].at # "idle" /\ wk[w].at \notin {"idle", "calling"}
      /\ wk[w].at \notin {"releasing", "failing"}
  BY <1>1
<1>3. wk[w].step < MaxSteps
  BY <1>2, AtFacts, Zenon
<1>4. \E place \in {"failing", "parking", "hiring"} : Go(w, place)
  BY DEF Delegate
<1>5. {"failing", "parking", "hiring"} \subseteq Places \ {"idle", "calling"}
  BY DEF Places
<1> QED BY <1>1, <1>2, <1>3, <1>4, <1>5, RunKept, GoSteps, Zenon

LEMMA HireKeeps ==
    ASSUME TypeInv, LedgerInv, NEW w \in Workers, Hire(w)
    PROVE  Kept
<1> DEFINE child == <<wk[w].run, wk[w].step>>
<1>1. wk[w].at = "hiring" /\ Go(w, "parking") /\ UNCHANGED budget /\ StepOnly
  BY Zenon DEF Hire, At
<1>2. wk[w].at # "idle" /\ wk[w].at \notin {"idle", "calling"} /\ wk[w].at \in {"hiring", "parking"}
      /\ wk[w].at \notin {"releasing", "failing"}
  BY <1>1
<1>3. wk[w].step < MaxSteps /\ wk[w].step \in 0..MaxSteps /\ wk[w].dec = "delegate"
      /\ wk[w].run \in Delegating
  BY <1>2, AtFacts, Zenon
<1>4. wk[w].run \in Events
  BY <1>3
<1>5. child \in Children
  BY <1>3, <1>4, Names, Zenon
<1>6. child \in Ids
  BY <1>5, Names, Zenon
<1>7. RunMoves
  <2>1. CASE run[child].status # "none"
    BY <2>1, RunKept, Zenon DEF Hire
  <2>2. CASE run[child].status = "none"
    <3> DEFINE d == [run[child] EXCEPT !.status = "queued"]
    <3>1. run' = [run EXCEPT ![child] = d]
      BY <2>2, Zenon DEF Hire
    <3>2. run[child] \in RunDocs /\ RunOK(child, run[child]) /\ "queued" \in Statuses
      BY <1>6, RunFacts, Zenon DEF Statuses
    <3>3. d \in RunDocs
      BY <3>2, Zenon DEF RunDocs
    <3>4. d.status = "queued" /\ d.dec = run[child].dec
      BY <3>2 DEF RunDocs
    <3> HIDE DEF d, child
    <3>5. RunOK(child, d)
      BY <3>2, <3>4 DEF RunOK
    <3> QED BY <1>5, <1>6, <2>2, <3>1, <3>3, <3>5, RunReplaced, Zenon
  <2> QED BY <2>1, <2>2
<1>8. "parking" \in Places \ {"idle", "calling"}
  BY DEF Places
<1> QED BY <1>1, <1>2, <1>3, <1>7, <1>8, GoSteps, Zenon

LEMMA RetryLaterKeeps ==
    ASSUME TypeInv, LedgerInv, NEW w \in Workers, RetryLater(w)
    PROVE  Kept
<1> DEFINE i == wk[w].run
<1>1. wk[w].at = "retrying" /\ UNCHANGED budget /\ StepOnly
  BY Zenon DEF RetryLater, At
<1>2. wk[w].at # "idle" /\ wk[w].at \notin {"idle", "calling"}
  BY <1>1
<1>3. wk[w].step \in 0..MaxSteps /\ run[i].retries \in 0..MaxRetries
  BY <1>2, AtFacts, RetriesTyped, Zenon
<1>4. CASE run[i].retries < MaxRetries /\ Advance(w, "queued", wk[w].step, "none", run[i].retries + 1)
  <2>1. PICK k \in 0..MaxRetries : k = run[i].retries + 1
    BY <1>3, <1>4
  <2>2. Advance(w, "queued", wk[w].step, "none", k)
    BY <1>4, <2>1
  <2>3. /\ "queued" \in Statuses \ {"none"} /\ "none" \in Ops \cup {"none"}
        /\ "none" # "delegate" /\ "queued" \notin {"needs_input", "waiting_child"}
    BY DEF Statuses
  <2> QED BY <1>1, <1>2, <1>3, <2>2, <2>3, AdvanceSteps, Zenon
<1>5. CASE Go(w, "failing") /\ UNCHANGED run
  <2>1. "failing" \in Places \ {"idle", "calling"} /\ "failing" \in {"releasing", "failing"}
        /\ "failing" \notin {"hiring", "parking"}
    BY DEF Places
  <2> QED BY <1>1, <1>2, <1>5, <2>1, RunKept, GoSteps, Zenon
<1> QED BY <1>4, <1>5, Zenon DEF RetryLater

LEMMA FailKeeps ==
    ASSUME TypeInv, LedgerInv, NEW w \in Workers, Fail(w)
    PROVE  Kept
<1>1. wk[w].at = "failing" /\ Leave(w) /\ UNCHANGED budget /\ StepOnly
  BY Zenon DEF Fail, At
<1>2. wk[w].at # "idle" /\ wk[w].at # "calling"
  BY <1>1
<1>3. wk[w].run \in Ids
  BY <1>2, AtFacts, Zenon
<1>4. RunMoves
  <2>1. CASE Holds(w)
    <3>1. run' = [run EXCEPT ![wk[w].run] = WithStatus(run[wk[w].run], "failed")]
      BY <2>1, Zenon DEF Fail
    <3>2. Live(wk[w].run) /\ "failed" \in Terminal
      BY <2>1 DEF Holds, Live, Terminal
    <3> QED BY <1>3, <3>1, <3>2, RunEnds, Zenon
  <2>2. CASE ~Holds(w)
    BY <2>2, RunKept, Zenon DEF Fail
  <2> QED BY <2>1, <2>2
<1> QED BY <1>1, <1>2, <1>4, LeaveSteps, Zenon

LEMMA NextKeeps ==
    ASSUME TypeInv, LedgerInv, Next
    PROVE  Kept
<1>1. ASSUME NEW q \in Requests, Request(q) \/ RequestDies(q) PROVE Kept
  BY <1>1, ReceiveKeeps, ReserveKeeps, InsertKeeps, RequestDiesKeeps, Zenon DEF Request
<1>2. ASSUME SweepRuns \/ ReleaseEnded PROVE Kept
  BY <1>2, ExpireKeeps, NotifyKeeps, ReleaseEndedKeeps, Zenon DEF SweepRuns
<1>3. ASSUME NEW w \in Workers, LeaseSome(w) \/ Step(w) \/ Crash(w) PROVE Kept
  <2>1. CASE LeaseSome(w)
    BY <2>1, LeaseKeeps, Zenon DEF LeaseSome
  <2>2. CASE Step(w)
    BY <2>2, HoldCostKeeps, ModelAnswersKeeps, ModelFailsKeeps, DecideKeeps, EndOfStepKeeps,
       DelegateKeeps, HireKeeps, RetryLaterKeeps, FailKeeps, ReleaseMissingKeeps, WakeKeeps,
       Zenon DEF Step
  <2>3. CASE Crash(w)
    BY <2>3, CrashKeeps, Zenon
  <2> QED BY <1>3, <2>1, <2>2, <2>3
<1> QED BY <1>1, <1>2, <1>3, EndChildrenKeeps, FindMissingKeeps, FindReadyKeeps, OwnerKeeps,
           TimeKeeps, AnswerKeeps, Zenon DEF Next

----------------------------------------------------------------------------
(* What a step does to the slot of the job. *)

SlotIdle == active' = active /\ lapsed' = lapsed
            /\ \A p \in Requests : req'[p].at = "inserting" => req[p].at = "inserting"
SlotTaken(q) == /\ active \in {None, q[1]} /\ active' = q[1] /\ lapsed' = lapsed
                /\ \A p \in Requests \ {q} : req'[p] = req[p]
SlotFreed == /\ active # None /\ Ended(active) /\ active' = None /\ lapsed' = lapsed
             /\ req' = req
SlotLapsed == /\ lapsed' = (lapsed \/ Returned(active))
              /\ req' = req /\ run' = run
SlotMove == SlotIdle \/ SlotFreed \/ SlotLapsed \/ \E q \in Requests : SlotTaken(q)

LEMMA SlotMoves ==
    ASSUME TypeInv, Next
    PROVE  SlotMove
<1>1. req \in [Requests -> Deliveries]
  BY RestFacts, Zenon DEF Rest
<1>2. ASSUME active' = active, lapsed' = lapsed, req' = req PROVE SlotMove
  BY <1>2, Zenon DEF SlotMove, SlotIdle
<1>3. ASSUME NEW q \in Requests, Request(q) \/ RequestDies(q) PROVE SlotMove
  <2>1. lapsed' = lapsed
    BY <1>3, Zenon DEF Request, RequestDies, Receive, Reserve, Insert, ReqOnly, ghosts
  <2>2. CASE Reserve(q)
    <3>1. \A p \in Requests \ {q} : req'[p] = req[p]
      BY <1>1, <2>2 DEF Reserve, GoReq
    <3>2. CASE active \in {None, q[1]}
      <4>1. SlotTaken(q)
        BY <2>1, <2>2, <3>1, <3>2, Zenon DEF Reserve, SlotTaken
      <4> QED BY <4>1, Zenon DEF SlotMove
    <3>3. CASE active \notin {None, q[1]}
      <4>1. active' = active /\ req'[q].at = "over"
        BY <1>1, <2>2, <3>3 DEF Reserve, GoReq, Deliveries
      <4>2. SlotIdle
        BY <2>1, <3>1, <4>1 DEF SlotIdle
      <4> QED BY <4>2, Zenon DEF SlotMove
    <3> QED BY <3>2, <3>3
  <2>3. CASE Receive(q) \/ Insert(q) \/ RequestDies(q)
    <3>1. active' = active
      BY <2>3, Zenon DEF Receive, Insert, RequestDies
    <3>2. \A p \in Requests : req'[p].at = "inserting" => req[p].at = "inserting"
      BY <1>1, <2>3 DEF Receive, Insert, RequestDies, GoReq, Deliveries
    <3> QED BY <2>1, <3>1, <3>2, Zenon DEF SlotMove, SlotIdle
  <2> QED BY <1>3, <2>2, <2>3, Zenon DEF Request
<1>4. ASSUME SweepRuns PROVE SlotMove
  BY <1>2, <1>4, Zenon DEF SweepRuns, Expire, Notify, DbOnly, job, ghosts
<1>5. ASSUME ReleaseEnded PROVE SlotMove
  <2>1. SlotFreed
    BY <1>5, Zenon DEF ReleaseEnded, DbOnly, ghosts, SlotFreed
  <2> QED BY <2>1, Zenon DEF SlotMove
<1>6. ASSUME NEW e \in Events, EndChildren(e) PROVE SlotMove
  BY <1>2, <1>6, Zenon DEF EndChildren, DbOnly, job, ghosts
<1>7. ASSUME NEW w \in Workers, FindMissing(w) \/ \E e \in Events : FindReady(w, e)
      PROVE  SlotMove
  BY <1>2, <1>7, Zenon DEF FindMissing, FindReady, StepOnly, job, ghosts
<1>8. ASSUME NEW w \in Workers, LeaseSome(w) PROVE SlotMove
  <2>1. StepOnly
    BY <1>8, Zenon DEF LeaseSome, Lease
  <2> QED BY <1>2, <2>1, Zenon DEF StepOnly, job, ghosts
<1>9. ASSUME NEW w \in Workers, Step(w) PROVE SlotMove
  <2>1. CASE ReleaseMissing(w)
    <3>1. CASE active = wk[w].run
      <4>1. SlotLapsed
        BY <2>1, <3>1, Zenon DEF ReleaseMissing, SlotLapsed
      <4> QED BY <4>1, Zenon DEF SlotMove
    <3>2. CASE active # wk[w].run
      BY <1>2, <2>1, <3>2, Zenon DEF ReleaseMissing
    <3> QED BY <3>1, <3>2
  <2>2. CASE ModelAnswers(w) \/ ModelFails(w)
    <3>1. CallUnchanged
      BY <2>2, Zenon DEF ModelAnswers, ModelFails
    <3> QED BY <1>2, <3>1, Zenon DEF CallUnchanged, job
  <2>3. CASE ~(ReleaseMissing(w) \/ ModelAnswers(w) \/ ModelFails(w))
    <3>1. StepOnly
      BY <1>9, <2>3, Zenon DEF Step, HoldCost, Decide, Finish, AskOwner, CompleteStep,
         Delegate, Hire, Park, RetryLater, Fail, Wake
    <3> QED BY <1>2, <3>1, Zenon DEF StepOnly, job, ghosts
  <2> QED BY <2>1, <2>2, <2>3
<1>10. ASSUME NEW w \in Workers, Crash(w) PROVE SlotMove
  BY <1>2, <1>10, Zenon DEF Crash, job
<1>11. ASSUME Owner PROVE SlotMove
  BY <1>2, <1>11, Zenon DEF Owner, Cancel, Revoke, EndListed, MarkRevoked, job, ghosts
<1>12. ASSUME Time PROVE SlotMove
  BY <1>2, <1>12, Zenon DEF Time, GracePasses, DeadlinePasses, LeaseLapses, DbOnly, job, ghosts
<1>13. ASSUME NEW i \in Ids, Answer(i) PROVE SlotMove
  BY <1>2, <1>13, Zenon DEF Answer, DbOnly, job, ghosts
<1> QED BY <1>3, <1>4, <1>5, <1>6, <1>7, <1>8, <1>9, <1>10, <1>11, <1>12, <1>13, Zenon DEF Next

LEMMA SlotKept ==
    ASSUME TypeInv, SlotInv, RunMoves, SlotMove
    PROVE  SlotInv'
<1>1. CASE lapsed
  <2>1. lapsed'
    BY <1>1, Zenon DEF SlotMove, SlotIdle, SlotFreed, SlotLapsed, SlotTaken
  <2> QED BY <2>1 DEF SlotInv
<1> SUFFICES ASSUME ~lapsed PROVE SlotInv'
  BY <1>1
<1>2. \A e \in Events : Live(e)' =>
          active = e /\ ~Ended(e) /\ (run[e].status # "none" \/ Inserting(e))
  <2> SUFFICES ASSUME NEW e \in Events, Live(e)'
               PROVE  active = e /\ ~Ended(e) /\ (run[e].status # "none" \/ Inserting(e))
    OBVIOUS
  <2>1. e \in Ids /\ RunMove(e) /\ e \notin Children
    BY Names DEF RunMoves
  <2>2. run'[e].status \notin Terminal \cup {"none"}
    BY DEF Live
  <2>3. ~Ended(e)
    BY <2>1, <2>2 DEF RunMove, Ended
  <2>4. Live(e) \/ (run[e].status = "none" /\ Inserting(e))
    BY <2>1, <2>2, <2>3 DEF RunMove, Ended, Live
  <2>5. active = e
    BY <2>4, Zenon DEF SlotInv, Inserting
  <2> QED BY <2>3, <2>4, <2>5 DEF Live
<1>3. \A q \in Requests : run[q[1]].status # "none" => run'[q[1]].status # "none"
  BY RequestNames, Names DEF RunMoves, RunMove
<1>4. CASE SlotIdle
  <2>1. \A e \in Events : Live(e)' => active' = e
    BY <1>2, <1>4, Zenon DEF SlotIdle
  <2>2. \A q \in Requests : req'[q].at = "inserting" => active' = q[1] \/ run'[q[1]].status # "none"
    BY <1>3, <1>4, Zenon DEF SlotIdle, SlotInv
  <2> QED BY <2>1, <2>2, Zenon DEF SlotInv
<1>5. ASSUME NEW q \in Requests, SlotTaken(q) PROVE SlotInv'
  <2>1. \A e \in Events : Live(e)' => active' = e
    BY <1>2, <1>5 DEF SlotTaken
  <2>2. ASSUME NEW p \in Requests, req'[p].at = "inserting"
        PROVE  active' = p[1] \/ run'[p[1]].status # "none"
    <3>1. CASE p = q
      BY <1>5, <3>1 DEF SlotTaken
    <3>2. CASE p # q
      <4>1. active = p[1] \/ run[p[1]].status # "none"
        BY <1>5, <2>2, <3>2, Zenon DEF SlotTaken, SlotInv
      <4>2. p[1] # None
        BY RequestNames
      <4> QED BY <1>3, <1>5, <4>1, <4>2 DEF SlotTaken
    <3> QED BY <3>1, <3>2
  <2> QED BY <2>1, <2>2, Zenon DEF SlotInv
<1>6. CASE SlotFreed
  <2>1. \A e \in Events : ~Live(e)'
    BY <1>2, <1>6, Zenon DEF SlotFreed
  <2>2. \A q \in Requests : req'[q].at = "inserting" => run[q[1]].status # "none"
    BY <1>6 DEF SlotFreed, SlotInv, Ended, Terminal
  <2> QED BY <1>3, <2>1, <2>2, Zenon DEF SlotInv
<1>7. CASE SlotLapsed
  <2>1. CASE Returned(active)
    BY <1>7, <2>1 DEF SlotLapsed, SlotInv
  <2>2. CASE ~Returned(active)
    <3>1. \A e \in Events : ~Live(e)'
      BY <1>2, <2>2, Zenon DEF Returned, Inserting
    <3>2. \A q \in Requests : req[q].at = "inserting" => run[q[1]].status # "none"
      BY <2>2, Zenon DEF SlotInv, Returned
    <3>3. \A q \in Requests : req'[q].at = "inserting" => run'[q[1]].status # "none"
      BY <1>7, <3>2 DEF SlotLapsed
    <3> QED BY <3>1, <3>3, Zenon DEF SlotInv
  <2> QED BY <2>1, <2>2
<1> QED BY <1>4, <1>5, <1>6, <1>7, Zenon DEF SlotMove

----------------------------------------------------------------------------
(* The theorems. *)

LEMMA InitInvariant == Init => IInv
<1> SUFFICES ASSUME Init PROVE IInv
  OBVIOUS
<1>1. /\ run = [i \in Ids |-> NoRun]
      /\ budget = [e \in Events |-> [calls |-> 0, committed |-> 0, blocked |-> FALSE]]
      /\ wk = [w \in Workers |-> Idle] /\ billed = [e \in Events |-> 0] /\ over = {}
      /\ req = [q \in Requests |-> [at |-> "new", tainted |-> FALSE]]
  BY Zenon DEF Init
<1>2. NoRun \in RunDocs /\ \A i \in Ids : RunOK(i, NoRun)
  <2>1. /\ "none" \in Statuses /\ "none" \in Ops \cup {"none"} /\ None \in Workers \cup {None}
        /\ "none" \in Attention \cup {"none"} /\ 0 \in 0..MaxSteps /\ 0 \in 0..MaxRetries
        /\ FALSE \in BOOLEAN
    BY DEF Statuses
  <2>2. NoRun \in RunDocs
    BY <2>1, Zenon DEF NoRun, RunDocs
  <2>3. NoRun.dec = "none" /\ NoRun.status = "none"
    BY DEF NoRun
  <2> QED BY <2>2, <2>3 DEF RunOK
<1>3. [calls |-> 0, committed |-> 0, blocked |-> FALSE] \in Ledgers
  BY DEF Ledgers
<1>4. Idle \in Ticks /\ TickOK(Idle)
  BY DEF Idle, Ticks, TickOK, Places
<1>5. Rest
  <2>1. /\ cleaned = {} /\ late = {} /\ active = None /\ overdue = FALSE /\ revoked = FALSE
        /\ stopping = Nobody /\ crashes = 0 /\ told = {} /\ lapsed = FALSE
    BY Zenon DEF Init
  <2>2. req \in [Requests -> Deliveries]
    BY <1>1 DEF Deliveries
  <2>3. stopping \in [at : {"none", "listed", "marking", "over"}, ids : SUBSET Ids,
                      revoke : BOOLEAN]
    BY <2>1 DEF Nobody
  <2>4. 0 \in 0..MaxCrashes /\ FALSE \in BOOLEAN
    OBVIOUS
  <2> QED BY <2>1, <2>2, <2>3, <2>4, Zenon DEF Rest
<1>6. TypeInv
  <2>1. /\ run \in [Ids -> RunDocs] /\ budget \in [Events -> Ledgers]
        /\ wk \in [Workers -> Ticks] /\ billed \in [Events -> Nat]
    BY <1>1, <1>2, <1>3, <1>4, Zenon
  <2>2. Spent
    BY <1>1, <2>1 DEF Spent
  <2>3. TypeOK
    BY <1>5, <2>1, <2>2, TypeOKParts, Zenon
  <2>4. (\A i \in Ids : RunOK(i, run[i])) /\ \A w \in Workers : TickOK(wk[w])
    BY <1>1, <1>2, <1>4, Zenon
  <2> QED BY <2>3, <2>4 DEF TypeInv
<1>7. LedgerInv
  <2>1. ASSUME NEW e \in Events PROVE HeldFor(e) = 0
    <3>1. Calling(e) = {}
      BY <1>1 DEF Calling, Idle
    <3>2. Cardinality({}) = 0
      BY FS_EmptySet
    <3> QED BY <3>1, <3>2 DEF HeldFor
  <2>2. \A e \in Events : budget[e].committed = 0 /\ billed[e] = 0
    BY <1>1
  <2> QED BY <2>1, <2>2 DEF LedgerInv
<1>8. SlotInv
  <2>1. \A e \in Events : ~Live(e)
    <3>1. NoRun.status = "none"
      BY DEF NoRun
    <3> QED BY <1>1, <3>1, Names DEF Live
  <2>2. \A q \in Requests : req[q].at # "inserting"
    BY <1>1
  <2> QED BY <2>1, <2>2, Zenon DEF SlotInv
<1> QED BY <1>6, <1>7, <1>8 DEF IInv

LEMMA NextInvariant == IInv /\ [Next]_vars => IInv' /\ (Next => RunMoves)
<1> SUFFICES ASSUME IInv, [Next]_vars PROVE IInv' /\ (Next => RunMoves)
  OBVIOUS
<1>1. TypeInv /\ LedgerInv /\ SlotInv
  BY DEF IInv
<1>2. CASE Next
  <2>1. RunMoves /\ TypeInv' /\ LedgerInv'
    BY <1>1, <1>2, NextKeeps, Zenon DEF Kept
  <2>2. SlotInv'
    BY <1>1, <1>2, <2>1, SlotMoves, SlotKept, Zenon
  <2> QED BY <2>1, <2>2 DEF IInv
<1>3. CASE ~Next
  <2>1. UNCHANGED vars
    BY <1>3
  <2>2. Kept
    <3>1. /\ UNCHANGED run /\ UNCHANGED <<budget, wk, billed, over>>
          /\ UNCHANGED <<cleaned, job, late, req, stopping, crashes, told, lapsed>>
      BY <2>1 DEF vars, job, ghosts
    <3> QED BY <1>1, <3>1, RunKept, RestKept, OtherSteps, Zenon
  <2>3. SlotMove
    BY <2>1 DEF vars, job, ghosts, SlotMove, SlotIdle
  <2>4. SlotInv'
    BY <1>1, <2>2, <2>3, SlotKept, Zenon DEF Kept
  <2> QED BY <1>3, <2>2, <2>4, Zenon DEF IInv, Kept
<1> QED BY <1>2, <1>3

(* Every reachable state satisfies the inductive invariant. *)
THEOREM Invariance == Spec => []IInv
<1>1. IInv /\ [Next]_vars => IInv'
  BY NextInvariant
<1> QED BY <1>1, InitInvariant, PTL DEF Spec

(* The runs of a job, its budgets, its slot and its workers are well typed: no
   step leaves its budget of steps, calls or retries, and no ledger goes below 0. *)
THEOREM WorkTyped == Spec => []TypeOK
<1>1. IInv => TypeOK
  BY DEF IInv, TypeInv
<1> QED BY <1>1, Invariance, PTL

(* A job has one live root run at a time, for any number of events and
   deliveries, as long as no reservation was released that was in use. *)
THEOREM OneRunPerJob == Spec => []OneActiveRun
<1>1. IInv => OneActiveRun
  BY DEF IInv, SlotInv, OneActiveRun
<1> QED BY <1>1, Invariance, PTL

(* What a root and its children were charged is covered by its ledger, and that
   by its cap, for any prices, any number of workers, and any crashes. *)
THEOREM SpendBounded == Spec => []SpendWithinCap
<1>1. IInv => SpendWithinCap
  <2> SUFFICES ASSUME IInv, NEW e \in Events \ over
               PROVE  billed[e] <= budget[e].committed /\ budget[e].committed <= Cap
    BY DEF SpendWithinCap
  <2>1. TypeInv /\ LedgerInv
    BY DEF IInv
  <2>2. HeldFor(e) \in Nat /\ budget[e].committed \in Nat /\ billed[e] \in Nat
    BY <2>1, CallingFinite, LedgerFacts, Zenon
  <2> QED BY <2>1, <2>2 DEF LedgerInv
<1> QED BY <1>1, Invariance, PTL

(* A run that is over stays as it ended, whichever worker, sweep or owner still
   works on it. *)
THEOREM EndsAreKept == Spec => EndedRunsStayEnded
<1>1. IInv /\ [Next]_vars => [\A i \in Ids : Ended(i) => run'[i].status = run[i].status]_vars
  <2> SUFFICES ASSUME IInv, Next
               PROVE  \A i \in Ids : Ended(i) => run'[i].status = run[i].status
    BY DEF vars
  <2>1. RunMoves
    BY NextInvariant
  <2> QED BY <2>1, Zenon DEF RunMoves, RunMove
<1> QED BY <1>1, Invariance, PTL DEF Spec, EndedRunsStayEnded

============================================================================
