---- MODULE ClientPool ----
(***************************************************************************)
(* The pool of pre-warmed Claude clients: agent/pool.py.  A client is a    *)
(* subprocess that serves one run and is then replaced.                    *)
(*                                                                         *)
(* A slot is one client and then the task that replaces it: the coroutines *)
(* release -> _disconnect_then_warm -> _warm_one -> put, with their sleeps *)
(* and retries.  A refresh or a warm-up adds slots, a coroutine that gives *)
(* up takes its own away.  A step between two awaits is one action.        *)
(*                                                                         *)
(* Abstracted: which eligible account a round robin picks, and the order   *)
(* of the queue of idle clients, are any; time (cool-downs, sleeps and     *)
(* time-outs end at any moment).  External: the subprocess (may fail to    *)
(* connect), the users collection, the accounts' files, which stay.        *)
(***************************************************************************)
EXTENDS Naturals, FiniteSets

CONSTANTS PoolSize,
          MaxSlots,     \* bound on slots at one time
          Requests,     \* runs that ask for a client
          OneOff,       \* those of them that select another model
          Accounts,
          Readers,      \* bound on account refreshes and warm-ups
          WarmRetries,
          MaxEvents,    \* bound on failures, cool-downs, reloads, cancellations,
                        \* changes of the users and shutdowns
          Nobody

ASSUME SizeAssumption == PoolSize \in Nat \ {0} /\ WarmRetries \in Nat \ {0}
ASSUME RequestsAssumption == OneOff \subseteq Requests
ASSUME BoundsAssumption == MaxEvents \in Nat /\ MaxSlots \in Nat

VARIABLES slots,        \* slot -> Nobody or its client
          inUse,        \* _in_use
          req,          \* the runs: their place in acquire
          accounts,     \* _accounts: what the last scan found
          enabled,      \* accounts the users collection lets the pool use
          cool,         \* accounts on cool-down
          closed,
          reader,       \* tasks that read the users collection
          drain,        \* the loops that disconnect the idle clients
          events,       \* how many of the bounded events happened
          overfilled,   \* history: slots were added beside slots in transit
          leaked,       \* history: cancelled creations of one-off clients
          starved,      \* history: a slot ended because no account was left
          displaced,    \* history: a slot ended because of one-off clients
          late          \* history: a warm-up put its clients into a closed pool

ghosts == <<overfilled, leaked, starved, displaced, late>>
poolVars == <<slots, inUse, req, accounts, enabled, cool, closed, reader, drain, events, ghosts>>

Loops == {"reload", "shutdown"}
Ids == 1..MaxSlots

(* Its state, who the client is for, its account, the attempts to connect. *)
Slot == [st : {"due", "connecting", "failing", "pausing", "recovering", "gathered", "failed",
               "idle", "held", "closing", "orphan"},
         own : {"pool"} \cup Loops \cup Readers \cup Requests,
         acct : Accounts \cup {Nobody}, tries : 0..WarmRetries]

ASSUME NamesAssumption ==
    /\ Nobody \notin Accounts \cup Slot
    /\ ({"pool"} \cup Loops \cup Readers) \cap Requests = {}
    /\ ({"pool"} \cup Loops) \cap Readers = {}

Taken == {i \in Ids : slots[i] # Nobody}

PoolTypeOK ==
    /\ slots \in [Ids -> Slot \cup {Nobody}]
    /\ inUse \in Nat
    /\ req \in [Requests -> {"new", "waiting", "creating", "held", "over"}]
    /\ accounts \subseteq Accounts /\ enabled \subseteq Accounts /\ cool \subseteq Accounts
    /\ closed \in BOOLEAN
    /\ reader \in [Readers -> [at : {"none", "asked", "read", "warming", "over"},
                               kind : {"none", "refresh", "warmup"}, found : SUBSET Accounts]]
    /\ drain \in [Loops -> [at : {"off", "looping", "over"}, drained : BOOLEAN, always : BOOLEAN]]
    /\ events \in 0..MaxEvents
    /\ overfilled \in BOOLEAN /\ leaked \in Nat /\ starved \in BOOLEAN
    /\ displaced \in BOOLEAN /\ late \in BOOLEAN
    /\ \A r \in Requests : req[r] = "held" <=>
           \E i \in Taken : slots[i].st = "held" /\ slots[i].own = r

(* init_pool: the warm-up runs in the background. *)
PoolInit ==
    /\ slots = [i \in Ids |-> Nobody] /\ inUse = 0
    /\ req = [r \in Requests |-> "new"]
    /\ accounts = {} /\ enabled = Accounts /\ cool = {} /\ closed = FALSE
    /\ LET first == CHOOSE k \in Readers : TRUE
       IN  reader = [k \in Readers |-> [at |-> IF k = first THEN "asked" ELSE "none",
                                        kind |-> IF k = first THEN "warmup" ELSE "none", found |-> {}]]
    /\ drain = [l \in Loops |-> [at |-> "off", drained |-> FALSE, always |-> FALSE]]
    /\ events = 0
    /\ overfilled = FALSE /\ leaked = 0 /\ starved = FALSE /\ displaced = FALSE
    /\ late = FALSE

----------------------------------------------------------------------------
(* Helpers. *)

In(states) == {i \in Taken : slots[i].st \in states}
Number(states) == Cardinality(In(states))
Idle == In({"idle"})
Eligible == accounts \ cool
Event == events < MaxEvents /\ events' = events + 1
Minus(n) == IF n = 0 THEN 0 ELSE n - 1

Becomes(i, x) == slots' = [slots EXCEPT ![i] = x]
Vanishes(i) == Becomes(i, Nobody)

(* The first n slots that nobody has. *)
First(n) == {new \in SUBSET (Ids \ Taken) :
               Cardinality(new) = n /\ \A i \in new, j \in Ids \ (Taken \cup new) : i < j}

New(st, own, account, tries) == [st |-> st, own |-> own, acct |-> account, tries |-> tries]
Due == New("due", "pool", Nobody, 0)
To(i, state) == [slots[i] EXCEPT !.st = state, !.tries = 0]

(* The clients whose process exists, and the number of those the pool keeps. *)
Clients == In({"connecting", "failing", "gathered", "idle", "held", "closing", "orphan"})
Pooled == Cardinality({i \in Clients : slots[i].own \notin OneOff})

Available == Number({"idle"})
Warming == Number({"connecting", "failing"})

(* A replacement is not needed; in-use clients are left out. *)
Full == Available + Warming >= PoolSize

(* One-off clients, which have no successor, are warming or in use too. *)
OneOffs == leaked > 0 \/ \E i \in Taken : slots[i].own \in OneOff

(* _warm_one up to its first await: what becomes of the slot. *)
WarmOne(i) ==
    IF closed \/ Full THEN Vanishes(i) /\ displaced' = (displaced \/ OneOffs) /\ UNCHANGED starved
    ELSE IF Eligible = {} THEN Vanishes(i) /\ starved' = TRUE /\ UNCHANGED displaced
    ELSE /\ \E a \in Eligible : Becomes(i, New("connecting", "pool", a, 1))
         /\ UNCHANGED <<starved, displaced>>

----------------------------------------------------------------------------
(* The life of a slot. *)

(* Mutant: _warm_one puts its client whether the pool is closed or not. *)
PutAlways(i) == Becomes(i, To(i, "idle"))

(* _warm_one: a client that is ready when the pool has closed is disconnected. *)
Put(i) == Becomes(i, To(i, IF closed THEN "closing" ELSE "idle"))

HandOver(i) == Becomes(i, To(i, "held")) /\ req' = [req EXCEPT ![slots[i].own] = "held"]

Connects(i) ==
    /\ slots[i].st = "connecting"
    /\ \/ slots[i].own = "pool" /\ Put(i) /\ UNCHANGED req
       \/ slots[i].own \in Readers /\ Becomes(i, To(i, "gathered")) /\ UNCHANGED req
       \/ slots[i].own \in OneOff /\ HandOver(i)
    /\ UNCHANGED <<inUse, accounts, enabled, cool, closed, reader, drain, events, ghosts>>

(* _create_client: the half-connected client is disconnected first. *)
ConnectFails(i) ==
    /\ slots[i].st = "connecting" /\ Event
    /\ Becomes(i, [slots[i] EXCEPT !.st = "failing"])
    /\ UNCHANGED <<inUse, req, accounts, enabled, cool, closed, reader, drain, ghosts>>

(* After the last attempt another cycle is scheduled if the pool needs it. *)
GivesUp(i) ==
    IF closed \/ Available + Warming - 1 + inUse >= PoolSize
    THEN Vanishes(i) /\ displaced' = (displaced \/ OneOffs)
    ELSE Becomes(i, New("recovering", "pool", Nobody, 0)) /\ UNCHANGED displaced

CreateRaises(i) ==
    /\ slots[i].st = "failing" /\ slots[i].own \notin OneOff
    /\ IF slots[i].own = "pool" /\ slots[i].tries = WarmRetries THEN GivesUp(i)
       ELSE /\ Becomes(i, IF slots[i].own = "pool" THEN [slots[i] EXCEPT !.st = "pausing"]
                          ELSE New("failed", slots[i].own, Nobody, 0))
            /\ UNCHANGED displaced
    /\ UNCHANGED <<inUse, req, accounts, enabled, cool, closed, reader, drain, events,
                   overfilled, leaked, starved, late>>

Again(i) ==
    /\ slots[i].st = "pausing"
    /\ IF closed THEN Vanishes(i) ELSE Becomes(i, New("connecting", "pool", slots[i].acct, slots[i].tries + 1))
    /\ UNCHANGED <<inUse, req, accounts, enabled, cool, closed, reader, drain, events, ghosts>>

Recovers(i) ==
    /\ slots[i].st = "recovering"
    /\ IF closed THEN Vanishes(i) ELSE Becomes(i, Due)
    /\ UNCHANGED <<inUse, req, accounts, enabled, cool, closed, reader, drain, events, ghosts>>

StartsWarming(i) ==
    /\ slots[i].st = "due" /\ WarmOne(i)
    /\ UNCHANGED <<inUse, req, accounts, enabled, cool, closed, reader, drain, events,
                   overfilled, leaked, late>>

(* Mutant: a client of an account that is no longer used has no replacement. *)
ReplacedIfEligible(i) == slots[i].own = "pool" /\ slots[i].acct \in Eligible

(* _disconnect_then_warm; a one-off client and one that a loop disconnects have
   no replacement. *)
Replaced(i) == slots[i].own = "pool" /\ accounts # {}

Disconnected(i) ==
    /\ slots[i].st = "closing"
    /\ IF Replaced(i) THEN WarmOne(i)
       ELSE /\ Vanishes(i) /\ starved' = (starved \/ (slots[i].own = "pool" /\ accounts = {}))
            /\ UNCHANGED displaced
    /\ UNCHANGED <<inUse, req, accounts, enabled, cool, closed, reader, drain, events,
                   overfilled, leaked, late>>

----------------------------------------------------------------------------
(* acquire and release. *)

(* _take_ready_client: clients of accounts that were disabled or cool down are
   disconnected and replaced. *)
Ready == {i \in Idle : slots[i].acct \in Eligible}

WithoutStale == [i \in Ids |-> IF i \in Idle \ Ready THEN To(i, "closing") ELSE slots[i]]

Take(r) ==
    \/ \E i \in Ready :
           /\ slots' = [WithoutStale EXCEPT ![i] = [slots[i] EXCEPT !.st = "held", !.own = r]]
           /\ req' = [req EXCEPT ![r] = "held"]
           /\ inUse' = inUse + 1
    \/ /\ Ready = {} /\ slots' = WithoutStale
       /\ req' = [req EXCEPT ![r] = "waiting"] /\ UNCHANGED inUse

Over(r) == req' = [req EXCEPT ![r] = "over"]

Arrives(r, some) == r \in some /\ req[r] = "new" /\ r = CHOOSE q \in some : req[q] = "new"

Acquire(r) ==
    /\ Arrives(r, Requests \ OneOff)
    /\ IF closed \/ accounts = {} THEN Over(r) /\ UNCHANGED <<slots, inUse>> ELSE Take(r)
    /\ UNCHANGED <<accounts, enabled, cool, closed, reader, drain, events, ghosts>>

(* The queue wakes one waiter, which puts the client back and takes its turn. *)
IsWoken(r) ==
    /\ req[r] = "waiting" /\ Idle # {} /\ Take(r)
    /\ UNCHANGED <<accounts, enabled, cool, closed, reader, drain, events, ghosts>>

(* AGENT_QUEUE_TIMEOUT, or the run is cancelled. *)
StopsWaiting(r) ==
    /\ req[r] = "waiting" /\ Event /\ Over(r)
    /\ UNCHANGED <<slots, inUse, accounts, enabled, cool, closed, reader, drain, ghosts>>

(* A run with a model of its own gets a client beside the pool. *)
AcquireOneOff(r) ==
    /\ Arrives(r, OneOff)
    /\ IF closed \/ Eligible = {} THEN Over(r) /\ UNCHANGED <<slots, inUse>>
       ELSE /\ \E new \in First(1), a \in Eligible :
                  \E i \in new : Becomes(i, New("connecting", r, a, 1))
            /\ req' = [req EXCEPT ![r] = "creating"] /\ inUse' = inUse + 1
    /\ UNCHANGED <<accounts, enabled, cool, closed, reader, drain, events, ghosts>>

OneOffFails(i) ==
    /\ slots[i].st = "failing" /\ slots[i].own \in OneOff
    /\ Vanishes(i) /\ Over(slots[i].own) /\ inUse' = Minus(inUse)
    /\ UNCHANGED <<accounts, enabled, cool, closed, reader, drain, events, ghosts>>

(* CancelledError is no Exception: neither the process nor the count is taken
   back. *)
OneOffCancelled(i) ==
    /\ slots[i].st = "connecting" /\ slots[i].own \in OneOff /\ Event
    /\ Becomes(i, To(i, "orphan")) /\ Over(slots[i].own) /\ leaked' = leaked + 1
    /\ UNCHANGED <<inUse, accounts, enabled, cool, closed, reader, drain,
                   overfilled, starved, displaced, late>>

(* mark_account_exhausted: the run met a rate limit; it releases its client and
   tries again as another request. *)
Exhaust(i) ==
    /\ slots[i].st = "held" /\ Event
    /\ cool' = cool \cup {slots[i].acct}
    /\ UNCHANGED <<slots, inUse, req, accounts, enabled, closed, reader, drain, ghosts>>

CoolsDown(a) ==
    /\ a \in cool /\ cool' = cool \ {a}
    /\ UNCHANGED <<slots, inUse, req, accounts, enabled, closed, reader, drain, events, ghosts>>

(* Mutant: the replacement starts while the old process is being ended. *)
ReleaseAndWarm(i) ==
    /\ slots[i].st = "held" /\ Over(slots[i].own) /\ inUse' = Minus(inUse)
    /\ LET old == [slots[i] EXCEPT !.st = "closing", !.own = "reload"]
       IN  IF slots[i].own \in OneOff \/ First(1) = {} THEN Becomes(i, old)
           ELSE \E new \in First(1) : slots' = [j \in Ids |-> IF j \in new THEN Due
                                                       ELSE IF j = i THEN old ELSE slots[j]]
    /\ UNCHANGED <<accounts, enabled, cool, closed, reader, drain, events, ghosts>>

(* The client's processes are killed, and a task disconnects it. *)
Release(i) ==
    /\ slots[i].st = "held" /\ Over(slots[i].own) /\ inUse' = Minus(inUse)
    /\ Becomes(i, [slots[i] EXCEPT !.st = "closing", !.own = IF @ \in OneOff THEN @ ELSE "pool"])
    /\ UNCHANGED <<accounts, enabled, cool, closed, reader, drain, events, ghosts>>

----------------------------------------------------------------------------
(* Accounts: warm-ups and refreshes. *)

Reading == {k \in Readers : reader[k].at \in {"asked", "read"}}

Unused == {k \in Readers : reader[k].at = "none"}

(* A reload in its loop keeps a reader for its warm-up. *)
Another == Cardinality(Unused) > IF drain["reload"].at = "looping" THEN 1 ELSE 0

Ask(k, kind) ==
    /\ reader[k].at = "none" /\ k = CHOOSE j \in Unused : TRUE
    /\ reader' = [reader EXCEPT ![k] = [at |-> "asked", kind |-> kind, found |-> {}]]

(* An admin lets the pool use a user's account, or no longer; the route asks
   for a refresh. *)
Toggle(a, k) ==
    /\ Event /\ Another /\ Ask(k, "refresh")
    /\ enabled' = IF a \in enabled THEN enabled \ {a} ELSE enabled \cup {a}
    /\ UNCHANGED <<slots, inUse, req, accounts, cool, closed, drain, ghosts>>

(* _get_disabled_emails: when the query fails, nobody is disabled. *)
Read(k) ==
    /\ reader[k].at = "asked"
    /\ \E found \in {enabled, Accounts} :
           /\ reader' = [reader EXCEPT ![k].at = "read", ![k].found = found]
           /\ IF found = enabled THEN UNCHANGED events ELSE Event
    /\ UNCHANGED <<slots, inUse, req, accounts, enabled, cool, closed, drain, ghosts>>

(* _scan_accounts; a scan that follows a later read brings back what it found. *)
Scan(k) == accounts' = reader[k].found /\ cool' = cool \cap accounts'

(* No slot is between two counts. *)
Settled == In({"due", "pausing", "recovering", "gathered", "failed", "closing"}) = {}

Deficit ==
    LET current == Available + Warming + inUse
    IN  IF current >= PoolSize THEN 0 ELSE PoolSize - current

(* _async_refresh_accounts *)
Refresh(k) ==
    /\ reader[k].at = "read" /\ reader[k].kind = "refresh" /\ Scan(k)
    /\ reader' = [reader EXCEPT ![k].at = "over", ![k].found = {}]
    /\ IF closed \/ accounts' = {} \/ Deficit = 0
       THEN UNCHANGED <<slots, overfilled, starved, displaced>>
       ELSE /\ \E new \in First(Deficit) :
                  slots' = [i \in Ids |-> IF i \in new THEN Due ELSE slots[i]]
            /\ overfilled' = (overfilled \/ ~Settled)
            /\ starved' = FALSE /\ displaced' = OneOffs
    /\ UNCHANGED <<inUse, req, enabled, closed, drain, events, leaked, late>>

(* warmup creates its clients together, whatever the pool holds; at most three
   for each account. *)
Warmup(k) ==
    /\ reader[k].at = "read" /\ reader[k].kind = "warmup" /\ Scan(k)
    /\ LET most == 3 * Cardinality(accounts')
           target == IF accounts' \ cool' = {} THEN 0
                     ELSE IF most < PoolSize THEN most ELSE PoolSize
       IN  /\ \E new \in First(target) : \E account \in [new -> accounts' \ cool'] :
                  slots' = [i \in Ids |-> IF i \in new THEN New("connecting", k, account[i], 1)
                                          ELSE slots[i]]
           /\ reader' = [reader EXCEPT ![k].at = IF target = 0 THEN "over" ELSE "warming",
                                       ![k].found = {}]
           /\ starved' = (target = 0) /\ displaced' = (displaced /\ target = 0)
    /\ overfilled' = (overfilled \/ Taken # {})
    /\ UNCHANGED <<inUse, req, enabled, closed, drain, events, leaked, late>>

(* asyncio.gather returns when the last of them is done. *)
Gathered(k) ==
    /\ reader[k].at = "warming"
    /\ \A i \in Taken : slots[i].own = k => slots[i].st \in {"gathered", "failed"}
    /\ slots' = [i \in Ids |-> IF i \notin Taken \/ slots[i].own # k THEN slots[i]
                              ELSE IF slots[i].st = "failed" THEN Due
                              ELSE [slots[i] EXCEPT !.own = "pool", !.st = "idle"]]
    /\ reader' = [reader EXCEPT ![k].at = "over"] /\ late' = (late \/ closed)
    /\ UNCHANGED <<inUse, req, accounts, enabled, cool, closed, drain, events,
                   overfilled, leaked, starved, displaced>>

----------------------------------------------------------------------------
(* The loops that disconnect the idle clients one after the other. *)

(* reload_config with other servers always warms up again, reload_prompt when
   a client was drained. *)
Reload(always) ==
    /\ Event /\ Another /\ ~closed /\ drain["reload"].at # "looping"
    /\ drain' = [drain EXCEPT !["reload"] = [at |-> "looping", drained |-> FALSE, always |-> always]]
    /\ UNCHANGED <<slots, inUse, req, accounts, enabled, cool, closed, reader, ghosts>>

Shutdown ==
    /\ Event /\ ~closed /\ closed' = TRUE
    /\ drain' = [drain EXCEPT !["shutdown"].at = "looping"]
    /\ UNCHANGED <<slots, inUse, req, accounts, enabled, cool, reader, ghosts>>

AtTop(l) == drain[l].at = "looping" /\ \A i \in Taken : slots[i].own # l

DrainOne(l, i) ==
    /\ AtTop(l) /\ slots[i].st = "idle"
    /\ Becomes(i, [slots[i] EXCEPT !.st = "closing", !.own = l])
    /\ drain' = [drain EXCEPT ![l].drained = TRUE]
    /\ UNCHANGED <<inUse, req, accounts, enabled, cool, closed, reader, events, ghosts>>

Drained(l) ==
    /\ AtTop(l) /\ Idle = {}
    /\ drain' = [drain EXCEPT ![l].at = "over"]
    /\ IF l = "reload" /\ (drain[l].always \/ drain[l].drained)
       THEN \E k \in Readers : Ask(k, "warmup") ELSE UNCHANGED reader
    /\ UNCHANGED <<slots, inUse, req, accounts, enabled, cool, closed, events, ghosts>>

----------------------------------------------------------------------------
(* The event loop runs what can run, connections end and so do runs. *)
PoolProgress ==
    \/ \E i \in Taken :
           \/ Connects(i) \/ CreateRaises(i) \/ Again(i) \/ Recovers(i) \/ StartsWarming(i)
           \/ Disconnected(i) \/ OneOffFails(i) \/ Release(i)
           \/ \E l \in Loops : DrainOne(l, i)
    \/ \E r \in Requests : IsWoken(r)
    \/ \E k \in Readers : Read(k) \/ Refresh(k) \/ Warmup(k) \/ Gathered(k)
    \/ \E l \in Loops : Drained(l)

PoolNext ==
    \/ PoolProgress
    \/ \E i \in Taken : ConnectFails(i) \/ OneOffCancelled(i) \/ Exhaust(i)
    \/ \E r \in Requests : Acquire(r) \/ StopsWaiting(r) \/ AcquireOneOff(r)
    \/ \E a \in Accounts : CoolsDown(a) \/ \E k \in Readers : Toggle(a, k)
    \/ (\E always \in BOOLEAN : Reload(always)) \/ Shutdown

PoolSpec == PoolInit /\ [][PoolNext]_poolVars
FairPoolSpec == PoolSpec /\ WF_poolVars(PoolProgress)

----------------------------------------------------------------------------
(* The properties. *)

(* The pool keeps no more processes than its size over any number of releases,
   replacements, retries and recoveries, and over refreshes that find no slot
   in transit. *)
PoolBounded == overfilled \/ Pooled <= PoolSize

(* _in_use is the number of clients that runs hold or have ordered, and those
   of cancelled orders: refreshes and recoveries compute with it. *)
InUseIsHeld ==
    inUse = leaked + Cardinality({r \in Requests : req[r] \in {"held", "creating"}})

(* The invariant of the pool: its parts together. *)
PoolIsAccounted == PoolTypeOK /\ PoolBounded /\ InUseIsHeld

(* A run that waits is given a client, or the pool has run out of accounts (or
   is closed): no slot and no wake-up is lost, where one-off clients have not
   made the pool give up a slot. *)
WaiterIsServed ==
    \A r \in Requests \ OneOff : req[r] = "waiting" ~> req[r] # "waiting" \/ starved \/ closed \/ displaced

(* A closed pool ends its processes, those that were being created included,
   but for those of a warm-up that was under way, and the abandoned. *)
ClosedIsEmptied == closed ~> (Clients \subseteq In({"orphan"}) \/ late)
====
