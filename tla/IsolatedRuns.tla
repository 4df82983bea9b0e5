--------------------------- MODULE IsolatedRuns ---------------------------
(* Isolated runs and what they may spend: isolation/run.py, models.py       *)
(* (ModelRelay), accounting.py (ModelBudget) and accounts.py                *)
(* (SubscriptionAccounts), with the sequential transport of client.py.      *)
(*                                                                          *)
(* A run leases a slot of one subscription account, opens a ledger with a   *)
(* fixed budget, and relays the worker's model calls one at a time: reserve *)
(* the worst case, post, stream, record the provider's receipt.  A failed   *)
(* call ends the run.  The runs belong to any number of backend processes.  *)
(* A ledger is kept as its counters: a settled call is never looked at      *)
(* again, but for its response id.                                          *)
EXTENDS Integers, FiniteSets

CONSTANTS Runs, Accounts,
          Capacity,   \* SubscriptionAccount.max_concurrent_runs
          Budget,     \* BudgetSpec.budget_nusd
          Hold,       \* BudgetSpec.reservation, the most a call should cost
          MaxCalls,   \* BudgetSpec.max_calls
          Costs,      \* what a provider may charge for a call
          MaxEvents,  \* bound: cancellations, disablings, 429s, crashes,
                      \*   failed clean-up steps
          None

ASSUME BudgetAssumption ==
    /\ Budget \in Nat /\ Hold \in Nat \ {0}
    /\ MaxCalls \in Nat /\ Capacity \in Nat /\ MaxEvents \in Nat
    /\ Costs \subseteq Nat

ASSUME AccountsAssumption == None \notin Accounts

VARIABLES st,        \* run -> how far it is
          acct,      \* run -> its account, or None
          seen,      \* run -> accounts its select found unusable
          leases,    \* account -> runs that hold a lease in force
          lapsed,    \* runs whose lease ran out over their own clean-up
          cool,      \* accounts in cooldown
          disabled,  \* accounts their owner or an admin has switched off
          cancelled, \* runs whose user asked to stop
          open,      \* runs with a provider stream
          ledger,    \* run -> its budget document
          cost,      \* run -> what its current call cost, once posted
          receipt,   \* run -> the evidence its finished stream gave
          spent,     \* run -> what all its calls have cost the account
          overran,   \* runs with a call that cost more than its hold
          cleared,   \* runs that had passed the last check before posting
                     \*   when access was withdrawn
          events
vars == <<st, acct, seen, leases, lapsed, cool, disabled, cancelled, open, ledger,
          cost, receipt, spent, overran, cleared, events>>

money == <<ledger, cost, receipt, spent, overran>>
access == <<cool, disabled, cancelled, cleared>>
slots == <<acct, seen, leases, lapsed>>

Selecting == {"new", "picking"}
Calling == {"ready", "asked", "held", "clear", "limited", "done"}
Working == {"picked"} \cup Calling
Closing == {"closing", "stopping", "releasing"}
Ended == {"over", "crashed"}
Evidence == {"none", "usage", "rejected", "repeated"}
Ledger == [active : BOOLEAN, blocked : BOOLEAN, committed : 0..Budget,
           recorded : Nat, calls : 0..MaxCalls]

TypeOK == /\ st \in [Runs -> Selecting \cup Working \cup Closing \cup Ended]
          /\ acct \in [Runs -> Accounts \cup {None}]
          /\ seen \in [Runs -> SUBSET Accounts]
          /\ leases \in [Accounts -> SUBSET Runs]
          /\ cool \subseteq Accounts /\ disabled \subseteq Accounts
          /\ lapsed \subseteq Runs /\ cancelled \subseteq Runs
          /\ open \subseteq Runs /\ overran \subseteq Runs
          /\ cleared \subseteq Runs
          /\ ledger \in [Runs -> Ledger]
          /\ cost \in [Runs -> Nat] /\ spent \in [Runs -> Nat]
          /\ receipt \in [Runs -> Evidence]
          /\ events \in 0..MaxEvents

NoLedger == [active |-> FALSE, blocked |-> FALSE, committed |-> 0,
             recorded |-> 0, calls |-> 0]

Init == /\ st = [r \in Runs |-> "new"]
        /\ acct = [r \in Runs |-> None]
        /\ seen = [r \in Runs |-> {}]
        /\ leases = [a \in Accounts |-> {}]
        /\ lapsed = {} /\ cool = {} /\ disabled = {} /\ cancelled = {}
        /\ open = {} /\ overran = {} /\ cleared = {}
        /\ ledger = [r \in Runs |-> NoLedger]
        /\ cost = [r \in Runs |-> 0] /\ spent = [r \in Runs |-> 0]
        /\ receipt = [r \in Runs |-> "none"]
        /\ events = 0

Event == events < MaxEvents /\ events' = events + 1
Goes(r, s) == st' = [st EXCEPT ![r] = s]

-----------------------------------------------------------------------------
(* The account.                                                             *)

\* _allowed: the user and the pool switch, then the cooldown.
Usable(a) == a \notin cool \cup disabled

\* context.authorize with account_access: cancellation, lease and account.  Each
\* is a read of its own with awaits between them, here one instant: a run is
\* stopped also when what it has just read goes before the next of these reads.
Authorized(r) == /\ r \notin cancelled
                 /\ r \in leases[acct[r]]
                 /\ Usable(acct[r])

\* One candidate of select: the reads of _allowed ...
Consider(r, a) ==
    /\ st[r] = "new" /\ a \notin seen[r]
    /\ IF Usable(a)
       THEN Goes(r, "picking") /\ acct' = [acct EXCEPT ![r] = a] /\ UNCHANGED seen
       ELSE seen' = [seen EXCEPT ![r] = @ \cup {a}] /\ UNCHANGED <<st, acct>>
    /\ UNCHANGED <<leases, lapsed, access, open, money, events>>

\* ... and _acquire's update: room and cooldown on the account's document.
HasRoom(a) == Cardinality(leases[a]) < Capacity

\* A select cancelled while it waits for that update leaves its lease behind.
Acquire(r) ==
    /\ st[r] = "picking"
    /\ IF HasRoom(acct[r]) /\ acct[r] \notin cool
       THEN /\ leases' = [leases EXCEPT ![acct[r]] = @ \cup {r}]
            /\ \/ Goes(r, "picked") /\ UNCHANGED events
               \/ Goes(r, "over") /\ Event
            /\ UNCHANGED <<acct, seen>>
       ELSE /\ Goes(r, "new")
            /\ seen' = [seen EXCEPT ![r] = @ \cup {acct[r]}]
            /\ acct' = [acct EXCEPT ![r] = None]
            /\ UNCHANGED <<leases, events>>
    /\ UNCHANGED <<lapsed, access, open, money>>

\* No account is left to try.
SelectFails(r) == /\ st[r] = "new" /\ seen[r] = Accounts
                  /\ Goes(r, "over")
                  /\ UNCHANGED <<slots, access, open, money, events>>

\* Leases end on the database's clock, a minute after the run's deadline: no
\* run is still calling by then, but its clean-up may take longer.
Lapse(r) == /\ st[r] \in Closing \cup Ended
            /\ \E a \in Accounts : /\ r \in leases[a]
                                   /\ leases' = [leases EXCEPT ![a] = @ \ {r}]
            /\ lapsed' = lapsed \cup {r}
            /\ UNCHANGED <<st, acct, seen, access, open, money, events>>

\* Those about to post when access goes are not called back.
Withdrawn(R) == cleared' = cleared \cup {r \in R : st[r] = "clear"}
Users(a) == {r \in Runs : acct[r] = a}

Disable(a) == /\ Event /\ a \notin disabled
              /\ disabled' = disabled \cup {a} /\ Withdrawn(Users(a))
              /\ UNCHANGED <<st, slots, cool, cancelled, open, money>>

Cancel(r) == /\ Event /\ st[r] \in Working /\ r \notin cancelled
             /\ cancelled' = cancelled \cup {r} /\ Withdrawn({r})
             /\ UNCHANGED <<st, slots, cool, disabled, open, money>>

CoolsDown(a) == /\ a \in cool /\ cool' = cool \ {a}
                /\ UNCHANGED <<st, slots, disabled, cancelled, cleared, open,
                               money, events>>

-----------------------------------------------------------------------------
(* The ledger.                                                              *)

OpenLedger(r) == ledger' = [ledger EXCEPT ![r] = [NoLedger EXCEPT !.active = TRUE]]

\* The filter of reserve's update.
Reservable(r) == /\ ledger[r].active /\ ~ledger[r].blocked
                 /\ ledger[r].calls < MaxCalls
                 /\ ledger[r].committed + Hold <= Budget

Reserved(r) == ledger' = [ledger EXCEPT ![r].committed = @ + Hold,
                                        ![r].calls = @ + 1]

\* Mutant: a call without evidence gives its hold back.
RecordUsageRefunds(r) ==
    CASE receipt[r] = "usage" ->
           ledger' = [ledger EXCEPT ![r].committed = @ + cost[r] - Hold,
                                    ![r].recorded = @ + cost[r]]
      [] receipt[r] = "none" ->
           ledger' = [ledger EXCEPT ![r].committed = @ - Hold]
      [] OTHER -> ledger' = [ledger EXCEPT ![r].blocked = TRUE]

\* record_usage (settle adds metadata only): no evidence, no refund; a receipt
\* that charge() rejects, or a response id seen before, blocks the budget.
RecordUsage(r) ==
    CASE receipt[r] = "usage" ->
           ledger' = [ledger EXCEPT ![r].committed = @ + cost[r] - Hold,
                                    ![r].recorded = @ + cost[r]]
      [] receipt[r] = "none" -> UNCHANGED ledger
      [] OTHER -> ledger' = [ledger EXCEPT ![r].blocked = TRUE]

\* The provider has charged c for run r's call.
Charged(r, c) == /\ spent' = [spent EXCEPT ![r] = @ + c]
                 /\ overran' = IF c > Hold THEN overran \cup {r} ELSE overran

-----------------------------------------------------------------------------
(* A model call.                                                            *)

Initialize(r) == /\ st[r] = "picked"
                 /\ Goes(r, "ready") /\ OpenLedger(r)
                 /\ UNCHANGED <<slots, access, open, cost, receipt, spent, overran,
                                events>>

\* model.start up to reserve: access, credentials (checked before and after),
\* audit.
Start(r) == /\ st[r] = "ready" /\ r \notin open
            /\ Authorized(r)
            /\ Goes(r, "asked")
            /\ UNCHANGED <<slots, access, open, money, events>>

Reserve(r) == /\ st[r] = "asked" /\ Reservable(r)
              /\ Goes(r, "held") /\ Reserved(r)
              /\ UNCHANGED <<slots, access, open, cost, receipt, spent, overran,
                             events>>

\* Mutant: the hold is taken to say that the run still has access.
MayPostOnHold(r) == TRUE

\* The last check before the request.
MayPost(r) == Authorized(r)
Clear(r) == /\ st[r] = "held" /\ MayPost(r)
            /\ Goes(r, "clear")
            /\ UNCHANGED <<slots, access, open, money, events>>

\* The request: a stream, or a refusal for the account's rate limit.  (Every
\* other answer, and an answer that never comes, ends the run: End.)
Post(r) == /\ st[r] = "clear"
           /\ \/ /\ Goes(r, "ready") /\ open' = open \cup {r}
                 /\ \E c \in Costs : Charged(r, c) /\ cost' = [cost EXCEPT ![r] = c]
                 /\ UNCHANGED events
              \/ /\ Event
                 /\ Goes(r, "limited")
                 /\ UNCHANGED <<open, cost, spent, overran>>
           /\ cleared' = cleared \ {r}
           /\ UNCHANGED <<slots, cool, disabled, cancelled, ledger, receipt>>

\* on_rate_limit; the refused call fails, and with it the run.
ReportRateLimit(r) ==
    /\ st[r] = "limited"
    /\ IF acct[r] \notin disabled
       THEN cool' = cool \cup {acct[r]} /\ Withdrawn(Users(acct[r]))
       ELSE UNCHANGED <<cool, cleared>>
    /\ Goes(r, "closing")
    /\ UNCHANGED <<slots, disabled, cancelled, open, money, events>>

\* model.read at the end of the stream, and model.close.  The usage is there or
\* not; charge() accepts it within the hold, or rejects it: beyond the ceilings,
\* of another model, or with counts that make no sense.  It is that of another
\* call when the provider repeats an id.
Receipts(r) == {"none", "rejected"} \cup (IF cost[r] <= Hold THEN {"usage"} ELSE {})
                 \cup (IF ledger[r].recorded > 0 THEN {"repeated"} ELSE {})

StreamEnds(r) == /\ st[r] = "ready" /\ r \in open /\ Authorized(r)
                 /\ \E e \in Receipts(r) : receipt' = [receipt EXCEPT ![r] = e]
                 /\ open' = open \ {r}
                 /\ Goes(r, "done")
                 /\ UNCHANGED <<slots, access, ledger, cost, spent, overran, events>>

\* A blocked budget is an error, and ends the run.
Record(r) == /\ st[r] = "done" /\ RecordUsage(r)
             /\ Goes(r, IF receipt[r] \in {"usage", "none"} THEN "ready" ELSE "closing")
             /\ receipt' = [receipt EXCEPT ![r] = "none"]
             /\ cost' = [cost EXCEPT ![r] = 0]
             /\ UNCHANGED <<slots, access, open, spent, overran, events>>

-----------------------------------------------------------------------------
(* The end of a run.                                                        *)

\* What a call cut short may have done: the write or the request it waited
\* for was carried out, or not.
CutShort(r) ==
    /\ \/ UNCHANGED <<ledger, spent, overran>>
       \/ /\ st[r] = "picked" /\ OpenLedger(r) /\ UNCHANGED <<spent, overran>>
       \/ /\ st[r] = "asked" /\ Reservable(r) /\ Reserved(r)
          /\ UNCHANGED <<spent, overran>>
       \/ /\ st[r] = "clear" /\ UNCHANGED ledger
          /\ \E c \in Costs : Charged(r, c)
       \/ /\ st[r] = "done" /\ RecordUsage(r) /\ UNCHANGED <<spent, overran>>
    /\ cost' = [cost EXCEPT ![r] = 0]
    /\ receipt' = [receipt EXCEPT ![r] = "none"]
    /\ cleared' = cleared \ {r}

\* Completed, cancelled, past its deadline, denied, disconnected: the producer
\* is cancelled and awaited.  A failing read closes the stream; one that was
\* not being read stays open until relay.close.
End(r) == /\ st[r] \in Working \ {"limited"}
          /\ Goes(r, "closing")
          /\ CutShort(r)
          /\ open' \in {open, open \ {r}}
          /\ UNCHANGED <<slots, cool, disabled, cancelled, events>>

\* Cancelled while it reports the rate limit.
EndLimited(r) == /\ st[r] = "limited"
                 /\ Goes(r, "closing")
                 /\ UNCHANGED <<slots, access, open, money, events>>

\* Mutant: the exit stack lets go of the account first.
ExitStepFirstRelease(r) ==
    \/ /\ st[r] = "closing" /\ Goes(r, "releasing")
       /\ leases' = [leases EXCEPT ![acct[r]] = @ \ {r}]
       /\ UNCHANGED <<open, ledger, events>>
    \/ /\ st[r] = "releasing" /\ Goes(r, "over")
       /\ open' = open \ {r} /\ UNCHANGED <<leases, ledger, events>>

\* The exit stack, last in first out; a step that fails does not stop those
\* after it.
ExitStep(r) ==
    \/ /\ st[r] = "closing" /\ Goes(r, "stopping")
       /\ open' = open \ {r} /\ UNCHANGED <<leases, ledger, events>>
    \/ /\ st[r] = "stopping" /\ Goes(r, "releasing")
       /\ \/ ledger' = [ledger EXCEPT ![r].active = FALSE] /\ UNCHANGED events
          \/ Event /\ UNCHANGED ledger
       /\ UNCHANGED <<open, leases>>
    \/ /\ st[r] = "releasing" /\ Goes(r, "over")
       /\ \/ leases' = [leases EXCEPT ![acct[r]] = @ \ {r}] /\ UNCHANGED events
          \/ Event /\ UNCHANGED leases
       /\ UNCHANGED <<open, ledger>>
Exit(r) == /\ ExitStep(r)
           /\ UNCHANGED <<acct, seen, lapsed, access, cost, receipt, spent, overran>>

\* The backend process dies: its sockets close, the database keeps the rest.
Crash(r) == /\ Event /\ st[r] \notin Ended
            /\ Goes(r, "crashed")
            /\ CutShort(r)
            /\ open' = open \ {r}
            /\ UNCHANGED <<slots, cool, disabled, cancelled>>

-----------------------------------------------------------------------------
Select == \E r \in Runs : Acquire(r) \/ SelectFails(r)
                            \/ \E a \in Accounts : Consider(r, a)
Call == \E r \in Runs : \/ Initialize(r) \/ Start(r) \/ Reserve(r) \/ Clear(r)
                        \/ Post(r) \/ ReportRateLimit(r) \/ StreamEnds(r) \/ Record(r)
Finish == \E r \in Runs : End(r) \/ EndLimited(r) \/ Exit(r) \/ Lapse(r)
Outside == \/ \E a \in Accounts : Disable(a) \/ CoolsDown(a)
           \/ \E r \in Runs : Cancel(r) \/ Crash(r)

Next == Select \/ Call \/ Finish \/ Outside

Spec == Init /\ [][Next]_vars

-----------------------------------------------------------------------------
\* What a run has cost is covered by what its ledger committed, and what the
\* ledger calls recorded was really used, whatever was cut short, lost or
\* reported twice, as long as no provider charged more than a call's hold
\* (ModelBudget: "unknown outcomes retain their holds").
SpendIsCovered == \A r \in Runs :
    /\ r \notin overran => spent[r] <= ledger[r].committed
    /\ ledger[r].recorded <= spent[r]

\* A run that works with an account, or still has a stream on it, holds one of
\* the account's slots; only an overlong clean-up may outlast its lease
\* (run.py: "close transport/relay before freeing capacity").
SlotCoversUse ==
    /\ \A a \in Accounts : Cardinality(leases[a]) <= Capacity
    /\ \A r \in Runs : st[r] \in Working \/ r \in open =>
                         r \in leases[acct[r]] \cup lapsed

\* Once a run is cancelled or its account disabled or cooled down, it opens no
\* more streams, but for a request that had passed its last check of what was
\* withdrawn by then (ModelRelay: access is checked again after every await that
\* could lose it).  A request refused for the rate limit opens none.
WithdrawnPostsNothing ==
    [][\A r \in Runs : (r \in open' \ open) =>
          \/ r \notin cancelled /\ Usable(acct[r])
          \/ r \in cleared]_vars
=============================================================================
