---------------------- MODULE IsolatedRunsProofs ----------------------
(* What holds of isolated runs for any number of runs and accounts, any     *)
(* capacity, budget, hold and prices.                                       *)
EXTENDS IsolatedRuns, FiniteSetTheorems, TLAPS

\* A hold that the current call has taken and that is not settled yet.
InCall(r) == \/ st[r] \in {"held", "clear", "limited", "done"}
             \/ st[r] = "ready" /\ r \in open
Due(r) == IF InCall(r) THEN Hold ELSE 0

\* The ledger of one run, between its calls and within one.
MoneyOf(r) ==
    /\ ledger[r].committed <= Budget
    /\ ledger[r].recorded + Due(r) <= ledger[r].committed
    /\ ledger[r].recorded + cost[r] <= spent[r]
    /\ r \notin overran => /\ cost[r] <= Hold
                           /\ spent[r] - cost[r] + Due(r) <= ledger[r].committed
    /\ cost[r] # 0 => InCall(r) /\ st[r] \in {"ready", "done"}
    /\ receipt[r] = "usage" => cost[r] <= Hold
    /\ receipt[r] # "none" => st[r] = "done"
    /\ st[r] \in Selecting \cup {"picked"} => spent[r] = 0

\* The slot of one run, and the answer it had when it was about to post.
SlotOf(r) ==
    /\ st[r] # "new" /\ st[r] \notin Ended => acct[r] \in Accounts
    /\ st[r] \in Working => r \in leases[acct[r]]
    /\ r \in open => /\ st[r] \in {"ready", "closing"}
                     /\ r \in leases[acct[r]] \cup lapsed
    /\ st[r] \in {"stopping", "releasing"} => r \notin open
    /\ st[r] = "clear" => \/ r \notin cancelled /\ Usable(acct[r])
                          \/ r \in cleared

Slots == \A a \in Accounts : /\ IsFiniteSet(leases[a])
                             /\ Cardinality(leases[a]) <= Capacity

Ledgers == [active : BOOLEAN, blocked : BOOLEAN, committed : Nat, recorded : Nat,
            calls : 0..MaxCalls]

\* The state without bounds on the numbers: those are MoneyOf.
Shape == /\ st \in [Runs -> Selecting \cup Working \cup Closing \cup Ended]
         /\ acct \in [Runs -> Accounts \cup {None}]
         /\ seen \in [Runs -> SUBSET Accounts]
         /\ leases \in [Accounts -> SUBSET Runs]
         /\ cool \subseteq Accounts /\ disabled \subseteq Accounts
         /\ lapsed \subseteq Runs /\ cancelled \subseteq Runs
         /\ open \subseteq Runs /\ overran \subseteq Runs
         /\ cleared \subseteq Runs
         /\ ledger \in [Runs -> Ledgers]
         /\ cost \in [Runs -> Nat] /\ spent \in [Runs -> Nat]
         /\ receipt \in [Runs -> Evidence]
         /\ events \in 0..MaxEvents

IInv == Shape /\ Slots /\ \A r \in Runs : MoneyOf(r) /\ SlotOf(r)

-----------------------------------------------------------------------------
USE BudgetAssumption, AccountsAssumption DEF BudgetAssumption, AccountsAssumption

\* A ledger whose run has no call any more.
Settled(l, paid, over) == /\ l \in Ledgers
                          /\ l.committed <= Budget /\ l.recorded <= l.committed
                          /\ l.recorded <= paid
                          /\ ~over => paid <= l.committed

\* What a run's ledger is when it opens.
LEMMA Opened ==
    LET l == [NoLedger EXCEPT !.active = TRUE]
    IN  l \in Ledgers /\ l.committed = 0 /\ l.recorded = 0
<1>1. NoLedger \in Ledgers /\ NoLedger.committed = 0 /\ NoLedger.recorded = 0
  BY DEF NoLedger, Ledgers
<1> QED
  BY <1>1 DEF Ledgers

\* What closing and reserving leave of a ledger's shape.
LEMMA LedgerWrites ==
    ASSUME NEW l \in Ledgers
    PROVE  /\ [l EXCEPT !.active = FALSE] \in Ledgers
           /\ l.calls < MaxCalls =>
              [l EXCEPT !.committed = @ + Hold, !.calls = @ + 1] \in Ledgers
<1>1. [l EXCEPT !.active = FALSE] \in Ledgers
  BY DEF Ledgers
<1>2. ASSUME l.calls < MaxCalls
      PROVE  [l EXCEPT !.committed = @ + Hold, !.calls = @ + 1] \in Ledgers
  <2>1. l.committed + Hold \in Nat /\ l.calls + 1 \in 0..MaxCalls
    BY <1>2 DEF Ledgers
  <2> QED
    BY <2>1 DEF Ledgers
<1> QED
  BY <1>1, <1>2

\* Recording the evidence of a call settles it.
LEMMA RecordUsageEffect ==
    ASSUME Shape, NEW r \in Runs, MoneyOf(r), st[r] = "done", RecordUsage(r)
    PROVE  \E l : Settled(l, spent[r], r \in overran) /\ ledger' = [ledger EXCEPT ![r] = l]
<1>0. /\ ledger[r] \in Ledgers /\ ledger \in [Runs -> Ledgers]
      /\ cost[r] \in Nat /\ spent[r] \in Nat
      /\ ledger[r].committed \in Nat /\ ledger[r].recorded \in Nat
      /\ ledger[r].committed <= Budget
      /\ ledger[r].recorded + Hold <= ledger[r].committed
      /\ ledger[r].recorded + cost[r] <= spent[r]
      /\ r \notin overran => spent[r] - cost[r] + Hold <= ledger[r].committed
      /\ r \notin overran => cost[r] <= Hold
      /\ receipt[r] = "usage" => cost[r] <= Hold
  BY DEF Shape, MoneyOf, Due, InCall, Ledgers
<1>1. CASE receipt[r] = "usage"
  <2> DEFINE l == [ledger[r] EXCEPT !.committed = @ + cost[r] - Hold,
                                    !.recorded = @ + cost[r]]
  <2>1. ledger' = [ledger EXCEPT ![r] = l]
    BY <1>1 DEF RecordUsage
  <2>2. /\ l.committed = ledger[r].committed + cost[r] - Hold
        /\ l.recorded = ledger[r].recorded + cost[r]
    BY <1>0 DEF Ledgers
  <2>3. l.committed \in Nat /\ l.recorded \in Nat
    BY <1>0, <2>2
  <2>4. l \in Ledgers
    BY <1>0, <2>3 DEF Ledgers
  <2>5. Settled(l, spent[r], r \in overran)
    BY <1>0, <1>1, <2>2, <2>4 DEF Settled
  <2> QED
    BY <2>1, <2>5
<1>2. CASE receipt[r] = "none"
  <2>1. ledger' = [ledger EXCEPT ![r] = ledger[r]]
    BY <1>0, <1>2 DEF RecordUsage
  <2>2. Settled(ledger[r], spent[r], r \in overran)
    BY <1>0 DEF Settled
  <2> QED
    BY <2>1, <2>2
<1>3. CASE receipt[r] \notin {"usage", "none"}
  <2> DEFINE l == [ledger[r] EXCEPT !.blocked = TRUE]
  <2>1. ledger' = [ledger EXCEPT ![r] = l]
    BY <1>3 DEF RecordUsage
  <2>2. l \in Ledgers /\ l.committed = ledger[r].committed /\ l.recorded = ledger[r].recorded
    BY <1>0 DEF Ledgers
  <2>3. Settled(l, spent[r], r \in overran)
    BY <1>0, <2>2 DEF Settled
  <2> QED
    BY <2>1, <2>3
<1> QED
  BY <1>1, <1>2, <1>3

\* Whatever a call cut short has done, its hold covers it.
LEMMA CutShortEffect ==
    ASSUME Shape, NEW r \in Runs, MoneyOf(r), CutShort(r)
    PROVE  /\ \E l : /\ Settled(l, spent'[r], r \in overran')
                     /\ ledger' = [ledger EXCEPT ![r] = l]
           /\ spent' \in [Runs -> Nat]
           /\ spent' = [spent EXCEPT ![r] = spent'[r]]
           /\ overran' \subseteq Runs /\ overran' \ {r} = overran \ {r}
           /\ overran \subseteq overran'
           /\ cost' = [cost EXCEPT ![r] = 0]
           /\ receipt' = [receipt EXCEPT ![r] = "none"]
           /\ cleared' \subseteq Runs
<1> USE DEF Shape, MoneyOf, Due, InCall, Ledgers, Settled, Selecting
<1> DEFINE Goal(l) == Settled(l, spent'[r], r \in overran') /\ ledger' = [ledger EXCEPT ![r] = l]
<1>1. \E l : Goal(l)
  <2>1. CASE UNCHANGED <<ledger, spent, overran>>
    <3>1. Goal(ledger[r])
      BY <2>1
    <3> QED
      BY <3>1
  <2>2. CASE st[r] = "picked" /\ OpenLedger(r) /\ UNCHANGED <<spent, overran>>
    <3>1. Goal([NoLedger EXCEPT !.active = TRUE])
      BY <2>2, Opened DEF OpenLedger
    <3> QED
      BY <3>1
  <2>3. CASE st[r] = "asked" /\ Reservable(r) /\ Reserved(r) /\ UNCHANGED <<spent, overran>>
    <3> DEFINE l == [ledger[r] EXCEPT !.committed = @ + Hold, !.calls = @ + 1]
    <3>1. ledger' = [ledger EXCEPT ![r] = l]
      BY <2>3 DEF Reserved
    <3>0. ledger[r] \in Ledgers /\ ledger[r].calls < MaxCalls
      BY <2>3 DEF Reservable
    <3>2. /\ l.committed = ledger[r].committed + Hold
          /\ l.recorded = ledger[r].recorded
          /\ l \in Ledgers
      BY <3>0, LedgerWrites
    <3>3. l.committed <= Budget
      BY <2>3, <3>2 DEF Reservable
    <3>4. Settled(l, spent'[r], r \in overran')
      BY <2>3, <3>2, <3>3
    <3> QED
      BY <3>1, <3>4
  <2>4. CASE st[r] = "clear" /\ UNCHANGED ledger /\ \E c \in Costs : Charged(r, c)
    <3>1. PICK c \in Costs : Charged(r, c)
      BY <2>4
    <3>2. c \in Nat /\ spent'[r] = spent[r] + c
      BY <3>1 DEF Charged
    <3>3. r \notin overran' => c <= Hold /\ r \notin overran
      BY <3>1 DEF Charged
    <3>4. cost[r] = 0 /\ Due(r) = Hold
      BY <2>4
    <3>5. Settled(ledger[r], spent'[r], r \in overran')
      BY <2>4, <3>2, <3>3, <3>4
    <3>6. ledger' = [ledger EXCEPT ![r] = ledger[r]]
      BY <2>4
    <3> QED
      BY <3>5, <3>6
  <2>5. CASE st[r] = "done" /\ RecordUsage(r) /\ UNCHANGED <<spent, overran>>
    BY <2>5, RecordUsageEffect
  <2> QED
    BY <2>1, <2>2, <2>3, <2>4, <2>5 DEF CutShort
<1>2. /\ spent' \in [Runs -> Nat]
      /\ spent' = [spent EXCEPT ![r] = spent'[r]]
      /\ overran' \subseteq Runs /\ overran' \ {r} = overran \ {r}
      /\ overran \subseteq overran'
  BY DEF CutShort, Charged
<1> QED
  BY <1>1, <1>2 DEF CutShort

\* Every step keeps the shape of the state.
LEMMA ShapeStep ==
    ASSUME Shape, \A r \in Runs : MoneyOf(r) /\ SlotOf(r), [Next]_vars PROVE Shape'
<1> USE DEF Shape, Selecting, Working, Calling, Closing, Ended, Evidence
<1>1. ASSUME NEW r \in Runs, Acquire(r) PROVE Shape'
  <2>1. acct[r] \in Accounts
    BY <1>1 DEF Acquire, SlotOf
  <2> QED
    BY <1>1, <2>1 DEF Acquire, slots, access, money, Goes, Event
<1>2. ASSUME NEW r \in Runs, SelectFails(r) PROVE Shape'
  BY <1>2 DEF SelectFails, slots, access, money, Goes
<1>3. ASSUME NEW r \in Runs, Initialize(r) PROVE Shape'
  <2>1. [NoLedger EXCEPT !.active = TRUE] \in Ledgers
    BY Opened
  <2>2. ledger' \in [Runs -> Ledgers]
    BY <1>3, <2>1 DEF Initialize, OpenLedger
  <2> QED
    BY <1>3, <2>2 DEF Initialize, slots, access, Goes
<1>4. ASSUME NEW r \in Runs, Start(r) PROVE Shape'
  BY <1>4 DEF Start, slots, access, money, Goes
<1>5. ASSUME NEW r \in Runs, Reserve(r) PROVE Shape'
  BY <1>5 DEF Reserve, Reserved, Reservable, slots, access, money, Goes, Ledgers
<1>6. ASSUME NEW r \in Runs, Clear(r) PROVE Shape'
  BY <1>6 DEF Clear, slots, access, money, Goes
<1>7. ASSUME NEW r \in Runs, Post(r) PROVE Shape'
  <2>1. spent' \in [Runs -> Nat] /\ cost' \in [Runs -> Nat] /\ overran' \subseteq Runs
    BY <1>7 DEF Post, Charged
  <2>2. st' \in [Runs -> Selecting \cup Working \cup Closing \cup Ended]
    BY <1>7 DEF Post, Goes
  <2>3. open' \subseteq Runs /\ events' \in 0..MaxEvents
    BY <1>7 DEF Post, Event
  <2> QED
    BY <1>7, <2>1, <2>2, <2>3 DEF Post, slots
<1>8. ASSUME NEW r \in Runs, ReportRateLimit(r) PROVE Shape'
  <2>1. acct[r] \in Accounts
    BY <1>8 DEF ReportRateLimit, SlotOf
  <2> QED
    BY <1>8, <2>1 DEF ReportRateLimit, Withdrawn, slots, access, money, Goes, Users
<1>9. ASSUME NEW r \in Runs, StreamEnds(r) PROVE Shape'
  BY <1>9 DEF StreamEnds, Receipts, slots, access, money, Goes
<1>10. ASSUME NEW r \in Runs, Record(r) PROVE Shape'
  BY <1>10, RecordUsageEffect DEF Record, Settled, slots, access, money, Goes
<1>11. ASSUME NEW r \in Runs, End(r) PROVE Shape'
  BY <1>11, CutShortEffect DEF End, Settled, slots, access, money, Goes
<1>12. ASSUME NEW r \in Runs, EndLimited(r) PROVE Shape'
  BY <1>12 DEF EndLimited, slots, access, money, Goes
<1>13. ASSUME NEW r \in Runs, Exit(r) PROVE Shape'
  <2>1. st' \in [Runs -> Selecting \cup Working \cup Closing \cup Ended]
    BY <1>13 DEF Exit, ExitStep, Goes
  <2>2. leases' \in [Accounts -> SUBSET Runs]
    BY <1>13 DEF Exit, ExitStep
  <2>3. ledger' \in [Runs -> Ledgers]
    <3>1. [ledger[r] EXCEPT !.active = FALSE] \in Ledgers
      BY LedgerWrites
    <3>2. \/ UNCHANGED ledger
          \/ ledger' = [ledger EXCEPT ![r] = [ledger[r] EXCEPT !.active = FALSE]]
      BY <1>13 DEF Exit, ExitStep
    <3> QED
      BY <3>1, <3>2
  <2>4. open' \subseteq Runs /\ events' \in 0..MaxEvents
    BY <1>13 DEF Exit, ExitStep, Event
  <2> QED
    BY <1>13, <2>1, <2>2, <2>3, <2>4 DEF Exit, access
<1>14. ASSUME NEW r \in Runs, Lapse(r) PROVE Shape'
  BY <1>14 DEF Lapse, slots, access, money
<1>15. ASSUME NEW r \in Runs, Cancel(r) PROVE Shape'
  BY <1>15 DEF Cancel, Withdrawn, slots, access, money, Event
<1>16. ASSUME NEW r \in Runs, Crash(r) PROVE Shape'
  BY <1>16, CutShortEffect DEF Crash, Settled, slots, access, money, Goes, Event
<1>17. ASSUME NEW r \in Runs, NEW a \in Accounts, Consider(r, a) PROVE Shape'
  <2>1. CASE Usable(a)
    BY <1>17, <2>1 DEF Consider, slots, access, money, Goes
  <2>2. CASE ~Usable(a)
    BY <1>17, <2>2 DEF Consider, slots, access, money, Goes
  <2> QED
    BY <2>1, <2>2
<1>18. ASSUME NEW a \in Accounts, Disable(a) PROVE Shape'
  BY <1>18 DEF Disable, Withdrawn, slots, access, money, Event, Users
<1>19. ASSUME NEW a \in Accounts, CoolsDown(a) PROVE Shape'
  BY <1>19 DEF CoolsDown, slots, access, money
<1>20. CASE UNCHANGED vars
  BY <1>20 DEF vars, slots, access, money
<1> QED
  BY <1>1, <1>2, <1>3, <1>4, <1>5, <1>6, <1>7, <1>8, <1>9, <1>10, <1>11, <1>12, <1>13, <1>14, <1>15, <1>16, <1>17, <1>18, <1>19, <1>20 DEF Next, Select, Call, Finish, Outside

\* Every step keeps every run's money: the run's own steps by the lemmas above,
\* another run's because they do not touch it.
LEMMA MoneyStep ==
    ASSUME Shape, \A r \in Runs : MoneyOf(r) /\ SlotOf(r), [Next]_vars, NEW q \in Runs
    PROVE  MoneyOf(q)'
<1> USE DEF Shape, MoneyOf, Due, InCall, Ledgers, Settled, Selecting, Working, Calling, Closing, Ended, Evidence
<1>1. ASSUME NEW r \in Runs, Acquire(r) PROVE MoneyOf(q)'
  <2>1. st[r] = "picking" /\ \E s \in {"picked", "over", "new"} : Goes(r, s)
    BY <1>1 DEF Acquire
  <2>2. UNCHANGED <<open, ledger, cost, receipt, spent, overran>>
    BY <1>1 DEF Acquire, money
  <2> QED
    BY <2>1, <2>2 DEF Goes
<1>2. ASSUME NEW r \in Runs, SelectFails(r) PROVE MoneyOf(q)'
  BY <1>2 DEF SelectFails, slots, access, money, Goes
<1>3. ASSUME NEW r \in Runs, Initialize(r) PROVE MoneyOf(q)'
  <2>1. /\ st[r] = "picked" /\ Goes(r, "ready")
        /\ UNCHANGED <<open, cost, receipt, spent, overran>>
    BY <1>3 DEF Initialize
  <2>2. CASE q = r
    <3>1. ledger'[r].committed = 0 /\ ledger'[r].recorded = 0
      BY <1>3 DEF Initialize, OpenLedger, NoLedger
    <3>2. spent[r] = 0 /\ cost[r] = 0 /\ receipt[r] = "none"
      BY <2>1
    <3>3. r \notin open
      BY <2>1 DEF SlotOf
    <3> QED
      BY <2>1, <2>2, <3>1, <3>2, <3>3 DEF Goes
  <2>3. CASE q # r
    <3>1. ledger'[q] = ledger[q]
      BY <1>3, <2>3 DEF Initialize, OpenLedger
    <3> QED
      BY <2>1, <2>3, <3>1 DEF Goes
  <2> QED
    BY <2>2, <2>3
<1>4. ASSUME NEW r \in Runs, Start(r) PROVE MoneyOf(q)'
  BY <1>4 DEF Start, slots, access, money, Goes
<1>5. ASSUME NEW r \in Runs, Reserve(r) PROVE MoneyOf(q)'
  BY <1>5 DEF Reserve, Reserved, Reservable, slots, access, money, Goes
<1>6. ASSUME NEW r \in Runs, Clear(r) PROVE MoneyOf(q)'
  BY <1>6 DEF Clear, slots, access, money, Goes
<1>7. ASSUME NEW r \in Runs, Post(r) PROVE MoneyOf(q)'
  BY <1>7 DEF Post, Charged, slots, access, money, Goes, Event
<1>8. ASSUME NEW r \in Runs, ReportRateLimit(r) PROVE MoneyOf(q)'
  BY <1>8 DEF ReportRateLimit, Withdrawn, slots, access, money, Goes
<1>9. ASSUME NEW r \in Runs, StreamEnds(r) PROVE MoneyOf(q)'
  BY <1>9 DEF StreamEnds, Receipts, slots, access, money, Goes
<1>10. ASSUME NEW r \in Runs, Record(r) PROVE MoneyOf(q)'
  <2>1. st[r] = "done" /\ RecordUsage(r)
    BY <1>10 DEF Record
  <2>2. PICK l : Settled(l, spent[r], r \in overran) /\ ledger' = [ledger EXCEPT ![r] = l]
    BY <2>1, RecordUsageEffect
  <2>3. /\ \E s \in {"ready", "closing"} : Goes(r, s)
        /\ receipt' = [receipt EXCEPT ![r] = "none"] /\ cost' = [cost EXCEPT ![r] = 0]
        /\ UNCHANGED <<open, spent, overran>>
    BY <1>10 DEF Record
  <2>4. r \notin open
    BY <2>1 DEF SlotOf
  <2>5. CASE q = r
    BY <2>1, <2>2, <2>3, <2>4, <2>5 DEF Goes
  <2>6. CASE q # r
    BY <2>1, <2>2, <2>3, <2>6 DEF Goes
  <2> QED
    BY <2>5, <2>6
<1>11. ASSUME NEW r \in Runs, End(r) PROVE MoneyOf(q)'
  BY <1>11, CutShortEffect DEF End, Goes
<1>12. ASSUME NEW r \in Runs, EndLimited(r) PROVE MoneyOf(q)'
  BY <1>12 DEF EndLimited, slots, access, money, Goes
<1>13. ASSUME NEW r \in Runs, Exit(r) PROVE MoneyOf(q)'
  <2>1. /\ ledger'[q].committed = ledger[q].committed
        /\ ledger'[q].recorded = ledger[q].recorded
    BY <1>13 DEF Exit, ExitStep, Ledgers
  <2>2. st[r] \in Closing /\ st' = [st EXCEPT ![r] = st'[r]] /\ st'[r] \in Closing \cup Ended
    BY <1>13 DEF Exit, ExitStep, Goes
  <2>3. open' \in {open, open \ {r}}
    BY <1>13 DEF Exit, ExitStep
  <2> QED
    BY <1>13, <2>1, <2>2, <2>3 DEF Exit
<1>14. ASSUME NEW r \in Runs, Lapse(r) PROVE MoneyOf(q)'
  BY <1>14 DEF Lapse, slots, access, money
<1>15. ASSUME NEW r \in Runs, Cancel(r) PROVE MoneyOf(q)'
  BY <1>15 DEF Cancel, Withdrawn, slots, access, money, Event
<1>16. ASSUME NEW r \in Runs, Crash(r) PROVE MoneyOf(q)'
  BY <1>16, CutShortEffect DEF Crash, Goes
<1>17. ASSUME NEW r \in Runs, NEW a \in Accounts, Consider(r, a) PROVE MoneyOf(q)'
  BY <1>17 DEF Consider, slots, access, money, Goes
<1>18. ASSUME NEW a \in Accounts, Disable(a) PROVE MoneyOf(q)'
  BY <1>18 DEF Disable, Withdrawn, slots, access, money, Event
<1>19. ASSUME NEW a \in Accounts, CoolsDown(a) PROVE MoneyOf(q)'
  BY <1>19 DEF CoolsDown, slots, access, money
<1>20. CASE UNCHANGED vars
  BY <1>20 DEF vars, slots, access, money
<1> QED
  BY <1>1, <1>2, <1>3, <1>4, <1>5, <1>6, <1>7, <1>8, <1>9, <1>10, <1>11, <1>12, <1>13, <1>14, <1>15, <1>16, <1>17, <1>18, <1>19, <1>20 DEF Next, Select, Call, Finish, Outside

\* Every step keeps every run's slot; access that goes clears those about to post.
LEMMA SlotStep ==
    ASSUME Shape, \A r \in Runs : SlotOf(r), [Next]_vars, NEW q \in Runs
    PROVE  SlotOf(q)'
<1> USE DEF Shape, SlotOf, Usable, Selecting, Working, Calling, Closing, Ended, Evidence
<1>1. ASSUME NEW r \in Runs, Acquire(r) PROVE SlotOf(q)'
  BY <1>1 DEF Acquire, slots, access, money, Goes, Event
<1>2. ASSUME NEW r \in Runs, SelectFails(r) PROVE SlotOf(q)'
  BY <1>2 DEF SelectFails, slots, access, money, Goes
<1>3. ASSUME NEW r \in Runs, Initialize(r) PROVE SlotOf(q)'
  BY <1>3 DEF Initialize, OpenLedger, NoLedger, slots, access, money, Goes
<1>4. ASSUME NEW r \in Runs, Start(r) PROVE SlotOf(q)'
  BY <1>4 DEF Start, slots, access, money, Goes
<1>5. ASSUME NEW r \in Runs, Reserve(r) PROVE SlotOf(q)'
  BY <1>5 DEF Reserve, Reserved, Reservable, slots, access, money, Goes
<1>6. ASSUME NEW r \in Runs, Clear(r) PROVE SlotOf(q)'
  BY <1>6 DEF Clear, slots, access, money, Goes, MayPost, Authorized
<1>7. ASSUME NEW r \in Runs, Post(r) PROVE SlotOf(q)'
  BY <1>7 DEF Post, Charged, slots, access, money, Goes, Event
<1>8. ASSUME NEW r \in Runs, ReportRateLimit(r) PROVE SlotOf(q)'
  BY <1>8 DEF ReportRateLimit, Withdrawn, slots, access, money, Goes, Users
<1>9. ASSUME NEW r \in Runs, StreamEnds(r) PROVE SlotOf(q)'
  BY <1>9 DEF StreamEnds, Receipts, slots, access, money, Goes
<1>10. ASSUME NEW r \in Runs, Record(r) PROVE SlotOf(q)'
  BY <1>10 DEF Record, RecordUsage, slots, access, money, Goes
<1>11. ASSUME NEW r \in Runs, End(r) PROVE SlotOf(q)'
  BY <1>11 DEF End, CutShort, slots, access, Goes, Event
<1>12. ASSUME NEW r \in Runs, EndLimited(r) PROVE SlotOf(q)'
  BY <1>12 DEF EndLimited, slots, access, money, Goes
<1>13. ASSUME NEW r \in Runs, Exit(r) PROVE SlotOf(q)'
  <2>1. CASE st[r] = "closing"
    BY <1>13, <2>1 DEF Exit, ExitStep, slots, access, money, Goes, Event
  <2>2. CASE st[r] = "stopping"
    BY <1>13, <2>2 DEF Exit, ExitStep, slots, access, money, Goes, Event
  <2>3. CASE st[r] = "releasing"
    BY <1>13, <2>3 DEF Exit, ExitStep, slots, access, money, Goes, Event
  <2> QED
    BY <1>13, <2>1, <2>2, <2>3 DEF Exit, ExitStep
<1>14. ASSUME NEW r \in Runs, Lapse(r) PROVE SlotOf(q)'
  BY <1>14 DEF Lapse, slots, access, money
<1>15. ASSUME NEW r \in Runs, Cancel(r) PROVE SlotOf(q)'
  BY <1>15 DEF Cancel, Withdrawn, slots, access, money, Event
<1>16. ASSUME NEW r \in Runs, Crash(r) PROVE SlotOf(q)'
  BY <1>16 DEF Crash, CutShort, slots, access, Goes, Event
<1>17. ASSUME NEW r \in Runs, NEW a \in Accounts, Consider(r, a) PROVE SlotOf(q)'
  BY <1>17 DEF Consider, slots, access, money, Goes
<1>18. ASSUME NEW a \in Accounts, Disable(a) PROVE SlotOf(q)'
  BY <1>18 DEF Disable, Withdrawn, slots, access, money, Event, Users
<1>19. ASSUME NEW a \in Accounts, CoolsDown(a) PROVE SlotOf(q)'
  BY <1>19 DEF CoolsDown, slots, access, money
<1>20. CASE UNCHANGED vars
  BY <1>20 DEF vars, slots, access, money
<1> QED
  BY <1>1, <1>2, <1>3, <1>4, <1>5, <1>6, <1>7, <1>8, <1>9, <1>10, <1>11, <1>12, <1>13, <1>14, <1>15, <1>16, <1>17, <1>18, <1>19, <1>20 DEF Next, Select, Call, Finish, Outside

\* Only select takes a slot, and only where there is room.
LEMMA SlotsStep ==
    ASSUME Shape, Slots, \A r \in Runs : SlotOf(r), [Next]_vars PROVE Slots'
<1> USE DEF Shape, Slots
<1>1. ASSUME NEW r \in Runs, Acquire(r) PROVE Slots'
  <2>1. acct[r] \in Accounts /\ leases[acct[r]] \subseteq Runs
    BY <1>1 DEF Acquire, SlotOf, Ended
  <2>2. CASE HasRoom(acct[r]) /\ acct[r] \notin cool
    <3>1. leases' = [leases EXCEPT ![acct[r]] = @ \cup {r}]
      BY <1>1, <2>2 DEF Acquire
    <3>2. /\ IsFiniteSet(leases[acct[r]] \cup {r})
          /\ Cardinality(leases[acct[r]] \cup {r}) <= Cardinality(leases[acct[r]]) + 1
      <4>1. IsFiniteSet(leases[acct[r]])
        BY <2>1
      <4>2. Cardinality(leases[acct[r]]) \in Nat
        BY ONLY <4>1, FS_CardinalityType
      <4>3. /\ IsFiniteSet(leases[acct[r]] \cup {r})
            /\ \/ Cardinality(leases[acct[r]] \cup {r}) = Cardinality(leases[acct[r]])
               \/ Cardinality(leases[acct[r]] \cup {r}) = Cardinality(leases[acct[r]]) + 1
        BY ONLY <4>1, FS_AddElement
      <4> QED
        BY ONLY <4>2, <4>3
    <3>3. Cardinality(leases[acct[r]] \cup {r}) <= Capacity
      BY <2>1, <2>2, <3>2, FS_CardinalityType DEF HasRoom
    <3> QED
      BY <2>1, <3>1, <3>2, <3>3
  <2>3. CASE ~(HasRoom(acct[r]) /\ acct[r] \notin cool)
    BY <1>1, <2>3 DEF Acquire
  <2> QED
    BY <2>2, <2>3
<1>2. ASSUME NEW r \in Runs, NEW a \in Accounts, leases' = [leases EXCEPT ![a] = @ \ {r}]
      PROVE  Slots'
  <2>1. /\ IsFiniteSet(leases[a] \ {r})
        /\ Cardinality(leases[a] \ {r}) <= Cardinality(leases[a])
    <3>1. IsFiniteSet(leases[a])
      OBVIOUS
    <3>2. Cardinality(leases[a]) \in Nat
      BY ONLY <3>1, FS_CardinalityType
    <3>3. /\ IsFiniteSet(leases[a] \ {r})
          /\ \/ Cardinality(leases[a] \ {r}) = Cardinality(leases[a])
             \/ Cardinality(leases[a] \ {r}) = Cardinality(leases[a]) - 1
      BY ONLY <3>1, FS_RemoveElement
    <3> QED
      BY ONLY <3>2, <3>3
  <2>2. Cardinality(leases[a] \ {r}) <= Capacity
    BY <2>1, FS_RemoveElement, FS_CardinalityType
  <2> QED
    BY <1>2, <2>1, <2>2
<1>3. ASSUME NEW r \in Runs, Lapse(r) PROVE Slots'
  BY <1>2, <1>3 DEF Lapse
<1>4. ASSUME NEW r \in Runs, Exit(r) PROVE Slots'
  <2>1. CASE UNCHANGED leases
    BY <2>1
  <2>2. CASE st[r] = "releasing" /\ leases' = [leases EXCEPT ![acct[r]] = @ \ {r}]
    <3>1. acct[r] \in Accounts
      BY <2>2 DEF SlotOf, Ended
    <3> QED
      BY <1>2, <2>2, <3>1
  <2> QED
    BY <1>4, <2>1, <2>2 DEF Exit, ExitStep
<1>5. CASE UNCHANGED leases
  BY <1>5
<1>6. \/ UNCHANGED leases
      \/ \E r \in Runs : Acquire(r) \/ Lapse(r) \/ Exit(r)
  BY DEF Next, Select, Call, Finish, Outside, vars, slots, SelectFails, Consider,
         Initialize, Start, Reserve, Clear, Post, ReportRateLimit, StreamEnds, Record,
         End, EndLimited, Cancel, Crash, Disable, CoolsDown
<1> QED
  BY <1>1, <1>3, <1>4, <1>5, <1>6

\* The inductive invariant holds at first ...
LEMMA IInvInit == Init => IInv
<1> SUFFICES ASSUME Init PROVE IInv
  OBVIOUS
<1>1. NoLedger \in Ledgers
  BY DEF NoLedger, Ledgers
<1>2. Shape
  BY <1>1 DEF Init, Shape, Selecting, Evidence
<1>3. Slots
  BY FS_EmptySet DEF Init, Slots
<1>4. ASSUME NEW r \in Runs PROVE MoneyOf(r) /\ SlotOf(r)
  BY DEF Init, MoneyOf, SlotOf, Due, InCall, NoLedger, Selecting, Working, Calling,
         Closing, Ended, Evidence
<1> QED
  BY <1>2, <1>3, <1>4 DEF IInv

\* ... and every step keeps it.
LEMMA IInvStep == IInv /\ [Next]_vars => IInv'
<1> SUFFICES ASSUME IInv, [Next]_vars PROVE IInv'
  OBVIOUS
<1>1. Shape'
  BY ShapeStep DEF IInv
<1>2. Slots'
  BY SlotsStep DEF IInv
<1>3. ASSUME NEW r \in Runs PROVE MoneyOf(r)' /\ SlotOf(r)'
  BY MoneyStep, SlotStep DEF IInv
<1> QED
  BY <1>1, <1>2, <1>3 DEF IInv

\* The inductive invariant: a run's money, a run's slot, the accounts' room.
THEOREM Invariance == Spec => []IInv
  BY IInvInit, IInvStep, PTL DEF Spec

-----------------------------------------------------------------------------
\* The type invariant, which says that no ledger commits more than the budget.
THEOREM Typing == Spec => []TypeOK
<1>1. IInv => TypeOK
  <2> SUFFICES ASSUME IInv PROVE TypeOK
    OBVIOUS
  <2>1. ASSUME NEW r \in Runs PROVE ledger[r] \in Ledger
    <3>1. ledger[r] \in Ledgers /\ ledger[r].committed <= Budget
      BY DEF IInv, Shape, MoneyOf
    <3> QED
      BY <3>1 DEF Ledgers, Ledger
  <2>2. ledger \in [Runs -> Ledger]
    BY <2>1 DEF IInv, Shape
  <2> QED
    BY <2>2 DEF IInv, Shape, TypeOK
<1> QED
  BY <1>1, Invariance, PTL

\* For any prices, budget and hold: what a run has cost stays within what its
\* ledger committed while no call cost more than its hold, and the ledger never
\* records what was not used.
THEOREM SpendCovered == Spec => []SpendIsCovered
<1>1. IInv => SpendIsCovered
  <2> SUFFICES ASSUME IInv, NEW r \in Runs
               PROVE  /\ r \notin overran => spent[r] <= ledger[r].committed
                      /\ ledger[r].recorded <= spent[r]
    BY DEF SpendIsCovered
  <2>1. /\ ledger[r].committed \in Nat /\ ledger[r].recorded \in Nat
        /\ cost[r] \in Nat /\ spent[r] \in Nat
    BY DEF IInv, Shape, Ledgers
  <2>2. MoneyOf(r)
    BY DEF IInv
  <2> QED
    BY <2>1, <2>2 DEF MoneyOf, Due
<1> QED
  BY <1>1, Invariance, PTL

\* For any number of runs and accounts: an account never has more leases than
\* slots, and whoever works with it or has a stream on it holds one.
THEOREM SlotsCoverUse == Spec => []SlotCoversUse
<1>1. IInv => SlotCoversUse
  BY DEF IInv, Slots, SlotOf, SlotCoversUse
<1> QED
  BY <1>1, Invariance, PTL

\* A run that lost its access posts nothing it had not been cleared for.
THEOREM WithdrawnPosts == Spec => WithdrawnPostsNothing
<1>1. ASSUME IInv, [Next]_vars, NEW r \in Runs, r \in open', r \notin open
      PROVE  (r \notin cancelled /\ Usable(acct[r])) \/ r \in cleared
  <2>1. PICK q \in Runs : Post(q) /\ open' \subseteq open \cup {q}
    BY <1>1 DEF Next, Select, Call, Finish, Outside, vars, slots, SelectFails, Consider,
         Initialize, Start, Reserve, Clear, Post, ReportRateLimit, StreamEnds, Record,
         End, EndLimited, Cancel, Crash, Disable, CoolsDown, Acquire, Lapse, Exit, ExitStep
  <2>2. q = r /\ st[r] = "clear"
    BY <1>1, <2>1 DEF Post
  <2> QED
    BY <1>1, <2>2 DEF IInv, SlotOf
<1>2. IInv /\ [Next]_vars => [\A r \in Runs : (r \in open' \ open) =>
          \/ r \notin cancelled /\ Usable(acct[r])
          \/ r \in cleared]_vars
  BY <1>1
<1> QED
  BY <1>2, Invariance, PTL DEF Spec, WithdrawnPostsNothing
=============================================================================
