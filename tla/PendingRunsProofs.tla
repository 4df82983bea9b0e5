---- MODULE PendingRunsProofs ----
(***************************************************************************)
(* Theorems about PendingRuns, for any messages and bounds.                *)
(***************************************************************************)
EXTENDS PendingRuns, TLAPS

USE KindsDisjoint, NamesDisjoint, BoundsAssumption
    DEF KindsDisjoint, NamesDisjoint, BoundsAssumption

Docs == [kind : Kinds, msgs : SUBSET Msgs, status : EntryStatuses]

(* A claimed entry belongs to the pass that claimed it or to one group; the
   group is named after one of its entries. *)
GroupInv ==
    /\ \A g \in Ids : /\ todo[g] \subseteq group[g]
                      /\ phase[g] = "idle" <=> group[g] = {}
                      /\ phase[g] # "idle" => g \in group[g]
                      /\ group[g] \cap disp.got = {}
                      /\ \A i \in group[g] : entry[i].status = "claimed"
    /\ \A g, h \in Ids : g # h => group[g] \cap group[h] = {}
    /\ \A i \in disp.got : entry[i].status = "claimed"
    /\ disp.at # "claiming" => disp.got = {}

(* The entries a group still has to run, and those that may still be run. *)
Left(g) == IF phase[g] \in {"running", "marking"} THEN todo[g] \ TurnOf(g) ELSE todo[g]
Pending(i) == \/ entry[i].status = "queued" \/ i \in disp.got
              \/ \E g \in Ids : i \in Left(g)

(* A message that may still run is in one place. *)
MsgInv ==
    /\ \A i, k \in Ids : Pending(i) /\ Pending(k) /\ i # k => entry[i].msgs \cap entry[k].msgs = {}
    /\ \A i \in Ids : Pending(i) => \A m \in entry[i].msgs : phase[m] \notin Undecided

IInv == TypeOK /\ GroupInv /\ MsgInv

----------------------------------------------------------------------------
(* The parts of TypeOK: the queue and the jobs, and the rest. *)

Passes == [at : {"idle", "checked", "claiming"}, left : SUBSET Ids, now : SUBSET Ids,
           got : SUBSET Ids]
Typed == /\ entry \in [Ids -> Docs] /\ phase \in [Jobs -> Phases]
         /\ todo \in [Ids -> SUBSET Ids] /\ group \in [Ids -> SUBSET Ids] /\ disp \in Passes
Others ==
    /\ status \in {"none", "running", "completed", "interrupted", "queued"}
    /\ up \in BOOLEAN /\ draining \in BOOLEAN
    /\ owner \in Jobs \cup {None}
    /\ stopReq \in {"none", "deleting", "marking"}
    /\ drains \in 0..MaxDrains /\ crashes \in 0..MaxCrashes /\ stops \in 0..MaxStops
    /\ told \subseteq Msgs /\ started \subseteq Msgs /\ refused \subseteq Msgs
    /\ dropped \subseteq Msgs /\ discarded \subseteq Msgs

LEMMA TypeOKParts == TypeOK <=> Typed /\ Others
<1> QED BY Zenon DEF TypeOK, Typed, Others, Docs, Passes

(* The messages that may still run, message by message. *)
OpenMsgs == {m \in Msgs : \/ phase[m] \in Undecided
                          \/ \E i \in Ids : Pending(i) /\ m \in entry[i].msgs}

LEMMA LeftTyped ==
    ASSUME Typed, NEW g \in Ids
    PROVE  /\ Left(g) \subseteq todo[g] /\ todo[g] \subseteq Ids
           /\ TurnOf(g) \subseteq todo[g]
<1>1. todo[g] \subseteq Ids
  BY DEF Typed
<1>2. TurnOf(g) \subseteq todo[g]
  BY DEF TurnOf
<1> QED BY <1>1, <1>2 DEF Left

LEMMA OpenIs == Typed => Open = OpenMsgs
<1> SUFFICES ASSUME Typed PROVE Open = OpenMsgs
  OBVIOUS
<1>1. \A S \in SUBSET Ids : \A m : m \in MsgsIn(S) <=> \E i \in S : m \in entry[i].msgs
  BY Zenon DEF MsgsIn
<1>2. Queued \subseteq Ids /\ disp.got \subseteq Ids /\ \A g \in Ids : Left(g) \subseteq Ids
  BY LeftTyped DEF Queued, Typed, Passes
<1>3. \A g \in Ids : WithGroup(g) = MsgsIn(Left(g))
  BY Zenon DEF WithGroup, Left
<1>4. ASSUME NEW m, m \in Open PROVE m \in OpenMsgs
  <2>1. CASE m \in WithHandler
    BY <2>1 DEF WithHandler, OpenMsgs
  <2>2. ASSUME NEW i \in Ids, Pending(i), m \in entry[i].msgs PROVE m \in OpenMsgs
    <3>1. m \in Msgs
      BY <2>2 DEF Typed, Docs
    <3> QED BY <2>2, <3>1 DEF OpenMsgs
  <2>3. CASE m \in MsgsIn(Queued)
    <3>1. PICK i \in Queued : m \in entry[i].msgs
      BY <1>1, <1>2, <2>3
    <3> QED BY <2>2, <3>1 DEF Queued, Pending
  <2>4. CASE m \in MsgsIn(disp.got)
    <3>1. PICK i \in disp.got : m \in entry[i].msgs
      BY <1>1, <1>2, <2>4
    <3> QED BY <1>2, <2>2, <3>1 DEF Pending
  <2>5. ASSUME NEW g \in Ids, m \in WithGroup(g) PROVE m \in OpenMsgs
    <3>1. PICK i \in Left(g) : m \in entry[i].msgs
      BY <1>1, <1>2, <1>3, <2>5
    <3> QED BY <1>2, <2>2, <3>1 DEF Pending
  <2> QED BY <1>4, <2>1, <2>3, <2>4, <2>5, Zenon DEF Open
<1>5. ASSUME NEW m, m \in OpenMsgs PROVE m \in Open
  <2>1. CASE m \in Msgs /\ phase[m] \in Undecided
    BY <2>1 DEF WithHandler, Open
  <2>2. ASSUME NEW i \in Ids, Pending(i), m \in entry[i].msgs PROVE m \in Open
    <3>1. CASE entry[i].status = "queued"
      <4>1. i \in Queued
        BY <3>1 DEF Queued
      <4>2. m \in MsgsIn(Queued)
        BY <1>1, <1>2, <2>2, <4>1
      <4> QED BY <4>2 DEF Open
    <3>2. CASE i \in disp.got
      <4>1. m \in MsgsIn(disp.got)
        BY <1>1, <1>2, <2>2, <3>2
      <4> QED BY <4>1 DEF Open
    <3>3. ASSUME NEW g \in Ids, i \in Left(g) PROVE m \in Open
      <4>1. m \in WithGroup(g)
        BY <1>1, <1>2, <1>3, <2>2, <3>3
      <4> QED BY <4>1 DEF Open
    <3> QED BY <2>2, <3>1, <3>2, <3>3, Zenon DEF Pending
  <2> QED BY <1>5, <2>1, <2>2, Zenon DEF OpenMsgs
<1> QED BY <1>4, <1>5, Zenon

----------------------------------------------------------------------------
(* What a step does to the messages. *)

Shrinks == \A i \in Ids : Pending(i)' => Pending(i) /\ entry'[i].msgs = entry[i].msgs
Closes == \A m \in Msgs : phase'[m] \in Undecided => phase[m] \in Undecided

(* Failed entries are left alone; every message that may still run may do so
   after the step, or has been decided. *)
Decided(m) == \/ m \in started \/ m \in refused \/ m \in dropped \/ m \in discarded
              \/ \E i \in Ids : entry[i].status = "failed" /\ m \in entry[i].msgs
Settles ==
    /\ \A i \in Ids : entry[i].status = "failed" => entry'[i] = entry[i]
    /\ started \subseteq started' /\ refused \subseteq refused' /\ dropped \subseteq dropped'
    /\ discarded \subseteq discarded'
    /\ \A m \in OpenMsgs : m \in OpenMsgs' \/ Decided(m)'
    /\ told' \subseteq told \cup OpenMsgs'

Begins(S) == /\ S \subseteq OpenMsgs /\ started' = started \cup S
             /\ OpenMsgs' \subseteq OpenMsgs \ S

Kept == /\ Typed' /\ GroupInv' /\ MsgInv'
        /\ OpenMsgs' \subseteq OpenMsgs
        /\ started' = started \/ \E S : Begins(S)
        /\ up' => Settles

LEMMA ShrinksMsgs ==
    ASSUME Typed, MsgInv, Shrinks, Closes
    PROVE  MsgInv' /\ OpenMsgs' \subseteq OpenMsgs
<1>1. MsgInv'
  <2>1. \A i, k \in Ids : Pending(i)' /\ Pending(k)' /\ i # k
                            => entry'[i].msgs \cap entry'[k].msgs = {}
    BY Zenon DEF MsgInv, Shrinks
  <2>2. ASSUME NEW i \in Ids, Pending(i)', NEW m \in entry'[i].msgs
        PROVE  phase'[m] \notin Undecided
    <3>1. Pending(i) /\ m \in entry[i].msgs
      BY <2>2, Zenon DEF Shrinks
    <3>2. m \in Msgs
      BY <3>1 DEF Typed, Docs
    <3> QED BY <3>1, <3>2, Zenon DEF MsgInv, Closes
  <2> QED BY <2>1, <2>2, Zenon DEF MsgInv
<1>2. OpenMsgs' \subseteq OpenMsgs
  <2> SUFFICES ASSUME NEW m \in OpenMsgs' PROVE m \in OpenMsgs
    OBVIOUS
  <2>1. m \in Msgs /\ (phase'[m] \in Undecided \/ \E i \in Ids : Pending(i)' /\ m \in entry'[i].msgs)
    BY DEF OpenMsgs
  <2>2. phase[m] \in Undecided \/ \E i \in Ids : Pending(i) /\ m \in entry[i].msgs
    BY <2>1, Zenon DEF Shrinks, Closes
  <2> QED BY <2>1, <2>2, Zenon DEF OpenMsgs
<1> QED BY <1>1, <1>2

LEMMA TurnSame ==
    ASSUME NEW g \in Ids, todo'[g] = todo[g], entry'[g].kind = entry[g].kind
    PROVE  TurnOf(g)' = TurnOf(g)
<1>1. SlackJob(g)' <=> SlackJob(g)
  BY Zenon DEF SlackJob, KindOf
<1>2. g \notin Msgs
  OBVIOUS
<1> QED BY <1>1, <1>2, Zenon DEF TurnOf

LEMMA LeftSame ==
    ASSUME NEW g \in Ids, todo'[g] = todo[g], entry'[g].kind = entry[g].kind,
           \/ phase'[g] = phase[g]
           \/ {phase'[g], phase[g]} \cap {"running", "marking"} = {}
    PROVE  Left(g)' = Left(g)
<1>1. TurnOf(g)' = TurnOf(g)
  BY TurnSame
<1>2. phase'[g] \in {"running", "marking"} <=> phase[g] \in {"running", "marking"}
  OBVIOUS
<1> QED BY <1>1, <1>2, Zenon DEF Left

----------------------------------------------------------------------------
(* Steps that change where a job is, and nothing about entries. *)

EntriesKept == entry' = entry /\ todo' = todo /\ group' = group /\ disp' = disp
HistoryKept == /\ told' = told /\ started' = started /\ refused' = refused
               /\ dropped' = dropped /\ discarded' = discarded

(* A job goes from one place before its turn starts to another. *)
LEMMA WaitingSteps ==
    ASSUME Typed, GroupInv, MsgInv, NEW j \in Jobs, NEW p \in Undecided \ {"idle"}, Enter(j, p),
           phase[j] \in Undecided \cup {"turn"}, phase[j] = "idle" => j \in Msgs,
           phase[j] = "turn" => j \in Ids, EntriesKept, HistoryKept
    PROVE  Kept
<1>1. /\ phase' \in [Jobs -> Phases] /\ phase'[j] = p
      /\ \A k \in Jobs \ {j} : phase'[k] = phase[k]
  BY DEF Typed, Enter, Phases, Undecided
<1>2. Typed'
  BY <1>1, Zenon DEF Typed, EntriesKept
<1>3. GroupInv'
  <2>1. \A g \in Ids : (phase'[g] = "idle" <=> phase[g] = "idle")
    BY <1>1 DEF Undecided, Jobs
  <2> QED BY <2>1, Zenon DEF GroupInv, EntriesKept
<1>4. \A g \in Ids : Left(g)' = Left(g)
  <2> SUFFICES ASSUME NEW g \in Ids PROVE Left(g)' = Left(g)
    OBVIOUS
  <2>1. \/ phase'[g] = phase[g]
        \/ {phase'[g], phase[g]} \cap {"running", "marking"} = {}
    BY <1>1 DEF Undecided, Jobs
  <2> QED BY <2>1, LeftSame, Zenon DEF EntriesKept
<1>5. \A i \in Ids : Pending(i)' <=> Pending(i)
  BY <1>4, Zenon DEF Pending, EntriesKept
<1>6. Shrinks
  BY <1>5, Zenon DEF Shrinks, EntriesKept
<1>7. \A m \in Msgs : phase'[m] \in Undecided <=> phase[m] \in Undecided
  BY <1>1 DEF Undecided, Jobs
<1>8. MsgInv' /\ OpenMsgs' \subseteq OpenMsgs
  BY <1>6, <1>7, ShrinksMsgs, Zenon DEF Closes
<1>9. OpenMsgs \subseteq OpenMsgs'
  BY <1>5, <1>7, Zenon DEF OpenMsgs, EntriesKept
<1>10. Settles
  BY <1>9, Zenon DEF Settles, EntriesKept, HistoryKept
<1> QED BY <1>2, <1>3, <1>8, <1>10, Zenon DEF Kept, HistoryKept

(* The turn of a job starts. *)
LEMMA StartSteps ==
    ASSUME Typed, GroupInv, MsgInv, NEW j \in Jobs, TurnStarts(j),
           phase[j] \in {"starting", "entering", "waiting"}, entry' = entry, disp' = disp
    PROVE  Kept
<1>1. /\ phase' \in [Jobs -> Phases] /\ phase'[j] = "running"
      /\ \A k \in Jobs \ {j} : phase'[k] = phase[k]
  BY DEF Typed, TurnStarts, Enter, Phases
<1>2. /\ EntriesKept /\ started' = started \cup TurnMsgs(j)
      /\ told' = told /\ refused' = refused /\ dropped' = dropped /\ discarded' = discarded
  BY Zenon DEF TurnStarts, EntriesKept
<1>3. Typed'
  BY <1>1, <1>2, Zenon DEF Typed, EntriesKept
<1>4. GroupInv'
  <2>1. \A g \in Ids : (phase'[g] = "idle" <=> phase[g] = "idle")
    BY <1>1 DEF Jobs
  <2> QED BY <1>2, <2>1, Zenon DEF GroupInv, EntriesKept
<1>5. \A g \in Ids \ {j} : Left(g)' = Left(g)
  BY <1>1, <1>2, LeftSame, Zenon DEF EntriesKept, Jobs
<1>6. j \in Ids => /\ Left(j)' = todo[j] \ TurnOf(j) /\ Left(j) = todo[j]
                   /\ TurnMsgs(j) = MsgsIn(TurnOf(j)) /\ TurnOf(j) \subseteq todo[j]
                   /\ todo[j] \subseteq Ids
  <2> SUFFICES ASSUME j \in Ids
               PROVE  /\ Left(j)' = todo[j] \ TurnOf(j) /\ Left(j) = todo[j]
                      /\ TurnMsgs(j) = MsgsIn(TurnOf(j)) /\ TurnOf(j) \subseteq todo[j]
                      /\ todo[j] \subseteq Ids
    OBVIOUS
  <2>1. TurnOf(j)' = TurnOf(j)
    BY <1>2, TurnSame, Zenon DEF EntriesKept
  <2>2. Left(j)' = todo[j] \ TurnOf(j)
    BY <1>1, <1>2, <2>1 DEF Left, EntriesKept
  <2>3. Left(j) = todo[j]
    BY DEF Left
  <2>4. j \notin Msgs
    OBVIOUS
  <2> QED BY <2>2, <2>3, <2>4, LeftTyped, Zenon DEF TurnMsgs
<1>7. \A i \in Ids : Pending(i)' => Pending(i)
  BY <1>2, <1>5, <1>6 DEF Pending, EntriesKept
<1>8. Shrinks
  BY <1>2, <1>7, Zenon DEF Shrinks, EntriesKept
<1>9. Closes
  BY <1>1 DEF Closes, Undecided, Jobs
<1>10. MsgInv' /\ OpenMsgs' \subseteq OpenMsgs
  BY <1>8, <1>9, ShrinksMsgs
<1>11. CASE j \in Msgs
  <2>1. TurnMsgs(j) = {j} /\ j \notin Ids
    BY <1>11 DEF TurnMsgs
  <2>2. j \in OpenMsgs
    BY <1>11 DEF OpenMsgs, Undecided
  <2>3. j \notin OpenMsgs'
    <3>1. phase'[j] \notin Undecided
      BY <1>1 DEF Undecided
    <3>2. \A i \in Ids : Pending(i)' => j \notin entry'[i].msgs
      <4>1. phase[j] \in Undecided
        BY DEF Undecided
      <4> QED BY <4>1, <1>8, Zenon DEF MsgInv, Shrinks
    <3> QED BY <3>1, <3>2, Zenon DEF OpenMsgs
  <2>4. Begins({j})
    BY <1>2, <1>10, <2>1, <2>2, <2>3 DEF Begins
  <2>5. \A m \in OpenMsgs : m # j => m \in OpenMsgs'
    <3>1. \A m \in Msgs : m # j => phase'[m] = phase[m]
      BY <1>1 DEF Jobs
    <3>2. \A i \in Ids : Pending(i) => Pending(i)'
      BY <1>2, <1>5, <2>1, Zenon DEF Pending, EntriesKept
    <3> QED BY <1>2, <3>1, <3>2, Zenon DEF OpenMsgs, EntriesKept
  <2>6. Settles
    BY <1>2, <2>1, <2>5 DEF Settles, Decided, EntriesKept
  <2> QED BY <1>3, <1>4, <1>10, <2>4, <2>6, Zenon DEF Kept
<1>12. CASE j \in Ids
  <2> DEFINE T == TurnOf(j)
  <2>1. T \subseteq todo[j] /\ todo[j] \subseteq Ids /\ Left(j)' = todo[j] \ T /\ Left(j) = todo[j]
        /\ TurnMsgs(j) = MsgsIn(T)
    BY <1>6, <1>12, Zenon
  <2>2. \A m : m \in MsgsIn(T) <=> \E i \in T : m \in entry[i].msgs
    BY Zenon DEF MsgsIn
  <2>3. \A i \in T : Pending(i) /\ i \in Ids
    BY <1>12, <2>1, Zenon DEF Pending
  <2>4. \A i \in Ids : Pending(i)' => i \notin T
    <3> SUFFICES ASSUME NEW i \in Ids, Pending(i)', i \in T PROVE FALSE
      OBVIOUS
    <3>1. i \in group[j] /\ entry[i].status = "claimed" /\ i \notin disp.got
          /\ \A g \in Ids \ {j} : i \notin group[g]
      BY <1>12, <2>1 DEF GroupInv
    <3>2. \A g \in Ids \ {j} : i \notin Left(g)'
      BY <1>5, <3>1, LeftTyped DEF GroupInv
    <3> QED BY <1>2, <1>12, <2>1, <3>1, <3>2 DEF Pending, EntriesKept
  <2> HIDE DEF T
  <2>5. MsgsIn(T) \subseteq OpenMsgs
    <3> SUFFICES ASSUME NEW m \in MsgsIn(T) PROVE m \in OpenMsgs
      OBVIOUS
    <3>1. PICK i \in T : m \in entry[i].msgs
      BY <2>2
    <3>2. m \in Msgs
      BY <2>3, <3>1 DEF Typed, Docs
    <3> QED BY <2>3, <3>1, <3>2, Zenon DEF OpenMsgs
  <2>6. MsgsIn(T) \cap OpenMsgs' = {}
    <3> SUFFICES ASSUME NEW m \in MsgsIn(T) PROVE m \notin OpenMsgs'
      OBVIOUS
    <3>1. PICK i \in T : m \in entry[i].msgs
      BY <2>2
    <3>2. phase[m] \notin Undecided /\ m \in Msgs
      BY <2>3, <2>5, <3>1, Zenon DEF MsgInv, OpenMsgs
    <3>3. phase'[m] \notin Undecided
      BY <1>9, <3>2 DEF Closes
    <3>4. \A k \in Ids : Pending(k)' => m \notin entry'[k].msgs
      <4> SUFFICES ASSUME NEW k \in Ids, Pending(k)' PROVE m \notin entry'[k].msgs
        OBVIOUS
      <4>1. Pending(k) /\ entry'[k].msgs = entry[k].msgs /\ k # i /\ Pending(i) /\ i \in Ids
        BY <1>8, <2>3, <2>4, <3>1 DEF Shrinks
      <4>2. entry[i].msgs \cap entry[k].msgs = {}
        BY <4>1, Zenon DEF MsgInv
      <4> QED BY <3>1, <4>1, <4>2
    <3> QED BY <3>3, <3>4, Zenon DEF OpenMsgs
  <2>7. Begins(MsgsIn(T))
    BY <1>2, <1>10, <2>1, <2>5, <2>6 DEF Begins
  <2>8. \A m \in OpenMsgs : m \notin MsgsIn(T) => m \in OpenMsgs'
    <3>1. \A m \in Msgs : phase'[m] = phase[m]
      BY <1>1, <1>12 DEF Jobs
    <3>2. \A i \in Ids : Pending(i) /\ i \notin T => Pending(i)'
      <4> SUFFICES ASSUME NEW i \in Ids, Pending(i), i \notin T PROVE Pending(i)'
        OBVIOUS
      <4>1. \A g \in Ids : i \in Left(g) => i \in Left(g)'
        BY <1>5, <2>1
      <4> QED BY <1>2, <4>1, Zenon DEF Pending, EntriesKept
    <3> QED BY <1>2, <2>2, <3>1, <3>2, Zenon DEF OpenMsgs, EntriesKept
  <2>9. Settles
    BY <1>2, <2>1, <2>8 DEF Settles, Decided, EntriesKept
  <2> QED BY <1>3, <1>4, <1>10, <2>7, <2>9, Zenon DEF Kept
<1> QED BY <1>11, <1>12 DEF Jobs

----------------------------------------------------------------------------
(* The end of a turn. *)

LEMMA TurnEndMoves ==
    ASSUME Typed, GroupInv, NEW j \in Jobs, TurnEnds(j), phase[j] # "idle",
           \A g \in Ids : entry'[g].kind = entry[g].kind
    PROVE  /\ phase' \in [Jobs -> Phases] /\ todo' \in [Ids -> SUBSET Ids] /\ group' = group
           /\ \A k \in Jobs \ {j} : phase'[k] = phase[k]
           /\ phase'[j] = IF j \in Msgs THEN "done" ELSE "turn"
           /\ \A g \in Ids : /\ todo'[g] \subseteq todo[g]
                             /\ phase'[g] = "idle" <=> phase[g] = "idle"
           /\ \A g \in Ids \ {j} : Left(g)' = Left(g)
           /\ j \in Ids => Left(j)' = todo[j] \ TurnOf(j)
           /\ Closes
<1>1. /\ phase' \in [Jobs -> Phases]
      /\ \A k \in Jobs \ {j} : phase'[k] = phase[k]
      /\ phase'[j] = IF j \in Msgs THEN "done" ELSE "turn"
  BY DEF Typed, TurnEnds, Enter, Phases
<1>2. CASE j \in Msgs
  <2>1. todo' = todo /\ group' = group
    BY <1>2, Zenon DEF TurnEnds
  <2>2. todo' \in [Ids -> SUBSET Ids]
    BY <2>1 DEF Typed
  <2>3. \A g \in Ids : phase'[g] = phase[g] /\ g # j
    BY <1>1, <1>2 DEF Jobs
  <2>4. \A g \in Ids : Left(g)' = Left(g)
    BY <2>1, <2>3, LeftSame, Zenon
  <2>5. j \notin Ids
    BY <1>2
  <2> QED BY <1>1, <2>1, <2>2, <2>3, <2>4, <2>5 DEF Closes, Undecided, Jobs
<1>3. CASE j \in Ids
  <2>0. j \notin Msgs
    BY <1>3
  <2>1. todo' = [todo EXCEPT ![j] = todo[j] \ TurnOf(j)] /\ group' = group
    BY <2>0, Zenon DEF TurnEnds
  <2>2. /\ todo' \in [Ids -> SUBSET Ids] /\ todo'[j] = todo[j] \ TurnOf(j)
        /\ \A g \in Ids \ {j} : todo'[g] = todo[g]
    BY <1>3, <2>1, LeftTyped DEF Typed
  <2>3. \A g \in Ids \ {j} : Left(g)' = Left(g)
    BY <1>1, <2>2, LeftSame, Zenon DEF Jobs
  <2>4. Left(j)' = todo[j] \ TurnOf(j)
    BY <1>1, <2>0, <2>2 DEF Left
  <2>5. Closes
    BY <1>1, <1>3 DEF Closes, Undecided, Jobs
  <2>6. \A g \in Ids : /\ todo'[g] \subseteq todo[g]
                       /\ phase'[g] = "idle" <=> phase[g] = "idle"
    BY <1>1, <2>0, <2>2 DEF Jobs
  <2> QED BY <1>1, <2>1, <2>2, <2>3, <2>4, <2>5, <2>6, Zenon
<1> QED BY <1>2, <1>3 DEF Jobs

(* A run is over, or a run that was saved again has marked its conversation. *)
LEMMA EndSteps ==
    ASSUME Typed, GroupInv, MsgInv, NEW j \in Jobs, TurnEnds(j),
           phase[j] \in {"running", "marking"}, entry' = entry, disp' = disp, HistoryKept
    PROVE  Kept
<1>1. /\ phase' \in [Jobs -> Phases] /\ todo' \in [Ids -> SUBSET Ids] /\ group' = group
      /\ \A k \in Jobs \ {j} : phase'[k] = phase[k]
      /\ phase'[j] = IF j \in Msgs THEN "done" ELSE "turn"
      /\ \A g \in Ids : /\ todo'[g] \subseteq todo[g]
                        /\ phase'[g] = "idle" <=> phase[g] = "idle"
      /\ \A g \in Ids \ {j} : Left(g)' = Left(g)
      /\ j \in Ids => Left(j)' = todo[j] \ TurnOf(j)
      /\ Closes
  BY TurnEndMoves
<1>2. Typed'
  BY <1>1, Zenon DEF Typed
<1>3. GroupInv'
  BY <1>1 DEF GroupInv
<1>4. \A g \in Ids : Left(g)' = Left(g)
  BY <1>1 DEF Left
<1>5. \A i \in Ids : Pending(i)' <=> Pending(i)
  BY <1>4, Zenon DEF Pending
<1>6. Shrinks
  BY <1>5, Zenon DEF Shrinks
<1>7. MsgInv' /\ OpenMsgs' \subseteq OpenMsgs
  BY <1>1, <1>6, ShrinksMsgs
<1>8. \A m \in Msgs : phase[m] \in Undecided => phase'[m] \in Undecided
  BY <1>1 DEF Undecided, Jobs
<1>9. OpenMsgs \subseteq OpenMsgs'
  BY <1>5, <1>8, Zenon DEF OpenMsgs
<1>10. Settles
  BY <1>9, Zenon DEF Settles, HistoryKept
<1> QED BY <1>2, <1>3, <1>7, <1>10, Zenon DEF Kept, HistoryKept

(* The turn is given up, and its messages are answered with DRAIN_MESSAGE or
   discarded. *)
LEMMA RefusedSteps ==
    ASSUME Typed, GroupInv, MsgInv, NEW j \in Jobs, TurnEnds(j),
           phase[j] \in {"queueing", "recording"}, entry' = entry, disp' = disp,
           \/ refused' = refused \cup TurnMsgs(j) /\ discarded' = discarded
           \/ discarded' = discarded \cup TurnMsgs(j) /\ refused' = refused,
           told' = told, started' = started, dropped' = dropped
    PROVE  Kept
<1>1. /\ phase' \in [Jobs -> Phases] /\ todo' \in [Ids -> SUBSET Ids] /\ group' = group
      /\ \A k \in Jobs \ {j} : phase'[k] = phase[k]
      /\ phase'[j] = IF j \in Msgs THEN "done" ELSE "turn"
      /\ \A g \in Ids : /\ todo'[g] \subseteq todo[g]
                        /\ phase'[g] = "idle" <=> phase[g] = "idle"
      /\ \A g \in Ids \ {j} : Left(g)' = Left(g)
      /\ j \in Ids => Left(j)' = todo[j] \ TurnOf(j)
      /\ Closes
  BY TurnEndMoves
<1>2. Typed'
  BY <1>1, Zenon DEF Typed
<1>3. GroupInv'
  BY <1>1 DEF GroupInv
<1>4. j \in Ids => Left(j) = todo[j]
  BY DEF Left
<1>5. \A i \in Ids : Pending(i)' => Pending(i)
  BY <1>1, <1>4 DEF Pending
<1>6. Shrinks
  BY <1>5, Zenon DEF Shrinks
<1>7. MsgInv' /\ OpenMsgs' \subseteq OpenMsgs
  BY <1>1, <1>6, ShrinksMsgs
<1>8. \A m \in OpenMsgs : m \in OpenMsgs' \/ m \in refused' \/ m \in discarded'
  <2> SUFFICES ASSUME NEW m \in OpenMsgs, m \notin TurnMsgs(j) PROVE m \in OpenMsgs'
    OBVIOUS
  <2>1. CASE phase[m] \in Undecided
    <3>1. m # j
      BY DEF TurnMsgs, OpenMsgs
    <3> QED BY <1>1, <2>1, <3>1 DEF OpenMsgs, Jobs
  <2>2. ASSUME NEW i \in Ids, Pending(i), m \in entry[i].msgs PROVE m \in OpenMsgs'
    <3>1. j \in Ids => i \notin TurnOf(j)
      BY <2>2, Zenon DEF TurnMsgs, MsgsIn
    <3>2. \A g \in Ids : i \in Left(g) => i \in Left(g)'
      BY <1>1, <1>4, <3>1
    <3>3. Pending(i)'
      BY <2>2, <3>2, Zenon DEF Pending
    <3> QED BY <2>2, <3>3, Zenon DEF OpenMsgs
  <2> QED BY <2>1, <2>2, Zenon DEF OpenMsgs
<1>9. Settles
  BY <1>8, Zenon DEF Settles, Decided
<1> QED BY <1>2, <1>3, <1>7, <1>9, Zenon DEF Kept

----------------------------------------------------------------------------
(* The turn is saved as a new entry. *)

LEMMA KindsTyped ==
    ASSUME Typed, NEW j \in Jobs
    PROVE  NewEntryKind(j) \in Kinds
<1>1. KindOf(j) \in Kinds
  BY DEF KindOf, Kinds, Typed, Docs, Jobs, Msgs
<1> QED BY <1>1 DEF NewEntryKind, Kinds

LEMMA TurnTyped ==
    ASSUME Typed, NEW j \in Jobs
    PROVE  TurnMsgs(j) \subseteq Msgs
<1>1. CASE j \in Msgs
  BY <1>1 DEF TurnMsgs
<1>2. CASE j \in Ids
  <2>1. j \notin Msgs /\ \A i \in TurnOf(j) : entry[i].msgs \subseteq Msgs
    BY <1>2, LeftTyped DEF Typed, Docs
  <2> QED BY <2>1 DEF TurnMsgs, MsgsIn
<1> QED BY <1>1, <1>2 DEF Jobs

LEMMA EnqueueSteps ==
    ASSUME Typed, GroupInv, MsgInv, NEW j \in Jobs, Enqueue(j)
    PROVE  Kept
<1> DEFINE Turn == TurnMsgs(j)
<1>1. PICK i \in Ids :
        /\ entry[i].status = "free"
        /\ entry' = [entry EXCEPT ![i] = [kind |-> NewEntryKind(j), msgs |-> Turn,
                                          status |-> "queued"]]
  BY Zenon DEF Enqueue, Oldest
<1>2. /\ phase[j] = "queueing" /\ told' = told \cup Turn /\ disp' = disp
      /\ started' = started /\ refused' = refused /\ dropped' = dropped /\ discarded' = discarded
  BY Zenon DEF Enqueue, At
<1>3. Turn \subseteq Msgs /\ NewEntryKind(j) \in Kinds
  BY TurnTyped, KindsTyped
<1>4. j \in Ids => j \in group[j] /\ entry[j].status = "claimed" /\ i # j
  BY <1>1, <1>2 DEF GroupInv
<1>5. /\ entry' \in [Ids -> Docs] /\ entry'[i].msgs = Turn /\ entry'[i].status = "queued"
      /\ \A k \in Ids \ {i} : entry'[k] = entry[k]
  <2> HIDE DEF Turn
  <2> QED BY <1>1, <1>3 DEF Typed, Docs, EntryStatuses
<1> HIDE DEF Turn
(* The new entry was nowhere. *)
<1>6. ~Pending(i) /\ \A g \in Ids : i \notin group[g] /\ i \notin todo[g]
  <2>1. i \notin disp.got /\ \A g \in Ids : i \notin group[g] /\ i \notin todo[g]
    BY <1>1 DEF GroupInv
  <2> QED BY <1>1, <2>1, LeftTyped DEF Pending
<1>7. /\ phase' \in [Jobs -> Phases] /\ todo' \in [Ids -> SUBSET Ids] /\ group' = group
      /\ \A k \in Jobs \ {j} : phase'[k] = phase[k]
      /\ phase'[j] \in {"done", "marking", "turn"}
      /\ \A g \in Ids : /\ todo'[g] \subseteq todo[g]
                        /\ phase'[g] = "idle" <=> phase[g] = "idle"
      /\ \A g \in Ids \ {i, j} : Left(g)' = Left(g)
      /\ i # j => Left(i)' = {}
      /\ j \in Ids => Left(j)' = todo[j] \ TurnOf(j)
  <2>1. phase[i] = "idle" /\ todo[i] = {}
    BY <1>1 DEF GroupInv
  <2>2. CASE HeadlessJob(j)
    <3>1. /\ phase' = [phase EXCEPT ![j] = "marking"] /\ todo' = todo /\ group' = group
      BY <2>2, Zenon DEF Enqueue, Enter
    <3>2. /\ phase' \in [Jobs -> Phases] /\ phase'[j] = "marking"
          /\ \A k \in Jobs \ {j} : phase'[k] = phase[k]
      BY <3>1 DEF Typed, Phases
    <3>3. \A g \in Ids \ {i, j} : Left(g)' = Left(g)
      BY <1>5, <3>1, <3>2, LeftSame, Zenon DEF Jobs
    <3>4. i # j => Left(i)' = {}
      BY <2>1, <3>1, TurnSame DEF Left
    <3>5. j \in Ids => Left(j)' = todo[j] \ TurnOf(j)
      <4> SUFFICES ASSUME j \in Ids PROVE Left(j)' = todo[j] \ TurnOf(j)
        OBVIOUS
      <4>1. TurnOf(j)' = TurnOf(j)
        BY <1>4, <1>5, <3>1, TurnSame
      <4> QED BY <3>1, <3>2, <4>1 DEF Left
    <3>6. todo' \in [Ids -> SUBSET Ids]
      BY <3>1 DEF Typed
    <3>7. \A g \in Ids : /\ todo'[g] \subseteq todo[g]
                         /\ phase'[g] = "idle" <=> phase[g] = "idle"
      BY <1>2, <3>1, <3>2 DEF Jobs
    <3> QED BY <3>1, <3>2, <3>3, <3>4, <3>5, <3>6, <3>7
  <2>3. CASE ~HeadlessJob(j)
    <3>1. TurnEnds(j)
      BY <2>3, Zenon DEF Enqueue
    <3>2. /\ phase' = [phase EXCEPT ![j] = IF j \in Msgs THEN "done" ELSE "turn"]
          /\ todo' = IF j \in Msgs THEN todo ELSE [todo EXCEPT ![j] = todo[j] \ TurnOf(j)]
          /\ group' = group
      BY <3>1, Zenon DEF TurnEnds, Enter
    <3>3. /\ phase' \in [Jobs -> Phases] /\ phase'[j] = IF j \in Msgs THEN "done" ELSE "turn"
          /\ \A k \in Jobs \ {j} : phase'[k] = phase[k]
      BY <3>2 DEF Typed, Phases
    <3>4. /\ todo' \in [Ids -> SUBSET Ids]
          /\ \A g \in Ids : todo'[g] = IF g = j THEN todo[j] \ TurnOf(j) ELSE todo[g]
      <4>1. CASE j \in Msgs
        BY <3>2, <4>1 DEF Typed
      <4>2. CASE j \in Ids
        BY <3>2, <4>2, LeftTyped DEF Typed
      <4> QED BY <4>1, <4>2 DEF Jobs
    <3>5. \A g \in Ids \ {i, j} : Left(g)' = Left(g)
      BY <1>5, <3>3, <3>4, LeftSame, Zenon DEF Jobs
    <3>6. i # j => Left(i)' = {}
      BY <2>1, <3>4, TurnSame DEF Left
    <3>7. j \in Ids => Left(j)' = todo[j] \ TurnOf(j)
      BY <3>3, <3>4 DEF Left
    <3>8. \A g \in Ids : /\ todo'[g] \subseteq todo[g]
                         /\ phase'[g] = "idle" <=> phase[g] = "idle"
      BY <1>2, <3>3, <3>4 DEF Jobs
    <3>9. phase'[j] \in {"done", "marking", "turn"}
      BY <3>3
    <3> QED BY <3>2, <3>3, <3>4, <3>5, <3>6, <3>7, <3>8, <3>9
  <2> QED BY <2>2, <2>3
<1>8. Typed'
  BY <1>2, <1>5, <1>7, Zenon DEF Typed
<1>9. GroupInv'
  <2>1. \A g \in Ids : \A k \in group[g] : entry'[k].status = "claimed"
    BY <1>5, <1>6 DEF GroupInv, Typed
  <2>2. \A k \in disp.got : entry'[k].status = "claimed"
    BY <1>1, <1>5 DEF GroupInv, Typed, Passes
  <2> QED BY <1>2, <1>7, <2>1, <2>2 DEF GroupInv
<1>10. j \in Ids => Left(j) = todo[j] /\ TurnOf(j) \subseteq todo[j] /\ Turn = MsgsIn(TurnOf(j))
  BY <1>2, LeftTyped DEF Left, TurnMsgs, Turn
(* What was pending is, but for the entries of the turn. *)
<1>11. \A k \in Ids \ {i} : /\ Pending(k)' => Pending(k)
                            /\ Pending(k)' /\ j \in Ids => k \notin TurnOf(j)
                            /\ Pending(k) => Pending(k)' \/ (j \in Ids /\ k \in TurnOf(j))
  <2> SUFFICES ASSUME NEW k \in Ids, k # i
               PROVE  /\ Pending(k)' => Pending(k)
                      /\ Pending(k)' /\ j \in Ids => k \notin TurnOf(j)
                      /\ Pending(k) => Pending(k)' \/ (j \in Ids /\ k \in TurnOf(j))
    OBVIOUS
  <2>1. entry'[k] = entry[k] /\ disp' = disp
    BY <1>2, <1>5
  <2>2. \A g \in Ids \ {j} : k \in Left(g)' <=> k \in Left(g)
    <3>1. Left(i) = {}
      BY <1>6, LeftTyped DEF GroupInv, Left
    <3> QED BY <1>7, <3>1
  <2>3. j \in Ids => (k \in Left(j)' <=> k \in Left(j) /\ k \notin TurnOf(j))
    BY <1>7, <1>10
  <2>4. j \in Ids /\ k \in TurnOf(j) => /\ entry[k].status = "claimed" /\ k \notin disp.got
                                        /\ \A g \in Ids \ {j} : k \notin Left(g)
    BY <1>10, LeftTyped DEF GroupInv
  <2>5. Pending(k)' => Pending(k)
    BY <2>1, <2>2, <2>3, Zenon DEF Pending
  <2>6. Pending(k)' /\ j \in Ids => k \notin TurnOf(j)
    BY <2>1, <2>2, <2>3, <2>4 DEF Pending
  <2>7. Pending(k) => Pending(k)' \/ (j \in Ids /\ k \in TurnOf(j))
    BY <2>1, <2>2, <2>3, Zenon DEF Pending
  <2> QED BY <2>5, <2>6, <2>7
<1>12. Closes
  BY <1>2, <1>7 DEF Closes, Undecided, Jobs
(* The turn's messages were with the job, and are with nobody else now. *)
<1>13. ASSUME NEW m \in Turn
       PROVE  /\ m \in Msgs /\ m \in OpenMsgs /\ phase'[m] \notin Undecided
              /\ \A k \in Ids \ {i} : Pending(k)' => m \notin entry'[k].msgs
  <2>1. CASE j \in Msgs
    <3>1. m = j /\ phase[j] \in Undecided
      BY <1>2, <2>1 DEF Turn, TurnMsgs, Undecided
    <3>2. m \in OpenMsgs
      BY <2>1, <3>1 DEF OpenMsgs
    <3>3. phase'[m] \notin Undecided
      BY <1>7, <3>1 DEF Undecided
    <3>4. \A k \in Ids : Pending(k) => m \notin entry[k].msgs
      BY <3>1, Zenon DEF MsgInv
    <3> QED BY <1>3, <1>5, <1>11, <3>2, <3>3, <3>4
  <2>2. CASE j \in Ids
    <3>1. PICK t \in TurnOf(j) : m \in entry[t].msgs
      BY <1>10, <2>2 DEF MsgsIn
    <3>2. t \in Ids /\ Pending(t) /\ t # i
      BY <1>6, <1>10, <2>2, <3>1, LeftTyped DEF Pending
    <3>3. m \in OpenMsgs /\ phase[m] \notin Undecided
      BY <1>3, <3>1, <3>2, Zenon DEF OpenMsgs, MsgInv
    <3>4. phase'[m] \notin Undecided
      BY <1>3, <1>12, <3>3 DEF Closes
    <3>5. \A k \in Ids \ {i} : Pending(k)' => m \notin entry'[k].msgs
      <4> SUFFICES ASSUME NEW k \in Ids, k # i, Pending(k)' PROVE m \notin entry'[k].msgs
        OBVIOUS
      <4>1. Pending(k) /\ k # t /\ entry'[k] = entry[k]
        BY <1>5, <1>11, <2>2, <3>1
      <4>2. entry[t].msgs \cap entry[k].msgs = {}
        BY <3>2, <4>1, Zenon DEF MsgInv
      <4> QED BY <3>1, <4>1, <4>2
    <3> QED BY <1>3, <3>3, <3>4, <3>5
  <2> QED BY <2>1, <2>2 DEF Jobs
<1>14. MsgInv'
  <2>1. \A k, l \in Ids : Pending(k)' /\ Pending(l)' /\ k # l
                              => entry'[k].msgs \cap entry'[l].msgs = {}
    <3> SUFFICES ASSUME NEW k \in Ids, NEW l \in Ids, Pending(k)', Pending(l)', k # l, k # i
                 PROVE  entry'[k].msgs \cap entry'[l].msgs = {}
      OBVIOUS
    <3>1. CASE l = i
      BY <1>5, <1>13, <3>1
    <3>2. CASE l # i
      BY <1>5, <1>11, <3>2 DEF MsgInv
    <3> QED BY <3>1, <3>2
  <2>2. ASSUME NEW k \in Ids, Pending(k)', NEW m \in entry'[k].msgs
        PROVE  phase'[m] \notin Undecided
    <3>1. CASE k = i
      BY <1>5, <1>13, <2>2, <3>1
    <3>2. CASE k # i
      <4>1. Pending(k) /\ m \in entry[k].msgs /\ m \in Msgs
        BY <1>5, <1>11, <2>2, <3>2 DEF Typed, Docs
      <4>2. phase[m] \notin Undecided
        BY <4>1, Zenon DEF MsgInv
      <4> QED BY <1>12, <4>1, <4>2 DEF Closes
    <3> QED BY <3>1, <3>2
  <2> QED BY <2>1, <2>2, Zenon DEF MsgInv
<1>15. Pending(i)'
  BY <1>5 DEF Pending
<1>16. OpenMsgs' \subseteq OpenMsgs
  <2> SUFFICES ASSUME NEW m \in OpenMsgs' PROVE m \in OpenMsgs
    OBVIOUS
  <2>1. CASE phase'[m] \in Undecided
    BY <1>12, <2>1 DEF Closes, OpenMsgs
  <2>2. ASSUME NEW k \in Ids, Pending(k)', m \in entry'[k].msgs PROVE m \in OpenMsgs
    <3>1. CASE k = i
      BY <1>5, <1>13, <2>2, <3>1
    <3>2. CASE k # i
      BY <1>5, <1>11, <2>2, <3>2 DEF OpenMsgs
    <3> QED BY <3>1, <3>2
  <2> QED BY <2>1, <2>2, Zenon DEF OpenMsgs
<1>17. OpenMsgs \subseteq OpenMsgs' /\ Turn \subseteq OpenMsgs'
  <2>1. Turn \subseteq OpenMsgs'
    BY <1>3, <1>5, <1>15 DEF OpenMsgs
  <2>2. ASSUME NEW m \in OpenMsgs, m \notin Turn PROVE m \in OpenMsgs'
    <3>1. CASE phase[m] \in Undecided
      <4>1. m # j /\ m \in Msgs
        BY <2>2 DEF Turn, TurnMsgs, OpenMsgs
      <4> QED BY <1>7, <3>1, <4>1 DEF OpenMsgs, Jobs
    <3>2. ASSUME NEW k \in Ids, Pending(k), m \in entry[k].msgs PROVE m \in OpenMsgs'
      <4>1. k # i /\ ~(j \in Ids /\ k \in TurnOf(j))
        BY <1>6, <1>10, <2>2, <3>2 DEF MsgsIn
      <4>2. Pending(k)' /\ entry'[k] = entry[k]
        BY <1>5, <1>11, <3>2, <4>1
      <4>3. m \in Msgs
        BY <2>2 DEF OpenMsgs
      <4> QED BY <3>2, <4>2, <4>3 DEF OpenMsgs
    <3> QED BY <2>2, <3>1, <3>2, Zenon DEF OpenMsgs
  <2> QED BY <2>1, <2>2
<1>18. Settles
  <2>1. \A k \in Ids : entry[k].status = "failed" => entry'[k] = entry[k]
    BY <1>1, <1>5
  <2> QED BY <1>2, <1>17, <2>1 DEF Settles
<1> QED BY <1>2, <1>8, <1>9, <1>14, <1>16, <1>18 DEF Kept

----------------------------------------------------------------------------
(* Steps of the dispatcher, of Stop and of the process. *)

(* Neither entries nor jobs change; a pass that has claimed nothing may end. *)
LEMMA IdleSteps ==
    ASSUME Typed, GroupInv, MsgInv, entry' = entry, phase' = phase, todo' = todo,
           group' = group, HistoryKept, disp' \in Passes, disp'.got = disp.got,
           disp'.at # "claiming" => disp'.got = {}
    PROVE  Kept
<1>1. Typed'
  BY Zenon DEF Typed
<1>2. GroupInv'
  BY Zenon DEF GroupInv
<1>3. \A g \in Ids : Left(g)' = Left(g)
  BY LeftSame, Zenon
<1>4. \A i \in Ids : Pending(i)' <=> Pending(i)
  BY <1>3, Zenon DEF Pending
<1>5. Shrinks /\ Closes
  BY <1>4, Zenon DEF Shrinks, Closes
<1>6. MsgInv' /\ OpenMsgs' \subseteq OpenMsgs
  BY <1>5, ShrinksMsgs
<1>7. OpenMsgs \subseteq OpenMsgs'
  BY <1>4, Zenon DEF OpenMsgs
<1>8. Settles
  BY <1>7, Zenon DEF Settles, HistoryKept
<1> QED BY <1>1, <1>2, <1>6, <1>8, Zenon DEF Kept, HistoryKept

LEMMA MarkTyped ==
    ASSUME Typed, NEW S \in SUBSET Ids, NEW s \in EntryStatuses, entry' = SetStatus(S, s)
    PROVE  /\ entry' \in [Ids -> Docs]
           /\ \A i \in Ids : /\ entry'[i].kind = entry[i].kind /\ entry'[i].msgs = entry[i].msgs
                             /\ entry'[i].status = IF i \in S THEN s ELSE entry[i].status
                             /\ i \notin S => entry'[i] = entry[i]
<1>1. \A i \in Ids : /\ entry[i] \in Docs
                     /\ entry'[i] = IF i \in S THEN [entry[i] EXCEPT !.status = s] ELSE entry[i]
  BY DEF Typed, SetStatus
<1>2. entry' = [i \in Ids |-> entry'[i]]
  BY DEF SetStatus
<1>3. ASSUME NEW i \in Ids
      PROVE  /\ entry'[i] \in Docs
             /\ entry'[i].kind = entry[i].kind /\ entry'[i].msgs = entry[i].msgs
             /\ entry'[i].status = IF i \in S THEN s ELSE entry[i].status
             /\ i \notin S => entry'[i] = entry[i]
  BY <1>1 DEF Docs
<1> QED BY <1>2, <1>3, Zenon

(* A step of no handler: what leaves the pending entries is failed or dropped. *)
LEMMA PassSteps ==
    ASSUME Typed, MsgInv, Typed', GroupInv', Shrinks, \A m \in Msgs : phase'[m] = phase[m],
           started' = started, told' = told, refused' = refused, discarded' = discarded,
           dropped \subseteq dropped',
           \A i \in Ids : entry[i].status = "failed" => entry'[i] = entry[i],
           \A i \in Ids : Pending(i) => \/ Pending(i)'
                                        \/ entry[i].msgs \subseteq dropped'
                                        \/ entry'[i].status = "failed"
                                           /\ entry'[i].msgs = entry[i].msgs
    PROVE  Kept
<1>1. Closes
  BY Zenon DEF Closes
<1>2. MsgInv' /\ OpenMsgs' \subseteq OpenMsgs
  BY <1>1, ShrinksMsgs
<1>3. \A m \in OpenMsgs : m \in OpenMsgs' \/ Decided(m)'
  <2> SUFFICES ASSUME NEW m \in OpenMsgs PROVE m \in OpenMsgs' \/ Decided(m)'
    OBVIOUS
  <2>1. CASE phase[m] \in Undecided
    BY <2>1 DEF OpenMsgs
  <2>2. ASSUME NEW i \in Ids, Pending(i), m \in entry[i].msgs
        PROVE  m \in OpenMsgs' \/ Decided(m)'
    <3>1. CASE Pending(i)'
      BY <2>2, <3>1, Zenon DEF Shrinks, OpenMsgs
    <3>2. CASE entry[i].msgs \subseteq dropped'
      BY <2>2, <3>2 DEF Decided
    <3>3. CASE entry'[i].status = "failed" /\ entry'[i].msgs = entry[i].msgs
      BY <2>2, <3>3 DEF Decided
    <3> QED BY <2>2, <3>1, <3>2, <3>3
  <2> QED BY <2>1, <2>2, Zenon DEF OpenMsgs
<1>4. Settles
  BY <1>3, Zenon DEF Settles
<1> QED BY <1>2, <1>4 DEF Kept

(* A dispatch pass: what it lists, claims and hands to a group. *)
LEMMA ReadSteps ==
    ASSUME Typed, GroupInv, MsgInv, DispatchReads
    PROVE  Kept
<1>1. PICK old \in SUBSET Queued :
        /\ entry' = SetStatus(old, "failed")
        /\ disp' = [Resting EXCEPT !.at = "claiming", !.left = Queued \ old]
  BY Zenon DEF DispatchReads
<1>2. /\ phase' = phase /\ todo' = todo /\ group' = group /\ HistoryKept /\ disp.got = {}
  BY Zenon DEF DispatchReads, HistoryKept, jobVars, history, GroupInv
<1>3. old \subseteq Ids /\ \A i \in old : entry[i].status = "queued"
  BY DEF Queued
<1>4. /\ entry' \in [Ids -> Docs]
      /\ \A i \in Ids : /\ entry'[i].kind = entry[i].kind /\ entry'[i].msgs = entry[i].msgs
                        /\ entry'[i].status = IF i \in old THEN "failed" ELSE entry[i].status
                        /\ i \notin old => entry'[i] = entry[i]
  BY <1>1, <1>3, MarkTyped DEF EntryStatuses
<1>5. disp' \in Passes /\ disp'.got = {} /\ disp'.at = "claiming"
  BY <1>1 DEF Passes, Resting, Queued
<1>6. Typed'
  BY <1>2, <1>4, <1>5, Zenon DEF Typed
<1>7. GroupInv'
  <2>1. \A g \in Ids : \A i \in group[g] : i \in Ids /\ i \notin old
    BY <1>3 DEF GroupInv, Typed
  <2> QED BY <1>2, <1>4, <1>5, <2>1 DEF GroupInv
<1>8. \A g \in Ids : Left(g)' = Left(g)
  BY <1>2, <1>4, LeftSame, Zenon
<1>9. \A i \in Ids : /\ Pending(i)' => Pending(i)
                     /\ Pending(i) => Pending(i)' \/ i \in old
  BY <1>2, <1>4, <1>5, <1>8 DEF Pending
<1>10. Shrinks
  BY <1>4, <1>9 DEF Shrinks
<1>11. \A i \in Ids : entry[i].status = "failed" => entry'[i] = entry[i]
  BY <1>3, <1>4
<1>12. \A i \in Ids : Pending(i) => \/ Pending(i)'
                                    \/ entry'[i].status = "failed"
                                       /\ entry'[i].msgs = entry[i].msgs
  BY <1>4, <1>9
<1> QED BY <1>2, <1>6, <1>7, <1>10, <1>11, <1>12, PassSteps DEF HistoryKept

LEMMA ClaimSteps ==
    ASSUME Typed, GroupInv, MsgInv, DispatchClaims
    PROVE  Kept
<1>1. PICK c \in Ids : Oldest(c, disp.now) /\ Claim(c)
  BY Zenon DEF DispatchClaims
<1> DEFINE S == {c} \cap Queued
<1>2. /\ entry' = SetStatus(S, "claimed")
      /\ disp' = [disp EXCEPT !.now = disp.now \ {c}, !.got = disp.got \cup S]
      /\ phase' = phase /\ todo' = todo /\ group' = group /\ HistoryKept
      /\ disp.at = "claiming"
  BY <1>1, Zenon DEF DispatchClaims, Claim, HistoryKept, jobVars, history
<1>3. S \subseteq Ids /\ \A i \in S : entry[i].status = "queued"
  BY DEF Queued
<1> HIDE DEF S
<1>4. /\ entry' \in [Ids -> Docs]
      /\ \A i \in Ids : /\ entry'[i].kind = entry[i].kind /\ entry'[i].msgs = entry[i].msgs
                        /\ entry'[i].status = IF i \in S THEN "claimed" ELSE entry[i].status
                        /\ i \notin S => entry'[i] = entry[i]
  BY <1>2, <1>3, MarkTyped DEF EntryStatuses
<1>5. disp' \in Passes /\ disp'.got = disp.got \cup S /\ disp'.at = "claiming"
  BY <1>2, <1>3 DEF Typed, Passes
<1>6. Typed'
  BY <1>2, <1>4, <1>5, Zenon DEF Typed
<1>7. GroupInv'
  <2>1. \A g \in Ids : group[g] \cap S = {} /\ group[g] \subseteq Ids
    BY <1>3 DEF GroupInv, Typed
  <2>2. disp.got \subseteq Ids
    BY DEF Typed, Passes
  <2> QED BY <1>2, <1>3, <1>4, <1>5, <2>1, <2>2 DEF GroupInv
<1>8. \A g \in Ids : Left(g)' = Left(g)
  BY <1>2, <1>4, LeftSame, Zenon
<1>9. \A i \in Ids : Pending(i)' <=> Pending(i)
  BY <1>3, <1>4, <1>5, <1>8 DEF Pending
<1>10. Shrinks
  BY <1>4, <1>9 DEF Shrinks
<1>11. \A i \in Ids : entry[i].status = "failed" => entry'[i] = entry[i]
  BY <1>3, <1>4
<1> QED BY <1>2, <1>6, <1>7, <1>9, <1>10, <1>11, PassSteps DEF HistoryKept

LEMMA SpawnSteps ==
    ASSUME Typed, GroupInv, MsgInv, DispatchSpawns
    PROVE  Kept
<1> DEFINE got == disp.got
<1>1. PICK g \in Ids : /\ g \in got
                       /\ phase' = [phase EXCEPT ![g] = "turn"]
                       /\ todo' = [todo EXCEPT ![g] = got]
                       /\ group' = [group EXCEPT ![g] = got]
  BY Zenon DEF DispatchSpawns, Oldest, Enter
<1>2. /\ entry' = entry /\ HistoryKept /\ disp' = [disp EXCEPT !.got = {}]
  BY Zenon DEF DispatchSpawns, HistoryKept, dbVars, history
<1>3. got \subseteq Ids /\ \A i \in got : entry[i].status = "claimed"
  BY DEF Typed, Passes, GroupInv
<1>4. phase[g] = "idle" /\ group[g] = {} /\ todo[g] = {}
  BY <1>1 DEF GroupInv
<1>5. disp' \in Passes /\ disp'.got = {}
  BY <1>2 DEF Typed, Passes
<1>6. \A h \in Ids : h # g => got \cap group[h] = {}
  BY DEF GroupInv
<1> HIDE DEF got
<1>7. /\ phase' \in [Jobs -> Phases] /\ phase'[g] = "turn"
      /\ \A j \in Jobs \ {g} : phase'[j] = phase[j]
  BY <1>1 DEF Typed, Phases, Jobs
<1>8. /\ todo' \in [Ids -> SUBSET Ids] /\ todo'[g] = got
      /\ \A h \in Ids \ {g} : todo'[h] = todo[h]
  BY <1>1, <1>3 DEF Typed
<1>9. /\ group' \in [Ids -> SUBSET Ids] /\ group'[g] = got
      /\ \A h \in Ids \ {g} : group'[h] = group[h]
  BY <1>1, <1>3 DEF Typed
<1>10. Typed'
  BY <1>2, <1>5, <1>7, <1>8, <1>9, Zenon DEF Typed
<1>11. GroupInv'
  <2>1. \A h \in Ids : /\ todo'[h] \subseteq group'[h]
                       /\ phase'[h] = "idle" <=> group'[h] = {}
                       /\ phase'[h] # "idle" => h \in group'[h]
                       /\ \A i \in group'[h] : entry[i].status = "claimed"
    <3> SUFFICES ASSUME NEW h \in Ids
                 PROVE  /\ todo'[h] \subseteq group'[h]
                        /\ phase'[h] = "idle" <=> group'[h] = {}
                        /\ phase'[h] # "idle" => h \in group'[h]
                        /\ \A i \in group'[h] : entry[i].status = "claimed"
      OBVIOUS
    <3>1. CASE h = g
      BY <1>1, <1>3, <1>7, <1>8, <1>9, <3>1
    <3>2. CASE h # g
      BY <1>7, <1>8, <1>9, <3>2 DEF GroupInv, Jobs
    <3> QED BY <3>1, <3>2
  <2>2. \A h, k \in Ids : h # k => group'[h] \cap group'[k] = {}
    BY <1>6, <1>9 DEF GroupInv
  <2> QED BY <1>2, <1>5, <2>1, <2>2 DEF GroupInv
<1>12. \A h \in Ids \ {g} : Left(h)' = Left(h)
  BY <1>2, <1>7, <1>8, LeftSame, Zenon DEF Jobs
<1>13. Left(g)' = got /\ Left(g) = {}
  BY <1>4, <1>7, <1>8 DEF Left
<1>14. \A i \in Ids : Pending(i)' <=> Pending(i)
  BY <1>2, <1>5, <1>12, <1>13 DEF Pending, got
<1>15. Shrinks
  BY <1>2, <1>14 DEF Shrinks
<1>16. \A m \in Msgs : phase'[m] = phase[m]
  BY <1>7 DEF Jobs
<1> QED BY <1>2, <1>10, <1>11, <1>14, <1>15, <1>16, PassSteps DEF HistoryKept
(* A group is over: its entries get a last status. *)
LEMMA GroupSteps ==
    ASSUME Typed, GroupInv, MsgInv, NEW g \in Ids, NEW s \in EntryStatuses,
           phase[g] \notin {"idle", "running", "marking"},
           s = "failed" \/ (s # "queued" /\ todo[g] = {}),
           entry' = SetStatus(group[g], s), Enter(g, "idle"),
           todo' = [todo EXCEPT ![g] = {}], group' = [group EXCEPT ![g] = {}],
           disp' = disp, HistoryKept
    PROVE  Kept
<1>1. group[g] \subseteq Ids /\ todo[g] \subseteq group[g]
      /\ \A i \in group[g] : entry[i].status = "claimed"
  BY DEF Typed, GroupInv
<1>2. /\ entry' \in [Ids -> Docs]
      /\ \A i \in Ids : /\ entry'[i].kind = entry[i].kind /\ entry'[i].msgs = entry[i].msgs
                        /\ entry'[i].status = IF i \in group[g] THEN s ELSE entry[i].status
                        /\ i \notin group[g] => entry'[i] = entry[i]
  BY <1>1, MarkTyped
<1>3. /\ phase' \in [Jobs -> Phases] /\ phase'[g] = "idle"
      /\ \A j \in Jobs \ {g} : phase'[j] = phase[j]
  BY DEF Typed, Phases, Jobs, Enter
<1>4. /\ todo' \in [Ids -> SUBSET Ids] /\ todo'[g] = {}
      /\ \A h \in Ids \ {g} : todo'[h] = todo[h]
  BY DEF Typed
<1>5. /\ group' \in [Ids -> SUBSET Ids] /\ group'[g] = {}
      /\ \A h \in Ids \ {g} : group'[h] = group[h]
  BY DEF Typed
<1>6. Typed'
  BY <1>2, <1>3, <1>4, <1>5, Zenon DEF Typed
<1>7. \A h \in Ids \ {g} : group[h] \cap group[g] = {} /\ group[h] \subseteq Ids
  BY DEF GroupInv, Typed
<1>8. disp.got \cap group[g] = {} /\ disp.got \subseteq Ids
  BY DEF GroupInv, Typed, Passes
<1>9. GroupInv'
  <2>1. ASSUME NEW h \in Ids
        PROVE  /\ todo'[h] \subseteq group'[h]
               /\ phase'[h] = "idle" <=> group'[h] = {}
               /\ phase'[h] # "idle" => h \in group'[h]
               /\ group'[h] \cap disp.got = {}
               /\ \A i \in group'[h] : entry'[i].status = "claimed"
    <3>1. CASE h = g
      BY <1>3, <1>4, <1>5, <3>1
    <3>2. CASE h # g
      BY <1>2, <1>3, <1>4, <1>5, <1>7, <3>2 DEF GroupInv, Jobs
    <3> QED BY <3>1, <3>2
  <2>2. \A h, k \in Ids : h # k => group'[h] \cap group'[k] = {}
    BY <1>5 DEF GroupInv
  <2>3. \A i \in disp.got : entry'[i].status = "claimed"
    BY <1>2, <1>8 DEF GroupInv
  <2>4. disp.at # "claiming" => disp.got = {}
    BY DEF GroupInv
  <2> QED BY <2>1, <2>2, <2>3, <2>4, Zenon DEF GroupInv
<1>10. \A h \in Ids \ {g} : Left(h)' = Left(h)
  BY <1>2, <1>3, <1>4, LeftSame, Zenon DEF Jobs
<1>11. Left(g)' = {} /\ Left(g) = todo[g]
  BY <1>3, <1>4 DEF Left
<1>12. \A i \in group[g] : /\ ~Pending(i)' /\ i \in Ids
                           /\ Pending(i) => i \in todo[g]
  <2> SUFFICES ASSUME NEW i \in group[g]
               PROVE  ~Pending(i)' /\ i \in Ids /\ (Pending(i) => i \in todo[g])
    OBVIOUS
  <2>1. i \in Ids /\ i \notin disp.got /\ \A h \in Ids \ {g} : i \notin Left(h)
    BY <1>1, <1>8, LeftTyped DEF GroupInv
  <2>2. entry'[i].status # "queued" /\ entry[i].status # "queued"
    BY <1>1, <1>2, <2>1
  <2> QED BY <1>10, <1>11, <2>1, <2>2 DEF Pending
<1>13. \A i \in Ids \ group[g] : Pending(i)' <=> Pending(i)
  BY <1>1, <1>2, <1>10, <1>11 DEF Pending
<1>14. Shrinks
  BY <1>2, <1>12, <1>13 DEF Shrinks
<1>15. \A m \in Msgs : phase'[m] = phase[m]
  BY <1>3 DEF Jobs
<1>16. \A i \in Ids : entry[i].status = "failed" => entry'[i] = entry[i]
  BY <1>1, <1>2
<1>17. \A i \in Ids : Pending(i) => \/ Pending(i)'
                                    \/ entry'[i].status = "failed"
                                       /\ entry'[i].msgs = entry[i].msgs
  BY <1>2, <1>12, <1>13
<1> QED BY <1>6, <1>9, <1>14, <1>15, <1>16, <1>17, PassSteps DEF HistoryKept

(* Stop deletes what is queued. *)
LEMMA DropSteps ==
    ASSUME Typed, GroupInv, MsgInv, StopDeletes
    PROVE  Kept
<1> DEFINE hit == {i \in Queued : entry[i].kind # "slack"}
<1>1. /\ entry' = SetStatus(hit, "deleted") /\ dropped' = dropped \cup MsgsIn(hit)
      /\ phase' = phase /\ todo' = todo /\ group' = group /\ disp' = disp
      /\ told' = told /\ started' = started /\ refused' = refused /\ discarded' = discarded
  BY Zenon DEF StopDeletes, jobVars
<1>2. hit \subseteq Ids /\ \A i \in hit : entry[i].status = "queued"
  BY DEF Queued
<1> HIDE DEF hit
<1>3. /\ entry' \in [Ids -> Docs]
      /\ \A i \in Ids : /\ entry'[i].kind = entry[i].kind /\ entry'[i].msgs = entry[i].msgs
                        /\ entry'[i].status = IF i \in hit THEN "deleted" ELSE entry[i].status
                        /\ i \notin hit => entry'[i] = entry[i]
  BY <1>1, <1>2, MarkTyped DEF EntryStatuses
<1>4. Typed'
  BY <1>1, <1>3, Zenon DEF Typed
<1>5. GroupInv'
  <2>1. \A g \in Ids : \A i \in group[g] : i \in Ids /\ i \notin hit
    BY <1>2 DEF GroupInv, Typed
  <2>2. \A i \in disp.got : i \in Ids /\ i \notin hit
    BY <1>2 DEF GroupInv, Typed, Passes
  <2> QED BY <1>1, <1>3, <2>1, <2>2 DEF GroupInv
<1>6. \A g \in Ids : Left(g)' = Left(g)
  BY <1>1, <1>3, LeftSame, Zenon
<1>7. \A i \in Ids : /\ Pending(i)' => Pending(i)
                     /\ Pending(i) => Pending(i)' \/ i \in hit
  BY <1>1, <1>3, <1>6 DEF Pending
<1>8. Shrinks
  BY <1>3, <1>7 DEF Shrinks
<1>9. \A i \in Ids : entry[i].status = "failed" => entry'[i] = entry[i]
  BY <1>2, <1>3
<1>10. \A i \in Ids : Pending(i) => Pending(i)' \/ entry[i].msgs \subseteq dropped'
  BY <1>1, <1>7 DEF MsgsIn
<1> QED BY <1>1, <1>4, <1>5, <1>8, <1>9, <1>10, PassSteps

(* The process ends: only queued entries are left, and new messages. *)
LEMMA RestartSteps ==
    ASSUME Typed, GroupInv, MsgInv, ProcessEnds, entry' = entry, HistoryKept
    PROVE  Kept
<1>1. /\ phase' \in [Jobs -> Phases]
      /\ \A j \in Jobs : phase'[j] = IF j \in Msgs /\ phase[j] # "idle" THEN "done" ELSE "idle"
  BY DEF ProcessEnds, Phases
<1>2. /\ todo' \in [Ids -> SUBSET Ids] /\ group' \in [Ids -> SUBSET Ids]
      /\ \A g \in Ids : todo'[g] = {} /\ group'[g] = {}
  BY DEF ProcessEnds
<1>3. disp' \in Passes /\ disp'.got = {} /\ disp'.at = "idle"
  BY DEF ProcessEnds, Resting, Passes
<1>4. Typed'
  BY <1>1, <1>2, <1>3, Zenon DEF Typed
<1>5. GroupInv'
  <2>1. \A g \in Ids : phase'[g] = "idle"
    BY <1>1 DEF Jobs
  <2> QED BY <1>2, <1>3, <2>1 DEF GroupInv
<1>6. \A g \in Ids : Left(g)' = {}
  BY <1>1, <1>2 DEF Left, Jobs
<1>7. Shrinks
  BY <1>3, <1>6 DEF Shrinks, Pending
<1>8. Closes
  BY <1>1 DEF Closes, Undecided, Jobs
<1>9. MsgInv' /\ OpenMsgs' \subseteq OpenMsgs
  BY <1>7, <1>8, ShrinksMsgs
<1>10. ~up' /\ started' = started
  BY Zenon DEF ProcessEnds, HistoryKept
<1> QED BY <1>4, <1>5, <1>9, <1>10, Zenon DEF Kept

----------------------------------------------------------------------------
(* Every step. *)

LEMMA JobKept ==
    ASSUME Typed, GroupInv, MsgInv, NEW j \in Jobs,
           Arrives(j) \/ JobStep(j) \/ QueueRefused(j) \/ GroupFails(j)
    PROVE  Kept
<1> USE DEF dbVars, jobVars, boundVars, history
(* The places a job can be in before its turn starts. *)
<1>1. /\ {"claimed", "recording", "queueing", "gated", "starting", "entering", "waiting"}
             \subseteq Undecided \ {"idle"}
      /\ "idle" \in Undecided
  BY DEF Undecided
<1>2. AtTurn(j) => /\ phase[j] \in Undecided \cup {"turn"}
                   /\ phase[j] = "idle" => j \in Msgs
                   /\ phase[j] = "turn" => j \in Ids
  BY DEF AtTurn, Undecided, Jobs
<1>3. CASE ChatClaims(j)
  <2>1. AtTurn(j) /\ Enter(j, "claimed") /\ EntriesKept /\ HistoryKept
    BY <1>3, Zenon DEF ChatClaims, EntriesKept, HistoryKept
  <2> QED BY <1>1, <1>2, <2>1, WaitingSteps
<1>4. CASE ChatChecksDrain(j)
  <2>1. /\ phase[j] = "claimed" /\ (Enter(j, "recording") \/ Enter(j, "starting"))
        /\ EntriesKept /\ HistoryKept
    BY <1>4, Zenon DEF ChatChecksDrain, At, EntriesKept, HistoryKept
  <2> QED BY <1>1, <2>1, WaitingSteps
<1>5. CASE ChatRecordsQueued(j)
  <2>1. /\ phase[j] = "recording" /\ Enter(j, "queueing") /\ EntriesKept /\ HistoryKept
    BY <1>5, Zenon DEF ChatRecordsQueued, At, EntriesKept, HistoryKept
  <2> QED BY <1>1, <2>1, WaitingSteps
<1>6. CASE ClaimedStarts(j)
  <2>1. phase[j] = "starting" /\ TurnStarts(j) /\ entry' = entry /\ disp' = disp
    BY <1>6, Zenon DEF ClaimedStarts, At
  <2> QED BY <2>1, StartSteps
<1>7. CASE SlackChecksDrain(j)
  <2>1. AtTurn(j) /\ (Enter(j, "queueing") \/ Enter(j, "gated")) /\ EntriesKept /\ HistoryKept
    BY <1>7, Zenon DEF SlackChecksDrain, EntriesKept, HistoryKept
  <2> QED BY <1>1, <1>2, <2>1, WaitingSteps
<1>8. CASE HeadlessResumes(j)
  <2>1. AtTurn(j) /\ Enter(j, "entering") /\ EntriesKept /\ HistoryKept
    BY <1>8, Zenon DEF HeadlessResumes, EntriesKept, HistoryKept
  <2> QED BY <1>1, <1>2, <2>1, WaitingSteps
<1>9. CASE SlackClaims(j)
  <2>1. /\ phase[j] = "gated" /\ (Enter(j, "starting") \/ Enter(j, "waiting"))
        /\ EntriesKept /\ HistoryKept
    BY <1>9, Zenon DEF SlackClaims, At, EntriesKept, HistoryKept
  <2> QED BY <1>1, <2>1, WaitingSteps
<1>10. CASE SlackWakes(j)
  <2>1. /\ phase[j] = "waiting" /\ (Enter(j, "queueing") \/ Enter(j, "starting"))
        /\ EntriesKept /\ HistoryKept
    BY <1>10, Zenon DEF SlackWakes, At, EntriesKept, HistoryKept
  <2> QED BY <1>1, <2>1, WaitingSteps
<1>11. CASE AgentClaims(j)
  <2>1. phase[j] = "entering" /\ TurnStarts(j) /\ entry' = entry /\ disp' = disp
    BY <1>11, Zenon DEF AgentClaims, At
  <2> QED BY <2>1, StartSteps
<1>12. CASE AgentWaits(j)
  <2>1. phase[j] = "entering" /\ Enter(j, "waiting") /\ EntriesKept /\ HistoryKept
    BY <1>12, Zenon DEF AgentWaits, At, EntriesKept, HistoryKept
  <2> QED BY <1>1, <2>1, WaitingSteps
<1>13. CASE AgentWakes(j)
  <2>1. /\ phase[j] = "waiting" /\ entry' = entry /\ disp' = disp
        /\ (Enter(j, "queueing") /\ EntriesKept /\ HistoryKept) \/ TurnStarts(j)
    BY <1>13, Zenon DEF AgentWakes, At, EntriesKept, HistoryKept
  <2> QED BY <1>1, <2>1, WaitingSteps, StartSteps
<1>14. CASE Enqueue(j)
  BY <1>14, EnqueueSteps
<1>15. CASE MarksQueued(j) \/ RunEnds(j)
  <2>1. /\ phase[j] \in {"running", "marking"} /\ TurnEnds(j) /\ entry' = entry /\ disp' = disp
        /\ HistoryKept
    BY <1>15, Zenon DEF MarksQueued, RunEnds, At, HistoryKept
  <2> QED BY <2>1, EndSteps
<1>16. CASE QueueRefused(j)
  <2>1. /\ phase[j] \in {"queueing", "recording"} /\ TurnEnds(j) /\ entry' = entry /\ disp' = disp
        /\ \/ refused' = refused \cup TurnMsgs(j) /\ discarded' = discarded
           \/ discarded' = discarded \cup TurnMsgs(j) /\ refused' = refused
        /\ told' = told /\ started' = started /\ dropped' = dropped
    BY <1>16, Zenon DEF QueueRefused, At
  <2> QED BY <2>1, RefusedSteps
<1>17. CASE GroupEnds(j)
  <2>1. /\ j \in Ids /\ phase[j] = "turn" /\ todo[j] = {} /\ entry' = SetStatus(group[j], "deleted")
        /\ Enter(j, "idle") /\ todo' = todo /\ group' = [group EXCEPT ![j] = {}]
        /\ disp' = disp /\ HistoryKept
    BY <1>17, Zenon DEF GroupEnds, At, HistoryKept
  <2>2. todo' = [todo EXCEPT ![j] = {}]
    BY <2>1 DEF Typed
  <2> QED BY <2>1, <2>2, GroupSteps DEF EntryStatuses
<1>18. CASE GroupFails(j)
  <2>1. /\ j \in Ids /\ phase[j] \in {"turn", "gated", "starting", "entering", "waiting"}
        /\ entry' = SetStatus(group[j], "failed") /\ Enter(j, "idle")
        /\ todo' = [todo EXCEPT ![j] = {}] /\ group' = [group EXCEPT ![j] = {}]
        /\ disp' = disp /\ HistoryKept
    BY <1>18, Zenon DEF GroupFails, HistoryKept
  <2> QED BY <2>1, GroupSteps DEF EntryStatuses
<1>19. \/ ChatClaims(j) \/ ChatChecksDrain(j) \/ ChatRecordsQueued(j) \/ ClaimedStarts(j)
       \/ SlackChecksDrain(j) \/ HeadlessResumes(j) \/ SlackClaims(j) \/ SlackWakes(j)
       \/ AgentClaims(j) \/ AgentWaits(j) \/ AgentWakes(j) \/ Enqueue(j)
       \/ MarksQueued(j) \/ RunEnds(j) \/ GroupEnds(j) \/ QueueRefused(j) \/ GroupFails(j)
  BY Zenon DEF Arrives, JobStep
<1> QED BY <1>3, <1>4, <1>5, <1>6, <1>7, <1>8, <1>9, <1>10, <1>11, <1>12, <1>13, <1>14, <1>15,
           <1>16, <1>17, <1>18, <1>19, Zenon

LEMMA NextKept ==
    ASSUME Typed, GroupInv, MsgInv, [Next]_vars
    PROVE  Kept
<1> USE DEF dbVars, jobVars, boundVars, history
<1>1. ASSUME NEW j \in Jobs, Arrives(j) \/ JobStep(j) \/ QueueRefused(j) \/ GroupFails(j)
      PROVE  Kept
  BY <1>1, JobKept
<1> DEFINE Idles == /\ entry' = entry /\ phase' = phase /\ todo' = todo /\ group' = group
                    /\ HistoryKept
<1>2. ASSUME Idles, disp' = disp PROVE Kept
  <2>1. disp' \in Passes /\ (disp'.at # "claiming" => disp'.got = {})
    BY <1>2 DEF Typed, GroupInv
  <2> QED BY <1>2, <2>1, IdleSteps
<1>3. CASE DispatchChecksDrain
  <2>1. Idles /\ disp.at = "idle" /\ disp' = [disp EXCEPT !.at = "checked"]
    BY <1>3, Zenon DEF DispatchChecksDrain, HistoryKept
  <2>2. disp.got = {} /\ disp' \in Passes /\ disp'.got = disp.got
    BY <2>1 DEF GroupInv, Typed, Passes
  <2> QED BY <2>1, <2>2, IdleSteps
<1>4. CASE DispatchTakesGroup
  <2>1. PICK i \in Ids :
          LET members == {k \in disp.left : entry[k].kind = entry[i].kind}
          IN  disp' = [disp EXCEPT !.left = @ \ members, !.now = members]
    BY <1>4, Zenon DEF DispatchTakesGroup
  <2>2. Idles /\ disp.got = {}
    BY <1>4, Zenon DEF DispatchTakesGroup, HistoryKept
  <2>3. disp' \in Passes /\ disp'.got = disp.got
    BY <2>1 DEF Typed, Passes
  <2> QED BY <2>2, <2>3, IdleSteps
<1>5. CASE DispatchEnds
  <2>1. Idles /\ disp = [Resting EXCEPT !.at = "claiming"] /\ disp' = Resting
    BY <1>5, Zenon DEF DispatchEnds, HistoryKept
  <2>2. disp' \in Passes /\ disp'.got = disp.got /\ disp'.got = {}
    BY <2>1 DEF Resting, Passes
  <2> QED BY <2>1, <2>2, IdleSteps
<1>6. CASE StopReadsQueued \/ StopMarks \/ SetDrain \/ ClearDrain \/ Boot \/ Recover
           \/ UNCHANGED vars
  <2>1. Idles /\ disp' = disp
    BY <1>6, Zenon DEF StopReadsQueued, StopMarks, SetDrain, ClearDrain, Boot, Recover, vars,
                       HistoryKept
  <2> QED BY <1>2, <2>1
<1>7. CASE Redeploy \/ Crash
  <2>1. ProcessEnds /\ entry' = entry /\ HistoryKept
    BY <1>7, Zenon DEF Redeploy, Crash, HistoryKept
  <2> QED BY <2>1, RestartSteps
<1>8. CASE DispatchReads \/ DispatchClaims \/ DispatchSpawns \/ StopDeletes
  BY <1>8, ReadSteps, ClaimSteps, SpawnSteps, DropSteps
<1> QED BY <1>1, <1>3, <1>4, <1>5, <1>6, <1>7, <1>8, Zenon DEF Next, DispatchStep, StopStep

(* The rest of the type invariant. *)
LEMMA OthersKept ==
    ASSUME Typed, Others, [Next]_vars
    PROVE  Others'
<1> USE DEF dbVars, jobVars, boundVars, history
<1>1. ASSUME NEW j \in Jobs, TurnStarts(j), UNCHANGED <<up, draining, stopReq, boundVars>>,
             owner' \in {owner, j}
      PROVE  Others'
  <2>1. TurnMsgs(j) \subseteq Msgs
    BY TurnTyped
  <2>2. /\ status' = "running" /\ started' = started \cup TurnMsgs(j)
        /\ told' = told /\ refused' = refused /\ dropped' = dropped /\ discarded' = discarded
    BY <1>1, Zenon DEF TurnStarts
  <2> QED BY <1>1, <2>1, <2>2 DEF Others
<1>2. ASSUME NEW j \in Jobs, owner' \in {owner, j, None},
             UNCHANGED <<up, draining, stopReq, boundVars, started, dropped>>,
             status' = status \/ status' \in {"queued", "running", "completed"},
             told' = told \/ told' = told \cup TurnMsgs(j),
             refused' = refused \/ refused' = refused \cup TurnMsgs(j),
             discarded' = discarded \/ discarded' = discarded \cup TurnMsgs(j)
      PROVE  Others'
  <2>1. TurnMsgs(j) \subseteq Msgs
    BY TurnTyped
  <2> QED BY <1>2, <2>1 DEF Others
<1>3. ASSUME NEW j \in Jobs, Arrives(j) \/ JobStep(j) \/ QueueRefused(j) \/ GroupFails(j)
      PROVE  Others'
  <2>1. TurnEnds(j) => owner' \in {owner, None}
    BY DEF TurnEnds
  <2>2. CASE ChatClaims(j) \/ ChatChecksDrain(j) \/ ChatRecordsQueued(j) \/ SlackChecksDrain(j)
             \/ SlackWakes(j) \/ HeadlessResumes(j) \/ AgentWaits(j)
    <3>1. /\ owner' = j \/ owner' = owner
          /\ UNCHANGED <<up, draining, stopReq, boundVars, started, dropped, told, refused,
                        discarded>>
          /\ status' = status \/ status' = "queued" \/ status' = "running"
      BY <2>2, Zenon DEF ChatClaims, ChatChecksDrain, ChatRecordsQueued, SlackChecksDrain,
                         SlackWakes, HeadlessResumes, AgentWaits
    <3> QED BY <1>2, <3>1
  <2>3. CASE SlackClaims(j)
    <3>1. /\ owner' = j \/ owner' = owner
          /\ UNCHANGED <<up, draining, stopReq, boundVars, started, dropped, told, refused, status,
                        discarded>>
      BY <2>3 DEF SlackClaims
    <3> QED BY <1>2, <3>1
  <2>4. CASE ClaimedStarts(j) \/ AgentClaims(j)
    <3>1. /\ owner' = j \/ owner' = owner
          /\ UNCHANGED <<up, draining, stopReq, boundVars>> /\ TurnStarts(j)
      BY <2>4, Zenon DEF ClaimedStarts, AgentClaims
    <3> QED BY <1>1, <3>1
  <2>5. CASE AgentWakes(j)
    <3>1. /\ owner' = j /\ UNCHANGED <<up, draining, stopReq, boundVars>>
          /\ UNCHANGED <<status, history>> \/ TurnStarts(j)
      BY <2>5, Zenon DEF AgentWakes
    <3> QED BY <1>1, <1>2, <3>1
  <2>6. CASE Enqueue(j)
    <3>1. /\ owner' \in {owner, None}
          /\ UNCHANGED <<up, draining, stopReq, boundVars, status, started, refused, dropped,
                        discarded>>
          /\ told' = told \cup TurnMsgs(j)
      <4>1. owner' = owner \/ TurnEnds(j)
        BY <2>6, Zenon DEF Enqueue
      <4>2. /\ UNCHANGED <<up, draining, stopReq, boundVars, status, started, refused, dropped,
                           discarded>>
            /\ told' = told \cup TurnMsgs(j)
        BY <2>6, Zenon DEF Enqueue
      <4> QED BY <2>1, <4>1, <4>2
    <3> QED BY <1>2, <3>1
  <2>7. CASE MarksQueued(j) \/ RunEnds(j)
    <3>1. /\ TurnEnds(j)
          /\ UNCHANGED <<up, draining, stopReq, boundVars, told, started, refused, dropped,
                        discarded>>
          /\ status' = "queued" \/ status' = "completed"
      BY <2>7, Zenon DEF MarksQueued, RunEnds
    <3> QED BY <1>2, <2>1, <3>1
  <2>8. CASE QueueRefused(j)
    <3>1. /\ TurnEnds(j)
          /\ UNCHANGED <<up, draining, stopReq, boundVars, status, told, started, dropped>>
          /\ \/ refused' = refused \cup TurnMsgs(j) /\ discarded' = discarded
             \/ discarded' = discarded \cup TurnMsgs(j) /\ refused' = refused
      BY <2>8, Zenon DEF QueueRefused
    <3> QED BY <1>2, <2>1, <3>1
  <2>9. CASE GroupEnds(j)
    <3>1. UNCHANGED <<owner, status, up, draining, stopReq, boundVars, history>>
      BY <2>9, Zenon DEF GroupEnds
    <3> QED BY <1>2, <3>1
  <2>10. CASE GroupFails(j)
    <3>1. /\ UNCHANGED <<status, up, draining, stopReq, boundVars, history>>
          /\ owner' = IF owner = j THEN None ELSE owner
      BY <2>10, Zenon DEF GroupFails
    <3> QED BY <1>2, <3>1
  <2> QED BY <1>3, <2>2, <2>3, <2>4, <2>5, <2>6, <2>7, <2>8, <2>9, <2>10, Zenon
          DEF Arrives, JobStep
<1>4. CASE DispatchStep
  <2>1. UNCHANGED <<status, up, draining, owner, stopReq, boundVars, history>>
    BY <1>4, Zenon DEF DispatchStep, DispatchChecksDrain, DispatchReads, DispatchTakesGroup,
                       DispatchClaims, DispatchSpawns, DispatchEnds
  <2> QED BY <2>1, Zenon DEF Others
<1>5. CASE StopReadsQueued
  <2>1. stopReq' = "deleting" /\ stops < MaxStops /\ stops' = stops + 1
        /\ UNCHANGED <<status, up, draining, owner, drains, crashes, history>>
    BY <1>5, Zenon DEF StopReadsQueued
  <2>2. stops' \in 0..MaxStops
    BY <2>1 DEF Others
  <2> QED BY <2>1, <2>2 DEF Others
<1>6. CASE StopDeletes
  <2>1. PICK hit \in SUBSET Queued : dropped' = dropped \cup MsgsIn(hit)
    BY <1>6 DEF StopDeletes
  <2>2. MsgsIn(hit) \subseteq Msgs
    BY DEF MsgsIn, Queued, Typed, Docs
  <2>3. stopReq' = "marking" /\ UNCHANGED <<status, up, draining, owner, boundVars, told, started,
                                            refused, discarded>>
    BY <1>6, Zenon DEF StopDeletes
  <2> QED BY <2>1, <2>2, <2>3 DEF Others
<1>7. CASE StopMarks
  <2>1. /\ status' = (IF status = "queued" THEN "interrupted" ELSE status) /\ stopReq' = NoStop
        /\ UNCHANGED <<up, draining, owner, boundVars, history>>
    BY <1>7, Zenon DEF StopMarks
  <2> QED BY <2>1 DEF Others, NoStop
<1>8. CASE SetDrain
  <2>1. drains < MaxDrains /\ drains' = drains + 1 /\ draining' = TRUE
        /\ UNCHANGED <<status, up, owner, stopReq, crashes, stops, history>>
    BY <1>8, Zenon DEF SetDrain
  <2>2. drains' \in 0..MaxDrains
    BY <2>1 DEF Others
  <2> QED BY <2>1, <2>2 DEF Others
<1>9. CASE ClearDrain \/ Boot \/ Recover
  <2>1. /\ draining' = FALSE \/ draining' = draining
        /\ up' = TRUE \/ up' = up
        /\ status' = "interrupted" \/ status' = status
        /\ UNCHANGED <<owner, stopReq, boundVars, history>>
    BY <1>9, Zenon DEF ClearDrain, Boot, Recover
  <2> QED BY <2>1 DEF Others
<1>10. CASE Redeploy
  <2>1. /\ ProcessEnds /\ UNCHANGED <<boundVars, history>>
        /\ status' = IF status = "running" THEN "interrupted" ELSE status
    BY <1>10, Zenon DEF Redeploy
  <2> QED BY <2>1 DEF Others, ProcessEnds, NoStop
<1>11. CASE Crash
  <2>1. /\ ProcessEnds /\ UNCHANGED <<drains, stops, status, history>>
        /\ crashes < MaxCrashes /\ crashes' = crashes + 1
    BY <1>11, Zenon DEF Crash
  <2>2. crashes' \in 0..MaxCrashes
    BY <2>1 DEF Others
  <2> QED BY <2>1, <2>2 DEF Others, ProcessEnds, NoStop
<1>12. CASE UNCHANGED vars
  BY <1>12, Zenon DEF vars, Others
<1> QED BY <1>3, <1>4, <1>5, <1>6, <1>7, <1>8, <1>9, <1>10, <1>11, <1>12, Zenon
        DEF Next, StopStep

----------------------------------------------------------------------------
(* The theorems. *)

LEMMA InitInv == Init => IInv
<1> SUFFICES ASSUME Init PROVE IInv
  OBVIOUS
<1>1. /\ entry = [i \in Ids |-> FreeEntry] /\ phase = [j \in Jobs |-> "idle"]
      /\ todo = [i \in Ids |-> {}] /\ group = [i \in Ids |-> {}] /\ disp = Resting
  BY Zenon DEF Init
<1>2. Typed
  <2>1. FreeEntry \in Docs
    BY DEF FreeEntry, Docs, Kinds, EntryStatuses
  <2> QED BY <1>1, <2>1 DEF Typed, Resting, Passes, Phases
<1>3. Others
  <2>1. {drains, crashes, stops} = {0} /\ 0 \in 0..MaxDrains /\ 0 \in 0..MaxCrashes
        /\ 0 \in 0..MaxStops
    BY DEF Init
  <2> QED BY <2>1 DEF Init, Others, NoStop
<1>4. GroupInv
  BY <1>1 DEF GroupInv, Resting, FreeEntry, Jobs
<1>5. MsgInv
  <2>1. \A i \in Ids : ~Pending(i)
    <3> SUFFICES ASSUME NEW i \in Ids PROVE ~Pending(i)
      OBVIOUS
    <3>1. entry[i].status = "free" /\ disp.got = {}
      BY <1>1 DEF FreeEntry, Resting
    <3>2. \A g \in Ids : i \notin Left(g)
      BY <1>1, <1>2, LeftTyped
    <3> QED BY <3>1, <3>2 DEF Pending
  <2> QED BY <2>1, Zenon DEF MsgInv
<1> QED BY <1>2, <1>3, <1>4, <1>5, TypeOKParts DEF IInv

LEMMA NextInvariant == IInv /\ [Next]_vars => IInv'
<1> SUFFICES ASSUME IInv, [Next]_vars PROVE IInv'
  OBVIOUS
<1>1. Typed /\ Others /\ GroupInv /\ MsgInv
  BY TypeOKParts DEF IInv
<1>2. Kept /\ Others'
  BY <1>1, NextKept, OthersKept
<1>3. TypeOK' <=> Typed' /\ Others'
  BY Zenon DEF TypeOK, Typed, Others, Docs, Passes
<1> QED BY <1>2, <1>3, Zenon DEF Kept, IInv

THEOREM Invariance == Spec => []IInv
BY InitInv, NextInvariant, PTL DEF Spec

(* The queue, the dispatcher and the jobs are always in a state of theirs. *)
THEOREM QueueTyped == Spec => []TypeOK
<1>1. IInv => TypeOK
  BY DEF IInv
<1> QED BY <1>1, Invariance, PTL

LEMMA OpenNext == (Typed => Open = OpenMsgs)'
BY OpenIs, PTL

(* pending_runs.py:20, "never runs twice": a message is run at most once,
   whatever claims it, saves it again or cuts its run off. *)
THEOREM AtMostOneStart == Spec => RunsAtMostOnce
<1>1. Init => Once!OnceInit
  <2> SUFFICES ASSUME Init PROVE Once!OnceInit
    OBVIOUS
  <2>1. Open = OpenMsgs
    BY InitInv, TypeOKParts, OpenIs DEF IInv
  <2>2. OpenMsgs = Msgs /\ started = {}
    BY DEF Init, OpenMsgs, Undecided, Jobs
  <2> QED BY <2>1, <2>2 DEF Once!OnceInit
<1>2. ASSUME IInv, IInv', [Next]_vars PROVE [Once!OnceNext]_<<Open, started>>
  <2>1. Typed /\ Typed' /\ GroupInv /\ MsgInv /\ Kept
    <3>1. Typed /\ GroupInv /\ MsgInv
      BY <1>2, TypeOKParts DEF IInv
    <3> QED BY <1>2, <3>1, NextKept, Zenon DEF Kept
  <2>2. Open = OpenMsgs /\ Open' = OpenMsgs'
    BY <2>1, OpenIs, OpenNext
  <2>3. CASE started' = started
    BY <2>1, <2>2, <2>3 DEF Kept, Once!OnceNext, Once!GiveUp
  <2>4. ASSUME NEW S, Begins(S) PROVE Once!OnceNext
    BY <2>2, <2>4 DEF Begins, Once!OnceNext, Once!Begin
  <2> QED BY <2>1, <2>3, <2>4, Zenon DEF Kept
<1> QED BY <1>1, <1>2, Invariance, PTL DEF Spec, RunsAtMostOnce, Once!OnceSpec

(* While the process lives, a message that was answered with QUEUED_MESSAGE is lost
   only when a second drain discards it. *)
THEOREM NothingForgotten == Spec => OnlyRestartsLose
<1>1. ASSUME IInv, IInv', [Next]_vars PROVE [up' => Lost' \subseteq Lost]_vars
  <2> SUFFICES ASSUME up' PROVE Lost' \subseteq Lost
    OBVIOUS
  <2>1. Typed /\ Typed' /\ Settles
    <3>1. Typed /\ GroupInv /\ MsgInv
      BY <1>1, TypeOKParts DEF IInv
    <3> QED BY <1>1, <3>1, NextKept, Zenon DEF Kept
  <2>2. Open = OpenMsgs /\ Open' = OpenMsgs'
    BY <2>1, OpenIs, OpenNext
  <2>3. \A m : /\ m \in Failed <=> \E i \in Ids : entry[i].status = "failed" /\ m \in entry[i].msgs
               /\ m \in Failed' <=> \E i \in Ids : entry'[i].status = "failed"
                                                   /\ m \in entry'[i].msgs
    BY DEF Failed, MsgsIn
  <2> QED BY <2>1, <2>2, <2>3 DEF Lost, Settles, Decided
<1> QED BY <1>1, Invariance, PTL DEF Spec, OnlyRestartsLose

============================================================================
