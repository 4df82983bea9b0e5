---- MODULE ConversationLock ----
(***************************************************************************)
(* What the run registry promises to a conversation, without claims, run   *)
(* ids, handles or retries: one task at a time holds the conversation, and *)
(* a task that let go of it never holds it again.                          *)
(***************************************************************************)
CONSTANTS Tasks, NoTask

VARIABLES holder,       \* the task whose run the conversation belongs to
          retired       \* tasks that had the conversation and let go of it

lockVars == <<holder, retired>>

LockInit == holder = NoTask /\ retired = {}

Acquire(t) ==
    /\ holder = NoTask
    /\ t \notin retired
    /\ holder' = t
    /\ UNCHANGED retired

(* The run ended, or its task died. *)
LetGo(t) ==
    /\ holder = t
    /\ holder' = NoTask
    /\ retired' = retired \cup {t}

LockNext == \E t \in Tasks : Acquire(t) \/ LetGo(t)

LockSpec == LockInit /\ [][LockNext]_lockVars

============================================================================
