---- MODULE AtMostOnce ----
(***************************************************************************)
(* What a queue of work promises when it would rather lose an item than    *)
(* do it twice: an item is open until it is begun or given up, and neither *)
(* is ever undone.                                                         *)
(***************************************************************************)
CONSTANT Items

VARIABLES open,     \* items that may still begin
          begun     \* items that have begun

OnceInit == open = Items /\ begun = {}

Begin(S) == S \subseteq open /\ begun' = begun \cup S /\ open' \subseteq open \ S

GiveUp == begun' = begun /\ open' \subseteq open

OnceNext == GiveUp \/ \E S \in SUBSET open : Begin(S)

OnceSpec == OnceInit /\ [][OnceNext]_<<open, begun>>

============================================================================
