---- MODULE BoundedActionsMC ----
(***************************************************************************)
(* Small instances of BoundedActions.  Workers differ only in name, and so *)
(* do the exact actions that the saved policy treats alike.                *)
(***************************************************************************)
EXTENDS BoundedActions, TLC

NameSymmetry ==
    Permutations(Workers) \cup Permutations(Allowed) \cup Permutations(Exacts \ Allowed)

============================================================================
