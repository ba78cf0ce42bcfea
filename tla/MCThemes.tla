-------------------------------- MODULE MCThemes --------------------------------
(* Instance of Themes: theme "b" builds on "a" and uses its block type, which  *)
(* the second version of "a" drops; the presets of the second "b" are unreadable. *)
EXTENDS Themes, TLC

Symmetry == Permutations(Revision)

MCManifest(t, v) ==
    [parent |-> IF t = "b" THEN "a" ELSE None,
     blocks |-> IF t = "b" THEN [y |-> {"x"}] ELSE IF v = 1 THEN [x |-> {}] ELSE <<>>,
     api |-> TRUE,
     flaws |-> {f \in {"configuration"}: t = "b" /\ v = 2}]
=================================================================================
