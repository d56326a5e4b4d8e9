------------------------------ MODULE MCProfiles ------------------------------
(* Two calls; agents that are local, built in, or both, with abilities of three sizes; e and s have a space in them. *)
EXTENDS Profiles, TLC

CONSTANTS a, b, e, d, s, x, y, z

MCPlace == a :> 1 @@ b :> 2 @@ e :> 3
MCDisplayNames == {d, s}
MCRefused == {e, s}
MCProfile(display, ok) == [displayName |-> display, valid |-> ok]
MCBuiltIn == a :> MCProfile(d, TRUE) @@ b :> None @@ e :> MCProfile(None, TRUE)
MCInitialLocal == {a :> MCProfile(b, FALSE) @@ b :> None @@ e :> MCProfile(b, TRUE),
                   a :> None @@ b :> MCProfile(d, TRUE) @@ e :> MCProfile(a, TRUE)}
MCAbilitiesOf == a :> <<x, y>> @@ b :> <<z>> @@ e :> <<>>
MCSize == x :> 1 @@ y :> 2 @@ z :> 0
MCSymmetry == Permutations(Calls) \union Permutations(Commands)
=============================================================================
