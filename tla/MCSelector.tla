----------------------------- MODULE MCSelector -----------------------------
(***************************************************************************)
(* Selector, instantiated for TLC: goroutine g1 with two selector          *)
(* variables and g2 with one.  Values and cells are interchangeable, so    *)
(* TLC explores one state of each orbit; labels are ranked, so they are    *)
(* not.                                                                    *)
(***************************************************************************)
EXTENDS Selector

CONSTANTS g1, g2, a1, a2, b1, v1, v2, r1, r2, c1, c2, c3

MCOwners   == {g1, g2}
MCSlots    == {a1, a2, b1}
MCOwnerOf  == (a1 :> g1) @@ (a2 :> g1) @@ (b1 :> g2)
MCValues   == {v1, v2}
MCReqCells == {r1, r2}
MCArgCells == {c1, c2, c3}
MCArgLists == {NIL, <<>>} \cup {<<v>> : v \in MCValues}
OneKey     == {1}
TwoKeys    == {1, 2}

Symmetry ==
    Permutations(MCValues) \cup Permutations(MCReqCells) \cup Permutations(MCArgCells)
=============================================================================
