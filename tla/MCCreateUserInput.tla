-------------------------- MODULE MCCreateUserInput --------------------------
(***************************************************************************)
(* CreateUserInput for TLC: two objects, so that a holder can be decoded   *)
(* into an object of its own while another object is shared; two holders,  *)
(* one to write and one to read, or both on one object; the zero string    *)
(* and one other; from a peer, one document of each kind the decoder tells *)
(* apart.                                                                  *)
(***************************************************************************)
EXTENDS CreateUserInput

CONSTANTS c1, c2, h1, h2

MCCells   == {c1, c2}
MCHolders == {h1, h2}
MCStrings == {"", "a"}

Members(members) == [kind |-> "object", members |-> members]

\* null, a malformed document, the empty object, an object that lacks
\* members, and one with a member that is a number.
MCDocuments ==
    { Null, Malformed, Members(<<>>),
      Members([name |-> "a"]),
      Members([name |-> "a", nickName |-> NotAString, phone |-> "a"]) }
=============================================================================
