------------------------- MODULE MCSessionRegistry -------------------------
(***************************************************************************)
(* SessionRegistry with its symmetric constants.                           *)
(***************************************************************************)
EXTENDS SessionRegistry

Symmetry == Permutations(Ids) \cup Permutations(Tokens) \cup Permutations(Principals)
            \cup Permutations(Endpoints)
=============================================================================
