------------------------------ MODULE MCSignIn ------------------------------
(* Instances of SignIn for TLC. *)
EXTENDS SignIn, TLC

\* "a b" and "a_b" are one name on the bus.
MCWire == ("a b" :> "a_b") @@ ("a_b" :> "a_b") @@ ("aiko-1" :> "aiko_1")

Symmetry ==
    Permutations(Users) \cup Permutations(Idents) \cup Permutations(Apps)
        \cup Permutations(Flows) \cup Permutations(Codes) \cup Permutations(Requests)
=============================================================================
