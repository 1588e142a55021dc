---------------------------- MODULE MCHeaderGov ----------------------------
(* Header governance with votes on both bounds of the base fee, of this     *)
(* node and of another one, and with a validator vote.                      *)
EXTENDS HeaderGov

MCDefault == [p \in Names |-> IF p = "lowerboundbasefee" THEN 1 ELSE 3]

MCVotes ==
    {[voter |-> 1, name |-> "lowerboundbasefee", value |-> 2],
     [voter |-> 2, name |-> "upperboundbasefee", value |-> 1],
     [voter |-> 2, name |-> "addvalidator", value |-> 1]}
=============================================================================
