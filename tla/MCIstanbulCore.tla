--------------------------- MODULE MCIstanbulCore ---------------------------
(* Four validators that all sit in the committee, on one or two sequences. *)
EXTENDS IstanbulCore, TLC

CONSTANTS n1, n2, n3, n4, a, b, c

MCNodes == {n1, n2, n3, n4}

\* n4 proposes in round 0 of every sequence and n1 in all later rounds.
MCGetProposer(s, r) == IF r = 0 THEN n4 ELSE n1

MCMined(n) == (CASE n = n1 -> {a} [] n = n4 -> {b} [] OTHER -> {}) \ InvalidValues

\* The miner of n4 never delivers, so round 0 never has a proposal.
MCSilentMined(n) == IF n = n1 THEN {a} ELSE {}

\* n2 and n3 never propose: they can be exchanged.
MCSymmetry == Permutations({n2, n3})
=============================================================================
