-------------------------- MODULE MCValsetCouncil --------------------------
(* Two validators besides the governing node, and short intervals. *)
EXTENDS ValsetCouncil

CONSTANTS g, v, w

MCValidators == {g, v, w}
MCGenesis    == {g, v}

\* A node of any age, one that starts with this version, and one with all its
\* blocks from the old version.
MCUpgrade == 0 .. MaxBlock
MCFresh   == {0}
MCOld     == {MaxBlock}
=============================================================================
