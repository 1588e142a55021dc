--------------------------- MODULE MCBlockFetcher ---------------------------
(* The fetcher with a chain of two valid blocks, one of them without       *)
(* transactions, and a block that fails beside the first.                  *)
EXTENDS BlockFetcher

CONSTANTS b1, b2, bad

MCNumber == [h \in {b1, b2, bad} |-> IF h = b2 THEN 2 ELSE 1]
MCTxHash == [h \in {b1, b2, bad} |-> IF h = b2 THEN 0 ELSE 1]
=============================================================================
