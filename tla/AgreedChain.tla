---------------------------- MODULE AgreedChain ----------------------------
(***************************************************************************)
(* What consensus and the path of a block to the chain promise together:   *)
(* one block is agreed on per number, in the order of the numbers, for     *)
(* good; and a chain grows only by the block that is agreed on for its     *)
(* next number.                                                            *)
(*                                                                         *)
(* IstanbulCore implements it for the chains of all validators, and        *)
(* SealPipeline for the chain of one validator whose worker, fetcher and   *)
(* restarts compete.                                                       *)
(***************************************************************************)
EXTENDS Naturals, Sequences

CONSTANTS
    Nodes,    \* the owners of the chains
    Blocks,
    None,     \* no block yet
    MaxNum    \* bound: the last number

VARIABLES
    agreed,   \* agreed[s]: the block of number s, once there is one
    chains    \* chains[n]: the blocks of n above genesis

vars == <<agreed, chains>>

Numbers == 1 .. MaxNum

Init ==
    /\ agreed = [s \in Numbers |-> None]
    /\ chains = [n \in Nodes |-> <<>>]

\* The number before s is settled.
InOrder(s) == s > 1 => agreed[s - 1] # None

\* A block becomes the one of number s.
Agree(s, b) ==
    /\ agreed[s] = None /\ InOrder(s)
    /\ agreed' = [agreed EXCEPT ![s] = b]
    /\ UNCHANGED chains

\* The chain of n gets its next block, which may be the first that anybody sees
\* of the agreement.
Extend(n, b) ==
    LET s == Len(chains[n]) + 1
    IN  /\ s \in Numbers /\ agreed[s] \in {None, b} /\ InOrder(s)
        /\ agreed' = [agreed EXCEPT ![s] = b]
        /\ chains' = [chains EXCEPT ![n] = Append(@, b)]

Next ==
    \/ \E s \in Numbers, b \in Blocks : Agree(s, b)
    \/ \E n \in Nodes, b \in Blocks : Extend(n, b)

Spec == Init /\ [][Next]_vars
=============================================================================
