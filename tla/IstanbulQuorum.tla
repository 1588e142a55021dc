--------------------------- MODULE IstanbulQuorum ---------------------------
(***************************************************************************)
(* The sizes that drive an Istanbul round: how many messages move the core *)
(* to its next state, how many faulty validators a round tolerates, and    *)
(* how many committed seals a header needs.  The first two are computed by *)
(* the consensus core, the last two by the sealer for header verification. *)
(***************************************************************************)
EXTENDS Integers

\* math.Ceil(float64(a) / b) of the source, for a natural a and positive b.
CeilDiv(a, b) == (a + b - 1) \div b

\* min(qualifiedLen, committeeSize): the "effective size" of the committee.
EffectiveSize(qualifiedLen, committeeSize) ==
    IF qualifiedLen > committeeSize THEN committeeSize ELSE qualifiedLen

\* requiredMessageCount of a round.
calcQuorumSize(qualifiedLen, committeeSize) ==
    LET size == EffectiveSize(qualifiedLen, committeeSize)
    IN  IF size < 4 THEN size ELSE CeilDiv(2 * size, 3)

\* f of a round.
calcFaultTolerance(qualifiedLen, committeeSize) ==
    CeilDiv(EffectiveSize(qualifiedLen, committeeSize), 3) - 1

\* IstanbulSealer.F, the same formula kept a second time by the sealer.
SealerF(qualifiedLen, committeeSize) ==
    IF qualifiedLen > committeeSize
      THEN CeilDiv(committeeSize, 3) - 1
      ELSE CeilDiv(qualifiedLen, 3) - 1

\* IstanbulSealer.Quorum: the committed seals verifySeals asks of a header.
SealerQuorum(qualifiedLen, committeeSize) ==
    2 * SealerF(qualifiedLen, committeeSize) + 1
=============================================================================
