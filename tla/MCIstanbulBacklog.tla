------------------------- MODULE MCIstanbulBacklog -------------------------
EXTENDS IstanbulBacklog

M(c, s, q, r) == [code |-> c, src |-> s, seq |-> q, round |-> r]

\* Rounds at both ends of the range of toPriority.
MCRounds == {0, 1, 99}

MCGetProposer(s, r) == "p"

\* A peer is ahead of the core, in the last round of its sequence and at the
\* start of the next one; the core proposes and votes itself; a request is early.
MCMessages ==
    {M("PREPREPARE", "p", 1, 99), M("ROUNDCHANGE", "p", 1, 99),
     M("PREPREPARE", "p", 2, 0), M("COMMIT", "p", 2, 0),
     M("PREPREPARE", "self", 1, 99), M("PREPARE", "self", 1, 99),
     M("REQUEST", "self", 2, 0)}
=============================================================================
