------------------------- MODULE IstanbulCoreProofs -------------------------
(***************************************************************************)
(* Proofs about IstanbulCore for any number of validators, blocks, rounds  *)
(* and sequences.  A handler changes one node through Enter; SafeStep says *)
(* what the handlers have in common, each handler is shown to be a         *)
(* SafeStep, and a SafeStep is shown to keep the inductive invariant.      *)
(***************************************************************************)
EXTENDS IstanbulCore, FiniteSetTheorems, TLAPS

-----------------------------------------------------------------------------
(* What the quorum arithmetic guarantees for every number of qualified validators and
   every committee size *)

\* The effective size is a positive natural number no larger than the committee.
LEMMA EffectiveSizeType ==
    ASSUME NEW n \in Nat \ {0}, NEW c \in Nat \ {0}
    PROVE  EffectiveSize(n, c) \in Nat \ {0} /\ EffectiveSize(n, c) <= n
BY DEF EffectiveSize

\* Rounding up by thirds, without division.
LEMMA CeilThird ==
    ASSUME NEW a \in Nat
    PROVE  /\ CeilDiv(a, 3) \in Nat
           /\ a <= 3 * CeilDiv(a, 3) /\ 3 * CeilDiv(a, 3) <= a + 2
BY DEF CeilDiv

\* Two quorums of a round share more than f validators, so at least one that is
\* not faulty; and the validators that are not faulty can form a quorum alone.
THEOREM QuorumsIntersect ==
    ASSUME NEW n \in Nat \ {0}, NEW c \in Nat \ {0},
           NEW m, m = EffectiveSize(n, c)
    PROVE  /\ 2 * calcQuorumSize(n, c) - m > calcFaultTolerance(n, c)
           /\ calcQuorumSize(n, c) <= m - calcFaultTolerance(n, c)
<1>1. m \in Nat \ {0} /\ 2 * m \in Nat
  BY EffectiveSizeType
<1>2. /\ CeilDiv(m, 3) \in Nat /\ m <= 3 * CeilDiv(m, 3) /\ 3 * CeilDiv(m, 3) <= m + 2
      /\ CeilDiv(2 * m, 3) \in Nat /\ 2 * m <= 3 * CeilDiv(2 * m, 3)
      /\ 3 * CeilDiv(2 * m, 3) <= 2 * m + 2
  BY <1>1, CeilThird, Zenon
<1>3. calcFaultTolerance(n, c) = CeilDiv(m, 3) - 1
  BY DEF calcFaultTolerance
<1>4. calcQuorumSize(n, c) = IF m < 4 THEN m ELSE CeilDiv(2 * m, 3)
  BY DEF calcQuorumSize
<1>5. CASE m < 4
  <2>1. calcQuorumSize(n, c) = m /\ CeilDiv(m, 3) = 1
    BY <1>1, <1>2, <1>4, <1>5
  <2> QED  BY <2>1, <1>1, <1>3
<1>6. CASE ~ (m < 4)
  <2>1. calcQuorumSize(n, c) = CeilDiv(2 * m, 3)
    BY <1>4, <1>6
  <2> QED  BY <2>1, <1>1, <1>2, <1>3
<1> QED  BY <1>5, <1>6

\* A header never needs more seals than a core has collected COMMITs when it
\* decides: verifySeals accepts every block that handleCommit commits.
THEOREM SealQuorumBelowCoreQuorum ==
    ASSUME NEW n \in Nat \ {0}, NEW c \in Nat \ {0}
    PROVE  SealerQuorum(n, c) <= calcQuorumSize(n, c)
<1> DEFINE m == EffectiveSize(n, c)
<1>1. m \in Nat \ {0} /\ 2 * m \in Nat
  BY EffectiveSizeType
<1> HIDE DEF m
<1>2. /\ CeilDiv(m, 3) \in Nat /\ 3 * CeilDiv(m, 3) <= m + 2
      /\ CeilDiv(2 * m, 3) \in Nat /\ 2 * m <= 3 * CeilDiv(2 * m, 3)
  BY <1>1, CeilThird
<1>3. SealerQuorum(n, c) = 2 * (CeilDiv(m, 3) - 1) + 1
  BY DEF SealerQuorum, SealerF, EffectiveSize, m
<1>4. calcQuorumSize(n, c) = IF m < 4 THEN m ELSE CeilDiv(2 * m, 3)
  BY DEF calcQuorumSize, m
<1> QED  BY <1>1, <1>2, <1>3, <1>4

\* The two quorums are the same number when the committee has 3f + 1 members.
THEOREM SealQuorumIsCoreQuorum ==
    ASSUME NEW n \in Nat \ {0}, NEW c \in Nat \ {0}, NEW k \in Nat,
           EffectiveSize(n, c) = 3 * k + 1
    PROVE  /\ SealerF(n, c) = k /\ calcFaultTolerance(n, c) = k
           /\ SealerQuorum(n, c) = 2 * k + 1
           /\ calcQuorumSize(n, c) = 2 * k + 1
<1> DEFINE m == EffectiveSize(n, c)
<1>1. m = 3 * k + 1 /\ m \in Nat /\ 2 * m \in Nat
  OBVIOUS
<1> HIDE DEF m
<1>2. /\ CeilDiv(m, 3) \in Nat /\ m <= 3 * CeilDiv(m, 3) /\ 3 * CeilDiv(m, 3) <= m + 2
      /\ CeilDiv(2 * m, 3) \in Nat /\ 2 * m <= 3 * CeilDiv(2 * m, 3)
      /\ 3 * CeilDiv(2 * m, 3) <= 2 * m + 2
  BY <1>1, CeilThird, Zenon
<1>3. SealerF(n, c) = CeilDiv(m, 3) - 1 /\ calcFaultTolerance(n, c) = CeilDiv(m, 3) - 1
  BY DEF SealerF, calcFaultTolerance, EffectiveSize, m
<1>4. calcQuorumSize(n, c) = IF m < 4 THEN m ELSE CeilDiv(2 * m, 3)
  BY DEF calcQuorumSize, m
<1>5. CeilDiv(m, 3) = k + 1 /\ CeilDiv(2 * m, 3) = 2 * k + 1
  BY <1>1, <1>2
<1> QED  BY <1>1, <1>3, <1>4, <1>5 DEF SealerQuorum

-----------------------------------------------------------------------------
(* Steps of a node *)

\* What every handler of node n does to its round state, and what it sends.
SafeStep(n, rs, st, w, out) ==
    /\ rs \in RoundState /\ st \in States /\ w \in BOOLEAN
    /\ rs.seq <= MaxSeq + 1 /\ rs.round <= MaxRound
    /\ IsHashLocked(rs) => rs.preprepare = rs.lockedHash
    /\ (~ w /\ st # "AcceptRequest") => rs.preprepare # None
    /\ rs.seq >= current[n].seq
    /\ (n \in Stable /\ rs.seq = current[n].seq /\ IsHashLocked(current[n]))
         => rs.lockedHash = current[n].lockedHash
    /\ out \subseteq Message
    /\ \A m \in out : m.from = n
    /\ \A m \in out : (m.code = "COMMIT" /\ n \in Stable) =>
          /\ m.seq = rs.seq /\ m.seq = current[n].seq
          /\ m.digest # None /\ m.digest = rs.lockedHash

-----------------------------------------------------------------------------
(* Lemmas on the operators *)

\* The numbers of validators are integers.
LEMMA SealQuorumType == SealQuorum \in Int
<1>1. Cardinality(Nodes) \in Nat
  BY NodesAssumption, FS_CardinalityType
<1> QED
  BY <1>1, CommitteeSizeAssumption DEF SealQuorum, SealerQuorum, SealerF, CeilDiv

\* newRoundState of well-typed parts is a round state.
LEMMA RoundStateType ==
    ASSUME NEW s \in Nat, NEW r \in Nat, NEW lock \in OrNone(Values),
           NEW pp \in OrNone(Values), NEW req \in OrNone(Values),
           NEW p \in OrNone(Nodes)
    PROVE  newRoundState(s, r, lock, pp, req, p) \in RoundState
BY DEF newRoundState, RoundState

\* A well-typed message is a message.
LEMMA MsgType ==
    ASSUME NEW c \in {"PREPREPARE", "PREPARE", "COMMIT", "ROUNDCHANGE"},
           NEW n \in Nodes, NEW s \in Nat, NEW r \in Nat, NEW v \in OrNone(Values)
    PROVE  Msg(c, n, s, r, v) \in Message
BY DEF Msg, Message

\* Sealers of a block are never lost, because msgs only grows.
LEMMA SealersGrow ==
    ASSUME NEW s, NEW v, msgs \subseteq msgs'
    PROVE  /\ Cardinality(Sealers(s, v)) \in Nat
           /\ Cardinality(Sealers(s, v)') \in Nat
           /\ Cardinality(Sealers(s, v)) <= Cardinality(Sealers(s, v)')
<1>1. Sealers(s, v) \subseteq Sealers(s, v)' /\ Sealers(s, v)' \subseteq Nodes
  BY DEF Sealers, Available
<1>2. IsFiniteSet(Sealers(s, v)')
  BY <1>1, NodesAssumption, FS_Subset
<1>3. IsFiniteSet(Sealers(s, v))
  BY <1>1, <1>2, FS_Subset
<1> QED
  BY <1>1, <1>2, <1>3, FS_Subset, FS_CardinalityType

\* Two sets of sealers of the size verifySeals asks for share a stable node.
LEMMA SealersIntersect ==
    ASSUME FaultBound,
           NEW A \in SUBSET Nodes, NEW B \in SUBSET Nodes,
           Cardinality(A) >= SealQuorum, Cardinality(B) >= SealQuorum
    PROVE  \E x \in A \cap B : x \in Stable
<1> DEFINE Bad == Faulty \cup Unstable
<1>1. /\ IsFiniteSet(A) /\ IsFiniteSet(B) /\ IsFiniteSet(A \cup B)
      /\ IsFiniteSet(A \cap B) /\ IsFiniteSet(Bad)
  <2>1. A \cup B \in SUBSET Nodes /\ A \cap B \in SUBSET Nodes /\ Bad \in SUBSET Nodes
    BY NodesAssumption
  <2> QED  BY <2>1, NodesAssumption, FS_Subset
<1>2. Cardinality(A \cup B) <= Cardinality(Nodes)
  BY NodesAssumption, FS_Subset
<1>3. Cardinality(A \cup B) = Cardinality(A) + Cardinality(B) - Cardinality(A \cap B)
  BY <1>1, FS_Union
<1>4. /\ Cardinality(A) \in Nat /\ Cardinality(B) \in Nat /\ Cardinality(A \cap B) \in Nat
      /\ Cardinality(Bad) \in Nat /\ Cardinality(Nodes) \in Nat
  BY <1>1, NodesAssumption, FS_CardinalityType
<1>5. Cardinality(A \cap B) > Cardinality(Bad)
  BY <1>2, <1>3, <1>4, SealQuorumType DEF FaultBound
<1>6. ~ (A \cap B \subseteq Bad)
  <2> SUFFICES ASSUME A \cap B \subseteq Bad PROVE FALSE
    OBVIOUS
  <2>1. Cardinality(A \cap B) <= Cardinality(Bad)
    BY <1>1, FS_Subset
  <2> QED  BY <2>1, <1>4, <1>5
<1> QED
  BY <1>6 DEF Stable

-----------------------------------------------------------------------------
(* A SafeStep keeps the inductive invariant *)

LEMMA SafeStepInvariant ==
    ASSUME IInv, NEW n \in Correct, NEW rs, NEW st, NEW w, NEW out,
           SafeStep(n, rs, st, w, out), Enter(n, rs, st, w, out)
    PROVE  IInv'
<1> USE DEF SafeStep, Enter
<1>0. n \in Nodes /\ Correct \subseteq Nodes /\ Stable \subseteq Correct
  BY DEF Correct, Stable
<1>1. TypeOK'
  BY <1>0 DEF IInv, TypeOK
<1>2. /\ current'[n] = rs /\ state'[n] = st /\ waiting'[n] = w
      /\ \A k \in Nodes \ {n} : /\ current'[k] = current[k]
                                /\ state'[k] = state[k] /\ waiting'[k] = waiting[k]
      /\ msgs' = msgs \cup out /\ chain' = chain
  BY <1>0 DEF IInv, TypeOK
<1>3. WithinBounds'
  BY <1>0, <1>2 DEF IInv, WithinBounds
<1>4. LockHolds'
  BY <1>0, <1>2 DEF IInv, LockHolds, IsHashLocked
<1>5. VotesHaveProposal'
  BY <1>0, <1>2 DEF IInv, VotesHaveProposal, Running
<1>6. CommitLocks'
  <2> SUFFICES ASSUME NEW m \in msgs', m.code = "COMMIT", m.from \in Stable
               PROVE  /\ m.digest # None
                      /\ m.seq <= current'[m.from].seq
                      /\ m.seq = current'[m.from].seq => current'[m.from].lockedHash = m.digest
    BY DEF CommitLocks
  <2>1. CASE m \in out
    BY <2>1, <1>0, <1>2 DEF RoundState
  <2>2. CASE m \in msgs /\ m.from # n
    BY <2>2, <1>0, <1>2 DEF IInv, CommitLocks
  <2>3. CASE m \in msgs /\ m.from = n
    <3>1. /\ m.digest # None /\ m.seq <= current[n].seq
          /\ m.seq = current[n].seq => current[n].lockedHash = m.digest
      BY <2>3 DEF IInv, CommitLocks
    <3>2. m.seq \in Nat /\ current[n].seq \in Nat /\ rs.seq \in Nat
      BY <2>3, <1>0 DEF IInv, TypeOK, Message, RoundState
    <3> QED  BY <2>3, <3>1, <3>2, <1>2 DEF IsHashLocked
  <2> QED  BY <2>1, <2>2, <2>3, <1>2
<1>7. OneCommitPerSequence'
  <2> SUFFICES ASSUME NEW m1 \in msgs', NEW m2 \in msgs',
                      m1.code = "COMMIT", m1.from \in Stable,
                      m2.code = "COMMIT", m2.from \in Stable,
                      m1.from = m2.from, m1.seq = m2.seq
               PROVE  m1.digest = m2.digest
    BY DEF OneCommitPerSequence
  <2>1. CASE m1 \in msgs /\ m2 \in msgs
    BY <2>1 DEF IInv, OneCommitPerSequence
  <2>2. CASE m1 \in out \/ m2 \in out
    <3>1. m1.seq = rs.seq /\ m1.from = n
      BY <2>2
    <3>2. \A m \in msgs' : (m.code = "COMMIT" /\ m.from = n /\ m.seq = rs.seq) =>
              m.digest = rs.lockedHash
      BY <3>1, <1>2, <1>6 DEF CommitLocks
    <3> QED  BY <3>1, <3>2, Zenon
  <2> QED  BY <2>1, <2>2, <1>2
<1>8. ChainSealed'
  <2> SUFFICES ASSUME NEW k \in Correct, NEW s \in 1 .. Len(chain[k])
               PROVE  Cardinality(Sealers(s, chain[k][s])') >= SealQuorum
    BY <1>2, Zenon DEF ChainSealed, Sealers, Available
  <2>1. Cardinality(Sealers(s, chain[k][s])) >= SealQuorum
    BY DEF IInv, ChainSealed
  <2> QED  BY <2>1, <1>2, SealersGrow, SealQuorumType
<1> QED
  BY <1>1, <1>3, <1>4, <1>5, <1>6, <1>7, <1>8 DEF IInv

-----------------------------------------------------------------------------
(* Every handler keeps the inductive invariant *)

\* The round state of a node and the messages it sends have their types.
LEMMA NodeTypes ==
    ASSUME IInv, NEW n \in Correct
    PROVE  /\ n \in Nodes /\ current[n] \in RoundState
           /\ current[n].seq \in Nat /\ current[n].round \in Nat
           /\ state[n] \in States /\ waiting[n] \in BOOLEAN
           /\ Len(chain[n]) \in Nat /\ Len(chain[n]) <= MaxSeq
           /\ current[n].seq <= MaxSeq + 1 /\ current[n].round <= MaxRound
BY DEF IInv, TypeOK, WithinBounds, Correct, RoundState

\* The votes of a round state are messages of the node for its view.
LEMMA VoteType ==
    ASSUME NEW n \in Nodes, NEW rs \in RoundState, NEW c \in {"PREPARE", "COMMIT"}
    PROVE  /\ Vote(c, n, rs) \subseteq Message
           /\ \A m \in Vote(c, n, rs) : /\ m.from = n /\ m.code = c /\ m.seq = rs.seq
                                        /\ m.digest = rs.preprepare
BY DEF Vote, Msg, Message, RoundState

\* So is its proposal.
LEMMA ProposalType ==
    ASSUME NEW n \in Nodes, NEW rs \in RoundState, NEW v \in OrNone(Values)
    PROVE  /\ Proposal(n, rs, v) \subseteq Message
           /\ \A m \in Proposal(n, rs, v) : m.from = n /\ m.code = "PREPREPARE"
BY DEF Proposal, Msg, Message, RoundState

LEMMA StartNewSequenceSafe ==
    ASSUME IInv, NEW n \in Correct, NEW r \in 0 .. MaxRound, StartNewSequence(n, r)
    PROVE  IInv'
<1> DEFINE p  == GetProposer(Len(chain[n]) + 1, r)
           rs == newRoundState(Len(chain[n]) + 1, 0, None, None, None, p)
<1>1. p \in Nodes
  BY NodeTypes, ProposerAssumption, BoundsAssumption
<1>2. rs \in RoundState /\ rs.seq = Len(chain[n]) + 1 /\ rs.round = 0 /\ rs.lockedHash = None
  BY <1>1, NodeTypes DEF newRoundState, RoundState, OrNone
<1>3. rs.seq > current[n].seq /\ rs.seq <= MaxSeq + 1
  BY <1>2, NodeTypes, BoundsAssumption DEF StartNewSequence
<1>4. SafeStep(n, rs, "AcceptRequest", FALSE, {})
  BY <1>2, <1>3, NodeTypes, BoundsAssumption DEF SafeStep, States, IsHashLocked
<1>5. Enter(n, rs, "AcceptRequest", FALSE, {})
  BY Zenon DEF StartNewSequence
<1> QED  BY <1>4, <1>5, SafeStepInvariant, Zenon

\* updateRoundState keeps the sequence, the lock and the locked proposal.
LEMMA UpdateRoundState ==
    ASSUME IInv, NEW n \in Correct, NEW r \in 0 .. MaxRound, NEW p \in OrNone(Nodes),
           NEW rs, rs = updateRoundState(current[n], r, p)
    PROVE  /\ rs \in RoundState /\ rs.seq = current[n].seq /\ rs.round = r
           /\ rs.lockedHash = current[n].lockedHash
           /\ IsHashLocked(rs) => rs.preprepare = rs.lockedHash
<1>1. IsHashLocked(current[n]) => current[n].preprepare = current[n].lockedHash
  BY DEF IInv, LockHolds
<1> QED
  BY <1>1, NodeTypes DEF updateRoundState, newRoundState, RoundState, OrNone, IsHashLocked

LEMMA StartRoundSafe ==
    ASSUME IInv, NEW n \in Correct, NEW r \in 1 .. MaxRound, Active(n), StartRound(n, r)
    PROVE  IInv'
<1> DEFINE p   == GetProposer(current[n].seq, r)
           rs  == updateRoundState(current[n], r, p)
           v   == IF IsHashLocked(rs) THEN rs.preprepare ELSE rs.pendingRequest
           out == IF v # None THEN Proposal(n, rs, v) ELSE {}
<1>1. p \in OrNone(Nodes) /\ r \in 0 .. MaxRound
  BY NodeTypes, ProposerAssumption, BoundsAssumption DEF Active, Running, OrNone
<1>2. /\ rs \in RoundState /\ rs.seq = current[n].seq /\ rs.round = r
      /\ rs.lockedHash = current[n].lockedHash
      /\ IsHashLocked(rs) => rs.preprepare = rs.lockedHash
  BY <1>1, UpdateRoundState
<1>3. v \in OrNone(Values)
  BY <1>2, Zenon DEF RoundState
<1>4. Enter(n, rs, "AcceptRequest", FALSE, out)
  BY Zenon DEF StartRound
<1> HIDE DEF p, rs, v
<1>5. out \subseteq Message /\ \A m \in out : m.from = n /\ m.code = "PREPREPARE"
  <2>1. n \in Nodes  BY NodeTypes
  <2>2. CASE v # None  BY <2>1, <2>2, <1>2, <1>3, ProposalType
  <2>3. CASE v = None  BY <2>3
  <2> QED  BY <2>2, <2>3
<1> HIDE DEF out
<1>6. SafeStep(n, rs, "AcceptRequest", FALSE, out)
  BY <1>2, <1>5, NodeTypes, BoundsAssumption DEF SafeStep, States
<1> QED  BY <1>4, <1>6, SafeStepInvariant, Zenon

LEMMA SendRoundChangeSafe ==
    ASSUME IInv, NEW n \in Correct, NEW r \in Nat, sendRoundChange(n, r)
    PROVE  IInv'
<1> DEFINE rs == updateRoundState(current[n], r, current[n].proposer)
           out == {Msg("ROUNDCHANGE", n, current[n].seq, r, None)}
<1>1. current[n].proposer \in OrNone(Nodes) /\ r \in 0 .. MaxRound
  BY NodeTypes, BoundsAssumption DEF sendRoundChange, RoundState
<1>2. /\ rs \in RoundState /\ rs.seq = current[n].seq /\ rs.round = r
      /\ rs.lockedHash = current[n].lockedHash
      /\ IsHashLocked(rs) => rs.preprepare = rs.lockedHash
  BY <1>1, UpdateRoundState
<1>3. out \subseteq Message /\ \A m \in out : m.from = n /\ m.code = "ROUNDCHANGE"
  BY NodeTypes DEF Msg, Message, OrNone
<1>4. Enter(n, rs, state[n], TRUE, out)
  BY Zenon DEF sendRoundChange
<1> HIDE DEF rs, out
<1>5. SafeStep(n, rs, state[n], TRUE, out)
  BY <1>1, <1>2, <1>3, NodeTypes, BoundsAssumption DEF SafeStep
<1> QED  BY <1>4, <1>5, SafeStepInvariant, Zenon

LEMMA HandleRequestSafe ==
    ASSUME IInv, NEW n \in Correct, NEW v \in Values, handleRequest(n, v)
    PROVE  IInv'
<1> DEFINE rs  == [current[n] EXCEPT !.pendingRequest = v]
           out == IF state[n] = "AcceptRequest" THEN Proposal(n, rs, v) ELSE {}
<1>1. /\ rs \in RoundState /\ rs.seq = current[n].seq /\ rs.round = current[n].round
      /\ rs.lockedHash = current[n].lockedHash /\ rs.preprepare = current[n].preprepare
  BY NodeTypes DEF RoundState, OrNone
<1>2. out \subseteq Message /\ \A m \in out : m.from = n /\ m.code = "PREPREPARE"
  BY <1>1, NodeTypes, ProposalType DEF OrNone
<1>3. IsHashLocked(rs) => rs.preprepare = rs.lockedHash
  BY <1>1 DEF IInv, LockHolds, IsHashLocked
<1>4. (~ waiting[n] /\ state[n] # "AcceptRequest") => rs.preprepare # None
  BY <1>1 DEF IInv, VotesHaveProposal, handleRequest, Active
<1>5. SafeStep(n, rs, state[n], waiting[n], out)
  BY <1>1, <1>2, <1>3, <1>4, NodeTypes, BoundsAssumption DEF SafeStep
<1>6. Enter(n, rs, state[n], waiting[n], out)
  BY DEF handleRequest
<1> QED  BY <1>5, <1>6, SafeStepInvariant

LEMMA AcceptProposalSafe ==
    ASSUME IInv, NEW n \in Correct, NEW v \in Values, AcceptProposal(n, v)
    PROVE  IInv'
<1> DEFINE rs == [current[n] EXCEPT !.preprepare = v]
<1>1. /\ rs \in RoundState /\ rs.seq = current[n].seq /\ rs.round = current[n].round
      /\ rs.lockedHash = None /\ rs.preprepare = v /\ v # None
      /\ current[n].lockedHash = None
  BY NodeTypes, ValuesAssumption DEF RoundState, OrNone, AcceptProposal, IsHashLocked
<1> HIDE DEF rs
<1>2. /\ Vote("PREPARE", n, rs) \subseteq Message
      /\ \A m \in Vote("PREPARE", n, rs) : m.from = n /\ m.code = "PREPARE"
  BY <1>1, NodeTypes, VoteType
<1>3. SafeStep(n, rs, "Preprepared", FALSE, Vote("PREPARE", n, rs))
  BY <1>1, <1>2, NodeTypes, BoundsAssumption DEF SafeStep, States, IsHashLocked
<1>4. Enter(n, rs, "Preprepared", FALSE, Vote("PREPARE", n, rs))
  BY Zenon DEF AcceptProposal, rs
<1> QED  BY <1>3, <1>4, SafeStepInvariant, Zenon

LEMMA AcceptLockedProposalSafe ==
    ASSUME IInv, NEW n \in Correct, NEW v \in Values, AcceptLockedProposal(n, v)
    PROVE  IInv'
<1> DEFINE rs == [current[n] EXCEPT !.preprepare = v]
<1>1. /\ rs \in RoundState /\ rs.seq = current[n].seq /\ rs.round = current[n].round
      /\ rs.lockedHash = v /\ rs.preprepare = v /\ v # None
      /\ current[n].lockedHash = v
  BY NodeTypes, ValuesAssumption DEF RoundState, OrNone, AcceptLockedProposal, IsHashLocked
<1> HIDE DEF rs
<1>2. /\ Vote("COMMIT", n, rs) \subseteq Message
      /\ \A m \in Vote("COMMIT", n, rs) : m.from = n /\ m.seq = rs.seq /\ m.digest = v
  BY <1>1, NodeTypes, VoteType
<1>3. SafeStep(n, rs, "Prepared", FALSE, Vote("COMMIT", n, rs))
  BY <1>1, <1>2, NodeTypes, BoundsAssumption DEF SafeStep, States, IsHashLocked
<1>4. Enter(n, rs, "Prepared", FALSE, Vote("COMMIT", n, rs))
  BY Zenon DEF AcceptLockedProposal, rs
<1> QED  BY <1>3, <1>4, SafeStepInvariant, Zenon

LEMMA HandlePreprepareSafe ==
    ASSUME IInv, NEW n \in Correct, NEW v \in Values, handlePreprepare(n, v)
    PROVE  IInv'
<1>1. CASE sendNextRoundChange(n)
  BY <1>1, NodeTypes, SendRoundChangeSafe DEF sendNextRoundChange
<1>2. CASE AcceptProposal(n, v)
  BY <1>2, AcceptProposalSafe
<1>3. CASE AcceptLockedProposal(n, v)
  BY <1>3, AcceptLockedProposalSafe
<1> QED
  BY <1>1, <1>2, <1>3 DEF handlePreprepare, RejectProposal, RefuseProposal

\* Locking the proposal of a view in which the node votes keeps an older lock.
LEMMA LockHashKeepsLock ==
    ASSUME IInv, NEW n \in Correct, Voting(n), NEW rs, rs = LockHash(current[n])
    PROVE  /\ rs \in RoundState /\ rs.seq = current[n].seq /\ rs.round = current[n].round
           /\ rs.preprepare = current[n].preprepare
           /\ rs.lockedHash = rs.preprepare /\ rs.preprepare # None
           /\ IsHashLocked(current[n]) => rs.lockedHash = current[n].lockedHash
<1>1. rs \in RoundState /\ rs.seq = current[n].seq /\ rs.round = current[n].round
      /\ rs.preprepare = current[n].preprepare /\ rs.lockedHash = current[n].preprepare
  BY NodeTypes DEF LockHash, RoundState
<1>2. current[n].preprepare # None
  BY DEF IInv, VotesHaveProposal, Voting, Active
<1>3. IsHashLocked(current[n]) => current[n].preprepare = current[n].lockedHash
  BY DEF IInv, LockHolds
<1> QED  BY <1>1, <1>2, <1>3

LEMMA HandlePrepareSafe ==
    ASSUME IInv, NEW n \in Correct, handlePrepare(n)
    PROVE  IInv'
<1> DEFINE rs == LockHash(current[n])
<1>1. /\ rs \in RoundState /\ rs.seq = current[n].seq /\ rs.round = current[n].round
      /\ rs.lockedHash = rs.preprepare /\ rs.preprepare # None
      /\ IsHashLocked(current[n]) => rs.lockedHash = current[n].lockedHash
  BY LockHashKeepsLock DEF handlePrepare
<1> HIDE DEF rs
<1>2. /\ Vote("COMMIT", n, rs) \subseteq Message
      /\ \A m \in Vote("COMMIT", n, rs) : m.from = n /\ m.seq = rs.seq /\ m.digest = rs.preprepare
  BY <1>1, NodeTypes, VoteType
<1>3. SafeStep(n, rs, "Prepared", FALSE, Vote("COMMIT", n, rs))
  BY <1>1, <1>2, NodeTypes, BoundsAssumption DEF SafeStep, States
<1>4. Enter(n, rs, "Prepared", FALSE, Vote("COMMIT", n, rs))
  BY Zenon DEF handlePrepare, rs
<1> QED  BY <1>3, <1>4, SafeStepInvariant, Zenon

\* The COMMIT a late handleCommit still sends is for the proposal of its view.
LEMMA LateVoteType ==
    ASSUME IInv, NEW n \in Correct
    PROVE  /\ LateVote(n) \subseteq Message
           /\ \A m \in LateVote(n) : /\ m.from = n /\ m.seq = current[n].seq
                                     /\ m.digest = current[n].preprepare
BY NodeTypes, VoteType DEF LateVote

LEMMA HandleCommitSafe ==
    ASSUME IInv, NEW n \in Correct, handleCommit(n)
    PROVE  IInv'
<1> DEFINE rs == LockHash(current[n])
<1>1. /\ rs \in RoundState /\ rs.seq = current[n].seq /\ rs.round = current[n].round
      /\ rs.preprepare = current[n].preprepare
      /\ rs.lockedHash = rs.preprepare /\ rs.preprepare # None
      /\ IsHashLocked(current[n]) => rs.lockedHash = current[n].lockedHash
  BY LockHashKeepsLock, Zenon DEF handleCommit, CommitQuorum
<1> HIDE DEF rs
<1>2. SafeStep(n, rs, "Committed", FALSE, LateVote(n))
  BY <1>1, NodeTypes, LateVoteType, BoundsAssumption DEF SafeStep, States
<1>3. Enter(n, rs, "Committed", FALSE, LateVote(n))
  BY Zenon DEF handleCommit, rs
<1> QED  BY <1>2, <1>3, SafeStepInvariant, Zenon

LEMMA HandleCommitFailsSafe ==
    ASSUME IInv, NEW n \in Correct, handleCommitFails(n)
    PROVE  IInv'
<1> DEFINE r   == current[n].round + 1
           u   == [current[n] EXCEPT !.lockedHash = None]
           rs  == updateRoundState(u, r, current[n].proposer)
           out == LateVote(n) \cup {Msg("ROUNDCHANGE", n, rs.seq, rs.round, None)}
<1>1. r \in Nat /\ r <= MaxRound /\ n \notin Stable
  BY NodeTypes DEF handleCommitFails, Stable
<1>2. u \in RoundState /\ u.seq = current[n].seq /\ u.lockedHash = None
  BY NodeTypes DEF RoundState, OrNone
<1>3. /\ rs \in RoundState /\ rs.seq = current[n].seq /\ rs.round = r
      /\ rs.lockedHash = None
  BY <1>1, <1>2, NodeTypes DEF updateRoundState, newRoundState, RoundState, OrNone, IsHashLocked
<1>4. out \subseteq Message /\ \A m \in out : m.from = n
  BY <1>1, <1>3, NodeTypes, LateVoteType DEF Msg, Message, OrNone
<1>5. Enter(n, rs, "Committed", TRUE, out)
  BY Zenon DEF handleCommitFails
<1>6. rs.round <= MaxRound
  BY <1>1, <1>3
<1> HIDE DEF r, u, rs, out
<1>7. SafeStep(n, rs, "Committed", TRUE, out)
  BY <1>1, <1>3, <1>4, <1>6, NodeTypes, BoundsAssumption DEF SafeStep, States, IsHashLocked
<1> QED  BY <1>5, <1>7, SafeStepInvariant, Zenon

LEMMA HandleRoundChangeSafe ==
    ASSUME IInv, NEW n \in Correct, NEW r \in 1 .. MaxRound,
           handleRoundChange(n, r) \/ handleWeakCertificate(n, r)
    PROVE  IInv'
<1>0. r \in 0 .. MaxRound /\ r \in Nat
  BY BoundsAssumption
<1>1. CASE handleRoundChange(n, r)
  BY <1>0, <1>1, StartNewSequenceSafe, StartRoundSafe DEF handleRoundChange, startNewRound
<1>2. CASE handleWeakCertificate(n, r)
  BY <1>0, <1>2, SendRoundChangeSafe DEF handleWeakCertificate
<1> QED  BY <1>1, <1>2

LEMMA HandleTimeoutSafe ==
    ASSUME IInv, NEW n \in Correct, handleTimeoutMsg(n)
    PROVE  IInv'
<1>1. \E r \in Nat : sendRoundChange(n, r)
  BY NodeTypes, BoundsAssumption DEF handleTimeoutMsg, sendNextRoundChange
<1> QED  BY <1>1, SendRoundChangeSafe

\* Start and handleChainHead both start the next sequence at round 0.
LEMMA ChainHeadSafe ==
    ASSUME IInv, NEW n \in Correct, Start(n) \/ handleChainHead(n)
    PROVE  IInv'
<1>1. StartNewSequence(n, 0) /\ 0 \in 0 .. MaxRound
  BY BoundsAssumption DEF Start, handleChainHead
<1> QED  BY <1>1, StartNewSequenceSafe

\* Stopping loses the lock, but only of a node that is not counted as stable.
LEMMA StopSafe ==
    ASSUME IInv, NEW n \in Correct, Stop(n)
    PROVE  IInv'
<1>0. n \in Nodes /\ n \notin Stable /\ Correct \subseteq Nodes /\ Stable \subseteq Nodes
  BY DEF Correct, Stable, Stop
<1>1. /\ NoRound \in RoundState /\ NoRound.seq = 0 /\ NoRound.round = 0
      /\ NoRound.lockedHash = None
  BY DEF NoRound, newRoundState, RoundState, OrNone
<1>2. /\ current' = [current EXCEPT ![n] = NoRound]
      /\ chain' = chain /\ state' = state /\ waiting' = waiting /\ msgs' = msgs
  BY DEF Stop
<1>3. TypeOK'
  BY <1>1, <1>2, Zenon DEF IInv, TypeOK
<1>4. current'[n] = NoRound /\ \A k \in Nodes \ {n} : current'[k] = current[k]
  BY <1>0, <1>2 DEF IInv, TypeOK
<1>5. WithinBounds' /\ LockHolds' /\ VotesHaveProposal'
  BY <1>0, <1>1, <1>2, <1>4, BoundsAssumption
  DEF IInv, WithinBounds, LockHolds, VotesHaveProposal, IsHashLocked, Running
<1>6. CommitLocks'
  BY <1>0, <1>2, <1>4 DEF IInv, CommitLocks
<1>7. OneCommitPerSequence' /\ ChainSealed'
  BY <1>2, Zenon DEF IInv, OneCommitPerSequence, ChainSealed, Sealers, Available
<1> QED  BY <1>3, <1>5, <1>6, <1>7 DEF IInv

LEMMA InsertBlockSafe ==
    ASSUME IInv, NEW n \in Correct, NEW v \in Values, InsertBlock(n, v)
    PROVE  IInv'
<1>0. n \in Nodes /\ Correct \subseteq Nodes /\ chain[n] \in Seq(Values)
  BY DEF Correct, IInv, TypeOK
<1>1. /\ chain' = [chain EXCEPT ![n] = Append(chain[n], v)]
      /\ current' = current /\ state' = state /\ waiting' = waiting /\ msgs' = msgs
  BY DEF InsertBlock
<1>2. Append(chain[n], v) \in Seq(Values) /\ Len(Append(chain[n], v)) = Len(chain[n]) + 1
  BY <1>0
<1>3. TypeOK'
  BY <1>1, <1>2, Zenon DEF IInv, TypeOK
<1>4. chain'[n] = Append(chain[n], v) /\ \A k \in Nodes \ {n} : chain'[k] = chain[k]
  BY <1>0, <1>1 DEF IInv, TypeOK
<1>5. WithinBounds'
  BY <1>0, <1>1, <1>2, <1>4, BoundsAssumption DEF IInv, WithinBounds, InsertBlock
<1>6. LockHolds' /\ VotesHaveProposal' /\ CommitLocks' /\ OneCommitPerSequence'
  BY <1>1, Zenon DEF IInv, LockHolds, VotesHaveProposal, CommitLocks, OneCommitPerSequence, Running
<1>7. ChainSealed'
  <2>0. msgs' = msgs
    BY <1>1
  <2> SUFFICES ASSUME NEW k \in Correct, NEW s \in 1 .. Len(chain'[k])
               PROVE  Cardinality(Sealers(s, chain'[k][s])) >= SealQuorum
    BY <2>0, Zenon DEF ChainSealed, Sealers, Available
  <2>1. CASE k # n
    BY <2>1, <1>0, <1>4 DEF IInv, ChainSealed
  <2>2. CASE k = n /\ s <= Len(chain[n])
    <3>1. chain'[k][s] = chain[n][s] /\ s \in 1 .. Len(chain[n])
      BY <2>2, <1>0, <1>2, <1>4
    <3> QED  BY <3>1 DEF IInv, ChainSealed
  <2>3. CASE k = n /\ s = Len(chain[n]) + 1
    <3>1. chain'[k][s] = v
      BY <2>3, <1>0, <1>4
    <3> QED  BY <3>1, <2>3 DEF InsertBlock
  <2> QED  BY <2>1, <2>2, <2>3, <1>0, <1>2, <1>4
<1> QED  BY <1>3, <1>5, <1>6, <1>7 DEF IInv

-----------------------------------------------------------------------------
(* The theorems *)

\* The invariant is inductive, whatever the validators, blocks and bounds, and
\* however many of the validators are faulty or unstable.
THEOREM Invariance == Spec => []IInv
<1>1. Init => IInv
  <2> SUFFICES ASSUME Init PROVE IInv
    OBVIOUS
  <2>1. GetProposer(1, 0) \in Nodes
    BY ProposerAssumption, BoundsAssumption
  <2>2. /\ newRoundState(1, 0, None, None, None, GetProposer(1, 0)) \in RoundState
        /\ \A n \in Nodes : /\ current[n].seq = 1 /\ current[n].round = 0
                            /\ current[n].lockedHash = None
    BY <2>1 DEF Init, newRoundState, RoundState, OrNone
  <2>3. TypeOK
    BY <2>2 DEF Init, TypeOK, States
  <2>4. \A n \in Nodes : Len(chain[n]) = 0
    BY DEF Init
  <2>5. WithinBounds /\ LockHolds /\ VotesHaveProposal
    BY <2>2, <2>4, BoundsAssumption
    DEF Init, WithinBounds, LockHolds, VotesHaveProposal, IsHashLocked, Correct
  <2>6. CommitLocks /\ OneCommitPerSequence
    BY DEF Init, CommitLocks, OneCommitPerSequence
  <2>7. ChainSealed
    BY <2>4 DEF ChainSealed, Correct
  <2> QED  BY <2>3, <2>5, <2>6, <2>7 DEF IInv
<1>2. IInv /\ [Next]_vars => IInv'
  <2> SUFFICES ASSUME IInv, [Next]_vars PROVE IInv'
    OBVIOUS
  <2>1. ASSUME NEW n \in Correct, CoreStep(n) PROVE IInv'
    BY <2>1, HandleRequestSafe, HandlePreprepareSafe, HandlePrepareSafe,
       HandleCommitSafe, HandleCommitFailsSafe, HandleRoundChangeSafe,
       HandleTimeoutSafe, ChainHeadSafe, StopSafe
    DEF CoreStep
  <2>2. ASSUME NEW n \in Correct, NEW v \in Values, InsertBlock(n, v) PROVE IInv'
    BY <2>2, InsertBlockSafe, Zenon
  <2>3. CASE UNCHANGED vars
    <3>1. chain' = chain /\ current' = current /\ state' = state
          /\ waiting' = waiting /\ msgs' = msgs
      BY <2>3 DEF vars
    <3>2. TypeOK' /\ WithinBounds' /\ LockHolds' /\ VotesHaveProposal'
      BY <3>1, Zenon DEF IInv, TypeOK, WithinBounds, LockHolds, VotesHaveProposal,
         Running, IsHashLocked
    <3>3. CommitLocks' /\ OneCommitPerSequence' /\ ChainSealed'
      BY <3>1, Zenon DEF IInv, CommitLocks, OneCommitPerSequence, ChainSealed,
         Sealers, Available
    <3> QED  BY <3>2, <3>3 DEF IInv
  <2> QED  BY <2>1, <2>2, <2>3 DEF Next
<1> QED  BY <1>1, <1>2, PTL DEF Spec

\* Every variable keeps its type in every reachable state.
THEOREM TypeCorrect == Spec => []TypeOK
<1>1. IInv => TypeOK
  BY DEF IInv
<1> QED  BY <1>1, Invariance, PTL

\* A validator that keeps its lock signs COMMITs for at most one block of a
\* sequence, across all its rounds and whatever the other validators send.
THEOREM OneCommit == Spec => []OneCommitPerSequence
<1>1. IInv => OneCommitPerSequence
  BY DEF IInv
<1> QED  BY <1>1, Invariance, PTL

\* Where the seal quorums intersect, the invariant makes the chains agree.
LEMMA SealedChainsAgree == ASSUME FaultBound PROVE IInv => Agreement
<1> SUFFICES ASSUME IInv, NEW m \in Correct, NEW n \in Correct,
                    NEW s \in 1 .. Len(chain[m]), s <= Len(chain[n])
             PROVE  chain[m][s] = chain[n][s]
  BY DEF Agreement
<1> DEFINE A == Sealers(s, chain[m][s])
           B == Sealers(s, chain[n][s])
<1>1. s \in 1 .. Len(chain[n])
  BY DEF IInv, TypeOK, Correct
<1>2. Cardinality(A) >= SealQuorum /\ Cardinality(B) >= SealQuorum
  BY <1>1 DEF IInv, ChainSealed
<1>3. A \in SUBSET Nodes /\ B \in SUBSET Nodes
  BY DEF Sealers
<1> HIDE DEF A, B
<1>4. PICK x \in A \cap B : x \in Stable
  BY <1>2, <1>3, SealersIntersect
<1>5. /\ \E r \in 0 .. MaxRound : Msg("COMMIT", x, s, r, chain[m][s]) \in msgs
      /\ \E r \in 0 .. MaxRound : Msg("COMMIT", x, s, r, chain[n][s]) \in msgs
  BY <1>4 DEF A, B, Sealers, Available, Stable, Msg
<1> QED  BY <1>4, <1>5 DEF IInv, OneCommitPerSequence, Msg

\* If any two sets of sealers that verifySeals accepts share a stable validator,
\* the chains of correct validators never disagree.
THEOREM ChainAgreement == ASSUME FaultBound PROVE Spec => []Agreement
<1> QED  BY SealedChainsAgree, Invariance, PTL

\* In a network of 3f + 1 validators that all vote, chains agree as long as at
\* most f of them are faulty, restart or see a commit fail within a sequence.
THEOREM AgreementOf3FPlus1 ==
    ASSUME NEW k \in Nat, Cardinality(Nodes) = 3 * k + 1,
           Cardinality(Nodes) <= CommitteeSize,
           Cardinality(Faulty \cup Unstable) <= k
    PROVE  Spec => []Agreement
<1>1. EffectiveSize(Cardinality(Nodes), CommitteeSize) = 3 * k + 1
  BY CommitteeSizeAssumption DEF EffectiveSize
<1>2. SealQuorum = 2 * k + 1
  BY <1>1, SealQuorumIsCoreQuorum, CommitteeSizeAssumption DEF SealQuorum
<1>3. Cardinality(Faulty \cup Unstable) \in Nat
  <2>1. Faulty \cup Unstable \in SUBSET Nodes
    BY NodesAssumption
  <2> QED  BY <2>1, NodesAssumption, FS_Subset, FS_CardinalityType
<1>4. FaultBound
  BY <1>2, <1>3 DEF FaultBound
<1> QED  BY <1>4, ChainAgreement

-----------------------------------------------------------------------------
(* The validators implement AgreedChain *)

ChainsAgree(ch) ==
    \A m, n \in Correct : \A s \in 1 .. Len(ch[m]) : s <= Len(ch[n]) => ch[m][s] = ch[n][s]

\* Where chains agree, the agreed block is the one that any of them has.
LEMMA AgreedBlockIs ==
    ASSUME NEW ch \in [Nodes -> Seq(Values)], ChainsAgree(ch),
           NEW n \in Correct, NEW s \in 1 .. Len(ch[n])
    PROVE  AgreedBlock(ch, s) = ch[n][s] /\ ch[n][s] \in Values
<1>1. ch[n] \in Seq(Values)
  BY DEF Correct
<1>2. ch[n][s] \in Values /\ s <= Len(ch[n])
  BY <1>1
<1>3. ASSUME NEW m \in Correct, s <= Len(ch[m]) PROVE ch[m][s] = ch[n][s]
  BY <1>3 DEF ChainsAgree
<1>4. \E v \in Values : \E m \in Correct : s <= Len(ch[m]) /\ v = ch[m][s]
  BY <1>2
<1> DEFINE v0 == CHOOSE v \in Values : \E m \in Correct : s <= Len(ch[m]) /\ v = ch[m][s]
<1>5. \E m \in Correct : s <= Len(ch[m]) /\ v0 = ch[m][s]
  BY <1>4
<1>6. v0 = ch[n][s]
  <2> HIDE DEF v0
  <2> QED  BY <1>3, <1>5
<1>7. AgreedBlock(ch, s) = v0
  BY <1>2 DEF AgreedBlock
<1> QED  BY <1>2, <1>6, <1>7

\* Appending to one chain settles the number it reaches and no other.
LEMMA AgreedBlockGrows ==
    ASSUME NEW ch \in [Nodes -> Seq(Values)], ChainsAgree(ch),
           NEW n \in Correct, NEW v \in Values,
           NEW new \in [Nodes -> Seq(Values)], ChainsAgree(new),
           new[n] = Append(ch[n], v), \A m \in Nodes \ {n} : new[m] = ch[m]
    PROVE  \A s \in Nat \ {0} :
              AgreedBlock(new, s) = IF s = Len(ch[n]) + 1 THEN v ELSE AgreedBlock(ch, s)
<1> TAKE s \in Nat \ {0}
<1>0. n \in Nodes /\ \A m \in Correct : m \in Nodes
  BY DEF Correct
<1>1. ch[n] \in Seq(Values) /\ Len(new[n]) = Len(ch[n]) + 1 /\ Len(ch[n]) \in Nat
  BY <1>0
<1>2. new[n][Len(ch[n]) + 1] = v /\ \A i \in 1 .. Len(ch[n]) : new[n][i] = ch[n][i]
  BY <1>1
<1>3. CASE s = Len(ch[n]) + 1
  <2>1. s \in 1 .. Len(new[n])
    BY <1>1, <1>3
  <2>2. AgreedBlock(new, s) = new[n][s]
    BY <2>1, AgreedBlockIs
  <2> QED  BY <2>2, <1>2, <1>3
<1>4. CASE s # Len(ch[n]) + 1 /\ \E m \in Correct : s <= Len(ch[m])
  <2>1. PICK m \in Correct : s <= Len(ch[m])
    BY <1>4
  <2>2. ch[m] \in Seq(Values) /\ s \in 1 .. Len(ch[m])
    BY <2>1, <1>0
  <2>3. s \in 1 .. Len(new[m]) /\ new[m][s] = ch[m][s]
    <3>1. CASE m = n
      <4>1. s \in 1 .. Len(ch[n])
        BY <2>2, <3>1
      <4>2. s \in 1 .. Len(new[n])
        BY <1>1, <4>1
      <4> QED
        BY <1>2, <3>1, <4>1, <4>2
    <3>2. CASE m # n
      BY <3>2, <2>2, <1>0
    <3> QED  BY <3>1, <3>2
  <2>4. AgreedBlock(new, s) = new[m][s]
    BY <2>3, AgreedBlockIs, Zenon
  <2>5. AgreedBlock(ch, s) = ch[m][s]
    BY <2>2, AgreedBlockIs
  <2> QED  BY <2>3, <2>4, <2>5, <1>4
<1>5. CASE s # Len(ch[n]) + 1 /\ ~ \E m \in Correct : s <= Len(ch[m])
  <2>1. ASSUME NEW m \in Correct, s <= Len(new[m]) PROVE FALSE
    <3>1. CASE m = n
      BY <3>1, <2>1, <1>1, <1>5
    <3>2. CASE m # n
      BY <3>2, <2>1, <1>0, <1>5
    <3> QED  BY <3>1, <3>2
  <2>2. AgreedBlock(new, s) = None
    BY <2>1 DEF AgreedBlock
  <2>3. AgreedBlock(ch, s) = None
    BY <1>5 DEF AgreedBlock
  <2> QED  BY <2>2, <2>3, <1>5
<1> QED  BY <1>3, <1>4, <1>5

\* Where the seal quorums intersect, every behaviour of the validators is one of
\* AgreedChain: each insertion settles the next number or follows what is settled.
THEOREM AgreedChainRefinement == ASSUME FaultBound PROVE Spec => ImplementsAgreedChain
<1> DEFINE agr(ch) == [s \in 1 .. MaxSeq |-> AgreedBlock(ch, s)]
<1>1. Init => Agreed!Init
  <2> SUFFICES ASSUME Init PROVE Agreed!Init
    OBVIOUS
  <2>1. \A n \in Correct : Len(chain[n]) = 0
    BY DEF Init, Correct
  <2>2. \A s \in 1 .. MaxSeq : AgreedBlock(chain, s) = None
    BY <2>1 DEF AgreedBlock
  <2> QED  BY <2>2 DEF Init, Agreed!Init, Agreed!Numbers
<1>2. IInv /\ Agreement /\ Agreement' /\ [Next]_vars => [Agreed!Next]_(Agreed!vars)
  <2> SUFFICES ASSUME IInv, Agreement, Agreement', [Next]_vars
               PROVE  [Agreed!Next]_(Agreed!vars)
    OBVIOUS
  <2>1. ASSUME chain' = chain PROVE UNCHANGED Agreed!vars
    <3>1. agr(chain)' = agr(chain)
      BY <2>1 DEF AgreedBlock
    <3> QED  BY <2>1, <3>1 DEF Agreed!vars
  <2>2. ASSUME NEW n \in Correct, NEW v \in Values, InsertBlock(n, v) PROVE Agreed!Extend(n, v)
    <3> DEFINE k == Len(chain[n]) + 1
    <3>1. /\ n \in Nodes /\ chain \in [Nodes -> Seq(Values)] /\ Len(chain[n]) \in Nat
          /\ chain' = [chain EXCEPT ![n] = Append(@, v)] /\ Len(chain[n]) < MaxSeq
      BY <2>2 DEF IInv, TypeOK, Correct, InsertBlock
    <3>2. ChainsAgree(chain) /\ ChainsAgree(chain')
      BY DEF Agreement, ChainsAgree
    <3>3. \A s \in Nat \ {0} :
             AgreedBlock(chain', s) = IF s = k THEN v ELSE AgreedBlock(chain, s)
      <4>1. chain' \in [Nodes -> Seq(Values)] /\ chain'[n] = Append(chain[n], v)
        BY <3>1
      <4>2. \A m \in Nodes \ {n} : chain'[m] = chain[m]
        BY <3>1
      <4>3. chain \in [Nodes -> Seq(Values)]
        BY <3>1
      <4>4. \A s \in Nat \ {0} :
               AgreedBlock(chain', s) = IF s = Len(chain[n]) + 1 THEN v ELSE AgreedBlock(chain, s)
        <5>1. ASSUME NEW old, NEW new, old \in [Nodes -> Seq(Values)], new \in [Nodes -> Seq(Values)],
                     ChainsAgree(old), ChainsAgree(new), new[n] = Append(old[n], v),
                     \A m \in Nodes \ {n} : new[m] = old[m]
              PROVE  \A s \in Nat \ {0} :
                        AgreedBlock(new, s) = IF s = Len(old[n]) + 1 THEN v ELSE AgreedBlock(old, s)
          BY <5>1, AgreedBlockGrows
        <5> QED  BY <4>1, <4>2, <4>3, <3>2, <5>1, Zenon
      <4> QED  BY <4>4
    <3>4. k \in 1 .. MaxSeq
      BY <3>1, BoundsAssumption
    <3>5. agr(chain') = [agr(chain) EXCEPT ![k] = v]
      <4> HIDE DEF k
      <4>1. \A s \in 1 .. MaxSeq : s \in Nat \ {0}
        OBVIOUS
      <4>2. \A s \in 1 .. MaxSeq :
               AgreedBlock(chain', s) = IF s = k THEN v ELSE AgreedBlock(chain, s)
        BY <3>3, <4>1
      <4> QED  BY <3>4, <4>2, Zenon
    <3>6. AgreedBlock(chain, k) \in {None, v}
      <4>1. CASE \E m \in Correct : k <= Len(chain[m])
        <5>1. PICK m \in Correct : k <= Len(chain[m])
          BY <4>1
        <5>2. m # n /\ chain'[m] = chain[m] /\ k \in 1 .. Len(chain[m])
          BY <5>1, <3>1, <3>4 DEF Correct
        <5>3. chain' \in [Nodes -> Seq(Values)]
          BY <3>1
        <5>4. AgreedBlock(chain', k) = chain'[m][k]
          BY <5>2, <5>3, <3>2, AgreedBlockIs
        <5>5. AgreedBlock(chain, k) = chain[m][k]
          BY <5>2, <3>1, <3>2, AgreedBlockIs, Zenon
        <5> QED  BY <5>2, <5>4, <5>5, <3>3, <3>4
      <4>2. CASE ~ \E m \in Correct : k <= Len(chain[m])
        BY <4>2 DEF AgreedBlock
      <4> QED  BY <4>1, <4>2
    <3>7. k > 1 => AgreedBlock(chain, k - 1) # None
      <4> SUFFICES ASSUME k > 1 PROVE AgreedBlock(chain, k - 1) # None
        OBVIOUS
      <4>1. k - 1 \in 1 .. Len(chain[n])
        BY <3>1
      <4> QED  BY <4>1, <3>1, <3>2, AgreedBlockIs, ValuesAssumption
    <3>8. k > 1 => k - 1 \in 1 .. MaxSeq
      BY <3>1, BoundsAssumption
    <3> QED  BY <3>1, <3>4, <3>5, <3>6, <3>7, <3>8
             DEF Agreed!Extend, Agreed!Numbers, Agreed!InOrder
  <2>3. ASSUME NEW n \in Correct, CoreStep(n) PROVE chain' = chain
    BY <2>3 DEF CoreStep, Start, Stop, handleRequest, handlePreprepare, RejectProposal,
       AcceptProposal, AcceptLockedProposal, RefuseProposal, handlePrepare, handleCommit,
       handleCommitFails, handleRoundChange, handleWeakCertificate, handleTimeoutMsg,
       handleChainHead, startNewRound, StartNewSequence, StartRound, sendRoundChange,
       sendNextRoundChange, Enter
  <2>4. ASSUME UNCHANGED vars PROVE chain' = chain
    BY <2>4 DEF vars
  <2> QED  BY <2>1, <2>2, <2>3, <2>4 DEF Next, Agreed!Next, Correct
<1> QED  BY <1>1, <1>2, Invariance, ChainAgreement, PTL DEF Spec, ImplementsAgreedChain, Agreed!Spec

-----------------------------------------------------------------------------
(* What a core may conclude from its own view: that its lock, its round and its decision
   rest on quorums, and that its view and its lock only move forward.  None of it needs a
   bound on the faulty validators.  ViewStep says what the handlers have in common, each
   handler is shown to be a ViewStep, and a ViewStep is shown to keep ViewInv. *)

SameView(rs, cur) == rs.seq = cur.seq /\ rs.round = cur.round

\* What a handler of node n, in a state that satisfies IInv and ViewInv, does to
\* the view, the lock and the phase of n, and what it relies on.
ViewStep(n, rs, st, w, out) ==
    /\ rs \in RoundState /\ st \in States /\ w \in BOOLEAN
    /\ out \subseteq Message /\ \A m \in out : m.from = n
    /\ \/ rs.seq > current[n].seq /\ rs.round = 0 /\ rs.lockedHash = None
       \/ rs.seq = current[n].seq /\ rs.round >= current[n].round
    \* the lock
    /\ IsHashLocked(rs) =>
         \/ /\ IsHashLocked(current[n]) /\ rs.seq = current[n].seq
            /\ rs.preprepare = current[n].preprepare
         \/ Cardinality(PrepareOrCommit(rs)) >= RequiredMessageCount
    /\ IsHashLocked(rs) => rs.preprepare = rs.lockedHash
    /\ IsHashLocked(current[n]) =>
         \/ rs.lockedHash = current[n].lockedHash
         \/ rs.seq # current[n].seq
         \/ CommitQuorum(n) /\ n \in Unstable
    \* the round
    /\ (rs.round > 0 /\ ~ w) =>
         \/ SameView(rs, current[n]) /\ ~ waiting[n]
         \/ Cardinality(RoundChanges(rs.seq, rs.round)) >= RequiredMessageCount
    \* the phase
    /\ (~ w /\ st = "Committed") =>
         \/ /\ Running(n) /\ ~ waiting[n] /\ state[n] = "Committed"
            /\ rs.seq = current[n].seq /\ rs.preprepare = current[n].preprepare
         \/ Cardinality(Commits(rs)) >= RequiredMessageCount /\ rs.round <= MaxRound
    /\ (~ w /\ st = "Preprepared") => ~ IsHashLocked(rs)
    /\ (~ w /\ st \in {"Prepared", "Committed"}) => IsHashLocked(rs)
    \* the votes
    /\ (SameView(rs, current[n]) /\ ~ waiting[n] /\ state[n] # "AcceptRequest") =>
         ~ w /\ st # "AcceptRequest" /\ rs.preprepare = current[n].preprepare
    /\ \A m \in out : m.code = "PREPARE" =>
         /\ SameView(rs, current[n]) /\ ~ waiting[n] /\ state[n] = "AcceptRequest"
         /\ m.seq = rs.seq /\ m.round = rs.round /\ m.digest = rs.preprepare
         /\ ~ w /\ st # "AcceptRequest"

-----------------------------------------------------------------------------
(* Quorums once seen stay, because msgs only grows *)

LEMMA QuorumType == RequiredMessageCount \in Int /\ F \in Int
<1>1. Cardinality(Nodes) \in Nat
  BY NodesAssumption, FS_CardinalityType
<1> QED
  BY <1>1, CommitteeSizeAssumption
  DEF RequiredMessageCount, F, calcQuorumSize, calcFaultTolerance, EffectiveSize, CeilDiv

\* A set of validators has no fewer members than its subsets.
LEMMA SubsetOfNodes ==
    ASSUME NEW B \in SUBSET Nodes, NEW A \in SUBSET B
    PROVE  /\ Cardinality(A) \in Nat /\ Cardinality(B) \in Nat
           /\ Cardinality(A) <= Cardinality(B)
<1>1. IsFiniteSet(B)
  BY NodesAssumption, FS_Subset
<1>2. IsFiniteSet(A) /\ Cardinality(A) <= Cardinality(B)
  BY <1>1, FS_Subset
<1> QED  BY <1>1, <1>2, FS_CardinalityType

LEMMA VotesGrow ==
    ASSUME NEW rs, msgs \subseteq msgs',
           Cardinality(PrepareOrCommit(rs)) >= RequiredMessageCount
    PROVE  Cardinality(PrepareOrCommit(rs)') >= RequiredMessageCount
<1>1. PrepareOrCommit(rs) \in SUBSET (PrepareOrCommit(rs)')
  BY Zenon DEF PrepareOrCommit, Senders, Available
<1>2. PrepareOrCommit(rs)' \in SUBSET Nodes
  BY NodesAssumption DEF PrepareOrCommit
<1> HIDE DEF PrepareOrCommit
<1> QED  BY <1>1, <1>2, SubsetOfNodes, QuorumType

LEMMA RoundChangesGrow ==
    ASSUME NEW s, NEW r, msgs \subseteq msgs',
           Cardinality(RoundChanges(s, r)) >= RequiredMessageCount
    PROVE  Cardinality(RoundChanges(s, r)') >= RequiredMessageCount
<1>1. RoundChanges(s, r) \in SUBSET (RoundChanges(s, r)')
  BY DEF RoundChanges, Senders, Available
<1>2. RoundChanges(s, r)' \in SUBSET Nodes
  BY DEF RoundChanges, Senders
<1> QED  BY <1>1, <1>2, SubsetOfNodes, QuorumType

\* A quorum of COMMITs of one round is enough for verifySeals.
LEMMA CommitsSeal ==
    ASSUME NEW rs \in RoundState, rs.round <= MaxRound, Nodes # {},
           Cardinality(Commits(rs)) >= RequiredMessageCount
    PROVE  Cardinality(Sealers(rs.seq, rs.preprepare)) >= SealQuorum
<1>1. rs.round \in 0 .. MaxRound
  BY BoundsAssumption DEF RoundState
<1>2. Commits(rs) \in SUBSET Sealers(rs.seq, rs.preprepare)
  BY <1>1, NodesAssumption DEF Commits, Senders, Sealers
<1>3. Sealers(rs.seq, rs.preprepare) \in SUBSET Nodes
  BY DEF Sealers
<1>4. Cardinality(Nodes) \in Nat \ {0}
  BY NodesAssumption, FS_CardinalityType, FS_EmptySet
<1>5. SealQuorum <= RequiredMessageCount
  BY <1>4, CommitteeSizeAssumption, SealQuorumBelowCoreQuorum
  DEF SealQuorum, RequiredMessageCount
<1> QED  BY <1>2, <1>3, <1>5, SubsetOfNodes, QuorumType, SealQuorumType

\* COMMITs count as PREPAREs too.
LEMMA CommitsAreVotes ==
    ASSUME NEW rs, Cardinality(Commits(rs)) >= RequiredMessageCount
    PROVE  Cardinality(PrepareOrCommit(rs)) >= RequiredMessageCount
<1>1. Commits(rs) \in SUBSET PrepareOrCommit(rs) /\ PrepareOrCommit(rs) \in SUBSET Nodes
  BY NodesAssumption DEF Commits, PrepareOrCommit
<1> QED  BY <1>1, SubsetOfNodes, QuorumType

-----------------------------------------------------------------------------
(* A ViewStep keeps ViewInv *)

\* The order of sequences and rounds, for the steps below that compare views.
LEMMA NatOrder ==
    ASSUME NEW i \in Nat, NEW j \in Nat
    PROVE  /\ ~ (i < i) /\ ~ (i > i)
           /\ i >= j => i > j \/ i = j
           /\ i > j => j < i
           /\ \A k \in Nat : k < j /\ i > j => k < i
  OBVIOUS

LEMMA ViewStepInvariant ==
    ASSUME IInv, ViewInv, NEW n \in Correct, NEW rs, NEW st, NEW w, NEW out,
           ViewStep(n, rs, st, w, out), Enter(n, rs, st, w, out)
    PROVE  ViewInv'
<1>0. n \in Nodes /\ Correct \subseteq Nodes /\ Stable \subseteq Correct /\ Nodes # {}
  BY DEF Correct, Stable
<1>1. /\ current'[n] = rs /\ state'[n] = st /\ waiting'[n] = w
      /\ \A k \in Nodes \ {n} : /\ current'[k] = current[k]
                                /\ state'[k] = state[k] /\ waiting'[k] = waiting[k]
      /\ msgs' = msgs \cup out /\ msgs \subseteq msgs'
  BY <1>0 DEF IInv, TypeOK, Enter
<1>2. /\ rs \in RoundState /\ rs.seq \in Nat /\ rs.round \in Nat
      /\ current[n].seq \in Nat /\ current[n].round \in Nat
  BY NodeTypes, Zenon DEF ViewStep, RoundState
<1>3. PrepareInView'
  <2> SUFFICES ASSUME NEW m \in msgs', m.code = "PREPARE", m.from \in Stable
               PROVE  \/ m.seq < current'[m.from].seq
                      \/ m.seq = current'[m.from].seq /\ m.round < current'[m.from].round
                      \/ /\ m.seq = current'[m.from].seq /\ m.round = current'[m.from].round
                         /\ m.digest = current'[m.from].preprepare
                         /\ ~ waiting'[m.from] /\ state'[m.from] # "AcceptRequest"
    BY Zenon DEF PrepareInView
  <2>1. CASE m \in out
    BY <2>1, <1>1, Zenon DEF ViewStep
  <2>2. CASE m \in msgs /\ m.from # n
    BY <2>2, <1>0, <1>1, Zenon DEF ViewInv, PrepareInView
  <2>3. CASE m \in msgs /\ m.from = n
    <3>1. \/ m.seq < current[n].seq
          \/ m.seq = current[n].seq /\ m.round < current[n].round
          \/ /\ m.seq = current[n].seq /\ m.round = current[n].round
             /\ m.digest = current[n].preprepare
             /\ ~ waiting[n] /\ state[n] # "AcceptRequest"
      BY <2>3, Zenon DEF ViewInv, PrepareInView
    <3>2. m.seq \in Nat /\ m.round \in Nat
      BY <2>3 DEF IInv, TypeOK, Message
    <3>3. \/ rs.seq > current[n].seq
          \/ rs.seq = current[n].seq /\ rs.round > current[n].round
          \/ SameView(rs, current[n])
      <4>1. \/ rs.seq > current[n].seq
            \/ rs.seq = current[n].seq /\ rs.round >= current[n].round
        BY Zenon DEF ViewStep
      <4> QED  BY <4>1, <1>2, NatOrder, Zenon DEF SameView
    <3>4. CASE rs.seq > current[n].seq \/ (rs.seq = current[n].seq /\ rs.round > current[n].round)
      <4>1. m.seq < rs.seq \/ (m.seq = rs.seq /\ m.round < rs.round)
        BY <3>1, <3>2, <3>4, <1>2, NatOrder, Zenon
      <4> QED  BY <4>1, <2>3, <1>1, Zenon
    <3>5. CASE SameView(rs, current[n])
      BY <3>1, <3>5, <2>3, <1>1, Zenon DEF ViewStep, SameView
    <3> QED  BY <3>3, <3>4, <3>5, Zenon
  <2> QED  BY <2>1, <2>2, <2>3, <1>1, Zenon
<1>4. OnePreparePerView'
  <2> SUFFICES ASSUME NEW m1 \in msgs', NEW m2 \in msgs',
                      m1.code = "PREPARE", m1.from \in Stable,
                      m2.code = "PREPARE", m2.from \in Stable,
                      m1.from = m2.from, m1.seq = m2.seq, m1.round = m2.round
               PROVE  m1.digest = m2.digest
    BY Zenon DEF OnePreparePerView
  <2>1. CASE m1 \in msgs /\ m2 \in msgs
    BY <2>1 DEF ViewInv, OnePreparePerView
  <2>2. CASE m1 \in out \/ m2 \in out
    <3>1. m1.seq = rs.seq /\ m1.round = rs.round /\ m1.from = n
      BY <2>2, Zenon DEF ViewStep
    <3>2. ASSUME NEW m \in msgs', m.code = "PREPARE", m.from = n, m.seq = rs.seq, m.round = rs.round
          PROVE  m.digest = rs.preprepare
      <4>1. n \in Stable
        BY <3>1, Zenon
      <4>2. \/ m.seq < rs.seq
            \/ m.seq = rs.seq /\ m.round < rs.round
            \/ m.digest = rs.preprepare
        BY <3>2, <4>1, <1>1, <1>3, Zenon DEF PrepareInView
      <4> QED  BY <3>2, <4>2, <1>2, NatOrder, Zenon
    <3> QED  BY <3>1, <3>2, Zenon
  <2> QED  BY <2>1, <2>2, <1>1, Zenon
<1>5. LockJustified'
  <2> SUFFICES ASSUME NEW k \in Correct, NEW y, y = current'[k], IsHashLocked(y)
               PROVE  /\ y.preprepare = y.lockedHash
                      /\ \E r \in 0 .. y.round :
                           Cardinality(PrepareOrCommit([y EXCEPT !.round = r])')
                               >= RequiredMessageCount
    BY Zenon DEF LockJustified, PrepareOrCommit, Senders, Available, IsHashLocked
  <2>0. k \in Nodes /\ current[k] \in RoundState /\ current[k].round \in Nat
    BY NodeTypes
  <2>1. ASSUME NEW x \in RoundState, IsHashLocked(current[k]),
               x.seq = current[k].seq, x.preprepare = current[k].preprepare,
               x.round >= current[k].round
        PROVE  \E r \in 0 .. x.round :
                  Cardinality(PrepareOrCommit([x EXCEPT !.round = r])') >= RequiredMessageCount
    <3>1. PICK r \in 0 .. current[k].round :
             Cardinality(PrepareOrCommit([current[k] EXCEPT !.round = r])) >= RequiredMessageCount
      BY <2>1, Zenon DEF ViewInv, LockJustified
    <3>2. r \in 0 .. x.round
      BY <2>0, <2>1 DEF RoundState
    <3>3. PrepareOrCommit([x EXCEPT !.round = r]) = PrepareOrCommit([current[k] EXCEPT !.round = r])
      BY <2>0, <2>1 DEF PrepareOrCommit, RoundState
    <3> QED  BY <1>1, <3>1, <3>2, <3>3, VotesGrow
  <2>2. CASE k # n
    <3>1. current'[k] = current[k]
      BY <2>0, <2>2, <1>1, Zenon
    <3>2. current[k].preprepare = current[k].lockedHash
      BY <3>1 DEF ViewInv, LockJustified
    <3> QED  BY <3>1, <3>2, <2>0, <2>1
  <2>3. CASE k = n
    <3>1. rs.preprepare = rs.lockedHash
      BY <2>3, <1>1, Zenon DEF ViewStep
    <3>2. CASE /\ IsHashLocked(current[n]) /\ rs.seq = current[n].seq
               /\ rs.preprepare = current[n].preprepare
      <4>1. rs.round >= current[n].round
        <5>1. rs.seq > current[n].seq \/ rs.round >= current[n].round
          BY Zenon DEF ViewStep
        <5>2. ~ (rs.seq > current[n].seq)
          BY <3>2, <1>2, NatOrder, Zenon
        <5> QED  BY <5>1, <5>2, Zenon
      <4> QED  BY <4>1, <3>1, <3>2, <2>1, <2>3, <1>1, <1>2, Zenon
    <3>3. CASE Cardinality(PrepareOrCommit(rs)) >= RequiredMessageCount
      <4>1. [rs EXCEPT !.round = rs.round] = rs /\ rs.round \in 0 .. rs.round
        BY <1>2 DEF RoundState
      <4>2. Cardinality(PrepareOrCommit(rs)') >= RequiredMessageCount
        BY <3>3, <1>1, VotesGrow, Zenon
      <4> QED  BY <4>1, <4>2, <3>1, <2>3, <1>1
    <3> QED  BY <3>2, <3>3, <2>3, <1>1, Zenon DEF ViewStep
  <2> QED  BY <2>2, <2>3, Zenon
<1>6. RoundJustified'
  <2> SUFFICES ASSUME NEW k \in Correct, NEW y, y = current'[k], y.round > 0, ~ waiting'[k]
               PROVE  Cardinality(RoundChanges(y.seq, y.round)') >= RequiredMessageCount
    BY Zenon DEF RoundJustified, RoundChanges, Senders, Available
  <2>1. Cardinality(RoundChanges(y.seq, y.round)) >= RequiredMessageCount
    <3>1. CASE k # n
      BY <3>1, <1>0, <1>1, Zenon DEF ViewInv, RoundJustified
    <3>2. CASE k = n
      BY <3>2, <1>1, Zenon DEF ViewStep, SameView, ViewInv, RoundJustified
    <3> QED  BY <3>1, <3>2
  <2> QED  BY <2>1, <1>1, RoundChangesGrow, Zenon
<1>7. CommittedIsSealed'
  <2> SUFFICES ASSUME NEW k \in Correct, NEW y, y = current'[k], y.seq # 0,
                      state'[k] = "Committed", ~ waiting'[k]
               PROVE  Cardinality(Sealers(y.seq, y.preprepare)') >= SealQuorum
    BY Zenon DEF CommittedIsSealed, Running, Sealers, Available
  <2>1. Cardinality(Sealers(y.seq, y.preprepare)) >= SealQuorum
    <3>1. CASE k # n
      BY <3>1, <1>0, <1>1, Zenon DEF ViewInv, CommittedIsSealed, Running
    <3>2. CASE k = n
      BY <3>2, <1>0, <1>1, <1>2, CommitsSeal, Zenon DEF ViewStep, ViewInv, CommittedIsSealed
    <3> QED  BY <3>1, <3>2
  <2> QED  BY <2>1, <1>1, SealersGrow, SealQuorumType
<1>8. PreparedIffLocked'
  <2> SUFFICES ASSUME NEW k \in Correct, NEW y, y = current'[k], y.seq # 0, y.seq <= MaxSeq,
                      ~ waiting'[k]
               PROVE  /\ state'[k] = "Preprepared" => ~ IsHashLocked(y)
                      /\ state'[k] \in {"Prepared", "Committed"} => IsHashLocked(y)
    BY Zenon DEF PreparedIffLocked, Active, Running, IsHashLocked
  <2>1. CASE k = n
    BY <2>1, <1>1, Zenon DEF ViewStep
  <2>2. CASE k # n
    <3>1. y = current[k] /\ state'[k] = state[k] /\ ~ waiting[k] /\ Active(k)
      BY <2>2, <1>0, <1>1, Zenon DEF Active, Running
    <3> QED  BY <3>1, Zenon DEF ViewInv, PreparedIffLocked
  <2> QED  BY <2>1, <2>2, Zenon
<1> QED
  BY <1>3, <1>4, <1>5, <1>6, <1>7, <1>8 DEF ViewInv

-----------------------------------------------------------------------------
(* Every handler is a ViewStep *)

\* Some ViewStep of node n takes place.
IsViewStep(n) ==
    \E rs, st, w, out : ViewStep(n, rs, st, w, out) /\ Enter(n, rs, st, w, out)

LEMMA StartNewSequenceView ==
    ASSUME IInv, NEW n \in Correct, NEW r \in 0 .. MaxRound, StartNewSequence(n, r)
    PROVE  IsViewStep(n)
<1> DEFINE p  == GetProposer(Len(chain[n]) + 1, r)
           rs == newRoundState(Len(chain[n]) + 1, 0, None, None, None, p)
<1>1. p \in Nodes
  BY NodeTypes, ProposerAssumption, BoundsAssumption
<1>2. rs \in RoundState /\ rs.seq = Len(chain[n]) + 1 /\ rs.round = 0 /\ rs.lockedHash = None
  BY <1>1, NodeTypes DEF newRoundState, RoundState, OrNone
<1>3. rs.seq > current[n].seq
  BY <1>2, NodeTypes DEF StartNewSequence
<1>4. Enter(n, rs, "AcceptRequest", FALSE, {})
  BY Zenon DEF StartNewSequence
<1> HIDE DEF rs
<1>5. ViewStep(n, rs, "AcceptRequest", FALSE, {})
  BY <1>2, <1>3, NodeTypes DEF ViewStep, States, IsHashLocked, SameView
<1> QED  BY <1>4, <1>5, Zenon DEF IsViewStep

\* updateRoundState of a locked core keeps the proposal it is locked on.
LEMMA UpdateKeepsProposal ==
    ASSUME IInv, NEW n \in Correct, NEW r \in 0 .. MaxRound, NEW p \in OrNone(Nodes),
           NEW rs, rs = updateRoundState(current[n], r, p), IsHashLocked(rs)
    PROVE  IsHashLocked(current[n]) /\ rs.preprepare = current[n].preprepare
BY Zenon DEF updateRoundState, newRoundState, IsHashLocked

LEMMA StartRoundView ==
    ASSUME IInv, NEW n \in Correct, NEW r \in 1 .. MaxRound, Active(n), StartRound(n, r),
           current[n].round < r \/ waiting[n],
           Cardinality(RoundChanges(current[n].seq, r)) >= RequiredMessageCount
    PROVE  IsViewStep(n)
<1> DEFINE p   == GetProposer(current[n].seq, r)
           rs  == updateRoundState(current[n], r, p)
           v   == IF IsHashLocked(rs) THEN rs.preprepare ELSE rs.pendingRequest
           out == IF v # None THEN Proposal(n, rs, v) ELSE {}
<1>1. p \in OrNone(Nodes) /\ r \in 0 .. MaxRound
  BY NodeTypes, ProposerAssumption, BoundsAssumption DEF Active, Running, OrNone
<1>2. /\ rs \in RoundState /\ rs.seq = current[n].seq /\ rs.round = r
      /\ rs.lockedHash = current[n].lockedHash
      /\ IsHashLocked(rs) => rs.preprepare = rs.lockedHash
  <2>1. rs = updateRoundState(current[n], r, p)
    OBVIOUS
  <2> HIDE DEF rs, p
  <2> QED  BY <1>1, <2>1, UpdateRoundState
<1>3. IsHashLocked(rs) => IsHashLocked(current[n]) /\ rs.preprepare = current[n].preprepare
  BY <1>1, UpdateKeepsProposal, Zenon
<1>4. v \in OrNone(Values)
  BY <1>2, Zenon DEF RoundState
<1>5. Enter(n, rs, "AcceptRequest", FALSE, out)
  BY Zenon DEF StartRound
<1>6. rs.round >= current[n].round
  BY <1>2, NodeTypes, Zenon DEF StartRound
<1> HIDE DEF p, rs, v
<1>7. SameView(rs, current[n]) => waiting[n]
  <2> SUFFICES ASSUME rs.round = current[n].round PROVE waiting[n]
    BY DEF SameView
  <2>1. ~ (current[n].round < r)
    BY <1>2, NodeTypes
  <2> QED  BY <2>1, Zenon
<1>8. out \subseteq Message /\ \A m \in out : m.from = n /\ m.code = "PREPREPARE"
  <2>1. n \in Nodes  BY NodeTypes
  <2>2. CASE v # None  BY <2>1, <2>2, <1>2, <1>4, ProposalType, Zenon
  <2>3. CASE v = None  BY <2>3, Zenon
  <2> QED  BY <2>2, <2>3, Zenon
<1> HIDE DEF out
<1>9. ViewStep(n, rs, "AcceptRequest", FALSE, out)
  BY <1>2, <1>3, <1>6, <1>7, <1>8, NodeTypes, Zenon DEF ViewStep, States
<1> QED  BY <1>5, <1>9, Zenon DEF IsViewStep

LEMMA SendRoundChangeView ==
    ASSUME IInv, NEW n \in Correct, NEW r \in Nat, sendRoundChange(n, r)
    PROVE  IsViewStep(n)
<1> DEFINE rs == updateRoundState(current[n], r, current[n].proposer)
           out == {Msg("ROUNDCHANGE", n, current[n].seq, r, None)}
<1>1. current[n].proposer \in OrNone(Nodes) /\ r \in 0 .. MaxRound
  BY NodeTypes, BoundsAssumption DEF sendRoundChange, RoundState
<1>2. /\ rs \in RoundState /\ rs.seq = current[n].seq /\ rs.round = r
      /\ rs.lockedHash = current[n].lockedHash
      /\ IsHashLocked(rs) => rs.preprepare = rs.lockedHash
  BY <1>1, UpdateRoundState
<1>3. IsHashLocked(rs) => IsHashLocked(current[n]) /\ rs.preprepare = current[n].preprepare
  BY <1>1, UpdateKeepsProposal
<1>4. out \subseteq Message /\ \A m \in out : m.from = n /\ m.code = "ROUNDCHANGE"
  BY NodeTypes DEF Msg, Message, OrNone
<1>5. Enter(n, rs, state[n], TRUE, out)
  BY Zenon DEF sendRoundChange
<1>6. rs.round > current[n].round /\ ~ SameView(rs, current[n]) /\ rs.round >= current[n].round
  <2>1. current[n].round < r /\ current[n].round \in Nat
    BY NodeTypes, Zenon DEF sendRoundChange
  <2>2. r > current[n].round /\ r >= current[n].round /\ r # current[n].round
    BY <2>1
  <2> QED  BY <1>2, <2>2, Zenon DEF SameView
<1> HIDE DEF rs, out
<1>7. ViewStep(n, rs, state[n], TRUE, out)
  BY <1>2, <1>3, <1>4, <1>6, NodeTypes, Zenon DEF ViewStep
<1> QED  BY <1>5, <1>7, Zenon DEF IsViewStep

LEMMA HandleRequestView ==
    ASSUME IInv, ViewInv, NEW n \in Correct, NEW v \in Values, handleRequest(n, v)
    PROVE  IsViewStep(n)
<1> DEFINE rs  == [current[n] EXCEPT !.pendingRequest = v]
           out == IF state[n] = "AcceptRequest" THEN Proposal(n, rs, v) ELSE {}
<1>1. /\ rs \in RoundState /\ rs.seq = current[n].seq /\ rs.round = current[n].round
      /\ rs.lockedHash = current[n].lockedHash /\ rs.preprepare = current[n].preprepare
  BY NodeTypes DEF RoundState, OrNone
<1>2. out \subseteq Message /\ \A m \in out : m.from = n /\ m.code = "PREPREPARE"
  BY <1>1, NodeTypes, ProposalType DEF OrNone
<1>3. Enter(n, rs, state[n], waiting[n], out)
  BY DEF handleRequest
<1>4. IsHashLocked(rs) => rs.preprepare = rs.lockedHash
  BY <1>1 DEF IInv, LockHolds, IsHashLocked
<1>5. Active(n) /\ Running(n)
  BY DEF handleRequest, Active
<1>6. /\ (~ waiting[n] /\ state[n] = "Preprepared") => ~ IsHashLocked(rs)
      /\ (~ waiting[n] /\ state[n] \in {"Prepared", "Committed"}) => IsHashLocked(rs)
  BY <1>1, <1>5 DEF ViewInv, PreparedIffLocked, IsHashLocked
<1>7. rs.round >= current[n].round /\ SameView(rs, current[n])
  BY <1>1, NodeTypes DEF SameView
<1>8. IsHashLocked(rs) <=> IsHashLocked(current[n])
  BY <1>1 DEF IsHashLocked
<1> HIDE DEF rs, out
<1>9. ViewStep(n, rs, state[n], waiting[n], out)
  BY <1>1, <1>2, <1>4, <1>5, <1>6, <1>7, <1>8, NodeTypes, Zenon DEF ViewStep
<1> QED  BY <1>3, <1>9, Zenon DEF IsViewStep

LEMMA AcceptProposalView ==
    ASSUME IInv, NEW n \in Correct, NEW v \in Values, AcceptProposal(n, v)
    PROVE  IsViewStep(n)
<1> DEFINE rs == [current[n] EXCEPT !.preprepare = v]
<1>1. /\ rs \in RoundState /\ rs.seq = current[n].seq /\ rs.round = current[n].round
      /\ rs.lockedHash = None /\ current[n].lockedHash = None
  BY NodeTypes DEF RoundState, OrNone, AcceptProposal, IsHashLocked
<1>2. Enter(n, rs, "Preprepared", FALSE, Vote("PREPARE", n, rs))
  BY Zenon DEF AcceptProposal
<1>3. ~ waiting[n] /\ state[n] = "AcceptRequest"
  BY DEF AcceptProposal, Proposed
<1>4. rs.round >= current[n].round /\ SameView(rs, current[n])
  BY <1>1, NodeTypes DEF SameView
<1> HIDE DEF rs
<1>5. /\ Vote("PREPARE", n, rs) \subseteq Message
      /\ \A m \in Vote("PREPARE", n, rs) :
            /\ m.from = n /\ m.seq = rs.seq /\ m.round = rs.round /\ m.digest = rs.preprepare
  BY <1>1, NodeTypes, VoteType DEF Vote, Msg
<1>6. ViewStep(n, rs, "Preprepared", FALSE, Vote("PREPARE", n, rs))
  BY <1>1, <1>3, <1>4, <1>5, NodeTypes, Zenon DEF ViewStep, States, IsHashLocked
<1> QED  BY <1>2, <1>6, Zenon DEF IsViewStep

LEMMA AcceptLockedProposalView ==
    ASSUME IInv, NEW n \in Correct, NEW v \in Values, AcceptLockedProposal(n, v)
    PROVE  IsViewStep(n)
<1> DEFINE rs == [current[n] EXCEPT !.preprepare = v]
<1>1. /\ rs \in RoundState /\ rs.seq = current[n].seq /\ rs.round = current[n].round
      /\ rs.lockedHash = v /\ rs.preprepare = v /\ v # None /\ current[n].lockedHash = v
  BY NodeTypes, ValuesAssumption DEF RoundState, OrNone, AcceptLockedProposal, IsHashLocked
<1>2. rs.preprepare = current[n].preprepare
  BY <1>1 DEF IInv, LockHolds, IsHashLocked
<1>3. Enter(n, rs, "Prepared", FALSE, Vote("COMMIT", n, rs))
  BY Zenon DEF AcceptLockedProposal
<1>4. ~ waiting[n] /\ state[n] = "AcceptRequest"
  BY DEF AcceptLockedProposal, Proposed
<1>5. rs.round >= current[n].round /\ SameView(rs, current[n])
  BY <1>1, NodeTypes DEF SameView
<1> HIDE DEF rs
<1>6. /\ Vote("COMMIT", n, rs) \subseteq Message
      /\ \A m \in Vote("COMMIT", n, rs) : m.from = n /\ m.code = "COMMIT"
  BY <1>1, NodeTypes, VoteType
<1>7. ViewStep(n, rs, "Prepared", FALSE, Vote("COMMIT", n, rs))
  BY <1>1, <1>2, <1>4, <1>5, <1>6, NodeTypes, Zenon DEF ViewStep, States, IsHashLocked
<1> QED  BY <1>3, <1>7, Zenon DEF IsViewStep

LEMMA HandlePreprepareView ==
    ASSUME IInv, NEW n \in Correct, NEW v \in Values, handlePreprepare(n, v)
    PROVE  IsViewStep(n)
<1>1. CASE sendNextRoundChange(n)
  BY <1>1, NodeTypes, SendRoundChangeView DEF sendNextRoundChange
<1>2. CASE AcceptProposal(n, v)
  BY <1>2, AcceptProposalView
<1>3. CASE AcceptLockedProposal(n, v)
  BY <1>3, AcceptLockedProposalView
<1> QED
  BY <1>1, <1>2, <1>3, Zenon DEF handlePreprepare, RejectProposal, RefuseProposal

\* The votes counted do not depend on the lock.
LEMMA LockHashSameVotes ==
    ASSUME NEW rs \in RoundState
    PROVE  /\ PrepareOrCommit(LockHash(rs)) = PrepareOrCommit(rs)
           /\ Commits(LockHash(rs)) = Commits(rs)
BY DEF PrepareOrCommit, Commits, LockHash, RoundState

LEMMA HandlePrepareView ==
    ASSUME IInv, NEW n \in Correct, handlePrepare(n)
    PROVE  IsViewStep(n)
<1> DEFINE rs == LockHash(current[n])
<1>1. /\ rs \in RoundState /\ rs.seq = current[n].seq /\ rs.round = current[n].round
      /\ rs.preprepare = current[n].preprepare
      /\ rs.lockedHash = rs.preprepare /\ rs.preprepare # None
      /\ IsHashLocked(current[n]) => rs.lockedHash = current[n].lockedHash
  BY LockHashKeepsLock, Zenon DEF handlePrepare
<1>2. IsHashLocked(current[n]) \/ Cardinality(PrepareOrCommit(rs)) >= RequiredMessageCount
  BY NodeTypes, LockHashSameVotes, Zenon DEF handlePrepare, EnoughVotes
<1>3. Enter(n, rs, "Prepared", FALSE, Vote("COMMIT", n, rs))
  BY Zenon DEF handlePrepare
<1>4. ~ waiting[n]
  BY Zenon DEF handlePrepare, Voting
<1> HIDE DEF rs
<1>5. rs.round >= current[n].round /\ SameView(rs, current[n]) /\ IsHashLocked(rs)
  BY <1>1, NodeTypes DEF SameView, IsHashLocked
<1>6. /\ Vote("COMMIT", n, rs) \subseteq Message
      /\ \A m \in Vote("COMMIT", n, rs) : m.from = n /\ m.code = "COMMIT"
  BY <1>1, NodeTypes, VoteType, Zenon
<1>7. ViewStep(n, rs, "Prepared", FALSE, Vote("COMMIT", n, rs))
  BY <1>1, <1>2, <1>4, <1>5, <1>6, NodeTypes, Zenon DEF ViewStep, States
<1> QED  BY <1>3, <1>7, Zenon DEF IsViewStep

LEMMA LateVoteCode ==
    ASSUME IInv, NEW n \in Correct
    PROVE  /\ LateVote(n) \subseteq Message
           /\ \A m \in LateVote(n) : m.from = n /\ m.code = "COMMIT"
BY NodeTypes, VoteType DEF LateVote

LEMMA HandleCommitView ==
    ASSUME IInv, NEW n \in Correct, handleCommit(n)
    PROVE  IsViewStep(n)
<1> DEFINE rs == LockHash(current[n])
<1>1. /\ rs \in RoundState /\ rs.seq = current[n].seq /\ rs.round = current[n].round
      /\ rs.preprepare = current[n].preprepare
      /\ rs.lockedHash = rs.preprepare /\ rs.preprepare # None
      /\ IsHashLocked(current[n]) => rs.lockedHash = current[n].lockedHash
  BY LockHashKeepsLock DEF handleCommit, CommitQuorum
<1>2. /\ Cardinality(Commits(rs)) >= RequiredMessageCount
      /\ Cardinality(PrepareOrCommit(rs)) >= RequiredMessageCount
  <2>1. Cardinality(Commits(rs)) >= RequiredMessageCount
    BY NodeTypes, LockHashSameVotes, Zenon DEF handleCommit, CommitQuorum
  <2> QED  BY <2>1, CommitsAreVotes
<1>3. Enter(n, rs, "Committed", FALSE, LateVote(n))
  BY Zenon DEF handleCommit
<1>4. ~ waiting[n]
  BY DEF handleCommit, CommitQuorum, Voting
<1> HIDE DEF rs
<1>5. /\ rs.round >= current[n].round /\ SameView(rs, current[n]) /\ IsHashLocked(rs)
      /\ rs.round <= MaxRound
  BY <1>1, NodeTypes DEF SameView, IsHashLocked
<1>6. ViewStep(n, rs, "Committed", FALSE, LateVote(n))
  BY <1>1, <1>2, <1>4, <1>5, LateVoteCode, NodeTypes, Zenon DEF ViewStep, States
<1> QED  BY <1>3, <1>6, Zenon DEF IsViewStep

LEMMA HandleCommitFailsView ==
    ASSUME IInv, NEW n \in Correct, handleCommitFails(n)
    PROVE  IsViewStep(n)
<1> DEFINE r   == current[n].round + 1
           u   == [current[n] EXCEPT !.lockedHash = None]
           rs  == updateRoundState(u, r, current[n].proposer)
           out == LateVote(n) \cup {Msg("ROUNDCHANGE", n, rs.seq, rs.round, None)}
<1>1. u \in RoundState /\ u.seq = current[n].seq /\ u.lockedHash = None /\ r \in Nat
  BY NodeTypes DEF RoundState, OrNone
<1>2. /\ rs \in RoundState /\ rs.seq = current[n].seq /\ rs.round = r
      /\ rs.lockedHash = None
  BY <1>1, NodeTypes DEF updateRoundState, newRoundState, RoundState, OrNone, IsHashLocked
<1>3. /\ out \subseteq Message
      /\ \A m \in out : m.from = n /\ m.code # "PREPARE"
  BY <1>1, <1>2, NodeTypes, LateVoteCode DEF Msg, Message, OrNone
<1>4. Enter(n, rs, "Committed", TRUE, out)
  BY Zenon DEF handleCommitFails
<1>5. rs.round >= current[n].round /\ ~ SameView(rs, current[n])
  BY <1>1, <1>2, NodeTypes DEF SameView
<1>6. CommitQuorum(n) /\ n \in Unstable
  BY DEF handleCommitFails
<1> HIDE DEF r, u, rs, out
<1>7. ViewStep(n, rs, "Committed", TRUE, out)
  BY <1>2, <1>3, <1>5, <1>6, NodeTypes, Zenon DEF ViewStep, States, IsHashLocked
<1> QED  BY <1>4, <1>7, Zenon DEF IsViewStep

LEMMA HandleRoundChangeView ==
    ASSUME IInv, NEW n \in Correct, NEW r \in 1 .. MaxRound,
           handleRoundChange(n, r) \/ handleWeakCertificate(n, r)
    PROVE  IsViewStep(n)
<1>0. r \in 0 .. MaxRound /\ r \in Nat
  BY BoundsAssumption
<1>1. CASE handleRoundChange(n, r)
  BY <1>0, <1>1, StartNewSequenceView, StartRoundView, Zenon DEF handleRoundChange, startNewRound
<1>2. CASE handleWeakCertificate(n, r)
  BY <1>0, <1>2, SendRoundChangeView, Zenon DEF handleWeakCertificate
<1> QED  BY <1>1, <1>2

\* A core step is a ViewStep, unless the core stops.
LEMMA CoreStepView ==
    ASSUME IInv, ViewInv, NEW n \in Correct, CoreStep(n)
    PROVE  IsViewStep(n) \/ Stop(n)
<1>1. CASE handleTimeoutMsg(n)
  <2>1. \E r \in Nat : sendRoundChange(n, r)
    BY <1>1, NodeTypes, BoundsAssumption DEF handleTimeoutMsg, sendNextRoundChange
  <2> QED  BY <2>1, SendRoundChangeView, Zenon
<1>2. CASE Start(n) \/ handleChainHead(n)
  <2>1. StartNewSequence(n, 0) /\ 0 \in 0 .. MaxRound
    BY <1>2, BoundsAssumption DEF Start, handleChainHead
  <2> QED  BY <2>1, StartNewSequenceView
<1> QED
  BY <1>1, <1>2, HandleRequestView, HandlePreprepareView, HandlePrepareView,
     HandleCommitView, HandleCommitFailsView, HandleRoundChangeView
  DEF CoreStep

LEMMA StopView ==
    ASSUME IInv, ViewInv, NEW n \in Correct, Stop(n)
    PROVE  ViewInv'
<1>0. n \in Nodes /\ n \notin Stable /\ Correct \subseteq Nodes /\ Stable \subseteq Nodes
  BY DEF Correct, Stable, Stop
<1>1. NoRound.seq = 0 /\ NoRound.round = 0 /\ NoRound.lockedHash = None
  BY DEF NoRound, newRoundState
<1>2. /\ current'[n] = NoRound /\ \A k \in Nodes \ {n} : current'[k] = current[k]
      /\ state' = state /\ waiting' = waiting /\ msgs' = msgs
  BY <1>0 DEF Stop, IInv, TypeOK
<1>3. PrepareInView' /\ OnePreparePerView'
  BY <1>0, <1>2 DEF ViewInv, PrepareInView, OnePreparePerView
<1>4. LockJustified' /\ RoundJustified'
  <2>1. \A x : PrepareOrCommit(x)' = PrepareOrCommit(x)
    BY <1>2, Zenon DEF PrepareOrCommit, Senders, Available
  <2>2. \A x, y : RoundChanges(x, y)' = RoundChanges(x, y)
    BY <1>2, Zenon DEF RoundChanges, Senders, Available
  <2>3. ASSUME NEW k \in Correct, IsHashLocked(current'[k])
        PROVE  k # n /\ current'[k] = current[k]
    BY <2>3, <1>0, <1>1, <1>2, Zenon DEF IsHashLocked
  <2>4. ASSUME NEW k \in Correct, current'[k].round > 0
        PROVE  k # n /\ current'[k] = current[k]
    BY <2>4, <1>0, <1>1, <1>2
  <2>5. LockJustified'
    <3> SUFFICES ASSUME NEW k \in Correct, NEW y, y = current'[k], IsHashLocked(y)
                 PROVE  /\ y.preprepare = y.lockedHash
                        /\ \E r \in 0 .. y.round :
                             Cardinality(PrepareOrCommit([y EXCEPT !.round = r])')
                                 >= RequiredMessageCount
      BY Zenon DEF LockJustified, PrepareOrCommit, Senders, Available, IsHashLocked
    <3> QED  BY <2>1, <2>3, Zenon DEF ViewInv, LockJustified
  <2>6. RoundJustified'
    <3> SUFFICES ASSUME NEW k \in Correct, NEW y, y = current'[k], y.round > 0, ~ waiting'[k]
                 PROVE  Cardinality(RoundChanges(y.seq, y.round)') >= RequiredMessageCount
      BY Zenon DEF RoundJustified, RoundChanges, Senders, Available
    <3> QED  BY <2>2, <2>4, <1>2, Zenon DEF ViewInv, RoundJustified
  <2> QED  BY <2>5, <2>6
<1>5. CommittedIsSealed' /\ PreparedIffLocked'
  BY <1>0, <1>1, <1>2, Zenon
  DEF ViewInv, CommittedIsSealed, PreparedIffLocked, IsHashLocked, Running, Active, Sealers,
      Available
<1> QED  BY <1>3, <1>4, <1>5 DEF ViewInv

\* A step that leaves the cores and the messages alone.
LEMMA ViewUnchanged ==
    ASSUME ViewInv, UNCHANGED <<current, state, waiting, msgs>>
    PROVE  ViewInv'
<1>1. PrepareInView' /\ OnePreparePerView'
  BY Zenon DEF ViewInv, PrepareInView, OnePreparePerView
<1>2. LockJustified' /\ RoundJustified'
  BY DEF ViewInv, LockJustified, RoundJustified, IsHashLocked, PrepareOrCommit, RoundChanges,
      Senders, Available
<1>3. CommittedIsSealed' /\ PreparedIffLocked'
  BY DEF ViewInv, CommittedIsSealed, PreparedIffLocked, IsHashLocked, Running, Active,
      Sealers, Available
<1> QED  BY <1>1, <1>2, <1>3, Zenon DEF ViewInv

-----------------------------------------------------------------------------
(* The theorems *)

\* ViewInv is inductive together with IInv, whatever the validators, blocks and
\* bounds, and however many validators are faulty or unstable.
THEOREM ViewInvariance == Spec => [](IInv /\ ViewInv)
<1>1. Init => ViewInv
  <2> SUFFICES ASSUME Init PROVE ViewInv
    OBVIOUS
  <2>1. \A n \in Correct : /\ current[n].round = 0 /\ current[n].lockedHash = None
                           /\ state[n] = "AcceptRequest" /\ msgs = {}
    BY DEF Init, newRoundState, Correct
  <2>2. PrepareInView /\ OnePreparePerView
    BY DEF Init, PrepareInView, OnePreparePerView
  <2>3. LockJustified /\ RoundJustified /\ CommittedIsSealed /\ PreparedIffLocked
    BY <2>1 DEF LockJustified, RoundJustified, CommittedIsSealed, PreparedIffLocked, IsHashLocked
  <2> QED  BY <2>2, <2>3 DEF ViewInv
<1>2. IInv /\ ViewInv /\ [Next]_vars => ViewInv'
  <2> SUFFICES ASSUME IInv, ViewInv, [Next]_vars PROVE ViewInv'
    OBVIOUS
  <2>1. ASSUME NEW n \in Correct, CoreStep(n) PROVE ViewInv'
    BY <2>1, CoreStepView, ViewStepInvariant, StopView DEF IsViewStep
  <2>2. ASSUME NEW n \in Correct, NEW v \in Values, InsertBlock(n, v) PROVE ViewInv'
    BY <2>2, ViewUnchanged DEF InsertBlock
  <2>3. CASE UNCHANGED vars
    BY <2>3, ViewUnchanged DEF vars
  <2> QED  BY <2>1, <2>2, <2>3 DEF Next
<1> QED  BY <1>1, <1>2, Invariance, PTL DEF Spec

\* A validator that does not restart signs PREPAREs for at most one block of a
\* view, whatever proposals, late messages and timeouts it handles.
THEOREM OnePrepare == Spec => []OnePreparePerView
<1>1. ViewInv => OnePreparePerView
  BY DEF ViewInv
<1> QED  BY <1>1, ViewInvariance, PTL

\* Every lock rests on a quorum of votes of one round of the sequence.
THEOREM LocksAreJustified == Spec => []LockJustified
<1>1. ViewInv => LockJustified
  BY DEF ViewInv
<1> QED  BY <1>1, ViewInvariance, PTL

\* Every round above 0 that a core works in was asked for by a quorum.
THEOREM RoundsAreJustified == Spec => []RoundJustified
<1>1. ViewInv => RoundJustified
  BY DEF ViewInv
<1> QED  BY <1>1, ViewInvariance, PTL

\* The block a core has committed carries enough seals for verifySeals, for every
\* number of validators and every committee size.
THEOREM CommittedBlocksAreSealed == Spec => []CommittedIsSealed
<1>1. ViewInv => CommittedIsSealed
  BY DEF ViewInv
<1> QED  BY <1>1, ViewInvariance, PTL

\* In the view it works in, a core is locked exactly from Prepared on.
THEOREM PreparedMeansLocked == Spec => []PreparedIffLocked
<1>1. ViewInv => PreparedIffLocked
  BY DEF ViewInv
<1> QED  BY <1>1, ViewInvariance, PTL

\* A step that is not the core's own leaves its round state alone.
LEMMA OtherCoresStay ==
    ASSUME IInv, ViewInv, [Next]_vars, NEW n \in Correct, current'[n] # current[n]
    PROVE  Stop(n) \/ \E rs, st, w, out : ViewStep(n, rs, st, w, out) /\ current'[n] = rs
<1>1. current \in [Nodes -> RoundState] /\ n \in Nodes
  BY Zenon DEF IInv, TypeOK, Correct
<1>2. PICK k \in Correct : CoreStep(k)
  BY DEF Next, InsertBlock, vars
<1>3. CASE Stop(k)
  BY <1>1, <1>3, Zenon DEF Stop
<1>4. CASE IsViewStep(k)
  <2>1. PICK rs, st, w, out : ViewStep(k, rs, st, w, out) /\ Enter(k, rs, st, w, out)
    BY <1>4, Zenon DEF IsViewStep
  <2>2. k = n /\ current'[n] = rs
    BY <2>1, <1>1 DEF Enter
  <2> QED  BY <2>1, <2>2, Zenon
<1> QED  BY <1>2, <1>3, <1>4, CoreStepView, Zenon

\* The view of a running core never goes back.
THEOREM ViewsOnlyAdvance == Spec => ViewNeverGoesBack
<1>1. IInv /\ ViewInv /\ [Next]_vars =>
         [\A n \in Correct : (Running(n) /\ Running(n)') => ~ ViewLess(View(n)', View(n))]_vars
  <2> SUFFICES ASSUME IInv, ViewInv, [Next]_vars, NEW n \in Correct, Running(n), Running(n)'
               PROVE  ~ ViewLess(View(n)', View(n))
    OBVIOUS
  <2>0. current[n].seq \in Nat /\ current[n].round \in Nat
    BY NodeTypes
  <2>1. CASE current'[n] = current[n]
    BY <2>0, <2>1 DEF ViewLess, View
  <2>2. CASE Stop(n)
    <3>1. current'[n].seq = 0
      BY <2>2, Zenon DEF Stop, IInv, TypeOK, Correct, NoRound, newRoundState
    <3> QED  BY <3>1, Zenon DEF Running
  <2>3. ASSUME NEW rs, NEW st, NEW w, NEW out, ViewStep(n, rs, st, w, out), current'[n] = rs
        PROVE  ~ ViewLess(View(n)', View(n))
    <3>1. rs.seq \in Nat /\ rs.round \in Nat
      BY <2>3, Zenon DEF ViewStep, RoundState
    <3>2. rs.seq > current[n].seq \/ (rs.seq = current[n].seq /\ rs.round >= current[n].round)
      BY <2>3, Zenon DEF ViewStep
    <3> QED  BY <3>1, <3>2, <2>0, <2>3 DEF ViewLess, View
  <2> QED  BY <2>1, <2>2, <2>3, OtherCoresStay, Zenon
<1> QED  BY <1>1, ViewInvariance, PTL DEF Spec, ViewNeverGoesBack

\* A core gives up its lock only with the sequence, by stopping, or after a
\* backend.Commit that failed.
THEOREM LocksAreKept == Spec => LockIsKept
<1>1. IInv /\ ViewInv /\ [Next]_vars =>
         [\A n \in Correct : IsHashLocked(current[n]) =>
            \/ current'[n].lockedHash = current[n].lockedHash
            \/ current'[n].seq # current[n].seq
            \/ CommitQuorum(n) /\ n \in Unstable]_vars
  <2> SUFFICES ASSUME IInv, ViewInv, [Next]_vars, NEW n \in Correct, IsHashLocked(current[n])
               PROVE  \/ current'[n].lockedHash = current[n].lockedHash
                      \/ current'[n].seq # current[n].seq
                      \/ CommitQuorum(n) /\ n \in Unstable
    OBVIOUS
  <2>1. CASE current'[n] = current[n]
    BY <2>1, Zenon
  <2>2. CASE Stop(n)
    BY <2>2, Zenon DEF Stop, IInv, TypeOK, Correct, NoRound, newRoundState, Running
  <2>3. ASSUME NEW rs, NEW st, NEW w, NEW out, ViewStep(n, rs, st, w, out), current'[n] = rs
        PROVE  \/ current'[n].lockedHash = current[n].lockedHash
               \/ current'[n].seq # current[n].seq
               \/ CommitQuorum(n) /\ n \in Unstable
    BY <2>3, Zenon DEF ViewStep
  <2> QED  BY <2>1, <2>2, <2>3, OtherCoresStay, Zenon
<1> QED  BY <1>1, ViewInvariance, PTL DEF Spec, LockIsKept
=============================================================================
