---------------------------- MODULE IstanbulCore ----------------------------
(***************************************************************************)
(* The Istanbul consensus core of every validator, the messages they       *)
(* exchange and the chains they build: PREPREPARE, PREPARE, COMMIT and     *)
(* ROUND CHANGE, hash locks, timeouts, restarts, and the insertion of      *)
(* sealed blocks.                                                          *)
(*                                                                         *)
(* The network.  msgs holds every message a core has broadcast and never   *)
(* shrinks.  A handler may find a message there at any later time or       *)
(* never, so messages are delayed, reordered, lost and seen again.  The    *)
(* backlog of future messages is part of this picture: a stored message is *)
(* one that is handled later.  A handler that counts messages (PREPARE,    *)
(* COMMIT, ROUND CHANGE) is modelled by the step in which its count        *)
(* reaches the threshold; the steps before it only fill a message set.     *)
(*                                                                         *)
(* Faults.  A node of Faulty may have sent any message.  A node of         *)
(* Unstable runs the protocol but may stop and start again, or may see     *)
(* backend.Commit fail: in both cases it loses its hash lock, which is     *)
(* kept in memory only.                                                    *)
(***************************************************************************)
EXTENDS Integers, Sequences, FiniteSets, IstanbulQuorum

CONSTANTS
    Nodes,              \* the qualified validators
    CommitteeSize,      \* the governance parameter of the same name
    Committee,          \* the validators that vote
    Faulty, Unstable,   \* see above
    Values,             \* the blocks (their round-independent hashes)
    InvalidValues,      \* the blocks that backend.Verify rejects
    None,               \* the empty hash, a nil proposal or request
    Mined(_),           \* the blocks the miner of a node may hand to its core
    GetProposer(_, _),  \* valset: the proposer of a sequence and a round
    MaxSeq, MaxRound    \* bounds of the model

ASSUME NodesAssumption ==
    /\ IsFiniteSet(Nodes)
    /\ Committee \subseteq Nodes
    /\ Faulty \subseteq Nodes
    /\ Unstable \subseteq Nodes
ASSUME ValuesAssumption == None \notin Values /\ InvalidValues \subseteq Values
ASSUME MinedAssumption == \A n \in Nodes : Mined(n) \subseteq Values \ InvalidValues
ASSUME BoundsAssumption == MaxSeq \in Nat /\ MaxRound \in Nat
ASSUME CommitteeSizeAssumption == CommitteeSize \in Nat \ {0}
ASSUME ProposerAssumption ==
    \A s \in 1 .. MaxSeq + 1, r \in 0 .. MaxRound : GetProposer(s, r) \in Nodes

Correct == Nodes \ Faulty
Stable  == Nodes \ (Faulty \cup Unstable)

\* current.requiredMessageCount, current.f and the seals a header needs.
RequiredMessageCount == calcQuorumSize(Cardinality(Nodes), CommitteeSize)
F                    == calcFaultTolerance(Cardinality(Nodes), CommitteeSize)
SealQuorum           == SealerQuorum(Cardinality(Nodes), CommitteeSize)

VARIABLES
    chain,     \* chain[n]: the blocks of n above genesis; LastProposal is its end
    current,   \* current[n]: the round state of n
    state,     \* state[n]: the phase of the view
    waiting,   \* waiting[n]: waitingForRoundChange
    msgs       \* the messages broadcast so far

vars == <<chain, current, state, waiting, msgs>>

OrNone(S) == S \cup {None}

\* roundState.  The message sets Prepares and Commits are read off msgs; the
\* committee data other than the proposer is the same in every round.
RoundState == [seq : Nat, round : Nat, preprepare : OrNone(Values),
               lockedHash : OrNone(Values), pendingRequest : OrNone(Values),
               proposer : OrNone(Nodes)]

newRoundState(s, r, lock, pp, req, p) ==
    [seq |-> s, round |-> r, preprepare |-> pp, lockedHash |-> lock,
     pendingRequest |-> req, proposer |-> p]

\* c.current = nil, before the core starts and after it stops.
NoRound == newRoundState(0, 0, None, None, None, None)

Running(n) == current[n].seq # 0

\* The core runs, within the bound on sequences.
Active(n) == Running(n) /\ current[n].seq <= MaxSeq

IsHashLocked(rs) == rs.lockedHash # None

States == {"AcceptRequest", "Preprepared", "Prepared", "Committed"}

-----------------------------------------------------------------------------
(* Messages *)

Message == [code : {"PREPREPARE", "PREPARE", "COMMIT", "ROUNDCHANGE"},
            from : Nodes, seq : Nat, round : Nat, digest : OrNone(Values)]

Msg(c, n, s, r, v) == [code |-> c, from |-> n, seq |-> s, round |-> r, digest |-> v]

\* A message a handler can be given: broadcast, or made by a faulty node.
Available(m) == m \in msgs \/ m.from \in Faulty

Senders(c, s, r, v) == {m \in Nodes : Available(Msg(c, m, s, r, v))}

\* Committee members whose PREPARE or COMMIT agrees with the subject of rs.
PrepareOrCommit(rs) ==
    Committee \cap (Senders("PREPARE", rs.seq, rs.round, rs.preprepare)
                      \cup Senders("COMMIT", rs.seq, rs.round, rs.preprepare))
Commits(rs) ==
    Committee \cap Senders("COMMIT", rs.seq, rs.round, rs.preprepare)

\* Validators seen asking for round r of sequence s.
RoundChanges(s, r) == Senders("ROUNDCHANGE", s, r, None)

\* What sendPrepare and sendCommit broadcast: nothing from a node outside the
\* committee.
Vote(c, n, rs) ==
    IF n \in Committee THEN {Msg(c, n, rs.seq, rs.round, rs.preprepare)} ELSE {}

\* What sendPreprepare broadcasts: nothing from a node that is not the proposer.
Proposal(n, rs, v) ==
    IF n = rs.proposer THEN {Msg("PREPREPARE", n, rs.seq, rs.round, v)} ELSE {}

-----------------------------------------------------------------------------
(* Changing rounds *)

\* The effect of a handler on node n: its round state, phase and waiting flag,
\* and the messages it broadcasts.
Enter(n, rs, st, w, out) ==
    /\ current' = [current EXCEPT ![n] = rs]
    /\ state' = [state EXCEPT ![n] = st]
    /\ waiting' = [waiting EXCEPT ![n] = w]
    /\ msgs' = msgs \cup out
    /\ UNCHANGED chain

\* Mutant: the new round forgets the lock.
updateRoundStateUnlocks(rs, r, p) ==
    newRoundState(rs.seq, r, None, None, rs.pendingRequest, p)

\* A locked node takes its lock and its proposal into the new round; any node
\* keeps the block its own miner asked it to propose.
updateRoundState(rs, r, p) ==
    newRoundState(rs.seq, r, rs.lockedHash,
                  IF IsHashLocked(rs) THEN rs.preprepare ELSE None,
                  rs.pendingRequest, p)

\* The chain has reached the sequence of the core (or there is none): start the
\* next sequence at round 0.  The proposer is looked up with the round that the
\* caller asked for.
StartNewSequence(n, r) ==
    LET last == Len(chain[n])
        p    == GetProposer(last + 1, r)
    IN  /\ last >= current[n].seq
        /\ Enter(n, newRoundState(last + 1, 0, None, None, None, p),
                 "AcceptRequest", FALSE, {})

\* The chain has not: move to round r of the same sequence, and if it is our
\* turn propose the locked block, or else the pending request.
StartRound(n, r) ==
    LET rs == updateRoundState(current[n], r, GetProposer(current[n].seq, r))
        v  == IF IsHashLocked(rs) THEN rs.preprepare ELSE rs.pendingRequest
    IN  /\ Len(chain[n]) < current[n].seq
        /\ r # 0 /\ r >= current[n].round
        /\ Enter(n, rs, "AcceptRequest", FALSE,
                 IF v # None THEN Proposal(n, rs, v) ELSE {})

startNewRound(n, r) == StartNewSequence(n, r) \/ StartRound(n, r)

\* Mutant: the check that the round is higher than the current one is dropped.
sendRoundChangeAnyRound(n, r) ==
    /\ r <= MaxRound
    /\ Enter(n, updateRoundState(current[n], r, current[n].proposer),
             state[n], TRUE, {Msg("ROUNDCHANGE", n, current[n].seq, r, None)})

\* sendRoundChange with its catchUpRound: the node moves to the round it asks
\* for and waits; phase and proposer stay those of the round it leaves.
sendRoundChange(n, r) ==
    /\ current[n].round < r /\ r <= MaxRound
    /\ Enter(n, updateRoundState(current[n], r, current[n].proposer),
             state[n], TRUE, {Msg("ROUNDCHANGE", n, current[n].seq, r, None)})

sendNextRoundChange(n) == sendRoundChange(n, current[n].round + 1)

-----------------------------------------------------------------------------
(* The handlers of a core *)

\* The miner hands over a block for the current sequence.
handleRequest(n, v) ==
    /\ Active(n)
    /\ v \in Mined(n)
    /\ LET rs == [current[n] EXCEPT !.pendingRequest = v]
       IN  Enter(n, rs, state[n], waiting[n],
                 IF state[n] = "AcceptRequest" THEN Proposal(n, rs, v) ELSE {})

\* A PREPREPARE of the recorded proposer for block v is being handled.
Proposed(n, v) ==
    /\ Active(n) /\ ~ waiting[n]
    /\ current[n].proposer \in Nodes
    /\ Available(Msg("PREPREPARE", current[n].proposer, current[n].seq,
                     current[n].round, v))

\* The proposal does not pass backend.Verify.
RejectProposal(n, v) ==
    /\ Proposed(n, v) /\ v \in InvalidValues
    /\ sendNextRoundChange(n)

\* Mutant: the proposal is accepted in any phase.
AcceptProposalAnyState(n, v) ==
    /\ Proposed(n, v) /\ v \notin InvalidValues
    /\ ~ IsHashLocked(current[n])
    /\ LET rs == [current[n] EXCEPT !.preprepare = v]
       IN  Enter(n, rs, "Preprepared", FALSE, Vote("PREPARE", n, rs))

\* Mutant: the lock is not looked at.
AcceptProposalIgnoresLock(n, v) ==
    /\ Proposed(n, v) /\ v \notin InvalidValues
    /\ state[n] = "AcceptRequest"
    /\ LET rs == [current[n] EXCEPT !.preprepare = v]
       IN  Enter(n, rs, "Preprepared", FALSE, Vote("PREPARE", n, rs))

\* Not locked: vote for the proposal.
AcceptProposal(n, v) ==
    /\ Proposed(n, v) /\ v \notin InvalidValues
    /\ state[n] = "AcceptRequest" /\ ~ IsHashLocked(current[n])
    /\ LET rs == [current[n] EXCEPT !.preprepare = v]
       IN  Enter(n, rs, "Preprepared", FALSE, Vote("PREPARE", n, rs))

\* Mutant: the locked hash is not compared.
AcceptLockedProposalAnyHash(n, v) ==
    /\ Proposed(n, v) /\ v \notin InvalidValues
    /\ state[n] = "AcceptRequest" /\ IsHashLocked(current[n])
    /\ LET rs == [current[n] EXCEPT !.preprepare = v]
       IN  Enter(n, rs, "Prepared", FALSE, Vote("COMMIT", n, rs))

\* Locked on the proposed block: go straight to Prepared and commit.
AcceptLockedProposal(n, v) ==
    /\ Proposed(n, v) /\ v \notin InvalidValues
    /\ state[n] = "AcceptRequest" /\ IsHashLocked(current[n])
    /\ v = current[n].lockedHash
    /\ LET rs == [current[n] EXCEPT !.preprepare = v]
       IN  Enter(n, rs, "Prepared", FALSE, Vote("COMMIT", n, rs))

\* Locked on another block: ask for the next round.
RefuseProposal(n, v) ==
    /\ Proposed(n, v) /\ v \notin InvalidValues
    /\ state[n] = "AcceptRequest" /\ IsHashLocked(current[n])
    /\ v # current[n].lockedHash
    /\ sendNextRoundChange(n)

handlePreprepare(n, v) ==
    \/ RejectProposal(n, v)
    \/ AcceptProposal(n, v)
    \/ AcceptLockedProposal(n, v)
    \/ RefuseProposal(n, v)

\* PREPAREs and COMMITs of the view are past AcceptRequest only.
Voting(n) == Active(n) /\ ~ waiting[n] /\ state[n] # "AcceptRequest"

\* Mutant: another field of the round state is taken for the hash.
LockHashWrongField(rs) == [rs EXCEPT !.lockedHash = rs.proposer]

LockHash(rs) == [rs EXCEPT !.lockedHash = rs.preprepare]

\* Mutant: f + 1 votes are taken for a quorum.
EnoughVotesWeak(rs) == Cardinality(PrepareOrCommit(rs)) >= F + 1

EnoughVotes(rs) ==
    \/ IsHashLocked(rs) /\ rs.preprepare = rs.lockedHash
    \/ Cardinality(PrepareOrCommit(rs)) >= RequiredMessageCount

\* handlePrepare, and handleCommit short of a quorum of COMMITs, when the votes
\* counted so far reach the required number: lock the block and commit to it.
handlePrepare(n) ==
    /\ Voting(n) /\ state[n] = "Preprepared"
    /\ EnoughVotes(current[n])
    /\ LET rs == LockHash(current[n])
       IN  Enter(n, rs, "Prepared", FALSE, Vote("COMMIT", n, rs))

\* Mutant: PREPAREs are counted as COMMITs too.
CommitQuorumOfVotes(n) ==
    /\ Voting(n) /\ state[n] # "Committed"
    /\ Cardinality(PrepareOrCommit(current[n])) >= RequiredMessageCount

\* handleCommit with a quorum of COMMITs.  A node that was still Preprepared
\* locks and broadcasts its COMMIT in the same handler, because these COMMITs
\* count as PREPAREs too.
CommitQuorum(n) ==
    /\ Voting(n) /\ state[n] # "Committed"
    /\ Cardinality(Commits(current[n])) >= RequiredMessageCount

LateVote(n) ==
    IF state[n] = "Preprepared" THEN Vote("COMMIT", n, current[n]) ELSE {}

handleCommit(n) ==
    /\ CommitQuorum(n)
    /\ Enter(n, LockHash(current[n]), "Committed", FALSE, LateVote(n))

\* The same handler when backend.Commit returns an error: unlock and ask for the
\* next round.
handleCommitFails(n) ==
    /\ CommitQuorum(n) /\ n \in Unstable
    /\ current[n].round + 1 <= MaxRound
    /\ LET rs == updateRoundState([current[n] EXCEPT !.lockedHash = None],
                                  current[n].round + 1, current[n].proposer)
       IN  Enter(n, rs, "Committed", TRUE,
                 LateVote(n) \cup {Msg("ROUNDCHANGE", n, rs.seq, rs.round, None)})

\* Mutant: f + 1 messages start the round.
handleRoundChangeWeak(n, r) ==
    /\ Active(n)
    /\ current[n].round < r \/ (waiting[n] /\ current[n].round = r)
    /\ Cardinality(RoundChanges(current[n].seq, r)) >= F + 1
    /\ startNewRound(n, r)

\* Mutant: a node that already waits in round r does not start it.
handleRoundChangeHigherOnly(n, r) ==
    /\ Active(n)
    /\ current[n].round < r
    /\ Cardinality(RoundChanges(current[n].seq, r)) >= RequiredMessageCount
    /\ startNewRound(n, r)

\* A quorum of ROUND CHANGE messages for round r starts it.
handleRoundChange(n, r) ==
    /\ Active(n)
    /\ current[n].round < r \/ (waiting[n] /\ current[n].round = r)
    /\ Cardinality(RoundChanges(current[n].seq, r)) >= RequiredMessageCount
    /\ startNewRound(n, r)

\* f + 1 of them make a waiting node ask for that round too.
handleWeakCertificate(n, r) ==
    /\ Active(n) /\ waiting[n] /\ F + 1 # RequiredMessageCount
    /\ Cardinality(RoundChanges(current[n].seq, r)) >= F + 1
    /\ sendRoundChange(n, r)

\* The round timer fires: catch up with a higher round that f + 1 nodes ask for
\* if we were not waiting yet, or else ask for the next round.
handleTimeoutMsg(n) ==
    /\ Active(n) /\ Len(chain[n]) < current[n].seq
    /\ \/ \E r \in 1 .. MaxRound :
            /\ ~ waiting[n]
            /\ Cardinality(RoundChanges(current[n].seq, r)) >= F + 1
            /\ sendRoundChange(n, r)
       \/ sendNextRoundChange(n)

\* The core learns that the chain has reached its sequence: from the chain head
\* event, or when a future message makes it look.
handleChainHead(n) ==
    /\ Active(n)
    /\ StartNewSequence(n, 0)

Start(n) ==
    /\ ~ Running(n)
    /\ StartNewSequence(n, 0)

\* Stop drops the round state, and with it the hash lock.
Stop(n) ==
    /\ Running(n) /\ n \in Unstable
    /\ current' = [current EXCEPT ![n] = NoRound]
    /\ UNCHANGED <<chain, state, waiting, msgs>>

-----------------------------------------------------------------------------
(* The chain *)

\* Nodes whose committed seal for block v of sequence s exists.  A seal signs the
\* hash of the block, which does not depend on the round.
Sealers(s, v) == {m \in Nodes : \E r \in 0 .. MaxRound :
                                   Available(Msg("COMMIT", m, s, r, v))}

\* Mutant: a block that was appended may be taken off again.
InsertBlockReorganises(n, v) ==
    /\ \/ /\ Len(chain[n]) < MaxSeq
          /\ v \notin InvalidValues
          /\ Cardinality(Sealers(Len(chain[n]) + 1, v)) >= SealQuorum
          /\ chain' = [chain EXCEPT ![n] = Append(@, v)]
       \/ chain[n] # <<>> /\ chain' = [chain EXCEPT ![n] = <<>>]
    /\ UNCHANGED <<current, state, waiting, msgs>>

\* A block with enough committed seals is appended: written by the proposer's
\* worker, enqueued by backend.Commit, fetched or downloaded from a peer.
InsertBlock(n, v) ==
    /\ Len(chain[n]) < MaxSeq
    /\ v \notin InvalidValues
    /\ Cardinality(Sealers(Len(chain[n]) + 1, v)) >= SealQuorum
    /\ chain' = [chain EXCEPT ![n] = Append(@, v)]
    /\ UNCHANGED <<current, state, waiting, msgs>>

-----------------------------------------------------------------------------
Init ==
    /\ chain = [n \in Nodes |-> <<>>]
    /\ current = [n \in Nodes |-> newRoundState(1, 0, None, None, None, GetProposer(1, 0))]
    /\ state = [n \in Nodes |-> "AcceptRequest"]
    /\ waiting = [n \in Nodes |-> FALSE]
    /\ msgs = {}

CoreStep(n) ==
    \/ Start(n) \/ Stop(n)
    \/ \E v \in Values : handleRequest(n, v) \/ handlePreprepare(n, v)
    \/ handlePrepare(n) \/ handleCommit(n) \/ handleCommitFails(n)
    \/ \E r \in 1 .. MaxRound : handleRoundChange(n, r) \/ handleWeakCertificate(n, r)
    \/ handleTimeoutMsg(n) \/ handleChainHead(n)

Next == \E n \in Correct : CoreStep(n) \/ \E v \in Values : InsertBlock(n, v)

Spec == Init /\ [][Next]_vars

\* The event loop of a running core serves every event in the end, round timers
\* fire, miners deliver and blocks spread.  Nothing is assumed of a node that may
\* stop.
Fairness ==
    \A n \in Stable :
        /\ \A v \in Values : /\ WF_vars(handleRequest(n, v))
                             /\ WF_vars(handlePreprepare(n, v))
                             /\ WF_vars(InsertBlock(n, v))
        /\ WF_vars(handlePrepare(n)) /\ WF_vars(handleCommit(n))
        /\ \A r \in 1 .. MaxRound : WF_vars(handleRoundChange(n, r))
        /\ WF_vars(handleTimeoutMsg(n)) /\ WF_vars(handleChainHead(n))

FairSpec == Spec /\ Fairness
-----------------------------------------------------------------------------
(* Properties *)

\* Every variable has the type its declaration announces.
TypeOK ==
    /\ chain \in [Nodes -> Seq(Values)]
    /\ current \in [Nodes -> RoundState]
    /\ state \in [Nodes -> States]
    /\ waiting \in [Nodes -> BOOLEAN]
    /\ msgs \subseteq Message

\* The chains of two correct validators never disagree on a block they both
\* have, whatever rounds sealed it: commit() and verifySeals together keep the
\* network on one chain.
Agreement ==
    \A m, n \in Correct : \A s \in 1 .. Len(chain[m]) :
        s <= Len(chain[n]) => chain[m][s] = chain[n][s]

\* The block that some chain of ch has at number s.
AgreedBlock(ch, s) ==
    IF \E n \in Correct : s <= Len(ch[n])
    THEN CHOOSE v \in Values : \E n \in Correct : s <= Len(ch[n]) /\ v = ch[n][s]
    ELSE None

Agreed == INSTANCE AgreedChain
    WITH Blocks <- Values, MaxNum <- MaxSeq, chains <- chain,
         agreed <- [s \in 1 .. MaxSeq |-> AgreedBlock(chain, s)]

\* The validators together agree on one block per sequence, in order and for
\* good, and every chain is a prefix of that agreement: what commit() at one
\* node and verifySeals at another accept never differs.
ImplementsAgreedChain == Agreed!Spec

\* A validator that keeps its lock never signs COMMITs for two blocks of one
\* sequence, across all the rounds the sequence takes: sendCommit always follows
\* LockHash, and a locked core refuses every other proposal.
OneCommitPerSequence ==
    \A m1, m2 \in {m \in msgs : m.code = "COMMIT" /\ m.from \in Stable} :
        (m1.from = m2.from /\ m1.seq = m2.seq) => m1.digest = m2.digest

\* A validator that does not restart votes for at most one block in a view: once
\* sendPrepare has run, no handler takes the core back to AcceptRequest in the
\* same round.
OnePreparePerView ==
    \A m1, m2 \in {m \in msgs : m.code = "PREPARE" /\ m.from \in Stable} :
        (m1.from = m2.from /\ m1.seq = m2.seq /\ m1.round = m2.round)
            => m1.digest = m2.digest

\* Whatever a core is locked on was voted for by a quorum in one round of the
\* sequence, however many rounds ago, and is the proposal the core still holds.
LockJustified ==
    \A n \in Correct : LET rs == current[n] IN
        IsHashLocked(rs) =>
            /\ rs.preprepare = rs.lockedHash
            /\ \E r \in 0 .. rs.round :
                  Cardinality(PrepareOrCommit([rs EXCEPT !.round = r]))
                      >= RequiredMessageCount

\* A core works in a round above 0 only after a quorum asked for exactly that
\* round; until then it is waiting and handles no proposal and no vote.
RoundJustified ==
    \A n \in Correct : LET rs == current[n] IN
        (rs.round > 0 /\ ~ waiting[n]) =>
            Cardinality(RoundChanges(rs.seq, rs.round)) >= RequiredMessageCount

\* A core that reached Committed and was not turned back holds a block that
\* verifySeals accepts at every other node: the quorum of the core is enough for
\* the quorum of the sealer.
CommittedIsSealed ==
    \A n \in Correct : LET rs == current[n] IN
        (Running(n) /\ state[n] = "Committed" /\ ~ waiting[n]) =>
            Cardinality(Sealers(rs.seq, rs.preprepare)) >= SealQuorum

\* In the view it works in, a core holds a lock exactly from Prepared on, across
\* restarts and failed commits; so the branches of handlePrepare and handleCommit
\* for a core that is locked before Prepared are never taken.
PreparedIffLocked ==
    \A n \in Correct : (Active(n) /\ ~ waiting[n]) =>
        /\ state[n] = "Preprepared" => ~ IsHashLocked(current[n])
        /\ state[n] \in {"Prepared", "Committed"} => IsHashLocked(current[n])

\* The proposer that the core recorded is the proposer of the view it is in.
ProposerOfView ==
    \A n \in Correct : (Active(n) /\ ~ waiting[n]) =>
        current[n].proposer = GetProposer(current[n].seq, current[n].round)

View(n) == <<current[n].seq, current[n].round>>

ViewLess(v, w) == v[1] < w[1] \/ (v[1] = w[1] /\ v[2] < w[2])

\* While a core runs its view never goes back, whatever late ROUND CHANGE,
\* timeout or chain head event it handles.
ViewNeverGoesBack ==
    [][\A n \in Correct : (Running(n) /\ Running(n)') => ~ ViewLess(View(n)', View(n))]_vars

\* A core that is locked loses its lock only by starting a new sequence, by
\* stopping, or after a failed backend.Commit; it never moves to another block.
LockIsKept ==
    [][\A n \in Correct : IsHashLocked(current[n]) =>
          \/ current'[n].lockedHash = current[n].lockedHash
          \/ current'[n].seq # current[n].seq
          \/ CommitQuorum(n) /\ n \in Unstable]_vars

\* A locked proposer proposes the block it is locked on and no other.
LockedProposerProposesLock ==
    [][\A n \in Correct : IsHashLocked(current[n]) =>
          \A m \in msgs' \ msgs : (m.code = "PREPREPARE" /\ m.from = n) =>
              m.digest = current[n].lockedHash]_vars

\* A proposer that stays silent is replaced: round timers, ROUND CHANGE and the
\* next proposer bring every chain to the last sequence.
EveryChainGrows == \A n \in Stable : <>(Len(chain[n]) = MaxSeq)
-----------------------------------------------------------------------------
(* The inductive invariant behind OneCommitPerSequence and Agreement *)

\* The bounds of the model bound the variables.
WithinBounds ==
    \A n \in Correct : /\ Len(chain[n]) <= MaxSeq
                       /\ current[n].seq <= MaxSeq + 1
                       /\ current[n].round <= MaxRound

\* A locked core holds the proposal it is locked on, in every round.
LockHolds ==
    \A n \in Correct : IsHashLocked(current[n]) =>
        current[n].preprepare = current[n].lockedHash

\* A core that votes has a proposal.
VotesHaveProposal ==
    \A n \in Correct : (Running(n) /\ ~ waiting[n] /\ state[n] # "AcceptRequest") =>
        current[n].preprepare # None

\* A COMMIT of the current sequence leaves its sender locked on that block.
CommitLocks ==
    \A m \in msgs : (m.code = "COMMIT" /\ m.from \in Stable) =>
        /\ m.digest # None
        /\ m.seq <= current[m.from].seq
        /\ m.seq = current[m.from].seq => current[m.from].lockedHash = m.digest

\* Every block of every chain carries the seals verifySeals counted.
ChainSealed ==
    \A n \in Correct : \A s \in 1 .. Len(chain[n]) :
        Cardinality(Sealers(s, chain[n][s])) >= SealQuorum

IInv == TypeOK /\ WithinBounds /\ LockHolds /\ VotesHaveProposal /\ CommitLocks
          /\ OneCommitPerSequence /\ ChainSealed

\* A PREPARE never runs ahead of its sender's view; in the view its sender is in,
\* it is for the proposal the sender holds, and the sender is past AcceptRequest.
PrepareInView ==
    \A m \in msgs : (m.code = "PREPARE" /\ m.from \in Stable) =>
        LET rs == current[m.from] IN
        \/ m.seq < rs.seq
        \/ m.seq = rs.seq /\ m.round < rs.round
        \/ /\ m.seq = rs.seq /\ m.round = rs.round /\ m.digest = rs.preprepare
           /\ ~ waiting[m.from] /\ state[m.from] # "AcceptRequest"

\* With IInv, the inductive invariant behind what a core may conclude from its
\* view: its votes, its lock, its round and its decision.
ViewInv == PrepareInView /\ OnePreparePerView /\ LockJustified /\ RoundJustified
             /\ CommittedIsSealed /\ PreparedIffLocked

\* Any two sets of sealers that verifySeals accepts share a stable validator.
FaultBound == 2 * SealQuorum > Cardinality(Nodes) + Cardinality(Faulty \cup Unstable)
=============================================================================
