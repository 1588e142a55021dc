----------------------------- MODULE HeaderGov -----------------------------
(***************************************************************************)
(* Header governance on one node: votes in block headers, their            *)
(* ratification in the Governance field of epoch blocks, the parameter set *)
(* that follows from it, and the node's record of all this in memory and   *)
(* in the database: filled by PostInsertBlock and by a background scan of  *)
(* old epochs, read back at a restart, and cut by SetHead.                 *)
(*                                                                         *)
(* The chain is the one honest nodes make: its headers have consistent     *)
(* votes and, at epoch blocks, the ratification of the votes of the epoch  *)
(* before.  Parameters are the two bounds of the base fee; any other vote  *)
(* is a validator vote, which this module does not collect.                *)
(***************************************************************************)
EXTENDS Integers, Sequences, FiniteSets, FiniteSetsExt

CONSTANTS
    Epoch,           \* the length of an epoch
    KoreBlock,       \* the first block of the Kore hard fork
    Votes,           \* votes, with a voter, a name and a value
    Self,            \* the voter that is this node
    Default,         \* the default parameter set, with that of genesis over it
    InitHead,        \* the head of the chain before the first start
    MaxBlock,        \* bound: the highest block
    MaxVotes,        \* bound: votes in the headers and waiting
    MaxRewinds,      \* bound: calls of SetHead
    MaxCrashes,      \* bound: crashes of the node
    RewindAnywhere,  \* may SetHead stop right before a block with a vote or a
                     \* ratification, and may the node crash in SetHead?
    None

Names == {"lowerboundbasefee", "upperboundbasefee"}
Numbers == 0 .. MaxBlock
Values == {Default[p] : p \in Names} \cup {v.value : v \in Votes}
PartialParamSet == [Names -> Values \cup {None}]
Empty == [p \in Names |-> None]

ASSUME BoundsAssumption ==
    /\ Epoch \in Nat \ {0} /\ KoreBlock \in Nat /\ MaxBlock \in Nat /\ InitHead \in Numbers
    /\ MaxRewinds \in Nat /\ MaxCrashes \in Nat /\ RewindAnywhere \in BOOLEAN
    /\ Default["lowerboundbasefee"] <= Default["upperboundbasefee"]
ASSUME NoneAssumption ==
    /\ None \notin Votes /\ None \notin PartialParamSet
    /\ None \notin Numbers /\ \A nums \in SUBSET Numbers : None # nums

VARIABLES
    headers,       \* the canonical headers above genesis: vote and governance
    head,          \* the number of CurrentBlock
    groupedVotes,  \* groupedVotes[n]: the vote recorded for block n, or None
    governances,   \* governances[n]: the ratification recorded for block n, or None
    myVotes,       \* the votes waiting for this node to propose
    voteNums,      \* governanceVoteDataBlockNums in the database
    govNums,       \* governanceDataBlockNums in the database, or None
    border,        \* governanceLowestVoteScannedEpochIdx in the database, or None
    ctl,           \* the thread that starts the module and rewinds the chain
    migrate,       \* the goroutine that scans old epochs
    post,          \* the newest block, before or in its PostInsertBlock
    missed,        \* blocks whose PostInsertBlock was lost in a crash
    rewinds, crashes

blockchain == <<headers, head>>
db == <<voteNums, govNums, border>>
memory == <<groupedVotes, governances, myVotes>>
vars == <<blockchain, db, memory, ctl, migrate, post, missed, rewinds, crashes>>

-----------------------------------------------------------------------------
(* Operators of the code *)

calcEpochIdx(num) == num \div Epoch
EpochBlocks(idx) == (idx * Epoch) .. ((idx + 1) * Epoch - 1)

\* The ratification of the votes recorded in blocks: the last one of each name.
Ratified(voteOf, blocks) ==
    [p \in Names |-> LET nums == {n \in blocks : voteOf[n] # None /\ voteOf[n].name = p}
                     IN IF nums = {} THEN None ELSE voteOf[Max(nums)].value]

\* GovsToHistory: the parameter set after every recorded ratification in turn.
Govs == {n \in Numbers : governances[n] # None}
HistoryAt(num) ==
    [p \in Names |-> LET nums == {n \in Govs : n <= num /\ governances[n][p] # None}
                     IN IF nums = {} THEN Default[p] ELSE governances[Max(nums)][p]]

\* Mutant: the block before Kore is not taken off.
PrevEpochStartKore(num) == IF num <= Epoch THEN 0 ELSE num - (num % Epoch) - Epoch

PrevEpochStart(num) ==
    LET n == IF num >= KoreBlock THEN num ELSE num - 1
    IN IF num <= Epoch THEN 0 ELSE n - (n % Epoch) - Epoch

\* Search in the history takes the last recorded ratification at or below the start
\* of the previous epoch; genesis is always there.
GetParamSet(num) ==
    LET nums == {n \in Govs \cup {0} : n <= PrevEpochStart(num)}
    IN HistoryAt(Max(nums))

\* The governance votes in the headers of an epoch, up to the current block.
HeaderVote(n) == IF headers[n].vote # None /\ headers[n].vote.name \in Names
                 THEN headers[n].vote ELSE None
scanAllVotesInEpoch(idx) ==
    [n \in Numbers |-> IF n \in EpochBlocks(idx) /\ n \in 1 .. head THEN HeaderVote(n) ELSE None]

\* Epochs at or above the border are recorded, the others are scanned again.
getVotesInEpoch(idx) == IF border <= idx THEN groupedVotes ELSE scanAllVotesInEpoch(idx)

getExpectedGovernance(num) ==
    LET idx == calcEpochIdx(num) - 1
    IN Ratified(getVotesInEpoch(idx), EpochBlocks(idx))

\* The bounds of the base fee are compared with the parameters in effect.
Consistent(vote, params) ==
    CASE vote.name = "lowerboundbasefee" -> vote.value <= params["upperboundbasefee"]
      [] vote.name = "upperboundbasefee" -> vote.value >= params["lowerboundbasefee"]
      [] OTHER -> TRUE

checkConsistency(num, vote) == Consistent(vote, GetParamSet(num))

VerifyVote(num, vote) == vote # None => checkConsistency(num, vote)
VerifyGov(num, gov) == gov = IF num % Epoch = 0 THEN getExpectedGovernance(num) ELSE Empty
VerifyHeader(num, header) == VerifyVote(num, header.vote) /\ VerifyGov(num, header.gov)

-----------------------------------------------------------------------------
(* What the chain says, by the headers alone *)

\* The header honest nodes agree on at num with this vote: an epoch block ratifies
\* the votes of the epoch before it.
RefGov(hdrs, num) ==
    LET voteOf == [n \in 1 .. Len(hdrs) |-> hdrs[n].vote]
    IN IF num % Epoch = 0
       THEN Ratified(voteOf, EpochBlocks(calcEpochIdx(num) - 1) \ {0}) ELSE Empty

\* A ratification of block k*epoch takes effect from block (k+1)*epoch on, or from
\* the block after that before Kore.
InEffect(k, num) == IF num >= KoreBlock THEN k + Epoch <= num ELSE k + Epoch < num
RefParams(hdrs, num) ==
    [p \in Names |-> LET nums == {k \in 1 .. Len(hdrs) : InEffect(k, num) /\ hdrs[k].gov[p] # None}
                     IN IF nums = {} THEN Default[p] ELSE hdrs[Max(nums)].gov[p]]

\* Room for one more vote in the model.
VotesBounded(hdrs, waiting) ==
    Cardinality({n \in 1 .. Len(hdrs) : hdrs[n].vote # None}) + Len(waiting) < MaxVotes

Honest(hdrs, num, vote) == vote # None => Consistent(vote, RefParams(hdrs, num))

-----------------------------------------------------------------------------
(* Blocks *)

\* Is the node up, with the hook of the last block behind it?
Ready == ctl.pc = "up" /\ post.pc = "none" /\ head < MaxBlock

Written(hdrs) ==
    /\ headers' = hdrs
    /\ head' = head + 1
    /\ post' = [pc |-> "vote", num |-> head']
    /\ UNCHANGED <<db, memory, ctl, migrate, missed, rewinds, crashes>>

\* A block of another proposer, which this node verifies.
ImportBlock(vote) ==
    LET header == [vote |-> vote, gov |-> RefGov(headers, head + 1)] IN
    /\ Ready /\ head = Len(headers)
    /\ vote # None => vote.voter # Self /\ VotesBounded(headers, <<>>)
    /\ Honest(headers, head + 1, vote)
    /\ VerifyHeader(head + 1, header)
    /\ Written(Append(headers, header))

\* A node whose head fell back in a crash imports the same block again.
ImportAgain ==
    /\ Ready /\ head < Len(headers)
    /\ VerifyHeader(head + 1, headers[head + 1])
    /\ Written(headers)

\* PrepareHeader: the first waiting vote, and the expected ratification.  The block
\* is made only if the other nodes, who know the chain, accept its header.
ProposeBlock ==
    LET num == head + 1
        header == [vote |-> IF myVotes = <<>> THEN None ELSE myVotes[1],
                   gov |-> IF num % Epoch = 0 THEN getExpectedGovernance(num) ELSE Empty] IN
    /\ Ready /\ head = Len(headers)
    /\ Honest(headers, num, header.vote)
    /\ header.gov = RefGov(headers, num)
    /\ Written(Append(headers, header))

\* The governance_vote API.
Vote(vote) ==
    /\ ctl.pc = "up" /\ vote.voter = Self /\ VotesBounded(headers, myVotes)
    /\ checkConsistency(head + 1, vote)
    /\ myVotes' = Append(myVotes, vote)
    /\ UNCHANGED <<blockchain, db, groupedVotes, governances, ctl, migrate, post, missed,
                   rewinds, crashes>>

removeMyVote(vote) ==
    LET nums == {i \in 1 .. Len(myVotes) : myVotes[i] = vote}
    IN IF nums = {} THEN myVotes
       ELSE SubSeq(myVotes, 1, Min(nums) - 1) \o SubSeq(myVotes, Min(nums) + 1, Len(myVotes))

\* Mutant: the vote is recorded in memory only.
HandleVoteInMemory(num, vote) ==
    /\ IF vote # None /\ vote.name \in Names
       THEN groupedVotes' = [groupedVotes EXCEPT ![num] = vote] /\ UNCHANGED voteNums
       ELSE UNCHANGED <<groupedVotes, voteNums>>
    /\ myVotes' = removeMyVote(vote)

HandleVote(num, vote) ==
    /\ IF vote # None /\ vote.name \in Names
       THEN /\ groupedVotes' = [groupedVotes EXCEPT ![num] = vote]
            /\ voteNums' = voteNums \cup {num}
       ELSE UNCHANGED <<groupedVotes, voteNums>>
    /\ myVotes' = removeMyVote(vote)

PostVote ==
    /\ post.pc = "vote"
    /\ HandleVote(post.num, headers[post.num].vote)
    /\ post' = [post EXCEPT !.pc = "gov"]
    /\ UNCHANGED <<blockchain, govNums, border, governances, ctl, migrate, missed, rewinds,
                   crashes>>

\* HandleGov writes the numbers of all ratifications in memory.
HandleGov(num, gov) ==
    IF gov # Empty
    THEN /\ governances' = [governances EXCEPT ![num] = gov]
         /\ govNums' = {0, num} \cup Govs
    ELSE UNCHANGED <<governances, govNums>>

PostGov ==
    /\ post.pc = "gov"
    /\ HandleGov(post.num, headers[post.num].gov)
    /\ post' = [pc |-> "none", num |-> 0]
    /\ missed' = missed \ {post.num}
    /\ UNCHANGED <<blockchain, voteNums, border, groupedVotes, myVotes, ctl, migrate,
                   rewinds, crashes>>

-----------------------------------------------------------------------------
(* Init and Start *)

\* initSchema takes the numbers of the ratifications from the older database, which
\* has them all; a new one has genesis only.
initSchema ==
    /\ ctl.pc = "down"
    /\ govNums' = IF govNums = None
                  THEN {0} \cup {n \in 1 .. head : headers[n].gov # Empty} ELSE govNums
    /\ ctl' = [ctl EXCEPT !.pc = IF border = None THEN "scan" ELSE "load"]
    /\ UNCHANGED <<blockchain, voteNums, border, memory, migrate, post, missed, rewinds, crashes>>

\* accumulateVotesInEpoch records the votes of an epoch, one write each, and then
\* moves the border to it.
Recorded(votes) == {n \in Numbers : votes[n] # None}
AddVotes(votes) == [n \in Numbers |-> IF votes[n] # None THEN votes[n] ELSE groupedVotes[n]]

ScanLatest ==
    LET votes == scanAllVotesInEpoch(calcEpochIdx(head)) IN
    /\ ctl.pc = "scan"
    /\ voteNums' = voteNums \cup Recorded(votes)
    /\ groupedVotes' = AddVotes(votes)
    /\ ctl' = [ctl EXCEPT !.pc = "border"]
    /\ UNCHANGED <<blockchain, govNums, border, governances, myVotes, migrate, post, missed,
                   rewinds, crashes>>

\* Mutant: the border is not written.
ScanBorderForgotten ==
    /\ ctl.pc = "border"
    /\ ctl' = [ctl EXCEPT !.pc = "load"]
    /\ UNCHANGED <<blockchain, db, memory, migrate, post, missed, rewinds, crashes>>

ScanBorder ==
    /\ ctl.pc = "border"
    /\ border' = calcEpochIdx(head)
    /\ ctl' = [ctl EXCEPT !.pc = "load"]
    /\ UNCHANGED <<blockchain, voteNums, govNums, memory, migrate, post, missed, rewinds, crashes>>

\* Every recorded block must have its header, with a vote or a ratification in it;
\* the node panics otherwise.
CanLoad ==
    /\ \A n \in voteNums : n <= Len(headers) /\ headers[n].vote # None
    /\ \A n \in govNums \ {0} : n <= Len(headers) /\ headers[n].gov # Empty

\* The rest of Init, and Start.
Load ==
    /\ ctl.pc = "load" /\ CanLoad
    /\ governances' = [n \in Numbers |-> IF n \in govNums \ {0} THEN headers[n].gov ELSE None]
    /\ groupedVotes' = [n \in Numbers |-> IF n \in voteNums THEN headers[n].vote
                                          ELSE groupedVotes[n]]
    /\ ctl' = [ctl EXCEPT !.pc = "up"]
    /\ migrate' = [pc |-> "check", idx |-> border]
    /\ UNCHANGED <<blockchain, db, myVotes, post, missed, rewinds, crashes>>

-----------------------------------------------------------------------------
(* migrate *)

\* The goroutine quits when the module is stopped, or at the lowest epoch.
Stopping == ctl.pc = "stopping"

\* Mutant: the lowest epoch is left out.
MigrateCheckAboveZero ==
    /\ migrate.pc = "check"
    /\ migrate' = IF migrate.idx > 1 /\ ~ Stopping
                  THEN [pc |-> "scan", idx |-> migrate.idx - 1] ELSE [migrate EXCEPT !.pc = "off"]
    /\ UNCHANGED <<blockchain, db, memory, ctl, post, missed, rewinds, crashes>>

MigrateCheck ==
    /\ migrate.pc = "check"
    /\ migrate' = IF migrate.idx > 0 /\ ~ Stopping
                  THEN [pc |-> "scan", idx |-> migrate.idx - 1] ELSE [migrate EXCEPT !.pc = "off"]
    /\ UNCHANGED <<blockchain, db, memory, ctl, post, missed, rewinds, crashes>>

MigrateScan ==
    LET votes == scanAllVotesInEpoch(migrate.idx) IN
    /\ migrate.pc = "scan" /\ border = migrate.idx + 1
    /\ voteNums' = voteNums \cup Recorded(votes)
    /\ groupedVotes' = AddVotes(votes)
    /\ migrate' = [migrate EXCEPT !.pc = "border"]
    /\ UNCHANGED <<blockchain, govNums, border, governances, myVotes, ctl, post, missed,
                   rewinds, crashes>>

MigrateBorder ==
    /\ migrate.pc = "border"
    /\ border' = migrate.idx
    /\ migrate' = [migrate EXCEPT !.pc = "check"]
    /\ UNCHANGED <<blockchain, voteNums, govNums, memory, ctl, post, missed, rewinds, crashes>>

-----------------------------------------------------------------------------
(* SetHead and crashes *)

\* A head that leaves no trace of the block above it in the module.
Clean(num) == num = Len(headers) \/ (HeaderVote(num + 1) = None /\ headers[num + 1].gov = Empty)

SetHead(target) ==
    /\ ctl.pc = "up" /\ post.pc = "none" /\ rewinds < MaxRewinds /\ target < Len(headers)
    /\ RewindAnywhere \/ Clean(IF head < target THEN head ELSE target)
    /\ rewinds' = rewinds + 1
    /\ ctl' = [pc |-> "stopping", num |-> target]
    /\ UNCHANGED <<blockchain, db, memory, migrate, post, missed, crashes>>

Stopped ==
    /\ ctl.pc = "stopping" /\ migrate.pc = "off"
    /\ ctl' = [ctl EXCEPT !.pc = "rewind"]
    /\ UNCHANGED <<blockchain, db, memory, migrate, post, missed, rewinds, crashes>>

\* The head goes to the highest block with a state below the highest header, and the
\* target follows it; RewindTo does nothing.
RewindHead ==
    /\ ctl.pc = "rewind" /\ Len(headers) > ctl.num
    /\ \/ /\ Len(headers) - 1 <= head
          /\ \E num \in 0 .. (Len(headers) - 1) :
                /\ num > ctl.num \/ RewindAnywhere \/ Clean(num)
                /\ head' = num
       \/ /\ Len(headers) - 1 > head
          /\ UNCHANGED head
    /\ ctl' = [pc |-> "delete", num |-> IF head' < ctl.num THEN head' ELSE ctl.num]
    /\ UNCHANGED <<headers, db, memory, migrate, post, missed, rewinds, crashes>>

\* RemoveVotesAfter and RemoveGovAfter: what is recorded above num is deleted, and
\* the numbers that remain in memory are written if there was any.
RemoveAfter(num) ==
    /\ groupedVotes' = [n \in Numbers |-> IF n > num THEN None ELSE groupedVotes[n]]
    /\ voteNums' = IF \E n \in Recorded(groupedVotes) : n > num
                   THEN {n \in Recorded(groupedVotes) : n <= num} ELSE voteNums
    /\ governances' = [n \in Numbers |-> IF n > num THEN None ELSE governances[n]]
    /\ govNums' = IF \E n \in Govs : n > num THEN {0} \cup {n \in Govs : n <= num} ELSE govNums

\* RewindDelete of the highest block, whose header is deleted after it.
DeleteBlock ==
    /\ ctl.pc = "delete"
    /\ RemoveAfter(Len(headers))
    /\ headers' = SubSeq(headers, 1, Len(headers) - 1)
    /\ ctl' = [ctl EXCEPT !.pc = "rewind"]
    /\ missed' = missed \ {Len(headers)}
    /\ UNCHANGED <<head, border, myVotes, migrate, post, rewinds, crashes>>

\* The deferred Start: the memory is not read again.
Rewound ==
    /\ ctl.pc = "rewind" /\ Len(headers) <= ctl.num
    /\ ctl' = [pc |-> "up", num |-> 0]
    /\ migrate' = [pc |-> "check", idx |-> border]
    /\ UNCHANGED <<blockchain, db, memory, post, missed, rewinds, crashes>>

\* The memory is lost, and the head may fall back to an older block with a state.  A
\* block that is still there without its PostInsertBlock never gets it.
Crash ==
    /\ ctl.pc # "down" /\ crashes < MaxCrashes
    /\ RewindAnywhere \/ ctl.pc \notin {"rewind", "delete"}
    /\ crashes' = crashes + 1
    /\ head' \in 0 .. head
    /\ missed' = missed \cup (IF post.pc # "none" /\ post.num <= head' THEN {post.num} ELSE {})
    /\ groupedVotes' = [n \in Numbers |-> None]
    /\ governances' = [n \in Numbers |-> None]
    /\ myVotes' = <<>>
    /\ ctl' = [pc |-> "down", num |-> 0]
    /\ migrate' = [pc |-> "off", idx |-> 0]
    /\ post' = [pc |-> "none", num |-> 0]
    /\ UNCHANGED <<headers, db, rewinds>>

-----------------------------------------------------------------------------
\* A chain of InitHead blocks, and the database an older version left behind.
HonestChain(hdrs) ==
    \A n \in 1 .. Len(hdrs) :
        LET before == SubSeq(hdrs, 1, n - 1)
        IN /\ Honest(before, n, hdrs[n].vote) /\ hdrs[n].gov = RefGov(before, n)
           /\ hdrs[n].vote # None => VotesBounded(before, <<>>)

Init ==
    /\ headers \in {hdrs \in [1 .. InitHead -> [vote : Votes \cup {None}, gov : PartialParamSet]] :
                       HonestChain(hdrs)}
    /\ head = InitHead
    /\ groupedVotes = [n \in Numbers |-> None] /\ governances = [n \in Numbers |-> None]
    /\ myVotes = <<>>
    /\ voteNums = {} /\ govNums = None /\ border = None
    /\ ctl = [pc |-> "down", num |-> 0]
    /\ migrate = [pc |-> "off", idx |-> 0] /\ post = [pc |-> "none", num |-> 0]
    /\ missed = {} /\ rewinds = 0 /\ crashes = 0

Starting == initSchema \/ ScanLatest \/ ScanBorder \/ Load
Migrating == MigrateCheck \/ MigrateScan \/ MigrateBorder
Rewinding == Stopped \/ RewindHead \/ DeleteBlock \/ Rewound

Next ==
    \/ Starting \/ Migrating \/ Rewinding
    \/ \E vote \in Votes \cup {None} : ImportBlock(vote)
    \/ \E vote \in Votes : Vote(vote)
    \/ ImportAgain \/ ProposeBlock \/ PostVote \/ PostGov
    \/ \E num \in Numbers : SetHead(num)
    \/ Crash

\* The node is started again, and its threads go on.
Fairness == WF_vars(Starting) /\ WF_vars(Migrating) /\ WF_vars(Rewinding)

Spec == Init /\ [][Next]_vars
FairSpec == Spec /\ Fairness

-----------------------------------------------------------------------------
(* Properties *)

\* Types; genesis has no vote, and the border is in the database whenever the module
\* is up.
TypeOK ==
    /\ headers \in Seq([vote : Votes \cup {None}, gov : PartialParamSet])
    /\ head \in 0 .. Len(headers) /\ Len(headers) <= MaxBlock
    /\ groupedVotes \in [Numbers -> Votes \cup {None}] /\ groupedVotes[0] = None
    /\ governances \in [Numbers -> PartialParamSet \cup {None}]
    /\ myVotes \in Seq(Votes) /\ voteNums \subseteq Numbers \ {0}
    /\ govNums = None \/ govNums \subseteq Numbers
    /\ border \in Numbers \cup {None} /\ (ctl.pc = "up" => border # None)
    /\ ctl \in [pc : {"down", "scan", "border", "load", "up", "stopping", "rewind", "delete"},
                num : Numbers]
    /\ migrate \in [pc : {"check", "scan", "border", "off"}, idx : Numbers]
    /\ post \in [pc : {"none", "vote", "gov"}, num : Numbers] /\ missed \subseteq Numbers

\* The node is up, has no hook to run and has missed none.
Settled == ctl.pc = "up" /\ post.pc = "none" /\ missed = {}

\* A node accepts every header that the chain allows for the next block: whatever the
\* background scan has reached, and after restarts and rewinds, the votes it goes by
\* and its parameters are those of the headers.  A node that has once lost a
\* PostInsertBlock in a crash is excepted.
AcceptsHonestHeader ==
    Settled /\ head < MaxBlock =>
        LET hdrs == SubSeq(headers, 1, head) IN
        \A vote \in Votes \cup {None} :
            Honest(hdrs, head + 1, vote)
                <=> VerifyHeader(head + 1, [vote |-> vote, gov |-> RefGov(hdrs, head + 1)])

\* The parameter set of every block up to the next is the one the headers determine:
\* a ratification of block k*epoch is in effect from block (k+1)*epoch on, and from
\* the block after it before Kore.  In epochs longer than a block this holds even while
\* the hook of the newest block is still to run.
ParamsFollowHeaders ==
    ctl.pc = "up" /\ missed = {} =>
        \A num \in 0 .. (head + 1) :
            GetParamSet(num) = RefParams(SubSeq(headers, 1, head), num)

\* The background scan reaches the lowest epoch, though crashes and SetHead stop it.
ScanCompletes == <>(border = 0)

\* "Your vote is prepared. It will be put into the block header or applied when your
\* node generates a block as a proposer": the header that PrepareHeader makes with the
\* first waiting vote passes the node's own VerifyVote.
PreparedVoteValid ==
    Settled /\ head = Len(headers) /\ myVotes # <<>> => VerifyVote(head + 1, myVotes[1])

\* "Delete data associated with the block number `num`": no block that SetHead has
\* deleted is still recorded.
RewindDeletesBlock ==
    ctl.pc = "up" => \A n \in voteNums \cup govNums : n <= Len(headers)

-----------------------------------------------------------------------------
(* The inductive invariant *)

Loaded == ctl.pc \in {"up", "stopping", "rewind", "delete"}
Deleting == ctl.pc \in {"rewind", "delete"}

\* Where SetHead ends, as far as it is known by now.
Target == IF head < ctl.num THEN head ELSE ctl.num

\* Which step a thread may be at while the others are where they are.
Control ==
    /\ post.pc # "none" => ctl.pc = "up" /\ post.num = head /\ head > 0
    /\ migrate.pc # "off" => ctl.pc \in {"up", "stopping"}
    /\ migrate.pc = "border" => border = migrate.idx + 1
    /\ ctl.pc = "load" \/ Loaded => border # None
    /\ ctl.pc # "down" => govNums # None
    /\ ctl.pc \in {"stopping", "rewind", "delete"} => ctl.num \in 0 .. Len(headers)
    /\ ctl.pc = "stopping" => ctl.num < Len(headers)
    /\ ctl.pc = "rewind" /\ ctl.num = Len(headers) => head = Len(headers)
    /\ ctl.pc = "delete" => ctl.num <= head /\ head < Len(headers)

\* A number in the database is that of a block with something to record, but for the
\* block that SetHead has deleted last.
Sound(n, found) ==
    /\ n <= Len(headers) => found
    /\ n > Len(headers) => Deleting /\ n = Len(headers) + 1

\* The memory has what the database has, and both agree with the headers; SetHead
\* ends where it leaves nothing of the last block that it deletes.
RecordsSound ==
    /\ \A n \in 1 .. Len(headers) : headers[n].gov # Empty => n % Epoch = 0
    /\ \A n \in voteNums : Sound(n, HeaderVote(n) # None)
    /\ govNums # None => \A n \in govNums \ {0} : Sound(n, headers[n].gov # Empty)
    /\ IF Loaded THEN Recorded(groupedVotes) = voteNums ELSE Recorded(groupedVotes) \subseteq voteNums
    /\ Loaded => Govs = govNums \ {0}
    /\ \A n \in 1 .. Len(headers) :
          /\ groupedVotes[n] # None => groupedVotes[n] = headers[n].vote
          /\ Loaded /\ governances[n] # None => governances[n] = headers[n].gov
    /\ ctl.pc = "stopping" => Clean(Target)
    /\ Deleting => Target + 1 \notin voteNums \cup govNums

\* The hook of block n, up to its steps pcs, is still to run or was lost.
Unhooked(n, pcs) == n \in missed \/ (post.pc \in pcs /\ post.num = n)

VoteRecorded(n) == HeaderVote(n) # None => n \in voteNums \/ Unhooked(n, {"vote"})

\* The epoch of block n is at or above the border, or will be after the next step of
\* the thread that scans it.
Scanned(n) ==
    \/ border # None /\ calcEpochIdx(n) >= border
    \/ ctl.pc = "border" /\ calcEpochIdx(n) = calcEpochIdx(head)
    \/ migrate.pc = "border" /\ calcEpochIdx(n) = migrate.idx

\* Nothing of the headers is missing: neither a ratification, nor a vote of an epoch
\* that has been scanned.
RecordsComplete ==
    /\ \A n \in 1 .. head :
          /\ govNums # None /\ headers[n].gov # Empty => n \in govNums \/ Unhooked(n, {"vote", "gov"})
          /\ Scanned(n) => VoteRecorded(n)
    /\ post.pc = "gov" /\ HeaderVote(head) # None => head \in voteNums

GovInv == TypeOK /\ Control /\ RecordsSound /\ RecordsComplete
=============================================================================
