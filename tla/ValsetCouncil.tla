--------------------------- MODULE ValsetCouncil ---------------------------
(***************************************************************************)
(* The council of the valset module on one node: the votes in the headers, *)
(* the schema that records their outcome (validatorVoteBlockNums, council, *)
(* lowestScannedValidatorVoteNum), the background migration from the old   *)
(* Istanbul snapshots, the council cache, and what insertion, rewind and a *)
(* restart do to them.                                                     *)
(*                                                                         *)
(* An AddressSet is an object that the code changes in place and that      *)
(* several entries of the cache may share: cache maps a block number to a  *)
(* reference, heap a reference to the set.                                 *)
(***************************************************************************)
EXTENDS Integers, FiniteSets, FiniteSetsExt

CONSTANTS
    Validators,
    Genesis,          \* the council in the extraData of the genesis header
    GoverningNode,    \* the parameter; votes on it are ignored
    None,
    Interval,         \* istanbulCheckpointInterval
    Epoch,            \* Istanbul.Epoch
    UpgradeAt,        \* where a node may stand when it first runs this version
    MaxBlock,         \* bound: the last block of the chain
    MaxVotes,         \* bound: headers with a validator vote
    QueryDepth,       \* bound: readers ask for councils this far behind the next block
    MaxRewinds,       \* bound: calls of debug_setHead
    MaxCrashes,       \* bound: crashes
    MaxLoss,          \* bound: blocks that a crash takes back
    HeadStateOnDisk,  \* a crash may keep the state of a block being inserted
    ReadsInWindow     \* readers may ask while a block is being inserted

ASSUME GenesisAssumption == Genesis \subseteq Validators /\ Genesis # {}
ASSUME NoneAssumption == None \notin Nat /\ \A c \in SUBSET Validators : c # None
ASSUME NumbersAssumption ==
    /\ Interval \in Nat \ {0} /\ Epoch \in Nat \ {0}
    /\ {MaxBlock, MaxVotes, QueryDepth, MaxRewinds, MaxCrashes, MaxLoss} \subseteq Nat
    /\ HeadStateOnDisk \in BOOLEAN /\ ReadsInWindow \in BOOLEAN
    /\ UpgradeAt \subseteq 0 .. MaxBlock

VARIABLES
    votes,      \* votes[n]: the validator vote in header n
    head,       \* the number of the current block
    headers,    \* the number of the last header in the database
    inserting,  \* the head is written and PostInsertBlock has not run yet
    snapshots,  \* checkpoint blocks whose Istanbul snapshot is stored
    nums,       \* validatorVoteBlockNums, empty before the first start
    councils,   \* councils[n]: the stored council of block n, or None
    lowest,     \* lowestScannedValidatorVoteNum, or None
    cache,      \* councilCache
    heap,       \* the AddressSet objects in the cache
    target,     \* targetNum of migrate; None when it does not run
    up,         \* the module is started
    answer,     \* the last answer of GetCouncil
    rewinds,    \* the blocks that debug_setHead went back to
    crashes

chain == <<votes, head, headers, inserting>>
db   == <<snapshots, nums, councils, lowest>>
mem  == <<cache, heap>>
vars == <<chain, db, mem, target, up, answer, rewinds, crashes>>

Blocks  == 1 .. MaxBlock
Numbers == 0 .. MaxBlock + 1

-----------------------------------------------------------------------------
(* Votes *)

NoVote == [key |-> "none", addresses |-> {}]
Votes  == {NoVote} \cup [key : {"addvalidator", "removevalidator"},
                         addresses : {{v} : v \in Validators}]

\* applyVote.  The set changes exactly when its size does.
applyVote(vote, council) ==
    LET addresses == vote.addresses \ {GoverningNode}
    IN  CASE vote.key = "addvalidator"    -> council \cup addresses
          [] vote.key = "removevalidator" -> council \ addresses
          [] OTHER                        -> council

\* The councils after each block of from .. to, when the one before is base.
Scan(base, from, to) ==
    LET c[n \in from - 1 .. to] ==
            IF n = from - 1 THEN base ELSE applyVote(votes[n], c[n - 1])
    IN  c

\* Council(N) as the module's README defines it.
CouncilOf(n) == IF n = 0 THEN Genesis ELSE Scan(Genesis, 1, n - 1)[n - 1]

-----------------------------------------------------------------------------
(* Reading the schema and the snapshots *)

roundDown(n, p) == n - (n % p)

\* Mutant: a vote counts in its own block.
lastNumAtMost(num) == Max({n \in nums : n <= num} \cup {0})

lastNumLessThan(num) == Max({n \in nums : n < num} \cup {0})

\* The snapshot at a checkpoint holds the council after the vote in it.
IstanbulSnapshot(n) ==
    IF n \in snapshots /\ CouncilOf(n + 1) # {} THEN CouncilOf(n + 1) ELSE None

\* Mutant: only the snapshot at s itself.
getIstanbulSnapshotAt(s) == IF s = 0 THEN Genesis ELSE IstanbulSnapshot(s)

\* The council at checkpoint s, from the snapshot there, or from the one where
\* the scan stopped if no vote was found in between.
getValidIstanbulSnapshotBefore(s) ==
    LET n == IF lowest # None /\ lowest < s /\ lastNumLessThan(s) < lowest
               THEN roundDown(lowest, Interval) ELSE s
    IN  IF s = 0 THEN Genesis
        ELSE IF n <= headers THEN IstanbulSnapshot(n) ELSE None

snapshotNum(t) == roundDown(t - 1, Interval)

FreeRef == Min({r \in Numbers : \A n \in Numbers : cache[n] # r})

\* getCouncilFromIstanbulSnapshot for t > 0: what it returns and what it leaves
\* in the database, the cache and the shared objects.  A missing header
\* ends it with an error, after the votes before it were applied and written.
Regenerate(t, write) ==
    LET hit   == cache[t - 1] # None
        from  == IF hit THEN t - 1 ELSE snapshotNum(t) + 1
        base  == IF hit THEN heap[cache[t - 1]]
                        ELSE getValidIstanbulSnapshotBefore(snapshotNum(t))
        last  == IF write THEN t ELSE t - 1
        top   == Max({from - 1, Min({last, headers})})
        c     == Scan(base, from, top)
        wrote == IF write THEN {n \in from .. top : c[n] # c[n - 1]} ELSE {}
        ref   == IF hit THEN cache[t - 1] ELSE FreeRef
        ok    == last <= headers
    IN  IF base = None
        THEN [ok |-> FALSE, council |-> {}, nums |-> nums, councils |-> councils,
              cache |-> cache, heap |-> heap]
        ELSE [ok       |-> ok,
              council  |-> IF ok THEN c[t - 1] ELSE {},
              nums     |-> nums \cup wrote,
              councils |-> [n \in Numbers |-> IF n \in wrote THEN c[n] ELSE councils[n]],
              cache    |-> IF ok THEN [cache EXCEPT ![t] = ref] ELSE cache,
              heap     |-> IF hit \/ ok
                             THEN [heap EXCEPT ![ref] = c[Min({t - 1, top})]] ELSE heap]

\* Mutant: the database answers before the migration.
InDBUnmigrated(num) == num > 0

\* getCouncilDB has the answer.
InDB(num) == num > 0 /\ lastNumLessThan(num) >= lowest

\* getCouncilDB: a missing council reads as an empty one.
CouncilDB(num) == LET c == councils[lastNumLessThan(num)] IN IF c = None THEN {} ELSE c

-----------------------------------------------------------------------------
(* Starting and migrating *)

\* initSchema, first part: the entries of block 0.
initSchema ==
    /\ ~ up /\ councils[0] = None
    /\ nums' = {0} /\ councils' = [councils EXCEPT ![0] = Genesis]
    /\ UNCHANGED <<chain, snapshots, lowest, mem, target, up, answer, rewinds, crashes>>

\* initSchema, second part: without a lowest scanned number, scan the last
\* interval and leave the others to migrate.
scanLastInterval ==
    /\ ~ up /\ councils[0] # None /\ lowest = None
    /\ IF head = 0
       THEN lowest' = 0 /\ UNCHANGED <<nums, councils, mem>>
       ELSE LET R == Regenerate(head, TRUE)
            IN  /\ R.ok
                /\ nums' = R.nums /\ councils' = R.councils
                /\ cache' = R.cache /\ heap' = R.heap
                /\ lowest' = snapshotNum(head) + 1
    /\ UNCHANGED <<chain, snapshots, target, up, answer, rewinds, crashes>>

Start ==
    /\ ~ up /\ lowest # None
    /\ up' = TRUE /\ target' = lowest
    /\ UNCHANGED <<chain, db, mem, answer, rewinds, crashes>>

\* One turn of the loop of migrate, which an error ends.
migrate ==
    /\ up /\ target \notin {None, 0}
    /\ LET R == Regenerate(target, TRUE)
       IN  /\ nums' = R.nums /\ councils' = R.councils
           /\ cache' = R.cache /\ heap' = R.heap
           /\ IF R.ok THEN /\ lowest' = snapshotNum(target) + 1
                           /\ target' = snapshotNum(target)
                      ELSE target' = None /\ UNCHANGED lowest
    /\ UNCHANGED <<chain, snapshots, up, answer, rewinds, crashes>>

\* Mutant: the end is not recorded.
migrationUnrecorded ==
    /\ up /\ target = 0
    /\ target' = None
    /\ UNCHANGED <<chain, db, mem, up, answer, rewinds, crashes>>

\* The end of migrate.
migrationComplete ==
    /\ up /\ target = 0
    /\ lowest' = 0 /\ target' = None
    /\ UNCHANGED <<chain, snapshots, nums, councils, mem, up, answer, rewinds, crashes>>

-----------------------------------------------------------------------------
(* Reading and inserting *)

\* debug_setHead went back to a block whose vote changed the council.
RewoundToVote == \E h \in rewinds : CouncilOf(h + 1) # CouncilOf(h)

\* An error leaves no council in the answer.  It is settled unless a block is being
\* inserted, or the chain stands on a vote that a rewind made the schema forget.
GetCouncil(num) ==
    /\ up /\ num \in 1 .. head + 1 /\ num + QueryDepth > head
    /\ inserting => ReadsInWindow
    /\ LET R == Regenerate(num, FALSE)
           c == CASE InDB(num) -> CouncilDB(num)
                  [] ~ InDB(num) /\ R.ok -> R.council
                  [] OTHER -> None
       IN  /\ answer' = [num |-> num, council |-> c, settled |-> ~ inserting /\ ~ RewoundToVote,
                        correct |-> c = CouncilOf(num)]
           /\ IF InDB(num) THEN UNCHANGED mem ELSE cache' = R.cache /\ heap' = R.heap
    /\ UNCHANGED <<chain, db, target, up, rewinds, crashes>>

VotesIn(f) == Cardinality({n \in Blocks : f[n] # NoVote})

\* The chain writes a block with this vote and makes it the head.  A block that
\* the chain had before a crash is final and comes back the same.
WriteBlock(vote) ==
    /\ up /\ ~ inserting /\ head < MaxBlock
    /\ head < headers => vote = votes[head + 1]
    /\ votes' = [votes EXCEPT ![head + 1] = vote] /\ VotesIn(votes') <= MaxVotes
    /\ head' = head + 1 /\ headers' = Max({headers, head + 1})
    /\ inserting' = TRUE
    /\ UNCHANGED <<db, mem, target, up, answer, rewinds, crashes>>

\* Mutant: only one of the two entries reaches the database.
insertNumOnly(num, council) ==
    nums' = nums \cup {num} /\ councils' = councils

\* insertValidatorVoteBlockNums and writeCouncil.
writeVote(num, council) ==
    nums' = nums \cup {num} /\ councils' = [councils EXCEPT ![num] = council]

\* Then the modules see it.  The council is changed in place.
PostInsertBlock ==
    /\ up /\ inserting
    /\ inserting' = FALSE
    /\ LET R == Regenerate(head, FALSE)
           c == IF InDB(head) THEN CouncilDB(head) ELSE R.council
           d == applyVote(votes[head], c)
           failed == ~ InDB(head) /\ ~ R.ok
       IN  /\ IF ~ failed /\ c # d THEN writeVote(head, d) ELSE UNCHANGED <<nums, councils>>
           /\ IF InDB(head) \/ failed
              THEN UNCHANGED mem
              ELSE cache' = R.cache /\ heap' = [R.heap EXCEPT ![R.cache[head]] = d]
    /\ UNCHANGED <<votes, head, headers, snapshots, lowest, target, up, answer, rewinds, crashes>>

-----------------------------------------------------------------------------
(* Rewinding and crashing *)

trimValidatorVoteBlockNums(since) == {n \in nums : n < since}

\* debug_setHead: the module stops, forgets the votes from the new head on and
\* the councils above it, and starts again.  The chain deletes the snapshots
\* down to the beginning of the epoch.
SetHead(h) ==
    /\ up /\ ~ inserting /\ h < head /\ Cardinality(rewinds \cup {h}) <= MaxRewinds
    /\ head' = h /\ headers' = h
    /\ votes' = [n \in Blocks |-> IF n > h THEN NoVote ELSE votes[n]]
    /\ nums' = trimValidatorVoteBlockNums(h)
    /\ councils' = [n \in Numbers |-> IF n > h THEN None ELSE councils[n]]
    /\ snapshots' = {n \in snapshots : n < Max({1, roundDown(h, Epoch)})}
    /\ target' = lowest
    /\ rewinds' = rewinds \cup {h}
    /\ UNCHANGED <<inserting, lowest, mem, up, answer, crashes>>

\* The process dies and comes back at the last block h whose state is on disk.
Crash(h) ==
    /\ up /\ crashes < MaxCrashes /\ head - h <= MaxLoss
    /\ inserting => (h < head \/ HeadStateOnDisk)
    /\ head' = h /\ inserting' = FALSE
    /\ cache' = [n \in Numbers |-> None] /\ heap' = [n \in Numbers |-> {}]
    /\ target' = None /\ up' = FALSE
    /\ crashes' = crashes + 1
    /\ UNCHANGED <<votes, headers, db, answer, rewinds>>

-----------------------------------------------------------------------------
\* A node of the old version stopped at some block and starts with this one.
Init ==
    /\ head \in UpgradeAt /\ headers = head /\ inserting = FALSE
    /\ votes \in {f \in [Blocks -> Votes] :
                    VotesIn(f) <= MaxVotes /\ \A n \in Blocks : n > head => f[n] = NoVote}
    /\ snapshots = {n \in 0 .. head : n % Interval = 0}
    /\ nums = {} /\ councils = [n \in Numbers |-> None] /\ lowest = None
    /\ cache = [n \in Numbers |-> None] /\ heap = [n \in Numbers |-> {}]
    /\ target = None /\ up = FALSE
    /\ answer = [num |-> 0, council |-> Genesis, settled |-> TRUE, correct |-> TRUE]
    /\ rewinds = {} /\ crashes = 0

Next ==
    \/ initSchema \/ scanLastInterval \/ Start \/ migrate \/ migrationComplete
    \/ \E num \in Numbers : GetCouncil(num)
    \/ (\E vote \in Votes : WriteBlock(vote)) \/ PostInsertBlock
    \/ \E h \in 0 .. head : SetHead(h) \/ Crash(h)

Fairness == /\ WF_vars(initSchema) /\ WF_vars(scanLastInterval) /\ WF_vars(Start)
            /\ WF_vars(migrate) /\ WF_vars(migrationComplete)

Spec == Init /\ [][Next]_vars

FairSpec == Spec /\ Fairness

-----------------------------------------------------------------------------
(* Properties *)

\* Every vote that changed the council, in the range that
\* lowestScannedValidatorVoteNum declares scanned, is in validatorVoteBlockNums.
NoVoteMissed ==
    (lowest # None /\ ~ inserting) =>
        \A n \in Blocks : (n \in lowest .. head /\ CouncilOf(n + 1) # CouncilOf(n)) =>
            n \in nums

\* As long as no rewind ends at such a vote, neither the migration, nor an insertion,
\* a rewind or a restart loses one, and the council stored at each recorded vote is
\* the council of the next block.
StoredVotesCorrect ==
    RewoundToVote \/ /\ NoVoteMissed
                     /\ \A n \in nums : councils[n] = CouncilOf(n + 1)

\* A council that GetCouncil returns while no block is being inserted is the one
\* the votes define, whichever of database, snapshot and cache it comes from.
AnswersCorrect ==
    (answer.settled /\ answer.council # None) => answer.correct

\* GetCouncil never fails: where the database has no answer yet, a snapshot has.
AlwaysAnswered == answer.council # None

\* The migration ends.
MigrationEnds == <>(lowest = 0)
=============================================================================
