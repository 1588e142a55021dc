------------------------------- MODULE Supply -------------------------------
(***************************************************************************)
(* The total supply module of a node: the checkpoints of accumulated       *)
(* rewards in the database, the goroutine that catches up with the chain,  *)
(* the hook that follows every new block, queries with their cache, and    *)
(* SetHead, which rewinds the chain around all of them.                    *)
(*                                                                         *)
(* An accumulated reward is modelled by the sequence of the block rewards  *)
(* that were added up, so that two sums are equal only if they are sums of *)
(* the same blocks.  The reward of a block is the block itself, or Short   *)
(* in a sum stored by a version that did not count blob fees as burnt.     *)
(***************************************************************************)
EXTENDS Integers, Sequences, FiniteSets

CONSTANTS
    Interval,          \* checkpointInterval
    Osaka,             \* the first block whose reward was once counted short
    InitHead,          \* the head of the chain before the first start
    MaxBlock,          \* bound: the highest block
    Queried,           \* bound: the blocks whose total supply is asked for
    MaxRewinds,        \* bound: calls of SetHead
    MaxFaults,         \* bound: crashes, and failures to read a reward
    RewindDuringPost,  \* may SetHead start inside the worker's PostInsertBlock?
    Short, None

ASSUME BoundsAssumption ==
    /\ Interval \in Nat \ {0} /\ {Osaka, InitHead, MaxBlock} \subseteq Nat \ {0}
    /\ InitHead <= MaxBlock /\ MaxRewinds \in Nat /\ MaxFaults \in Nat
    /\ RewindDuringPost \in BOOLEAN /\ Queried \subseteq 0 .. MaxBlock

VARIABLES
    chain,        \* the canonical headers above genesis; a block is the number of
                  \* rewinds before it, so a rewound block never comes back
    head,         \* the number of CurrentBlock
    last,         \* lastAccRewardNumber in the database
    stored,       \* stored[n]: the checkpoint n in the database, or None
    fixupDone,    \* supplyBlobFeeFixupDone in the database
    mem,          \* lastAccNum and lastAccReward
    quit,         \* the flag that ends accumulateRewards, with quitCh
    ctl,          \* the thread that starts the module and rewinds the chain
    catchup,      \* the catchup goroutine
    post,         \* the newest block, before or in its PostInsertBlock
    query,        \* one call of GetTotalSupply
    supplyCache,  \* supplyCache[n]: the cached answer, or None
    torn,         \* checkpoints that a crash kept RewindDelete from deleting
    rewinds, faults

db == <<last, stored, fixupDone>>
blockchain == <<chain, head, rewinds, faults>>
vars == <<blockchain, db, mem, quit, ctl, catchup, post, query, supplyCache, torn>>

Numbers == 0 .. MaxBlock
Rewards == (0 .. MaxRewinds) \cup {Short}

\* The sums of n blocks.
SumsOf(n) == [1 .. n -> Rewards]
Sums == UNION {SumsOf(n) : n \in Numbers}

\* What the rewards of the canonical blocks up to n add up to.
Sum(n) == SubSeq(chain, 1, n)

IsCheckpoint(n) == n % Interval = 0
nearestCheckpointNumber(n) == n - (n % Interval)

\* The first checkpoint at or above Osaka.
firstBadCheckpoint == nearestCheckpointNumber(Osaka + Interval - 1)

Idle == [pc |-> "idle", num |-> 0, at |-> 0, acc |-> <<>>, clean |-> TRUE]
NoPost == [pc |-> "none", num |-> 0, locked |-> FALSE, acc |-> <<>>]
Down == [pc |-> "down", num |-> 0, moved |-> FALSE]
Off == [pc |-> "off", to |-> 0, num |-> 0, acc |-> <<>>]

\* s.mu is held by PostInsertBlock.
Locked == post.pc \in {"begun", "stored"}

\* WriteAccReward, with the checkpoint no longer torn.
WriteAccReward(num, acc) ==
    /\ stored' = [stored EXCEPT ![num] = acc]
    /\ torn' = torn \ {num}

-----------------------------------------------------------------------------
(* Start *)

Boot ==
    /\ ctl.pc = "down"
    /\ ctl' = [pc |-> "fixup", num |-> firstBadCheckpoint, moved |-> FALSE]
    /\ UNCHANGED <<blockchain, db, mem, quit, catchup, post, query, supplyCache, torn>>

\* applyBlobFeeFixupIfNeeded deletes the checkpoints from the first bad one to the
\* last, resets the last number and sets the flag, one write at a time.
FixupNeeded == ~ fixupDone /\ last >= firstBadCheckpoint

FixupDelete ==
    /\ ctl.pc = "fixup" /\ FixupNeeded /\ ctl.num <= last
    /\ WriteAccReward(ctl.num, None)
    /\ ctl' = [ctl EXCEPT !.num = @ + Interval]
    /\ UNCHANGED <<blockchain, last, fixupDone, mem, quit, catchup, post, query,
                   supplyCache>>

FixupReset ==
    /\ ctl.pc = "fixup" /\ FixupNeeded /\ ctl.num > last
    /\ last' = firstBadCheckpoint - Interval
    /\ ctl' = [ctl EXCEPT !.pc = "fixed"]
    /\ UNCHANGED <<blockchain, stored, fixupDone, mem, quit, catchup, post, query,
                   supplyCache, torn>>

FixupFlag ==
    /\ ctl.pc = "fixed"
    /\ fixupDone' = TRUE
    /\ ctl' = [ctl EXCEPT !.pc = "load"]
    /\ UNCHANGED <<blockchain, last, stored, mem, quit, catchup, post, query,
                   supplyCache, torn>>

FixupSkip ==
    /\ ctl.pc = "fixup" /\ ~ FixupNeeded
    /\ ctl' = [ctl EXCEPT !.pc = "load"]
    /\ UNCHANGED <<blockchain, db, mem, quit, catchup, post, query, supplyCache, torn>>

\* loadLastAccReward: without the checkpoint it names, the last number is reset to
\* genesis, whose supply is written.
Loaded == IF last > 0 /\ stored[last] # None THEN last ELSE 0

loadLastAccReward ==
    /\ last' = Loaded
    /\ stored' = [stored EXCEPT ![Loaded] = IF Loaded = 0 THEN <<>> ELSE @]
    /\ mem' = [num |-> Loaded, acc |-> stored'[Loaded]]

\* Mutant: the caches are not purged.
StartKeepsCache ==
    /\ ctl.pc = "load"
    /\ loadLastAccReward
    /\ quit' = FALSE
    /\ catchup' = [Off EXCEPT !.pc = "check"]
    /\ ctl' = [pc |-> "up", num |-> 0, moved |-> FALSE]
    /\ query' = [query EXCEPT !.clean = query.pc = "idle"]
    /\ UNCHANGED <<blockchain, fixupDone, post, supplyCache, torn>>

\* The rest of Start.  A query that is under way is marked: it may have read the
\* chain of before, and its answer goes to the cache that has been purged.
Start ==
    /\ ctl.pc = "load"
    /\ loadLastAccReward
    /\ supplyCache' = [n \in Queried |-> None]
    /\ quit' = FALSE
    /\ catchup' = [Off EXCEPT !.pc = "check"]
    /\ ctl' = [pc |-> "up", num |-> 0, moved |-> FALSE]
    /\ query' = [query EXCEPT !.clean = query.pc = "idle"]
    /\ UNCHANGED <<blockchain, fixupDone, post, torn>>

-----------------------------------------------------------------------------
(* accumulateRewards in the background: catchup *)

CatchupCheck ==
    /\ catchup.pc = "check" /\ ~ Locked
    /\ catchup' = [pc |-> IF mem.num < head THEN "work" ELSE "sleep", to |-> head,
                   num |-> mem.num, acc |-> mem.acc]
    /\ UNCHANGED <<blockchain, db, mem, quit, ctl, post, query, supplyCache, torn>>

\* Mutant: every sum is stored, not only those of checkpoints.
CatchupAddStores ==
    /\ catchup.pc = "work" /\ catchup.num < catchup.to /\ ~ quit
    /\ LET num == catchup.num + 1
           acc == Append(catchup.acc, chain[num]) IN
       /\ catchup' = [catchup EXCEPT !.num = num, !.acc = acc, !.pc = "stored"]
       /\ WriteAccReward(num, acc)
    /\ UNCHANGED <<blockchain, last, fixupDone, mem, quit, ctl, post, query, supplyCache>>

CatchupAdd ==
    /\ catchup.pc = "work" /\ catchup.num < catchup.to /\ ~ quit
    /\ LET num == catchup.num + 1
           acc == Append(catchup.acc, chain[num]) IN
       /\ catchup' = [catchup EXCEPT !.num = num, !.acc = acc,
                                     !.pc = IF IsCheckpoint(num) THEN "stored" ELSE @]
       /\ IF IsCheckpoint(num) THEN WriteAccReward(num, acc) ELSE UNCHANGED <<stored, torn>>
    /\ UNCHANGED <<blockchain, last, fixupDone, mem, quit, ctl, post, query, supplyCache>>

CatchupLast ==
    /\ catchup.pc = "stored"
    /\ last' = catchup.num
    /\ catchup' = [catchup EXCEPT !.pc = "work"]
    /\ UNCHANGED <<blockchain, stored, fixupDone, mem, quit, ctl, post, query,
                   supplyCache, torn>>

\* Mutant: the goroutine ends when it has reached the head it saw.
CatchupSetEnds ==
    /\ catchup.pc = "work" /\ catchup.num = catchup.to /\ ~ Locked
    /\ mem' = [num |-> catchup.to, acc |-> catchup.acc]
    /\ catchup' = Off
    /\ UNCHANGED <<blockchain, db, quit, ctl, post, query, supplyCache, torn>>

\* The sum becomes the last one, whatever PostInsertBlock made of it meanwhile.
CatchupSet ==
    /\ catchup.pc = "work" /\ catchup.num = catchup.to /\ ~ Locked
    /\ mem' = [num |-> catchup.to, acc |-> catchup.acc]
    /\ catchup' = [Off EXCEPT !.pc = "check"]
    /\ UNCHANGED <<blockchain, db, quit, ctl, post, query, supplyCache, torn>>

CatchupTimer ==
    /\ catchup.pc = "sleep"
    /\ catchup' = [Off EXCEPT !.pc = "check"]
    /\ UNCHANGED <<blockchain, db, mem, quit, ctl, post, query, supplyCache, torn>>

CatchupQuit ==
    /\ quit
    /\ catchup.pc = "sleep" \/ (catchup.pc = "work" /\ catchup.num < catchup.to)
    /\ catchup' = Off
    /\ UNCHANGED <<blockchain, db, mem, quit, ctl, post, query, supplyCache, torn>>

\* GetRewardSummary returns an error: the goroutine ends for good.
CatchupFails ==
    /\ catchup.pc = "work" /\ catchup.num < catchup.to /\ ~ quit
    /\ faults < MaxFaults
    /\ faults' = faults + 1
    /\ catchup' = [Off EXCEPT !.pc = "failed"]
    /\ UNCHANGED <<chain, head, rewinds, db, mem, quit, ctl, post, query, supplyCache, torn>>

-----------------------------------------------------------------------------
(* Blocks *)

\* A block is written under the chain's mutex, which insertChain holds until its
\* PostInsertBlock is over and the worker does not.  A node whose head fell back in a
\* crash imports the same blocks again.
InsertBlock(locked) ==
    /\ ctl.pc = "up" /\ post.pc = "none" /\ head < MaxBlock
    /\ chain' = IF head < Len(chain) THEN chain ELSE Append(chain, rewinds)
    /\ head' = head + 1
    /\ post' = [pc |-> "written", num |-> head', locked |-> locked, acc |-> <<>>]
    /\ UNCHANGED <<rewinds, faults, db, mem, quit, ctl, catchup, query, supplyCache, torn>>

\* Mutant: a gap between the last sum and the block is not noticed.
FollowsGap(num) == mem.num < num

\* The block is right after the last sum.
Follows(num) == mem.num + 1 = num

\* PostInsertBlock up to the sum of the new block.
PostBegin ==
    /\ post.pc = "written"
    /\ post' = IF Follows(post.num) /\ ~ quit /\ post.num <= Len(chain)
               THEN [post EXCEPT !.pc = "begun", !.acc = Append(mem.acc, chain[post.num])]
               ELSE NoPost
    /\ UNCHANGED <<blockchain, db, mem, quit, ctl, catchup, query, supplyCache, torn>>

PostStore ==
    /\ post.pc = "begun" /\ IsCheckpoint(post.num)
    /\ WriteAccReward(post.num, post.acc)
    /\ post' = [post EXCEPT !.pc = "stored"]
    /\ UNCHANGED <<blockchain, last, fixupDone, mem, quit, ctl, catchup, query, supplyCache>>

PostEnd ==
    /\ post.pc = "stored" \/ (post.pc = "begun" /\ ~ IsCheckpoint(post.num))
    /\ last' = IF post.pc = "stored" THEN post.num ELSE last
    /\ mem' = [num |-> post.num, acc |-> post.acc]
    /\ post' = NoPost
    /\ UNCHANGED <<blockchain, stored, fixupDone, quit, ctl, catchup, query, supplyCache, torn>>

-----------------------------------------------------------------------------
(* GetTotalSupply *)

\* The checkpoint of the block, or else the nearest one below it; without it the
\* query ends in an error.  An answer from the cache changes nothing.
QueryLookup(num) ==
    LET from == nearestCheckpointNumber(num) IN
    /\ query.pc = "idle" /\ ctl.pc # "down" /\ num <= head
    /\ supplyCache[num] = None /\ stored[from] # None
    /\ query' = [pc |-> "sum", num |-> num, at |-> from, acc |-> stored[from],
                 clean |-> from \notin torn]
    /\ UNCHANGED <<blockchain, db, mem, quit, ctl, catchup, post, supplyCache, torn>>

QueryAdd ==
    /\ query.pc = "sum" /\ query.at < query.num
    /\ query' = IF ~ quit /\ query.at < Len(chain)
                THEN [query EXCEPT !.at = @ + 1, !.acc = Append(@, chain[query.at + 1])]
                ELSE Idle
    /\ UNCHANGED <<blockchain, db, mem, quit, ctl, catchup, post, supplyCache, torn>>

\* The burns are read from the state of the block, which must still be there for
\* the answer to be cached.
QueryDone ==
    /\ query.pc = "sum" /\ query.at = query.num
    /\ supplyCache' = IF query.num <= Len(chain)
                      THEN [supplyCache EXCEPT ![query.num] = [acc |-> query.acc,
                                                               clean |-> query.clean]]
                      ELSE supplyCache
    /\ query' = Idle
    /\ UNCHANGED <<blockchain, db, mem, quit, ctl, catchup, post, torn>>

-----------------------------------------------------------------------------
(* SetHead and crashes *)

\* setHeadBeyondRoot stops the module: the flag and the channel are set, and the
\* goroutine is waited for.
SetHead(target) ==
    /\ ctl.pc = "up" /\ rewinds < MaxRewinds /\ target < Len(chain)
    /\ ~ (post.pc # "none" /\ post.locked)
    /\ RewindDuringPost \/ ~ Locked
    /\ rewinds' = rewinds + 1
    /\ quit' = TRUE
    /\ ctl' = [ctl EXCEPT !.pc = "stopping", !.num = target]
    /\ UNCHANGED <<chain, head, faults, db, mem, catchup, post, query, supplyCache, torn>>

Stopped ==
    /\ ctl.pc = "stopping" /\ catchup.pc \in {"off", "failed"}
    /\ ctl' = [ctl EXCEPT !.pc = "rewind"]
    /\ UNCHANGED <<blockchain, db, mem, quit, catchup, post, query, supplyCache, torn>>

\* The nearest checkpoint becomes the last one, whether or not catchup has reached it.
RewindTo(num) == last' = nearestCheckpointNumber(num)

\* The head goes to the highest block with a state at or below the parent of the
\* highest header; below it already, it stays.  The target follows it down.
RewindHead ==
    /\ ctl.pc = "rewind" /\ Len(chain) > ctl.num
    /\ \/ /\ Len(chain) - 1 <= head
          /\ \E num \in 0 .. (Len(chain) - 1) :
                /\ head' = num
                /\ RewindTo(num)
       \/ /\ Len(chain) - 1 > head
          /\ UNCHANGED <<head, last>>
    /\ ctl' = [pc |-> "delete", num |-> IF head' < ctl.num THEN head' ELSE ctl.num,
               moved |-> ctl.moved \/ Len(chain) - 1 <= head]
    /\ UNCHANGED <<chain, rewinds, faults, stored, fixupDone, mem, quit, catchup, post,
                   query, supplyCache, torn>>

\* Mutant: the checkpoint of the deleted block is kept.
RewindDeleteKeeps(num) == UNCHANGED <<stored, torn>>

RewindDelete(num) ==
    IF IsCheckpoint(num) THEN WriteAccReward(num, None) ELSE UNCHANGED <<stored, torn>>

DeleteBlock ==
    /\ ctl.pc = "delete"
    /\ RewindDelete(Len(chain))
    /\ chain' = SubSeq(chain, 1, Len(chain) - 1)
    /\ ctl' = [ctl EXCEPT !.pc = "rewind"]
    /\ UNCHANGED <<head, rewinds, faults, last, fixupDone, mem, quit, catchup, post,
                   query, supplyCache>>

\* The deferred Start of the module.
Rewound ==
    /\ ctl.pc = "rewind" /\ Len(chain) <= ctl.num
    /\ ctl' = [pc |-> "fixup", num |-> firstBadCheckpoint, moved |-> FALSE]
    /\ UNCHANGED <<blockchain, db, mem, quit, catchup, post, query, supplyCache, torn>>

\* The memory is lost.  Once SetHead has moved the head, the headers above it are
\* abandoned with their checkpoints; else the head may fall back to an older block
\* with a state, without a call of RewindTo.
Crash ==
    /\ ctl.pc # "down" /\ faults < MaxFaults
    /\ faults' = faults + 1
    /\ IF ctl.pc \in {"rewind", "delete"} /\ ctl.moved
       THEN /\ chain' = SubSeq(chain, 1, head)
            /\ torn' = torn \cup {n \in Numbers : n > head /\ stored[n] # None}
            /\ UNCHANGED head
       ELSE /\ head' \in 0 .. head
            /\ UNCHANGED <<chain, torn>>
    /\ mem' = [num |-> 0, acc |-> <<>>]
    /\ quit' = FALSE
    /\ ctl' = Down
    /\ catchup' = Off /\ post' = NoPost /\ query' = Idle
    /\ supplyCache' = [n \in Queried |-> None]
    /\ UNCHANGED <<rewinds, db>>

-----------------------------------------------------------------------------
\* The database an older version left behind, with sums that are short from Osaka.
ShortSum(n) == [i \in 1 .. n |-> IF i >= Osaka THEN Short ELSE 0]

Init ==
    /\ chain = [i \in 1 .. InitHead |-> 0] /\ head = InitHead
    /\ \E acc \in 0 .. InitHead :
          /\ last = nearestCheckpointNumber(acc)
          /\ stored = [n \in Numbers |-> IF IsCheckpoint(n) /\ n <= acc THEN ShortSum(n)
                                         ELSE None]
    /\ fixupDone = FALSE
    /\ mem = [num |-> 0, acc |-> <<>>] /\ quit = FALSE
    /\ ctl = Down
    /\ catchup = Off /\ post = NoPost /\ query = Idle
    /\ supplyCache = [n \in Queried |-> None]
    /\ torn = {} /\ rewinds = 0 /\ faults = 0

Starting == Boot \/ FixupDelete \/ FixupReset \/ FixupFlag \/ FixupSkip \/ Start
Rewinding == Stopped \/ RewindHead \/ DeleteBlock \/ Rewound
CatchingUp == \/ CatchupCheck \/ CatchupAdd \/ CatchupLast \/ CatchupSet
              \/ CatchupTimer \/ CatchupQuit
Posting == PostBegin \/ PostStore \/ PostEnd

Next ==
    \/ Starting \/ Rewinding \/ CatchingUp \/ CatchupFails \/ Posting
    \/ \E locked \in BOOLEAN : InsertBlock(locked)
    \/ \E num \in Numbers : SetHead(num)
    \/ \E num \in Queried : QueryLookup(num)
    \/ QueryAdd \/ QueryDone \/ Crash

\* A node that is down is started again, and every thread goes on: no step waits for
\* anything but the mutex and the end of the goroutine.  The goroutine's select takes
\* quitCh, which is ready from Stop on, before a timer that is a second away.
Fairness == /\ WF_vars(Starting) /\ WF_vars(Rewinding) /\ WF_vars(Posting)
            /\ WF_vars(CatchingUp) /\ SF_vars(CatchupQuit)

Spec == Init /\ [][Next]_vars
FairSpec == Spec /\ Fairness

-----------------------------------------------------------------------------
(* Properties *)

\* Types; only checkpoints are stored, and every sum has one reward for each block up
\* to the number that it is kept with.
TypeOK ==
    /\ chain \in Sums /\ head \in 0 .. Len(chain)
    /\ last \in Numbers /\ fixupDone \in BOOLEAN
    /\ stored \in [Numbers -> Sums \cup {None}]
    /\ \A n \in Numbers : stored[n] # None => IsCheckpoint(n) /\ stored[n] \in SumsOf(n)
    /\ mem \in [num : Numbers, acc : Sums] /\ mem.acc \in SumsOf(mem.num)
    /\ quit \in BOOLEAN
    /\ ctl \in [pc : {"down", "fixup", "fixed", "load", "up", "stopping", "rewind", "delete"},
                num : Nat, moved : BOOLEAN]
    /\ catchup \in [pc : {"check", "work", "stored", "sleep", "off", "failed"},
                    to : Numbers, num : Numbers, acc : Sums]
    /\ catchup.acc \in SumsOf(catchup.num)
    /\ post \in [pc : {"none", "written", "begun", "stored"}, num : Numbers,
                 locked : BOOLEAN, acc : Sums]
    /\ Locked => post.acc \in SumsOf(post.num)
    /\ query \in [pc : {"idle", "sum"}, num : Queried \cup {0}, at : Numbers, acc : Sums,
                  clean : BOOLEAN]
    /\ query.at <= query.num /\ query.acc \in SumsOf(query.at)
    /\ query.pc = "sum" => query.num \in Queried
    /\ DOMAIN supplyCache = Queried
    /\ \A n \in Queried :
          supplyCache[n] # None => supplyCache[n] \in [acc : SumsOf(n), clean : BOOLEAN]
    /\ torn \subseteq Numbers /\ rewinds \in 0 .. MaxRewinds /\ faults \in 0 .. MaxFaults

\* Once started, every stored checkpoint is the sum of the canonical blocks: the
\* fix-up leaves no short sum behind wherever it is interrupted, and RewindTo and
\* RewindDelete leave none of a rewound block.  The exception is a checkpoint whose
\* deletion was lost in a crash; it is above the last number, so it is written
\* again before it is built on ("the next accumulation will start below the rewound
\* block").  This is stated for one SetHead: a second one can raise the last number
\* to such a checkpoint while catchup is still below it.
CheckpointsCorrect ==
    /\ ctl.pc = "up" => \A n \in Numbers \ torn :
                           stored[n] # None => n <= Len(chain) /\ stored[n] = Sum(n)
    /\ \A n \in torn : n > last

\* While the module is up, lastAccReward is the sum of the canonical blocks up to
\* lastAccNum, whichever of Start, catchup and PostInsertBlock set it last.
LastAccRewardCorrect ==
    ctl.pc = "up" => /\ mem.num <= Len(chain)
                     /\ mem.acc = Sum(mem.num)

\* While the module is up, the cache holds no answer about blocks that were rewound,
\* but for a query that was under way while Start purged the cache, or one that read
\* a checkpoint whose deletion was lost in a crash.
CacheCorrect ==
    ctl.pc = "up" =>
        \A n \in Queried : n <= head /\ supplyCache[n] # None /\ supplyCache[n].clean
                              => supplyCache[n].acc = Sum(n)

\* When the crashes and rewinds are over the module is up and its sum has reached the
\* head, though PostInsertBlock leaves every gap to catchup and catchup may set the
\* sum back; only a reward that could not be read keeps it behind.
CatchesUp == <>[](ctl.pc = "up" /\ (mem.num >= head \/ catchup.pc = "failed"))

-----------------------------------------------------------------------------
(* The inductive invariant *)

\* What the properties of the sums suppose of the bounds: SetHead does not start
\* inside a PostInsertBlock, and is called once, or in a life without a crash.
SafeRewinds == ~ RewindDuringPost /\ (MaxRewinds <= 1 \/ MaxFaults = 0)

\* acc is the sum of the first n blocks of the chain c.
IsSum(c, acc, n) == n <= Len(c) /\ acc = SubSeq(c, 1, n)

Working == catchup.pc \in {"work", "stored"}

\* Catchup ends before the chain is rewound, and no block is deleted from under the
\* head.
Threads ==
    /\ catchup.pc \in {"check", "work", "stored", "sleep"} => ctl.pc \in {"up", "stopping"}
    /\ Working => catchup.num <= catchup.to /\ catchup.to <= Len(chain)
    /\ ctl.pc = "delete" => head < Len(chain)

\* PostInsertBlock ends before the chain is rewound, and what a phase has done before
\* the next begins.
Phases ==
    /\ Locked => ctl.pc = "up" /\ post.num = mem.num + 1 /\ post.num <= Len(chain)
    /\ post.pc = "stored" => IsCheckpoint(post.num)
    /\ post.pc = "written" => ctl.pc = "up" \/ quit
    /\ catchup.pc = "stored" => IsCheckpoint(catchup.num)
    /\ ctl.pc \in {"up", "stopping"} => ~ ctl.moved
    /\ ctl.pc \in {"stopping", "rewind", "delete"} => quit /\ rewinds > 0 /\ torn = {}
    /\ ctl.pc \in {"rewind", "delete"} /\ ctl.moved => last <= head
    /\ ctl.pc = "fixup" => IsCheckpoint(ctl.num) /\ ctl.num >= firstBadCheckpoint

\* A checkpoint that the fix-up is still to delete.
Unfixed(n) == /\ ~ fixupDone /\ ctl.pc \in {"down", "fixup"}
              /\ firstBadCheckpoint <= n /\ n <= last
              /\ ctl.pc = "fixup" => n >= ctl.num

\* Every sum that is stored, kept in memory or being extended is one of the
\* canonical blocks.
SumsCorrect ==
    /\ \A n \in Numbers \ torn :
          stored[n] # None => IsSum(chain, stored[n], n) \/ Unfixed(n)
    /\ ctl.pc \in {"up", "stopping"} => IsSum(chain, mem.acc, mem.num)
    /\ Working => IsSum(chain, catchup.acc, catchup.num)
    /\ Locked => IsSum(chain, post.acc, post.num)

\* A checkpoint whose deletion was lost is above every sum that is extended.
TornAbove ==
    /\ torn # {} => rewinds = MaxRewinds
    /\ \A n \in torn :
          /\ IsCheckpoint(n) /\ n > last
          /\ ctl.pc \in {"up", "stopping"} => n > mem.num
          /\ Working => n > catchup.num
          /\ post.pc = "stored" => n > post.num

\* A query or an answer that is not marked is about the canonical blocks.
CleanAnswers ==
    ctl.pc = "up" =>
        /\ query.pc = "sum" /\ query.clean => IsSum(chain, query.acc, query.at)
        /\ \A n \in Queried : supplyCache[n] # None /\ supplyCache[n].clean
                                 => IsSum(chain, supplyCache[n].acc, n)

IInv == TypeOK /\ Threads /\ Phases /\ SumsCorrect /\ TornAbove /\ CleanAnswers
=============================================================================
