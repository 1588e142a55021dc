---------------------------- MODULE SealPipeline ----------------------------
(***************************************************************************)
(* How a block travels inside one validator: the update loop of the        *)
(* worker, the goroutines that run SubmitTransactions and Seal, the event  *)
(* loop of the Istanbul core with Commit, the miner's Start and Stop, and  *)
(* the locks, channels and synchronous events between them.                *)
(*                                                                         *)
(* A job is one run of SubmitTransactions, and stands for the block it     *)
(* builds and for the channel commitCh that its Seal creates.  Sections    *)
(* under sealMu are single steps, except a Commit that waits for room in   *)
(* the channel while it holds the lock.                                    *)
(***************************************************************************)
EXTENDS Integers, Sequences, FiniteSets

CONSTANTS
    None,
    Other,      \* a block that is not a job of this node
    MaxBlock,   \* bound: the last block number
    MaxJobs,    \* bound: calls of SubmitTransactions
    MaxCalls,   \* bound: calls of Miner.Start and Miner.Stop
    SlowConsensus  \* a decision takes longer than the return of a woken Seal

\* chainHeadCh has room for 10 events and never fills up below that bound.
ASSUME BoundsAssumption == {MaxBlock, MaxJobs, MaxCalls} \subseteq Nat /\ MaxBlock < 10
ASSUME SlowConsensusAssumption == SlowConsensus \in BOOLEAN

VARIABLES
    blocks,      \* the chain above genesis
    headEvents,  \* ChainHeadEvents in the worker's chainHeadCh
    posted,      \* a ChainHeadEvent is on its way to the core
    seq,         \* the sequence of the core, 0 while it does not run
    decided,     \* the block that the validators agree on, per number
    jobs,        \* the jobs started so far
    proposed,    \* proposedBlockHash
    commitCh,    \* the job whose channel commitCh is
    skipped,     \* sealSkippedNum
    finalizeCh,  \* the job whose result the worker waits for
    mu, coreMu, sealMu,   \* the holder of worker.mu, of coreMu for writing, of sealMu
    started,     \* coreStarted
    miner, worker, core,  \* where the miner's caller and the two loops are
    calls,
    handed       \* own blocks that Commit gave to Seal since the last Start or Stop

chain == <<blocks, headEvents>>
view  == <<seq, decided>>
seal  == <<proposed, commitCh, skipped>>
locks == <<mu, coreMu, sealMu>>
vars  == <<chain, posted, view, jobs, seal, finalizeCh, locks, started,
           miner, worker, core, calls, handed>>

JobIds  == 1 .. MaxJobs

ASSUME ValuesAssumption == None \notin JobIds /\ Other \notin JobIds /\ None # Other

\* The number of the current block.
head == Len(blocks)

At(pc, job) == [pc |-> pc, job |-> job]

\* pc runs through "prepare", "wait", "cleanup" and "end". ch is the content of the
\* channel ("empty", "nil", "block" or "closed"), got what Seal received, result
\* what the worker finds in finalizeCh, which is "taken" in the end.
NoJob == [num |-> 0, pc |-> "none", ch |-> "none", got |-> "none", result |-> "none"]

-----------------------------------------------------------------------------
(* SubmitTransactions and Seal *)

\* Anything before Seal, or updateBlock in it, may fail.
SubmitFails(k) ==
    /\ jobs[k].pc = "prepare"
    /\ jobs' = [jobs EXCEPT ![k].pc = "end", ![k].result = "nil"]
    /\ UNCHANGED <<chain, posted, view, seal, finalizeCh, locks, started,
                   miner, worker, core, calls, handed>>

\* initSealState: the block was decided before Seal began, or Seal waits.
Seal(k) ==
    /\ jobs[k].pc = "prepare" /\ sealMu = None
    /\ IF skipped = jobs[k].num
       THEN /\ skipped' = 0 /\ UNCHANGED <<proposed, commitCh>>
            /\ jobs' = [jobs EXCEPT ![k].pc = "end", ![k].result = "nil"]
       ELSE /\ proposed' = k /\ commitCh' = k /\ UNCHANGED skipped
            /\ jobs' = [jobs EXCEPT ![k].pc = "wait", ![k].ch = "empty"]
    /\ UNCHANGED <<chain, posted, view, finalizeCh, locks, started,
                   miner, worker, core, calls, handed>>

\* Seal receives from its channel; a closed channel yields nil.
SealReceives(k) ==
    /\ jobs[k].pc = "wait" /\ jobs[k].ch # "empty"
    /\ jobs' = [jobs EXCEPT ![k].pc = "cleanup",
                            ![k].ch = IF @ = "closed" THEN @ ELSE "empty",
                            ![k].got = IF jobs[k].ch = "block" THEN "block" ELSE "nil"]
    /\ UNCHANGED <<chain, posted, view, seal, finalizeCh, locks, started,
                   miner, worker, core, calls, handed>>

\* cleanupSealState, and the result goes to the worker.
cleanupSealState(k) ==
    /\ jobs[k].pc = "cleanup" /\ sealMu = None
    /\ proposed' = None /\ commitCh' = None /\ UNCHANGED skipped
    /\ jobs' = [jobs EXCEPT ![k].pc = "end", ![k].result = jobs[k].got]
    /\ UNCHANGED <<chain, posted, view, finalizeCh, locks, started,
                   miner, worker, core, calls, handed>>

-----------------------------------------------------------------------------
(* The update loop of the worker *)

ReceiveChainHead ==
    /\ worker.pc = "select" /\ headEvents > 0
    /\ headEvents' = headEvents - 1 /\ worker' = At("head", None)
    /\ UNCHANGED <<blocks, posted, view, jobs, seal, finalizeCh, locks, started,
                   miner, core, calls, handed>>

NewChainHead ==
    /\ worker.pc = "head" /\ coreMu = None
    /\ posted' = (posted \/ started) /\ worker' = At("select", None)
    /\ UNCHANGED <<chain, view, jobs, seal, finalizeCh, locks, started,
                   miner, core, calls, handed>>

\* Mutant: the worker looks at finalizeCh only when a chain head is there too.
ReceiveResultWithHead ==
    /\ worker.pc = "select" /\ finalizeCh # None /\ headEvents > 0
    /\ jobs[finalizeCh].result \in {"nil", "block"}
    /\ worker' = IF jobs[finalizeCh].result = "nil" THEN At("nothing", None)
                                                    ELSE At("block", finalizeCh)
    /\ jobs' = [jobs EXCEPT ![finalizeCh].result = "taken"]
    /\ UNCHANGED <<chain, posted, view, seal, finalizeCh, locks, started,
                   miner, core, calls, handed>>

ReceiveResult ==
    /\ worker.pc = "select" /\ finalizeCh # None
    /\ jobs[finalizeCh].result \in {"nil", "block"}
    /\ worker' = IF jobs[finalizeCh].result = "nil" THEN At("nothing", None)
                                                    ELSE At("block", finalizeCh)
    /\ jobs' = [jobs EXCEPT ![finalizeCh].result = "taken"]
    /\ UNCHANGED <<chain, posted, view, seal, finalizeCh, locks, started,
                   miner, core, calls, handed>>

\* A block that is known already is not written and not announced.
handleFinalizedBlock ==
    /\ worker.pc \in {"nothing", "block"} /\ mu = None
    /\ worker' = At("select", None)
    /\ finalizeCh' = IF worker.pc = "block" THEN None ELSE finalizeCh
    /\ IF worker.pc = "block" /\ jobs[worker.job].num = head + 1
       THEN blocks' = Append(blocks, worker.job) /\ headEvents' = headEvents + 1
       ELSE UNCHANGED chain
    /\ UNCHANGED <<posted, view, jobs, seal, locks, started, miner, core, calls, handed>>

\* Mutant: work that fails has already given up the previous channel.
commitNewWorkClears ==
    /\ worker.pc = "work" /\ mu = None
    /\ worker' = At("select", None)
    /\ \/ finalizeCh' = None /\ UNCHANGED jobs
       \/ \E k \in JobIds :
            /\ head < MaxBlock /\ jobs[k] = NoJob /\ (k > 1 => jobs[k - 1] # NoJob)
            /\ jobs' = [jobs EXCEPT ![k] = [NoJob EXCEPT !.num = head + 1, !.pc = "prepare"]]
            /\ finalizeCh' = k
    /\ UNCHANGED <<chain, posted, view, seal, locks, started, miner, core, calls, handed>>

\* A new job for the block after the current one, or an error before it.
commitNewWork ==
    /\ worker.pc = "work" /\ mu = None
    /\ worker' = At("select", None)
    /\ \/ UNCHANGED <<jobs, finalizeCh>>
       \/ \E k \in JobIds :
            /\ head < MaxBlock /\ jobs[k] = NoJob /\ (k > 1 => jobs[k - 1] # NoJob)
            /\ jobs' = [jobs EXCEPT ![k] = [NoJob EXCEPT !.num = head + 1, !.pc = "prepare"]]
            /\ finalizeCh' = k
    /\ UNCHANGED <<chain, posted, view, seal, locks, started, miner, core, calls, handed>>

-----------------------------------------------------------------------------
(* The event loop of the core *)

\* unsubscribeEvents has closed the channels of the loop.
Unsubscribed == miner = "stopping"

\* The proposals that have been posted for number n.
Requested(n) == {k \in JobIds : jobs[k].num = n /\ jobs[k].ch # "none"}

\* startNewRound for a new sequence; Post blocks until the worker receives.
NewSequence == seq' = head + 1 /\ core' = At("post", None)

handleChainHead ==
    /\ core.pc = "select" /\ ~Unsubscribed /\ posted
    /\ posted' = FALSE
    /\ IF head >= seq THEN NewSequence ELSE UNCHANGED <<seq, core>>
    /\ UNCHANGED <<chain, decided, jobs, seal, finalizeCh, locks, started,
                   miner, worker, calls, handed>>

\* A message of a later view, a timeout or a round change finds the chain ahead.
CatchUp ==
    /\ core.pc = "select" /\ ~Unsubscribed /\ head >= seq
    /\ NewSequence
    /\ UNCHANGED <<chain, posted, decided, jobs, seal, finalizeCh, locks, started,
                   miner, worker, calls, handed>>

\* A Seal that has a value to receive, or has received one and not returned.
Woken(k) ==
    \/ jobs[k].pc = "wait" /\ jobs[k].ch # "empty"
    \/ jobs[k].pc = "cleanup"

\* Enough COMMIT messages.  A later round may decide the same block again.
Decide(b) ==
    /\ core.pc = "select" /\ ~Unsubscribed /\ seq <= MaxBlock
    /\ SlowConsensus => \A k \in JobIds : ~Woken(k)
    /\ b \in Requested(seq) \cup {Other} /\ decided[seq] \in {None, b}
    /\ decided' = [decided EXCEPT ![seq] = b] /\ core' = At("commit", b)
    /\ UNCHANGED <<chain, posted, seq, jobs, seal, finalizeCh, locks, started,
                   miner, worker, calls, handed>>

\* Mutant: the Seal is told that its block was decided, whichever was.
ContentUnchecked(b) == "block"

\* What Commit sends for block b to the Seal that holds the channel.
Content(b) == IF proposed = b THEN "block" ELSE "nil"

\* Commit sends to the channel, or keeps sealMu until there is room.
CommitSends ==
    /\ core.pc = "commit" /\ sealMu \in {None, "core"} /\ commitCh # None
    /\ IF jobs[commitCh].ch = "empty"
       THEN /\ jobs' = [jobs EXCEPT ![commitCh].ch = Content(core.job)]
            /\ handed' = IF proposed = core.job THEN handed \cup {proposed} ELSE handed
            /\ sealMu' = None /\ core' = At("select", None)
       ELSE /\ sealMu = None /\ sealMu' = "core" /\ UNCHANGED <<jobs, handed, core>>
    /\ UNCHANGED <<chain, posted, view, seal, finalizeCh, mu, coreMu, started,
                   miner, worker, calls>>

\* No Seal holds the channel.
CommitSkips ==
    /\ core.pc = "commit" /\ sealMu = None /\ commitCh = None
    /\ skipped' = IF proposed = core.job THEN skipped ELSE seq
    /\ core' = At("select", None)
    /\ UNCHANGED <<chain, posted, view, jobs, proposed, commitCh, finalizeCh, locks,
                   started, miner, worker, calls, handed>>

\* The fetcher or the downloader inserts the next block: one that Commit
\* enqueued, or one from a peer.
InsertChain ==
    /\ head < MaxBlock /\ headEvents' = headEvents + 1
    /\ \E b \in Requested(head + 1) \cup {Other} :
         /\ decided[head + 1] \in {None, b}
         /\ decided' = [decided EXCEPT ![head + 1] = b]
         /\ blocks' = Append(blocks, b)
    /\ UNCHANGED <<posted, seq, jobs, seal, finalizeCh, locks, started,
                   miner, worker, core, calls, handed>>

\* The worker receives the NewSequenceEvent: the poster goes on.  For Start
\* the rest of the call follows: the loop of the core runs, the locks are free.
ReceiveNewSequence ==
    /\ worker.pc = "select" /\ worker' = At("work", None)
    /\ \/ /\ core.pc = "post" /\ core' = At("select", None)
          /\ UNCHANGED <<miner, started, locks>>
       \/ /\ miner = "posting" /\ miner' = "idle" /\ core' = At("select", None)
          /\ started' = TRUE /\ mu' = None /\ coreMu' = None /\ UNCHANGED sealMu
    /\ UNCHANGED <<chain, posted, view, jobs, seal, finalizeCh, calls, handed>>

-----------------------------------------------------------------------------
(* Start and Stop *)

\* close(commitCh): a value in the buffer is still received first.
CloseCommitCh ==
    IF commitCh # None /\ jobs[commitCh].ch = "empty"
    THEN [jobs EXCEPT ![commitCh].ch = "closed"] ELSE jobs

\* worker.start and worker.stop take worker.mu first.
Call(next) ==
    /\ miner = "idle" /\ mu = None /\ calls < MaxCalls
    /\ miner' = next /\ mu' = "miner" /\ calls' = calls + 1
    /\ UNCHANGED <<chain, posted, view, jobs, seal, finalizeCh, coreMu, sealMu, started,
                   worker, core, handed>>

\* Mutant: coreMu is not released.
ReturnLocked == miner' = "idle" /\ mu' = None /\ UNCHANGED coreMu

Return == miner' = "idle" /\ mu' = None /\ coreMu' = None

\* The engine is already in the state that the call asks for.
CallRefused ==
    /\ \/ miner = "start" /\ started
       \/ miner = "stop" /\ ~started
    /\ Return
    /\ UNCHANGED <<chain, posted, view, jobs, seal, finalizeCh, sealMu, started,
                   worker, core, calls, handed>>

Start ==
    /\ miner = "start" /\ ~started /\ coreMu = None /\ sealMu = None
    /\ miner' = "posting" /\ coreMu' = "miner"
    /\ jobs' = CloseCommitCh /\ proposed' = None /\ commitCh' = None /\ skipped' = 0
    /\ seq' = head + 1 /\ handed' = {}
    /\ UNCHANGED <<chain, posted, decided, finalizeCh, mu, sealMu, started,
                   worker, core, calls>>

\* Mutant: Stop closes the channel and leaves it in commitCh.
StopKeepsCommitCh ==
    /\ miner = "stop" /\ started /\ coreMu = None /\ sealMu = None
    /\ miner' = "stopping" /\ coreMu' = "miner"
    /\ jobs' = CloseCommitCh /\ handed' = {}
    /\ UNCHANGED <<chain, posted, view, seal, finalizeCh, mu, sealMu, started,
                   worker, core, calls>>

Stop ==
    /\ miner = "stop" /\ started /\ coreMu = None /\ sealMu = None
    /\ miner' = "stopping" /\ coreMu' = "miner"
    /\ jobs' = CloseCommitCh /\ commitCh' = None /\ handed' = {}
    /\ UNCHANGED <<chain, posted, view, proposed, skipped, finalizeCh, mu, sealMu,
                   started, worker, core, calls>>

\* The loop of the core leaves, and handlerWg.Wait returns.
HandlerExits ==
    /\ Unsubscribed /\ core.pc = "select"
    /\ core' = At("off", None) /\ seq' = 0 /\ posted' = FALSE /\ started' = FALSE
    /\ Return
    /\ UNCHANGED <<chain, decided, jobs, seal, finalizeCh, sealMu, worker, calls, handed>>

-----------------------------------------------------------------------------
Init ==
    /\ blocks = <<>> /\ headEvents = 0 /\ posted = FALSE
    /\ seq = 0 /\ decided = [n \in 1 .. MaxBlock |-> None]
    /\ jobs = [k \in JobIds |-> NoJob]
    /\ proposed = None /\ commitCh = None /\ skipped = 0 /\ finalizeCh = None
    /\ mu = None /\ coreMu = None /\ sealMu = None /\ started = FALSE
    /\ miner = "idle" /\ worker = At("select", None) /\ core = At("off", None)
    /\ calls = 0 /\ handed = {}

SealStep(k) == SubmitFails(k) \/ Seal(k) \/ SealReceives(k) \/ cleanupSealState(k)

WorkerStep ==
    \/ ReceiveChainHead \/ NewChainHead \/ ReceiveResult \/ ReceiveNewSequence
    \/ handleFinalizedBlock \/ commitNewWork

CoreStep == handleChainHead \/ CommitSends \/ CommitSkips

MinerStep == CallRefused \/ Start \/ Stop \/ HandlerExits

Next ==
    \/ \E k \in JobIds : SealStep(k)
    \/ WorkerStep
    \/ CoreStep \/ CatchUp \/ \E b \in JobIds \cup {Other} : Decide(b)
    \/ InsertChain
    \/ Call("start") \/ Call("stop") \/ MinerStep

Spec == Init /\ [][Next]_vars

\* A goroutine that can run does run.  Consensus, new blocks and calls of Start
\* and Stop need not happen, and nothing is said of which ready case a select
\* takes.
Fairness ==
    /\ \A k \in JobIds : WF_vars(SealStep(k))
    /\ WF_vars(WorkerStep) /\ WF_vars(CoreStep) /\ WF_vars(MinerStep)

FairSpec == Spec /\ Fairness

-----------------------------------------------------------------------------
(* Properties *)

\* Commit never sends on a channel that Start or Stop closed (a Go panic that
\* would end the core's goroutine), however Stop, Commit and a late
\* cleanupSealState of an older Seal interleave.
NoSendOnClosed == commitCh # None => jobs[commitCh].ch # "closed"

\* The own block that Commit hands to Seal is kept on its way through commitCh,
\* Seal, finalizeCh and the worker until the chain has its number.  Only a stop
\* of the engine, or a second job for the same number whose channel replaces
\* finalizeCh in commitNewWork, can make this node drop it.
HandedBlockKept ==
    \A k \in handed :
        \/ head >= jobs[k].num
        \/ jobs[k].pc = "wait" /\ jobs[k].ch = "block"
        \/ jobs[k].pc = "cleanup" /\ jobs[k].got = "block"
        \/ jobs[k].result = "block" /\ finalizeCh = k
        \/ worker = At("block", k)
        \/ finalizeCh \in JobIds \ {k} /\ jobs[finalizeCh].num = jobs[k].num

\* While the worker waits for it, the handed block gets into the chain, however
\* newer chain heads, new sequences and repeated Commits compete with it.
HandedBlockWritten ==
    \A k \in JobIds :
        (k \in handed /\ finalizeCh = k)
            ~> (head >= jobs[k].num \/ k \notin handed \/ finalizeCh # k)

\* Once no Start or Stop is in progress any more, neither loop stays blocked:
\* the worker waiting for a lock, the core waiting in Post for the worker or in
\* Commit for room in the channel, always get back to their select.
LoopsComeBack ==
    <>[](miner = "idle") => []<>(worker.pc = "select") /\ []<>(core.pc \in {"off", "select"})

Agreed == INSTANCE AgreedChain
    WITH Nodes <- {1}, Blocks <- JobIds \cup {Other}, MaxNum <- MaxBlock,
         agreed <- decided, chains <- <<blocks>>

\* The chain of this validator grows by one agreed block at a time.  Whichever
\* of the worker and the fetcher comes first, and whatever Seal, Commit, Stop
\* and Start left in the channels, handleFinalizedBlock never writes a block
\* that was not decided for its number.
ImplementsAgreedChain == Agreed!Spec

\* Miner.Start and Miner.Stop return: core.Start gets its NewSequenceEvent to
\* the worker, and core.Stop sees "the handler goroutine" exit.
StartStopReturn == miner # "idle" ~> miner = "idle"

\* When the chain has the block that a Seal works on and the Seal of a newer
\* block waits, the previous Seal() is stopped, as the comment in Commit says.
PreviousSealStopped ==
    \A j, k \in JobIds :
        (j > k /\ jobs[j].pc = "wait" /\ jobs[k].pc = "wait" /\ head >= jobs[k].num)
            ~> jobs[k].pc # "wait"

-----------------------------------------------------------------------------
(* The inductive invariants *)

Job == [num : 0 .. MaxBlock, pc : {"none", "prepare", "wait", "cleanup", "end"},
        ch : {"none", "empty", "nil", "block", "closed"}, got : {"none", "nil", "block"},
        result : {"none", "nil", "block", "taken"}]

TypeOK ==
    /\ blocks \in Seq(JobIds \cup {Other}) /\ head <= MaxBlock /\ seq \in 0 .. head + 1
    /\ decided \in [1 .. MaxBlock -> JobIds \cup {Other, None}]
    /\ jobs \in [JobIds -> Job]
    /\ {proposed, commitCh, finalizeCh} \subseteq JobIds \cup {None}
    /\ worker \in [pc : {"select", "head", "work", "nothing", "block"}, job : JobIds \cup {None}]
    /\ core \in [pc : {"off", "select", "post", "commit"}, job : JobIds \cup {Other, None}]
    /\ miner \in {"idle", "start", "stop", "posting", "stopping"} /\ handed \subseteq JobIds

\* The block of job k is the one that the validators decided for its number.
Decided(k) == jobs[k].num \in 1 .. MaxBlock /\ decided[jobs[k].num] = k

Started(k) == jobs[k].pc # "none"

\* What makes a block on its way to the chain the decided one: the channel in
\* commitCh belongs to the block in proposed, is open, and its Seal has not
\* returned; and the numbers are decided in order.
SealInv ==
    /\ TypeOK /\ NoSendOnClosed
    /\ \A n \in 1 .. head : decided[n] # None
    /\ core.pc # "off" \/ miner = "posting" => seq > 0
    /\ core.pc = "commit" => core.job = Other \/ (core.job \in JobIds /\ Decided(core.job))
    /\ commitCh # None => commitCh = proposed /\ jobs[commitCh].pc \in {"wait", "cleanup"}
    /\ \A k \in JobIds :
          /\ ~ Started(k) => jobs[k] = NoJob
          /\ Started(k) => jobs[k].num \in 1 .. head + 1
          /\ "block" \in {jobs[k].ch, jobs[k].got, jobs[k].result} => Decided(k)
    /\ worker.pc = "block" => worker.job \in JobIds /\ Decided(worker.job)

\* Where the result of a job that is not the last one for its number goes.
Superseded(k) == finalizeCh \in JobIds \ {k} /\ jobs[finalizeCh].num = jobs[k].num

\* The worker waits for every job until the chain has its number or a second job for
\* it has started; and until then a block that Commit handed to Seal is on its way.
\* That Seal is waiting for it, because no Commit follows one that woke it up.
KeptInv ==
    /\ \A k \in JobIds : Started(k) => head >= jobs[k].num \/ finalizeCh = k \/ Superseded(k)
    /\ worker.pc = "block" => finalizeCh = worker.job
    /\ core.pc = "commit" /\ commitCh # None =>
          jobs[commitCh].pc = "wait" /\ jobs[commitCh].ch = "empty"
    /\ \A k \in JobIds : jobs[k].result = "block" => jobs[k].pc = "end"
    /\ \A k \in handed :
          /\ jobs[k].pc \in {"wait", "cleanup", "end"}
          /\ \/ head >= jobs[k].num \/ finalizeCh # k
             \/ jobs[k].pc = "wait" /\ jobs[k].ch = "block"
             \/ jobs[k].pc = "cleanup" /\ jobs[k].got = "block"
             \/ jobs[k].result = "block"
             \/ worker = At("block", k)
=============================================================================
