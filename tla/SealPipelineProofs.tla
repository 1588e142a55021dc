------------------------- MODULE SealPipelineProofs -------------------------
(***************************************************************************)
(* Proofs about the path of a block inside a validator: no send on a       *)
(* closed channel, the block that is handed to Seal is kept, and the chain *)
(* implements AgreedChain, for any numbers of jobs and calls and every     *)
(* number of blocks below the room of chainHeadCh.                         *)
(***************************************************************************)
EXTENDS SealPipeline, TLAPS

Blocks == JobIds \cup {Other}

LEMMA Bounds ==
    /\ MaxBlock \in Nat /\ JobIds \subseteq Nat /\ None \notin JobIds /\ None \notin Blocks
    /\ Other \notin JobIds
  BY BoundsAssumption, ValuesAssumption DEF JobIds, Blocks

LEMMA HeadType ==
    ASSUME TypeOK
    PROVE  head \in Nat /\ head + 1 \in Nat /\ head <= MaxBlock /\ seq \in Nat
  BY DEF TypeOK, head

-----------------------------------------------------------------------------
(* What a step may do to the jobs *)

\* A job that has started keeps its number, and every block that appears in its
\* channel, in Seal or in its result has been decided.
JobStep ==
    /\ jobs' \in [JobIds -> Job]
    /\ \A k \in JobIds :
          /\ Started(k) => Started(k)' /\ jobs'[k].num = jobs[k].num
          /\ ~ Started(k)' => jobs'[k] = NoJob
          /\ Started(k)' /\ ~ Started(k) => jobs'[k].num \in 1 .. head + 1 /\ jobs'[k].num <= MaxBlock
          /\ "block" \in {jobs'[k].ch, jobs'[k].got, jobs'[k].result} =>
                \/ "block" \in {jobs[k].ch, jobs[k].got, jobs[k].result}
                \/ Started(k) /\ Decided(k)

\* The chain and the decisions only grow, and in order.
ChainStep ==
    /\ blocks' \in Seq(Blocks) /\ Len(blocks') >= Len(blocks) /\ Len(blocks') <= MaxBlock
    /\ decided' \in [1 .. MaxBlock -> Blocks \cup {None}]
    /\ \A n \in 1 .. MaxBlock : decided[n] # None => decided'[n] = decided[n]
    /\ \A n \in 1 .. Len(blocks') : decided'[n] # None

LEMMA DecidedStarted ==
    ASSUME SealInv, NEW k \in JobIds, Decided(k)
    PROVE  Started(k)
<1>1. CASE ~ Started(k)
  <2>1. jobs[k].num = 0 /\ jobs[k].num \in 1 .. MaxBlock
    BY <1>1 DEF SealInv, NoJob, Decided
  <2> QED  BY <2>1, Bounds
<1> QED  BY <1>1

LEMMA DecidedStays ==
    ASSUME SealInv, JobStep, ChainStep, NEW k \in JobIds, Decided(k)
    PROVE  Decided(k)'
<1>1. jobs[k].num \in 1 .. MaxBlock /\ decided[jobs[k].num] = k
  BY DEF Decided
<1>2. Started(k)
  BY DecidedStarted
<1>3. jobs'[k].num = jobs[k].num
  BY <1>2 DEF JobStep
<1>4. k # None
  BY Bounds
<1> QED  BY <1>1, <1>3, <1>4 DEF ChainStep, Decided

\* Such a step keeps what SealInv says of the jobs and the chain.
LEMMA JobsAfter ==
    ASSUME SealInv, JobStep, ChainStep
    PROVE  /\ \A n \in 1 .. head' : decided'[n] # None
           /\ \A k \in JobIds :
                 /\ ~ Started(k)' => jobs'[k] = NoJob
                 /\ Started(k)' => jobs'[k].num \in 1 .. head' + 1
                 /\ "block" \in {jobs'[k].ch, jobs'[k].got, jobs'[k].result} => Decided(k)'
<1>0. head \in Nat /\ head' \in Nat /\ head <= head' /\ TypeOK
  BY HeadType DEF ChainStep, head, SealInv
<1>1. \A n \in 1 .. head' : decided'[n] # None
  BY DEF ChainStep, head
<1>2. ASSUME NEW k \in JobIds
      PROVE  /\ ~ Started(k)' => jobs'[k] = NoJob
             /\ Started(k)' => jobs'[k].num \in 1 .. head' + 1
             /\ "block" \in {jobs'[k].ch, jobs'[k].got, jobs'[k].result} => Decided(k)'
  <2>1. ~ Started(k)' => jobs'[k] = NoJob
    BY DEF JobStep
  <2>2. Started(k)' => jobs'[k].num \in 1 .. head' + 1
    <3>1. CASE Started(k)
      <4>1. jobs[k].num \in 1 .. head + 1 /\ jobs'[k].num = jobs[k].num
        BY <3>1 DEF SealInv, JobStep
      <4> QED  BY <1>0, <4>1
    <3>2. CASE ~ Started(k)
      <4>1. Started(k)' => jobs'[k].num \in 1 .. head + 1
        BY <3>2 DEF JobStep
      <4> QED  BY <1>0, <4>1
    <3> QED  BY <3>1, <3>2
  <2>3. "block" \in {jobs'[k].ch, jobs'[k].got, jobs'[k].result} => Decided(k)'
    <3> HAVE "block" \in {jobs'[k].ch, jobs'[k].got, jobs'[k].result}
    <3>1. Decided(k)
      BY DEF JobStep, SealInv
    <3> QED  BY <3>1, DecidedStays
  <2> QED  BY <2>1, <2>2, <2>3
<1> QED  BY <1>1, <1>2

\* The step of an action that leaves the chain and the decisions alone.
LEMMA ChainStays ==
    ASSUME SealInv, UNCHANGED <<blocks, decided>>
    PROVE  ChainStep
  BY HeadType DEF SealInv, TypeOK, ChainStep, Blocks, head

LEMMA JobsStay ==
    ASSUME SealInv, UNCHANGED jobs
    PROVE  JobStep
  BY DEF SealInv, TypeOK, JobStep, Started

-----------------------------------------------------------------------------
(* The rest of SealInv, by threads *)

RestType ==
    /\ seq \in 0 .. head + 1
    /\ proposed \in JobIds \cup {None} /\ commitCh \in JobIds \cup {None}
    /\ finalizeCh \in JobIds \cup {None}
    /\ worker \in [pc : {"select", "head", "work", "nothing", "block"}, job : JobIds \cup {None}]
    /\ core \in [pc : {"off", "select", "post", "commit"}, job : JobIds \cup {Other, None}]
    /\ miner \in {"idle", "start", "stop", "posting", "stopping"} /\ handed \subseteq JobIds

SendOK ==
    commitCh # None => /\ commitCh = proposed /\ jobs[commitCh].pc \in {"wait", "cleanup"}
                       /\ jobs[commitCh].ch # "closed"

CoreOK ==
    /\ core.pc # "off" \/ miner = "posting" => seq > 0
    /\ core.pc = "commit" => core.job = Other \/ (core.job \in JobIds /\ Decided(core.job))

WorkerOK == worker.pc = "block" => worker.job \in JobIds /\ Decided(worker.job)

LEMMA Parts ==
    ASSUME SealInv
    PROVE  /\ RestType /\ SendOK /\ CoreOK /\ WorkerOK
           /\ head \in Nat /\ head <= MaxBlock /\ jobs \in [JobIds -> Job]
<1>1. RestType
  BY DEF SealInv, TypeOK, RestType
<1>2. SendOK /\ CoreOK /\ WorkerOK
  BY DEF SealInv, SendOK, NoSendOnClosed, CoreOK, WorkerOK
<1>3. head \in Nat /\ head <= MaxBlock /\ jobs \in [JobIds -> Job]
  BY HeadType DEF SealInv, TypeOK
<1> QED  BY <1>1, <1>2, <1>3

LEMMA Assemble ==
    ASSUME SealInv, JobStep, ChainStep, RestType', SendOK', CoreOK', WorkerOK'
    PROVE  SealInv'
<1>1. TypeOK'
  BY DEF TypeOK, RestType, JobStep, ChainStep, Blocks, head
<1>2. NoSendOnClosed'
  BY DEF SendOK, NoSendOnClosed
<1>3. /\ \A n \in 1 .. head' : decided'[n] # None
      /\ \A k \in JobIds :
            /\ ~ Started(k)' => jobs'[k] = NoJob
            /\ Started(k)' => jobs'[k].num \in 1 .. head' + 1
            /\ "block" \in {jobs'[k].ch, jobs'[k].got, jobs'[k].result} => Decided(k)'
  BY JobsAfter
<1> QED  BY <1>1, <1>2, <1>3 DEF SealInv, SendOK, CoreOK, WorkerOK

LEMMA RestStays ==
    ASSUME SealInv, ChainStep,
           UNCHANGED <<seq, proposed, commitCh, finalizeCh, worker, core, miner, handed>>
    PROVE  RestType'
<1>1. RestType /\ head \in Nat
  BY Parts
<1>2. head' \in Nat /\ head <= head'
  BY <1>1 DEF ChainStep, head
<1>3. seq' \in 0 .. head' + 1
  <2>1. seq' = seq /\ seq \in 0 .. head + 1
    BY <1>1 DEF RestType
  <2>2. \A a, b \in Nat : a <= b => 0 .. a + 1 \subseteq 0 .. b + 1
    OBVIOUS
  <2> QED  BY <1>1, <1>2, <2>1, <2>2
<1> QED  BY <1>1, <1>3 DEF RestType

LEMMA CoreStays ==
    ASSUME SealInv, JobStep, ChainStep, UNCHANGED <<core, seq>>,
           miner' = "posting" => miner = "posting"
    PROVE  CoreOK'
<1>1. CoreOK
  BY Parts
<1>2. core'.pc # "off" \/ miner' = "posting" => seq' > 0
  BY <1>1 DEF CoreOK
<1>3. ASSUME NEW k \in JobIds, k = core.job, core.pc = "commit" PROVE Decided(k)'
  BY <1>1, <1>3, DecidedStays, Bounds DEF CoreOK
<1>4. core.pc = "commit" => core.job = Other \/ core.job \in JobIds
  BY <1>1 DEF CoreOK
<1> QED  BY <1>2, <1>3, <1>4 DEF CoreOK, Decided

LEMMA WorkerStays ==
    ASSUME SealInv, JobStep, ChainStep, UNCHANGED worker
    PROVE  WorkerOK'
<1>1. WorkerOK
  BY Parts
<1> QED  BY <1>1, DecidedStays DEF WorkerOK

-----------------------------------------------------------------------------
(* The steps of the jobs *)

\* One job changes.
LEMMA OneJob ==
    ASSUME SealInv, NEW k \in JobIds, NEW j \in Job, jobs' = [jobs EXCEPT ![k] = j],
           Started(k), j.pc # "none", j.num = jobs[k].num,
           "block" \in {j.ch, j.got, j.result} =>
               "block" \in {jobs[k].ch, jobs[k].got, jobs[k].result} \/ Decided(k)
    PROVE  JobStep
<1>0. jobs \in [JobIds -> Job]
  BY Parts
<1>1. jobs' \in [JobIds -> Job]
  BY <1>0
<1>2. ASSUME NEW i \in JobIds
      PROVE  /\ Started(i) => Started(i)' /\ jobs'[i].num = jobs[i].num
             /\ ~ Started(i)' => jobs'[i] = NoJob
             /\ Started(i)' /\ ~ Started(i) => jobs'[i].num \in 1 .. head + 1 /\ jobs'[i].num <= MaxBlock
             /\ "block" \in {jobs'[i].ch, jobs'[i].got, jobs'[i].result} =>
                   \/ "block" \in {jobs[i].ch, jobs[i].got, jobs[i].result}
                   \/ Started(i) /\ Decided(i)
  <2>1. CASE i = k
    BY <1>0, <2>1 DEF Started
  <2>2. CASE i # k
    <3>1. jobs'[i] = jobs[i]
      BY <1>0, <2>2
    <3>2. ~ Started(i) => jobs[i] = NoJob
      BY DEF SealInv
    <3> QED  BY <3>1, <3>2 DEF Started
  <2> QED  BY <2>1, <2>2
<1> QED  BY <1>1, <1>2 DEF JobStep

LEMMA SealSteps ==
    ASSUME SealInv, NEW k \in JobIds, SealStep(k)
    PROVE  SealInv'
<1> USE DEF chain, view, seal
<1>0. /\ RestType /\ SendOK /\ CoreOK /\ WorkerOK /\ head \in Nat
      /\ jobs \in [JobIds -> Job] /\ jobs[k] \in Job
  BY Parts
<1>a. ChainStep
  <2>1. UNCHANGED <<blocks, decided>>
    BY DEF SealStep, SubmitFails, Seal, SealReceives, cleanupSealState
  <2> QED  BY <2>1, ChainStays
<1>b. UNCHANGED <<seq, core, worker, miner, finalizeCh, handed, blocks>>
  BY DEF SealStep, SubmitFails, Seal, SealReceives, cleanupSealState
<1>1. CASE SubmitFails(k)
  <2> DEFINE j == [jobs[k] EXCEPT !.pc = "end", !.result = "nil"]
  <2>1. jobs[k].pc = "prepare" /\ jobs' = [jobs EXCEPT ![k] = j] /\ UNCHANGED <<proposed, commitCh>>
    BY <1>0, <1>1 DEF SubmitFails
  <2>2. /\ j \in Job /\ j.pc = "end" /\ j.num = jobs[k].num /\ j.ch = jobs[k].ch
        /\ j.got = jobs[k].got /\ j.result = "nil"
    BY <1>0 DEF Job
  <2> HIDE DEF j
  <2>3. JobStep
    BY <2>1, <2>2, OneJob DEF Started
  <2>4. SendOK'
    BY <1>0, <2>1 DEF SendOK, RestType
  <2> QED
    BY <1>a, <1>b, <2>1, <2>3, <2>4, RestStays, CoreStays, WorkerStays, Assemble
<1>2. CASE Seal(k)
  <2>1. CASE skipped = jobs[k].num
    <3> DEFINE j == [jobs[k] EXCEPT !.pc = "end", !.result = "nil"]
    <3>1. jobs[k].pc = "prepare" /\ jobs' = [jobs EXCEPT ![k] = j] /\ UNCHANGED <<proposed, commitCh>>
      BY <1>0, <1>2, <2>1 DEF Seal
    <3>2. /\ j \in Job /\ j.pc = "end" /\ j.num = jobs[k].num /\ j.ch = jobs[k].ch
          /\ j.got = jobs[k].got /\ j.result = "nil"
      BY <1>0 DEF Job
    <3> HIDE DEF j
    <3>3. JobStep
      BY <3>1, <3>2, OneJob DEF Started
    <3>4. SendOK'
      BY <1>0, <3>1 DEF SendOK, RestType
    <3> QED
      BY <1>a, <1>b, <3>1, <3>3, <3>4, RestStays, CoreStays, WorkerStays, Assemble
  <2>2. CASE skipped # jobs[k].num
    <3> DEFINE j == [jobs[k] EXCEPT !.pc = "wait", !.ch = "empty"]
    <3>1. /\ jobs[k].pc = "prepare" /\ jobs' = [jobs EXCEPT ![k] = j]
          /\ proposed' = k /\ commitCh' = k
      BY <1>0, <1>2, <2>2 DEF Seal
    <3>2. /\ j \in Job /\ j.pc = "wait" /\ j.num = jobs[k].num /\ j.ch = "empty"
          /\ j.got = jobs[k].got /\ j.result = jobs[k].result
      BY <1>0 DEF Job
    <3> HIDE DEF j
    <3>3. JobStep
      BY <3>1, <3>2, OneJob DEF Started
    <3>4. SendOK'
      BY <1>0, <3>1, <3>2 DEF SendOK
    <3>5. RestType'
      BY <1>0, <1>b, <3>1 DEF RestType, head
    <3> QED
      BY <1>a, <1>b, <3>3, <3>4, <3>5, CoreStays, WorkerStays, Assemble
  <2> QED  BY <2>1, <2>2
<1>3. CASE SealReceives(k)
  <2> DEFINE j == [jobs[k] EXCEPT !.pc = "cleanup",
                                  !.ch = IF @ = "closed" THEN @ ELSE "empty",
                                  !.got = IF jobs[k].ch = "block" THEN "block" ELSE "nil"]
  <2>1. jobs[k].pc = "wait" /\ jobs' = [jobs EXCEPT ![k] = j] /\ UNCHANGED <<proposed, commitCh>>
    BY <1>0, <1>3 DEF SealReceives
  <2>2. /\ j \in Job /\ j.pc = "cleanup" /\ j.num = jobs[k].num
        /\ j.ch = IF jobs[k].ch = "closed" THEN "closed" ELSE "empty"
        /\ j.got = IF jobs[k].ch = "block" THEN "block" ELSE "nil"
        /\ j.result = jobs[k].result
    BY <1>0 DEF Job
  <2> HIDE DEF j
  <2>3. JobStep
    BY <2>1, <2>2, OneJob DEF Started
  <2>4. SendOK'
    BY <1>0, <2>1, <2>2 DEF SendOK, RestType
  <2> QED
    BY <1>a, <1>b, <2>1, <2>3, <2>4, RestStays, CoreStays, WorkerStays, Assemble
<1>4. CASE cleanupSealState(k)
  <2> DEFINE j == [jobs[k] EXCEPT !.pc = "end", !.result = jobs[k].got]
  <2>1. /\ jobs[k].pc = "cleanup" /\ jobs' = [jobs EXCEPT ![k] = j]
        /\ proposed' = None /\ commitCh' = None
    BY <1>0, <1>4 DEF cleanupSealState
  <2>2. /\ j \in Job /\ j.pc = "end" /\ j.num = jobs[k].num /\ j.ch = jobs[k].ch
        /\ j.got = jobs[k].got /\ j.result = jobs[k].got
    BY <1>0 DEF Job
  <2> HIDE DEF j
  <2>3. JobStep
    BY <2>1, <2>2, OneJob DEF Started
  <2>4. SendOK'
    BY <2>1 DEF SendOK
  <2>5. RestType'
    BY <1>0, <1>b, <2>1 DEF RestType, head
  <2> QED
    BY <1>a, <1>b, <2>3, <2>4, <2>5, CoreStays, WorkerStays, Assemble
<1> QED  BY <1>1, <1>2, <1>3, <1>4 DEF SealStep

-----------------------------------------------------------------------------
(* The steps of the worker *)

\* The chain gets the block of number head + 1, which is decided by then.
LEMMA ChainGrows ==
    ASSUME SealInv, NEW b \in Blocks, head + 1 \in 1 .. MaxBlock, blocks' = Append(blocks, b),
           decided' \in [1 .. MaxBlock -> Blocks \cup {None}], decided'[head + 1] = b,
           \A n \in 1 .. MaxBlock : decided[n] # None => decided'[n] = decided[n]
    PROVE  ChainStep
<1>1. blocks \in Seq(Blocks) /\ head \in Nat /\ head = Len(blocks)
  BY HeadType DEF SealInv, TypeOK, Blocks, head
<1>2. blocks' \in Seq(Blocks) /\ Len(blocks') = head + 1 /\ MaxBlock \in Nat
  BY <1>1, Bounds
<1>3. ASSUME NEW n \in 1 .. Len(blocks') PROVE decided'[n] # None
  <2>1. CASE n = head + 1
    BY <2>1, Bounds
  <2>2. CASE n # head + 1
    <3>1. n \in 1 .. head /\ n \in 1 .. MaxBlock
      BY <1>1, <1>2, <1>3, <2>2
    <3>2. decided[n] # None
      BY <3>1 DEF SealInv
    <3> QED  BY <3>1, <3>2
  <2> QED  BY <2>1, <2>2
<1>4. Len(blocks') >= Len(blocks) /\ Len(blocks') <= MaxBlock
  BY <1>1, <1>2
<1> QED  BY <1>2, <1>3, <1>4 DEF ChainStep

LEMMA WorkerSteps ==
    ASSUME SealInv, WorkerStep
    PROVE  SealInv'
<1> USE DEF chain, view, seal, locks
<1>0. /\ RestType /\ SendOK /\ CoreOK /\ WorkerOK /\ head \in Nat /\ head <= MaxBlock
      /\ jobs \in [JobIds -> Job]
  BY Parts
<1>1. CASE ReceiveChainHead \/ NewChainHead
  <2>1. /\ UNCHANGED <<blocks, decided, seq, jobs, proposed, commitCh, finalizeCh, miner, core, handed>>
        /\ worker' \in [pc : {"head", "select"}, job : {None}]
    BY <1>1 DEF ReceiveChainHead, NewChainHead, At
  <2>2. ChainStep /\ JobStep
    BY <2>1, ChainStays, JobsStay
  <2>3. RestType' /\ SendOK' /\ WorkerOK'
    BY <1>0, <2>1 DEF RestType, SendOK, WorkerOK, head
  <2>4. CoreOK'
    BY <2>1, <2>2, CoreStays
  <2> QED  BY <2>2, <2>3, <2>4, Assemble
<1>2. CASE ReceiveResult
  <2> DEFINE k == finalizeCh
             j == [jobs[k] EXCEPT !.result = "taken"]
  <2>1. /\ UNCHANGED <<blocks, decided, seq, proposed, commitCh, finalizeCh, miner, core, handed>>
        /\ k \in JobIds /\ jobs[k].result \in {"nil", "block"} /\ jobs' = [jobs EXCEPT ![k] = j]
        /\ worker' = IF jobs[k].result = "nil" THEN At("nothing", None) ELSE At("block", k)
    BY <1>0, <1>2 DEF ReceiveResult, RestType
  <2>2. /\ j \in Job /\ j.pc = jobs[k].pc /\ j.num = jobs[k].num /\ j.ch = jobs[k].ch
        /\ j.got = jobs[k].got /\ j.result = "taken"
    BY <1>0, <2>1 DEF Job
  <2>3. Started(k)
    BY <2>1 DEF SealInv, NoJob
  <2>4. jobs[k].result = "block" => Decided(k)
    BY <2>1 DEF SealInv
  <2> HIDE DEF j
  <2>5. ChainStep
    BY <2>1, ChainStays
  <2>6. JobStep
    BY <2>1, <2>2, <2>3, OneJob DEF Started
  <2>7. SendOK'
    BY <1>0, <2>1, <2>2 DEF SendOK, RestType
  <2>8. RestType'
    BY <1>0, <2>1 DEF RestType, head, At
  <2>9. WorkerOK'
    <3>1. ASSUME NEW i \in JobIds, i = k, jobs[k].result = "block" PROVE Decided(i)'
      BY <2>4, <2>5, <2>6, <3>1, DecidedStays
    <3>2. worker'.pc = "block" => jobs[k].result = "block" /\ worker'.job = k
      BY <2>1 DEF At
    <3> QED  BY <2>1, <3>1, <3>2 DEF WorkerOK, Decided
  <2>10. CoreOK'
    BY <2>1, <2>5, <2>6, CoreStays
  <2> QED  BY <2>5, <2>6, <2>7, <2>8, <2>9, <2>10, Assemble
<1>3. CASE ReceiveNewSequence
  <2>1. /\ UNCHANGED <<blocks, decided, seq, jobs, proposed, commitCh, finalizeCh, handed>>
        /\ worker' = At("work", None) /\ core' = At("select", None) /\ miner' \in {miner, "idle"}
        /\ core.pc = "post" \/ miner = "posting"
    BY <1>3 DEF ReceiveNewSequence
  <2>2. ChainStep /\ JobStep
    BY <2>1, ChainStays, JobsStay
  <2>3. RestType' /\ SendOK' /\ WorkerOK' /\ CoreOK'
    BY <1>0, <2>1 DEF RestType, SendOK, WorkerOK, CoreOK, head, At
  <2> QED  BY <2>2, <2>3, Assemble
<1>4. CASE handleFinalizedBlock
  <2>1. /\ UNCHANGED <<decided, seq, jobs, proposed, commitCh, miner, core, handed>>
        /\ worker' = At("select", None) /\ finalizeCh' \in {finalizeCh, None}
        /\ blocks' = IF worker.pc = "block" /\ jobs[worker.job].num = head + 1
                     THEN Append(blocks, worker.job) ELSE blocks
    BY <1>4 DEF handleFinalizedBlock
  <2>2. JobStep
    BY <2>1, JobsStay
  <2>3. ChainStep
    <3>1. CASE worker.pc = "block" /\ jobs[worker.job].num = head + 1
      <4>1. /\ worker.job \in JobIds /\ head + 1 \in 1 .. MaxBlock /\ decided[head + 1] = worker.job
        BY <1>0, <3>1 DEF WorkerOK, Decided
      <4>2. decided' \in [1 .. MaxBlock -> Blocks \cup {None}] /\ decided' = decided
        BY <2>1 DEF SealInv, TypeOK, Blocks
      <4>3. worker.job \in Blocks /\ blocks' = Append(blocks, worker.job)
        BY <2>1, <3>1, <4>1 DEF Blocks
      <4> QED  BY <4>1, <4>2, <4>3, ChainGrows
    <3>2. CASE ~ (worker.pc = "block" /\ jobs[worker.job].num = head + 1)
      <4>1. blocks' = blocks
        BY <2>1, <3>2
      <4> QED  BY <2>1, <4>1, ChainStays
    <3> QED  BY <3>1, <3>2
  <2>4. seq' \in 0 .. head' + 1
    <3>1. head' \in Nat /\ head <= head'
      BY <1>0, <2>3 DEF ChainStep, head
    <3>2. \A a, b \in Nat : a <= b => 0 .. a + 1 \subseteq 0 .. b + 1
      OBVIOUS
    <3>3. seq' = seq /\ seq \in 0 .. head + 1
      BY <1>0, <2>1 DEF RestType
    <3> QED  BY <1>0, <3>1, <3>2, <3>3
  <2>5. RestType' /\ SendOK' /\ WorkerOK'
    BY <1>0, <2>1, <2>4 DEF RestType, SendOK, WorkerOK, At
  <2>6. CoreOK'
    BY <2>1, <2>2, <2>3, CoreStays
  <2> QED  BY <2>2, <2>3, <2>5, <2>6, Assemble
<1>5. CASE commitNewWork
  <2>0. /\ UNCHANGED <<blocks, decided, seq, proposed, commitCh, miner, core, handed>>
        /\ worker' = At("select", None)
    BY <1>5 DEF commitNewWork
  <2>1. ChainStep
    BY <2>0, ChainStays
  <2>2. JobStep /\ SendOK' /\ finalizeCh' \in JobIds \cup {None}
    <3>1. CASE UNCHANGED <<jobs, finalizeCh>>
      BY <1>0, <2>0, <3>1, JobsStay DEF SendOK, RestType
    <3>2. CASE ~ UNCHANGED <<jobs, finalizeCh>>
      <4> DEFINE j == [NoJob EXCEPT !.num = head + 1, !.pc = "prepare"]
      <4>1. PICK k \in JobIds : /\ head < MaxBlock /\ jobs[k] = NoJob
                                /\ jobs' = [jobs EXCEPT ![k] = j] /\ finalizeCh' = k
        BY <1>5, <3>2 DEF commitNewWork
      <4>2. j.pc = "prepare" /\ j.ch = "none" /\ j.got = "none" /\ j.result = "none" /\ j.num = head + 1
        BY DEF NoJob
      <4>3. head + 1 \in 0 .. MaxBlock /\ head + 1 \in 1 .. head + 1 /\ head + 1 <= MaxBlock
        BY <1>0, <4>1, Bounds
      <4>4. j \in Job
        BY <4>3 DEF Job, NoJob
      <4> HIDE DEF j
      <4>5. jobs' \in [JobIds -> Job]
        BY <1>0, <4>1, <4>4
      <4>6. ASSUME NEW i \in JobIds
            PROVE  /\ Started(i) => Started(i)' /\ jobs'[i].num = jobs[i].num
                   /\ ~ Started(i)' => jobs'[i] = NoJob
                   /\ Started(i)' /\ ~ Started(i) => /\ jobs'[i].num \in 1 .. head + 1
                                                     /\ jobs'[i].num <= MaxBlock
                   /\ "block" \in {jobs'[i].ch, jobs'[i].got, jobs'[i].result} =>
                         \/ "block" \in {jobs[i].ch, jobs[i].got, jobs[i].result}
                         \/ Started(i) /\ Decided(i)
        <5>1. CASE i = k
          <6>1. jobs'[i] = j /\ ~ Started(i)
            BY <1>0, <4>1, <5>1 DEF Started, NoJob
          <6> QED  BY <4>2, <4>3, <6>1 DEF Started
        <5>2. CASE i # k
          <6>1. jobs'[i] = jobs[i]
            BY <1>0, <4>1, <5>2
          <6>2. ~ Started(i) => jobs[i] = NoJob
            BY DEF SealInv
          <6> QED  BY <6>1, <6>2 DEF Started
        <5> QED  BY <5>1, <5>2
      <4>7. SendOK'
        BY <1>0, <2>0, <4>1 DEF SendOK, RestType, NoJob
      <4> QED  BY <4>1, <4>5, <4>6, <4>7 DEF JobStep
    <3> QED  BY <3>1, <3>2
  <2>3. RestType' /\ WorkerOK'
    BY <1>0, <2>0, <2>2 DEF RestType, WorkerOK, head, At
  <2>4. CoreOK'
    BY <2>0, <2>1, <2>2, CoreStays
  <2> QED  BY <2>1, <2>2, <2>3, <2>4, Assemble
<1> QED  BY <1>1, <1>2, <1>3, <1>4, <1>5 DEF WorkerStep

-----------------------------------------------------------------------------
(* The steps of the core and of the chain *)

\* A number that may be decided gets its block.
LEMMA ChainDecides ==
    ASSUME SealInv, NEW n \in 1 .. MaxBlock, NEW b \in Blocks, decided[n] \in {None, b},
           decided' = [decided EXCEPT ![n] = b]
    PROVE  /\ decided' \in [1 .. MaxBlock -> Blocks \cup {None}] /\ decided'[n] = b
           /\ \A m \in 1 .. MaxBlock : decided[m] # None => decided'[m] = decided[m]
           /\ UNCHANGED blocks => ChainStep
<1>1. /\ decided \in [1 .. MaxBlock -> Blocks \cup {None}] /\ blocks \in Seq(Blocks)
      /\ head \in Nat /\ head = Len(blocks) /\ head <= MaxBlock
  BY HeadType DEF SealInv, TypeOK, Blocks, head
<1>2. /\ decided' \in [1 .. MaxBlock -> Blocks \cup {None}] /\ decided'[n] = b
      /\ \A m \in 1 .. MaxBlock : decided[m] # None => decided'[m] = decided[m]
  BY <1>1
<1>3. \A m \in 1 .. head : m \in 1 .. MaxBlock /\ decided[m] # None
  BY <1>1, Bounds DEF SealInv
<1>4. UNCHANGED blocks => ChainStep
  BY <1>1, <1>2, <1>3 DEF ChainStep
<1> QED  BY <1>2, <1>4

LEMMA CoreSteps ==
    ASSUME SealInv, handleChainHead \/ CatchUp \/ CommitSends \/ CommitSkips
    PROVE  SealInv'
<1> USE DEF chain, view, seal, locks
<1>0. /\ RestType /\ SendOK /\ CoreOK /\ WorkerOK /\ head \in Nat /\ head <= MaxBlock
      /\ jobs \in [JobIds -> Job]
  BY Parts
<1>a. ChainStep
  <2>1. UNCHANGED <<blocks, decided>>
    BY DEF handleChainHead, CatchUp, CommitSends, CommitSkips
  <2> QED  BY <2>1, ChainStays
<1>1. CASE handleChainHead \/ CatchUp
  <2>1. /\ UNCHANGED <<blocks, decided, jobs, proposed, commitCh, finalizeCh, miner, worker, handed>>
        /\ \/ seq' = head + 1 /\ core' = At("post", None)
           \/ UNCHANGED <<seq, core>>
    BY <1>1 DEF handleChainHead, CatchUp, NewSequence
  <2>2. JobStep
    BY <2>1, JobsStay
  <2>3. SendOK'
    BY <1>0, <2>1 DEF SendOK
  <2>4. RestType'
    BY <1>0, <2>1 DEF RestType, head, At
  <2>5. CoreOK'
    <3>1. CASE seq' = head + 1 /\ core' = At("post", None)
      <4>1. core'.pc = "post" /\ seq' > 0
        BY <1>0, <3>1 DEF At
      <4> QED  BY <4>1 DEF CoreOK
    <3>2. CASE UNCHANGED <<seq, core>>
      BY <1>a, <2>1, <2>2, <3>2, CoreStays
    <3> QED  BY <2>1, <3>1, <3>2
  <2> QED  BY <1>a, <2>1, <2>2, <2>3, <2>4, <2>5, WorkerStays, Assemble
<1>2. CASE CommitSends
  <2>1. CASE jobs[commitCh].ch = "empty"
    <3> DEFINE k == commitCh
               j == [jobs[k] EXCEPT !.ch = Content(core.job)]
    <3>1. /\ UNCHANGED <<blocks, decided, seq, proposed, commitCh, finalizeCh, miner, worker>>
          /\ core.pc = "commit" /\ core' = At("select", None) /\ k # None
          /\ handed' = IF proposed = core.job THEN handed \cup {proposed} ELSE handed
      BY <1>2, <2>1 DEF CommitSends
    <3>2. /\ k \in JobIds /\ jobs[k].pc \in {"wait", "cleanup"} /\ proposed = k
      BY <1>0, <3>1 DEF RestType, SendOK
    <3>3. jobs' = [jobs EXCEPT ![k] = j]
      BY <1>0, <1>2, <2>1 DEF CommitSends
    <3>4. Content(core.job) \in {"block", "nil"} /\ (Content(core.job) = "block" => proposed = core.job)
      BY DEF Content
    <3>5. /\ j \in Job /\ j.pc = jobs[k].pc /\ j.num = jobs[k].num /\ j.ch = Content(core.job)
          /\ j.got = jobs[k].got /\ j.result = jobs[k].result
      BY <1>0, <3>2, <3>4 DEF Job
    <3>6. j.ch = "block" => Decided(k)
      <4>1. proposed = core.job => core.job = k /\ core.job # Other
        BY <3>2, Bounds
      <4> QED  BY <1>0, <3>1, <3>4, <3>5, <4>1 DEF CoreOK
    <3> HIDE DEF j
    <3>7. JobStep
      BY <3>2, <3>3, <3>5, <3>6, OneJob DEF Started
    <3>8. SendOK'
      BY <1>0, <3>1, <3>2, <3>3, <3>4, <3>5 DEF SendOK
    <3>9. RestType' /\ CoreOK'
      BY <1>0, <3>1, <3>2 DEF RestType, CoreOK, head, At
    <3> QED  BY <1>a, <3>1, <3>7, <3>8, <3>9, WorkerStays, Assemble
  <2>2. CASE jobs[commitCh].ch # "empty"
    <3>1. UNCHANGED <<blocks, decided, seq, jobs, proposed, commitCh, finalizeCh, miner, worker, core, handed>>
      BY <1>2, <2>2 DEF CommitSends
    <3>2. JobStep /\ SendOK'
      BY <1>0, <3>1, JobsStay DEF SendOK
    <3> QED  BY <1>a, <3>1, <3>2, RestStays, CoreStays, WorkerStays, Assemble
  <2> QED  BY <2>1, <2>2
<1>3. CASE CommitSkips
  <2>1. /\ UNCHANGED <<blocks, decided, seq, jobs, proposed, commitCh, finalizeCh, miner, worker, handed>>
        /\ core.pc = "commit" /\ core' = At("select", None)
    BY <1>3 DEF CommitSkips
  <2>2. JobStep
    BY <2>1, JobsStay
  <2>3. SendOK' /\ RestType' /\ CoreOK'
    BY <1>0, <2>1 DEF SendOK, RestType, CoreOK, head, At
  <2> QED  BY <1>a, <2>1, <2>2, <2>3, WorkerStays, Assemble
<1> QED  BY <1>1, <1>2, <1>3

LEMMA DecideStep ==
    ASSUME SealInv, NEW b \in Blocks, Decide(b)
    PROVE  SealInv'
<1> USE DEF chain, view, seal, locks
<1>0. /\ RestType /\ SendOK /\ CoreOK /\ WorkerOK /\ head \in Nat /\ head <= MaxBlock
      /\ jobs \in [JobIds -> Job]
  BY Parts
<1>1. /\ UNCHANGED <<blocks, seq, jobs, proposed, commitCh, finalizeCh, miner, worker, handed>>
      /\ core.pc = "select" /\ core' = At("commit", b) /\ seq <= MaxBlock
      /\ decided[seq] \in {None, b} /\ decided' = [decided EXCEPT ![seq] = b]
      /\ b \in Requested(seq) \cup {Other}
  BY DEF Decide
<1>2. seq \in 1 .. MaxBlock
  BY <1>0, <1>1, Bounds DEF RestType, CoreOK
<1>3. ChainStep /\ decided'[seq] = b
  BY <1>1, <1>2, ChainDecides
<1>4. JobStep
  BY <1>1, JobsStay
<1>5. SendOK'
  BY <1>0, <1>1 DEF SendOK
<1>6. RestType'
  BY <1>0, <1>1 DEF RestType, head, At, Blocks
<1>7. CoreOK'
  <2>1. b = Other \/ (b \in JobIds /\ jobs'[b].num = seq)
    BY <1>1 DEF Requested
  <2>2. core'.job = b /\ seq' > 0
    BY <1>1, <1>2, Bounds DEF At
  <2> QED  BY <1>2, <1>3, <2>1, <2>2 DEF CoreOK, Decided
<1> QED  BY <1>1, <1>3, <1>4, <1>5, <1>6, <1>7, WorkerStays, Assemble

LEMMA InsertStep ==
    ASSUME SealInv, InsertChain
    PROVE  SealInv'
<1> USE DEF chain, view, seal, locks
<1>0. SendOK /\ head \in Nat /\ head <= MaxBlock
  BY Parts
<1>1. /\ UNCHANGED <<seq, jobs, proposed, commitCh, finalizeCh, miner, worker, core, handed>>
      /\ head < MaxBlock
  BY DEF InsertChain
<1>2. PICK b \in Blocks : /\ decided[head + 1] \in {None, b}
                          /\ decided' = [decided EXCEPT ![head + 1] = b]
                          /\ blocks' = Append(blocks, b)
  BY DEF InsertChain, Requested, Blocks
<1>3. head + 1 \in 1 .. MaxBlock
  BY <1>0, <1>1, Bounds
<1>4. ChainStep
  BY <1>2, <1>3, ChainDecides, ChainGrows
<1>5. JobStep /\ SendOK'
  BY <1>0, <1>1, JobsStay DEF SendOK
<1> QED  BY <1>1, <1>4, <1>5, RestStays, CoreStays, WorkerStays, Assemble

-----------------------------------------------------------------------------
(* The steps of the miner *)

LEMMA MinerSteps ==
    ASSUME SealInv, MinerStep \/ \E next \in {"start", "stop"} : Call(next)
    PROVE  SealInv'
<1> USE DEF chain, view, seal, locks
<1>0. /\ RestType /\ SendOK /\ CoreOK /\ WorkerOK /\ head \in Nat /\ head <= MaxBlock
      /\ jobs \in [JobIds -> Job]
  BY Parts
<1>a. ChainStep /\ UNCHANGED <<blocks, decided, finalizeCh, worker>>
  <2>1. UNCHANGED <<blocks, decided, finalizeCh, worker>>
    BY DEF MinerStep, CallRefused, Start, Stop, HandlerExits, Call
  <2> QED  BY <2>1, ChainStays
<1>1. CASE CallRefused \/ \E next \in {"start", "stop"} : Call(next)
  <2>1. /\ UNCHANGED <<seq, jobs, proposed, commitCh, core, handed>>
        /\ miner' \in {"idle", "start", "stop"}
    BY <1>1 DEF CallRefused, Call, Return
  <2>2. JobStep
    BY <2>1, JobsStay
  <2>3. SendOK' /\ RestType'
    BY <1>0, <1>a, <2>1 DEF SendOK, RestType, head
  <2>4. CoreOK'
    BY <1>a, <2>1, <2>2, CoreStays
  <2> QED  BY <1>a, <2>2, <2>3, <2>4, WorkerStays, Assemble
<1>2. CASE Start \/ Stop
  <2>1. /\ UNCHANGED core /\ commitCh' = None /\ proposed' \in {proposed, None} /\ handed' = {}
        /\ jobs' = CloseCommitCh
        /\ \/ miner' = "posting" /\ seq' = head + 1
           \/ miner' = "stopping" /\ UNCHANGED seq
    BY <1>2 DEF Start, Stop
  <2>2. JobStep
    <3>1. CASE commitCh # None /\ jobs[commitCh].ch = "empty"
      <4> DEFINE k == commitCh
                 j == [jobs[k] EXCEPT !.ch = "closed"]
      <4>1. /\ k \in JobIds /\ jobs[k].pc \in {"wait", "cleanup"}
            /\ jobs' = [jobs EXCEPT ![k] = j]
        BY <1>0, <2>1, <3>1 DEF RestType, SendOK, CloseCommitCh
      <4>2. /\ j \in Job /\ j.pc = jobs[k].pc /\ j.num = jobs[k].num /\ j.ch = "closed"
            /\ j.got = jobs[k].got /\ j.result = jobs[k].result
        BY <1>0, <4>1 DEF Job
      <4> HIDE DEF j
      <4> QED  BY <4>1, <4>2, OneJob DEF Started
    <3>2. CASE ~ (commitCh # None /\ jobs[commitCh].ch = "empty")
      BY <2>1, <3>2, JobsStay DEF CloseCommitCh
    <3> QED  BY <3>1, <3>2
  <2>3. SendOK' /\ RestType'
    <3>1. SendOK'
      BY <2>1 DEF SendOK
    <3>2. seq' \in 0 .. head' + 1
      <4>1. head' = head /\ seq \in 0 .. head + 1
        BY <1>0, <1>a DEF head, RestType
      <4> QED  BY <1>0, <2>1, <4>1
    <3>3. proposed' \in JobIds \cup {None} /\ commitCh' \in JobIds \cup {None} /\ handed' \subseteq JobIds
      BY <1>0, <2>1 DEF RestType
    <3> QED  BY <1>0, <1>a, <2>1, <3>1, <3>2, <3>3 DEF RestType
  <2>4. CoreOK'
    <3>1. CASE UNCHANGED seq /\ miner' = "stopping"
      BY <1>a, <2>1, <2>2, <3>1, CoreStays
    <3>2. CASE seq' = head + 1
      <4>1. seq' > 0
        BY <1>0, <3>2
      <4>2. ASSUME NEW k \in JobIds, k = core.job, core.pc = "commit" PROVE Decided(k)'
        BY <1>0, <1>a, <2>2, <4>2, DecidedStays, Bounds DEF CoreOK
      <4>3. core.pc = "commit" => core.job = Other \/ core.job \in JobIds
        BY <1>0 DEF CoreOK
      <4> QED  BY <2>1, <4>1, <4>2, <4>3 DEF CoreOK, Decided
    <3> QED  BY <2>1, <3>1, <3>2
  <2> QED  BY <1>a, <2>2, <2>3, <2>4, WorkerStays, Assemble
<1>3. CASE HandlerExits
  <2>1. /\ UNCHANGED <<jobs, proposed, commitCh, handed>> /\ miner' = "idle"
        /\ core' = At("off", None) /\ seq' = 0
    BY <1>3 DEF HandlerExits, Return
  <2>2. JobStep
    BY <2>1, JobsStay
  <2>3. SendOK' /\ RestType' /\ CoreOK'
    BY <1>0, <1>a, <2>1 DEF SendOK, RestType, CoreOK, head, At
  <2> QED  BY <1>a, <2>2, <2>3, WorkerStays, Assemble
<1> QED  BY <1>1, <1>2, <1>3 DEF MinerStep

-----------------------------------------------------------------------------
(* The first theorems *)

LEMMA SealInit == Init => SealInv
<1> SUFFICES ASSUME Init PROVE SealInv
  OBVIOUS
<1>1. head = 0
  BY DEF Init, head
<1>2. TypeOK
  BY <1>1, Bounds DEF Init, TypeOK, Job, NoJob, At
<1>3. \A k \in JobIds : jobs[k] = NoJob
  BY DEF Init
<1>4. NoSendOnClosed /\ \A n \in 1 .. head : decided[n] # None
  BY <1>1 DEF Init, NoSendOnClosed
<1> QED  BY <1>2, <1>3, <1>4 DEF Init, SealInv, Started, NoJob, At

LEMMA SealStutters ==
    ASSUME SealInv, UNCHANGED vars
    PROVE  SealInv'
<1>1. UNCHANGED <<blocks, decided, seq, jobs, proposed, commitCh, finalizeCh, worker, core, miner, handed>>
  BY DEF vars, chain, view, seal
<1>2. ChainStep /\ JobStep /\ SendOK'
  BY <1>1, ChainStays, JobsStay, Parts DEF SendOK
<1> QED  BY <1>1, <1>2, RestStays, CoreStays, WorkerStays, Assemble

LEMMA SealInduction == SealInv /\ [Next]_vars => SealInv'
<1> SUFFICES ASSUME SealInv, [Next]_vars PROVE SealInv'
  OBVIOUS
<1>1. CASE \E k \in JobIds : SealStep(k)
  BY <1>1, SealSteps
<1>2. CASE WorkerStep
  BY <1>2, WorkerSteps
<1>3. CASE CoreStep \/ CatchUp
  BY <1>3, CoreSteps DEF CoreStep
<1>4. CASE \E b \in JobIds \cup {Other} : Decide(b)
  BY <1>4, DecideStep DEF Blocks
<1>5. CASE InsertChain
  BY <1>5, InsertStep
<1>6. CASE Call("start") \/ Call("stop") \/ MinerStep
  BY <1>6, MinerSteps
<1>7. CASE UNCHANGED vars
  BY <1>7, SealStutters
<1> QED  BY <1>1, <1>2, <1>3, <1>4, <1>5, <1>6, <1>7 DEF Next

\* SealInv is inductive.
THEOREM SealInvariance == Spec => []SealInv
  BY SealInit, SealInduction, PTL DEF Spec

\* Commit never sends on a channel that Start or Stop has closed: initSealState,
\* cleanupSealState, Start and Stop keep commitCh at an open channel or at nil.
THEOREM CommitChannelIsOpen == Spec => []NoSendOnClosed
<1>1. SealInv => NoSendOnClosed
  BY DEF SealInv
<1> QED  BY <1>1, SealInvariance, PTL

-----------------------------------------------------------------------------
(* The refinement *)

\* The number before one that may be decided is settled.
LEMMA DecidedInOrder ==
    ASSUME SealInv, NEW n \in 1 .. MaxBlock, n <= head + 1
    PROVE  n > 1 => decided[n - 1] # None
  BY HeadType, Bounds DEF SealInv

\* The chain grows by the block decided for its next number.
LEMMA GrowthIsExtend ==
    ASSUME SealInv, NEW b \in Blocks, head + 1 \in 1 .. MaxBlock, decided[head + 1] \in {None, b},
           decided' = [decided EXCEPT ![head + 1] = b], blocks' = Append(blocks, b)
    PROVE  Agreed!Next
<1>1. <<blocks>>[1] = blocks /\ Len(<<blocks>>[1]) + 1 = head + 1
  BY DEF head
<1>2. <<blocks'>> = [<<blocks>> EXCEPT ![1] = Append(@, b)]
  OBVIOUS
<1>3. Agreed!InOrder(head + 1)
  <2>1. head \in Nat
    BY HeadType DEF SealInv
  <2>2. head + 1 > 1 => decided[(head + 1) - 1] # None
    BY <2>1, DecidedInOrder
  <2> QED  BY <2>2 DEF Agreed!InOrder
<1>4. Agreed!Extend(1, b)
  BY <1>1, <1>2, <1>3 DEF Agreed!Extend, Agreed!Numbers
<1> QED  BY <1>4 DEF Agreed!Next, Blocks

LEMMA StepRefines ==
    ASSUME SealInv, Next
    PROVE  Agreed!Next \/ UNCHANGED <<decided, blocks>>
<1> USE DEF chain, view, seal
<1>0. /\ RestType /\ CoreOK /\ WorkerOK /\ head \in Nat /\ head <= MaxBlock
      /\ decided \in [1 .. MaxBlock -> Blocks \cup {None}]
  BY Parts DEF SealInv, TypeOK, Blocks
<1>1. CASE handleFinalizedBlock
  <2>1. CASE worker.pc = "block" /\ jobs[worker.job].num = head + 1
    <3>1. /\ worker.job \in Blocks /\ head + 1 \in 1 .. MaxBlock /\ decided[head + 1] = worker.job
      BY <1>0, <2>1 DEF WorkerOK, Decided, Blocks
    <3>2. blocks' = Append(blocks, worker.job) /\ decided' = decided
      BY <1>1, <2>1 DEF handleFinalizedBlock
    <3>3. decided' = [decided EXCEPT ![head + 1] = worker.job]
      BY <1>0, <3>1, <3>2
    <3> QED  BY <3>1, <3>2, <3>3, GrowthIsExtend
  <2>2. CASE ~ (worker.pc = "block" /\ jobs[worker.job].num = head + 1)
    BY <1>1, <2>2 DEF handleFinalizedBlock
  <2> QED  BY <2>1, <2>2
<1>2. CASE InsertChain
  <2>1. PICK b \in Blocks : /\ decided[head + 1] \in {None, b}
                            /\ decided' = [decided EXCEPT ![head + 1] = b]
                            /\ blocks' = Append(blocks, b)
    BY <1>2 DEF InsertChain, Requested, Blocks
  <2>2. head + 1 \in 1 .. MaxBlock
    BY <1>0, <1>2, Bounds DEF InsertChain
  <2> QED  BY <2>1, <2>2, GrowthIsExtend
<1>3. CASE \E b \in JobIds \cup {Other} : Decide(b)
  <2>1. PICK b \in Blocks : Decide(b)
    BY <1>3 DEF Blocks
  <2>2. /\ seq \in 1 .. MaxBlock /\ seq <= head + 1 /\ decided[seq] \in {None, b}
        /\ decided' = [decided EXCEPT ![seq] = b] /\ UNCHANGED blocks
    BY <1>0, <2>1, Bounds DEF Decide, RestType, CoreOK
  <2>3. CASE decided[seq] = None
    <3>1. Agreed!InOrder(seq)
      BY <2>2, DecidedInOrder DEF Agreed!InOrder
    <3>2. Agreed!Agree(seq, b)
      BY <2>2, <2>3, <3>1 DEF Agreed!Agree
    <3> QED  BY <2>2, <3>2 DEF Agreed!Next, Agreed!Numbers, Blocks
  <2>4. CASE decided[seq] = b
    BY <1>0, <2>2, <2>4
  <2> QED  BY <2>2, <2>3, <2>4
<1>4. CASE \E k \in JobIds : SealStep(k)
  BY <1>4 DEF SealStep, SubmitFails, Seal, SealReceives, cleanupSealState
<1>5. CASE ReceiveChainHead \/ NewChainHead \/ ReceiveResult \/ ReceiveNewSequence \/ commitNewWork
  BY <1>5 DEF ReceiveChainHead, NewChainHead, ReceiveResult, ReceiveNewSequence, commitNewWork
<1>6. CASE CoreStep \/ CatchUp
  BY <1>6 DEF CoreStep, handleChainHead, CommitSends, CommitSkips, CatchUp
<1>7. CASE Call("start") \/ Call("stop") \/ MinerStep
  BY <1>7 DEF Call, MinerStep, CallRefused, Start, Stop, HandlerExits
<1> QED  BY <1>1, <1>2, <1>3, <1>4, <1>5, <1>6, <1>7 DEF Next, WorkerStep

\* The path of a block inside a validator implements AgreedChain: a Decide agrees
\* on a block, handleFinalizedBlock and the fetcher's insertion extend the chain by
\* the agreed one, and Seal, Commit, Start and Stop stutter.
THEOREM PipelineRefines == Spec => ImplementsAgreedChain
<1>1. Init => Agreed!Init
  <2> SUFFICES ASSUME Init PROVE Agreed!Init
    OBVIOUS
  <2>1. decided = [n \in 1 .. MaxBlock |-> None] /\ blocks = <<>>
    BY DEF Init
  <2>2. <<blocks>> = [n \in {1} |-> <<>>]
    BY <2>1
  <2> QED  BY <2>1, <2>2 DEF Agreed!Init, Agreed!Numbers
<1>2. SealInv /\ [Next]_vars => [Agreed!Next]_(Agreed!vars)
  <2> SUFFICES ASSUME SealInv, [Next]_vars PROVE [Agreed!Next]_(Agreed!vars)
    OBVIOUS
  <2>1. CASE Next
    BY <2>1, StepRefines DEF Agreed!vars
  <2>2. CASE UNCHANGED vars
    BY <2>2 DEF vars, chain, view, Agreed!vars
  <2> QED  BY <2>1, <2>2
<1> QED  BY <1>1, <1>2, SealInvariance, PTL DEF Spec, ImplementsAgreedChain, Agreed!Spec

-----------------------------------------------------------------------------
(* The handed block is kept *)

Waits(k) == Started(k) => head >= jobs[k].num \/ finalizeCh = k \/ Superseded(k)

CoreWaits == core.pc = "commit" /\ commitCh # None =>
                 jobs[commitCh].pc = "wait" /\ jobs[commitCh].ch = "empty"

\* Where the handed block of job k is.
OnItsWay(k) ==
    \/ head >= jobs[k].num \/ finalizeCh # k
    \/ jobs[k].pc = "wait" /\ jobs[k].ch = "block"
    \/ jobs[k].pc = "cleanup" /\ jobs[k].got = "block"
    \/ jobs[k].result = "block"
    \/ worker = At("block", k)

Kept(k) == k \in handed => jobs[k].pc \in {"wait", "cleanup", "end"} /\ OnItsWay(k)

Ended(k) == jobs[k].result = "block" => jobs[k].pc = "end"

WorkerWaits == worker.pc = "block" => finalizeCh = worker.job

LEMMA KeptParts ==
    ASSUME SealInv
    PROVE  KeptInv <=> /\ WorkerWaits /\ CoreWaits
                       /\ \A k \in JobIds : Waits(k) /\ Ended(k) /\ Kept(k)
<1>1. handed \subseteq JobIds
  BY Parts DEF RestType
<1> QED  BY <1>1 DEF KeptInv, WorkerWaits, CoreWaits, Waits, Ended, Kept, OnItsWay

\* A job that neither starts nor changes its number, while the worker waits for the
\* same result.
LEMMA WaitsStays ==
    ASSUME SealInv, head' \in Nat, head' >= head, UNCHANGED finalizeCh,
           \A i \in JobIds : jobs'[i].num = jobs[i].num /\ (Started(i)' => Started(i)),
           NEW k \in JobIds, Waits(k)
    PROVE  Waits(k)'
<1>1. head \in Nat /\ jobs[k].num \in Nat /\ finalizeCh \in JobIds \cup {None}
  BY Parts, Bounds DEF Job, RestType
<1>2. CASE ~ Started(k)
  BY <1>2 DEF Waits
<1>3. CASE head >= jobs[k].num
  BY <1>1, <1>3 DEF Waits
<1>4. CASE finalizeCh = k
  BY <1>4 DEF Waits
<1>5. CASE Superseded(k)
  BY <1>1, <1>5 DEF Waits, Superseded
<1> QED  BY <1>2, <1>3, <1>4, <1>5 DEF Waits

\* A job that does not change at all.
LEMMA KeptStays ==
    ASSUME SealInv, head' \in Nat, head' >= head, NEW k \in JobIds, jobs'[k] = jobs[k],
           finalizeCh = k \/ finalizeCh' # k, worker = At("block", k) => worker' = worker,
           k \in handed' => k \in handed, Ended(k), Kept(k)
    PROVE  Ended(k)' /\ Kept(k)'
<1>1. head \in Nat /\ jobs[k].num \in Nat
  BY Parts, Bounds DEF Job
<1>2. Ended(k)'
  BY DEF Ended
<1>3. OnItsWay(k) => OnItsWay(k)'
  BY <1>1 DEF OnItsWay
<1> QED  BY <1>2, <1>3 DEF Kept

LEMMA KeptAssemble ==
    ASSUME SealInv', WorkerWaits', CoreWaits', \A k \in JobIds : Waits(k)' /\ Ended(k)' /\ Kept(k)'
    PROVE  KeptInv'
<1>1. handed' \subseteq JobIds
  BY DEF SealInv, TypeOK
<1>2. /\ \A k \in JobIds : Waits(k)' /\ Ended(k)'
      /\ \A k \in handed' : jobs'[k].pc \in {"wait", "cleanup", "end"} /\ OnItsWay(k)'
  BY <1>1 DEF Kept
<1> QED
  BY <1>2 DEF KeptInv, WorkerWaits, CoreWaits, Waits, Ended, OnItsWay

\* A step that changes no job, and not what the worker waits for or holds.
LEMMA JobsKept ==
    ASSUME SealInv, KeptInv, SealInv', head' \in Nat, head' >= head,
           UNCHANGED <<jobs, finalizeCh, handed>>, worker' = worker \/ worker.pc # "block",
           CoreWaits', WorkerWaits'
    PROVE  KeptInv'
<1>1. ASSUME NEW k \in JobIds PROVE Waits(k)' /\ Ended(k)' /\ Kept(k)'
  <2>1. Waits(k) /\ Ended(k) /\ Kept(k)
    BY KeptParts
  <2>2. Waits(k)'
    BY <2>1, WaitsStays DEF Started
  <2>3. worker = At("block", k) => worker' = worker
    BY DEF At
  <2>4. Ended(k)' /\ Kept(k)'
    BY <2>1, <2>3, KeptStays
  <2> QED  BY <2>2, <2>4
<1> QED  BY <1>1, KeptAssemble

LEMMA KeptSealSteps ==
    ASSUME SealInv, KeptInv, SealInv', NEW k \in JobIds, SealStep(k)
    PROVE  KeptInv'
<1> USE DEF chain, view, seal
<1>0. /\ RestType /\ SendOK /\ head \in Nat /\ jobs \in [JobIds -> Job] /\ jobs[k] \in Job
      /\ WorkerWaits /\ CoreWaits
      /\ \A i \in JobIds : Waits(i) /\ Ended(i) /\ Kept(i)
  BY Parts, KeptParts
<1>1. /\ UNCHANGED <<blocks, core, worker, finalizeCh, handed>>
      /\ head' = head
  BY DEF SealStep, SubmitFails, Seal, SealReceives, cleanupSealState, head
<1>2. PICK j \in Job : jobs' = [jobs EXCEPT ![k] = j] /\ j.num = jobs[k].num
  BY <1>0 DEF SealStep, SubmitFails, Seal, SealReceives, cleanupSealState, Job
<1>3. jobs'[k] = j /\ \A i \in JobIds \ {k} : jobs'[i] = jobs[i]
  BY <1>0, <1>2
<1>4. Started(k) /\ jobs[k].pc \in {"prepare", "wait", "cleanup"}
  BY DEF SealStep, SubmitFails, Seal, SealReceives, cleanupSealState, Started
<1>5. ASSUME NEW i \in JobIds PROVE Waits(i)'
  <2>1. \A m \in JobIds : jobs'[m].num = jobs[m].num /\ (Started(m)' => Started(m))
    BY <1>2, <1>3, <1>4 DEF Started
  <2> QED  BY <1>0, <1>1, <2>1, WaitsStays
<1>6. WorkerWaits'
  BY <1>0, <1>1 DEF WorkerWaits
<1>7. ASSUME NEW i \in JobIds \ {k} PROVE Ended(i)' /\ Kept(i)'
  BY <1>0, <1>1, <1>3, KeptStays
<1>8. CoreWaits' /\ Ended(k)' /\ Kept(k)'
  <2>1. CASE SubmitFails(k)
    <3>1. /\ jobs[k].pc = "prepare" /\ UNCHANGED commitCh
          /\ jobs'[k].result = "nil" /\ jobs'[k].pc = "end"
      BY <1>0, <2>1 DEF SubmitFails
    <3>2. commitCh # k /\ k \notin handed
      BY <1>0, <3>1, Bounds DEF SendOK, Kept
    <3>3. CoreWaits'
      BY <1>0, <1>1, <1>3, <3>1, <3>2 DEF CoreWaits, RestType
    <3> QED  BY <1>1, <3>1, <3>2, <3>3 DEF Ended, Kept
  <2>2. CASE Seal(k)
    <3>1. jobs[k].pc = "prepare" /\ k \notin handed
      BY <1>0, <2>2 DEF Seal, Kept
    <3>a. commitCh # k
      BY <1>0, <3>1, Bounds DEF SendOK
    <3>2. \/ commitCh' = k /\ jobs'[k].pc = "wait" /\ jobs'[k].ch = "empty"
             /\ jobs'[k].result = jobs[k].result
          \/ commitCh' = commitCh /\ commitCh # k /\ jobs'[k].result = "nil"
      <4>1. CASE skipped = jobs[k].num
        <5>1. commitCh' = commitCh /\ jobs' = [jobs EXCEPT ![k] = [jobs[k] EXCEPT !.pc = "end", !.result = "nil"]]
          BY <1>0, <2>2, <4>1 DEF Seal
        <5> QED  BY <1>0, <3>a, <5>1 DEF Job
      <4>2. CASE skipped # jobs[k].num
        <5>1. commitCh' = k /\ jobs' = [jobs EXCEPT ![k] = [jobs[k] EXCEPT !.pc = "wait", !.ch = "empty"]]
          BY <1>0, <2>2, <4>2 DEF Seal
        <5> QED  BY <1>0, <5>1 DEF Job
      <4> QED  BY <4>1, <4>2
    <3>3. CoreWaits'
      BY <1>0, <1>1, <1>3, <3>2 DEF CoreWaits, RestType
    <3>4. Ended(k)'
      BY <1>0, <3>1, <3>2 DEF Ended
    <3> QED  BY <1>1, <3>1, <3>3, <3>4 DEF Kept
  <2>3. CASE SealReceives(k)
    <3>1. /\ jobs[k].pc = "wait" /\ jobs[k].ch # "empty" /\ UNCHANGED commitCh
          /\ jobs'[k].pc = "cleanup" /\ jobs'[k].result = jobs[k].result
          /\ (jobs[k].ch = "block" => jobs'[k].got = "block")
      BY <1>0, <2>3 DEF SealReceives, Job
    <3>2. CoreWaits'
      BY <1>0, <1>1, <1>3, <3>1 DEF CoreWaits, RestType
    <3>3. Ended(k)'
      BY <1>0, <3>1 DEF Ended
    <3>4. Kept(k)'
      BY <1>0, <1>1, <1>2, <1>3, <3>1 DEF Kept, OnItsWay
    <3> QED  BY <3>2, <3>3, <3>4
  <2>4. CASE cleanupSealState(k)
    <3>1. /\ jobs[k].pc = "cleanup" /\ commitCh' = None
          /\ jobs'[k].pc = "end" /\ jobs'[k].result = jobs[k].got
      BY <1>0, <2>4 DEF cleanupSealState
    <3>2. CoreWaits' /\ Ended(k)'
      BY <3>1 DEF CoreWaits, Ended
    <3>3. jobs[k].result # "block"
      BY <1>0, <3>1 DEF Ended
    <3>4. Kept(k)'
      BY <1>0, <1>1, <1>2, <1>3, <3>1, <3>3 DEF Kept, OnItsWay
    <3> QED  BY <3>2, <3>4
  <2> QED  BY <2>1, <2>2, <2>3, <2>4 DEF SealStep
<1> QED  BY <1>5, <1>6, <1>7, <1>8, KeptAssemble

LEMMA KeptWorkerSteps ==
    ASSUME SealInv, KeptInv, SealInv', WorkerStep
    PROVE  KeptInv'
<1> USE DEF chain, view, seal, locks
<1>0. /\ RestType /\ SendOK /\ WorkerOK /\ head \in Nat /\ jobs \in [JobIds -> Job]
      /\ WorkerWaits /\ CoreWaits
      /\ \A i \in JobIds : Waits(i) /\ Ended(i) /\ Kept(i)
  BY Parts, KeptParts
<1>1. CASE ReceiveChainHead \/ NewChainHead \/ ReceiveNewSequence
  <2>1. /\ UNCHANGED <<blocks, jobs, commitCh, finalizeCh, handed>> /\ worker.pc # "block"
        /\ worker'.pc # "block" /\ (core' = core \/ core'.pc = "select") /\ head' = head
    BY <1>1 DEF ReceiveChainHead, NewChainHead, ReceiveNewSequence, At, head
  <2>2. WorkerWaits' /\ CoreWaits'
    BY <1>0, <2>1 DEF WorkerWaits, CoreWaits
  <2>3. head' \in Nat /\ head' >= head
    BY <1>0, <2>1
  <2> QED  BY <2>1, <2>2, <2>3, JobsKept
<1>2. CASE ReceiveResult
  <2>0. PICK k \in JobIds : k = finalizeCh
    BY <1>0, <1>2 DEF ReceiveResult, RestType
  <2> DEFINE j == [jobs[k] EXCEPT !.result = "taken"]
  <2>1. /\ UNCHANGED <<blocks, core, commitCh, finalizeCh, handed>> /\ worker.pc = "select"
        /\ finalizeCh = k /\ jobs[k].result \in {"nil", "block"} /\ jobs' = [jobs EXCEPT ![k] = j]
        /\ worker' = IF jobs[k].result = "nil" THEN At("nothing", None) ELSE At("block", k)
        /\ head' = head
    BY <1>0, <1>2, <2>0 DEF ReceiveResult, head
  <2>2. /\ jobs'[k].num = jobs[k].num /\ jobs'[k].pc = jobs[k].pc /\ jobs'[k].ch = jobs[k].ch
        /\ jobs'[k].got = jobs[k].got /\ jobs'[k].result = "taken"
        /\ \A i \in JobIds \ {k} : jobs'[i] = jobs[i]
    BY <1>0, <2>1 DEF Job
  <2>3. head' \in Nat /\ head' >= head
    BY <1>0, <2>1
  <2>4. ASSUME NEW i \in JobIds PROVE Waits(i)'
    <3>1. \A m \in JobIds : jobs'[m].num = jobs[m].num /\ (Started(m)' => Started(m))
      BY <2>2 DEF Started
    <3> QED  BY <1>0, <2>1, <2>3, <3>1, WaitsStays
  <2>5. WorkerWaits' /\ CoreWaits'
    <3>1. WorkerWaits'
      BY <2>1 DEF WorkerWaits, At
    <3>2. CoreWaits'
      BY <1>0, <2>1, <2>2 DEF CoreWaits, RestType
    <3> QED  BY <3>1, <3>2
  <2>6. ASSUME NEW i \in JobIds, i # k PROVE Ended(i)' /\ Kept(i)'
    <3>1. jobs'[i] = jobs[i] /\ worker # At("block", i)
      BY <2>1, <2>2, <2>6 DEF At
    <3> QED  BY <1>0, <2>1, <2>3, <3>1, KeptStays
  <2>7. Ended(k)' /\ Kept(k)'
    <3>1. worker # At("block", k)
      BY <2>1 DEF At
    <3>2. CASE jobs[k].result = "block"
      <4>1. worker' = At("block", k)
        BY <2>1, <3>2
      <4> QED  BY <1>0, <2>1, <2>2, <4>1 DEF Ended, Kept, OnItsWay
    <3>3. CASE jobs[k].result = "nil"
      BY <1>0, <2>1, <2>2, <3>1, <3>3 DEF Ended, Kept, OnItsWay
    <3> QED  BY <2>1, <3>2, <3>3
  <2>8. \A i \in JobIds : Waits(i)' /\ Ended(i)' /\ Kept(i)'
    BY <2>4, <2>6, <2>7
  <2> QED  BY <2>5, <2>8, KeptAssemble
<1>3. CASE handleFinalizedBlock
  <2>1. /\ UNCHANGED <<jobs, commitCh, core, handed>> /\ worker'.pc = "select"
        /\ worker.pc \in {"nothing", "block"}
        /\ finalizeCh' = IF worker.pc = "block" THEN None ELSE finalizeCh
        /\ blocks' = IF worker.pc = "block" /\ jobs[worker.job].num = head + 1
                     THEN Append(blocks, worker.job) ELSE blocks
    BY <1>3 DEF handleFinalizedBlock, At
  <2>2. WorkerWaits' /\ CoreWaits'
    BY <1>0, <2>1 DEF WorkerWaits, CoreWaits
  <2>3. CASE worker.pc = "nothing"
    <3>1. head' = head /\ UNCHANGED finalizeCh
      BY <2>1, <2>3 DEF head
    <3>2. head' \in Nat /\ head' >= head
      BY <1>0, <3>1
    <3> QED  BY <2>1, <2>2, <2>3, <3>1, <3>2, JobsKept
  <2>4. CASE worker.pc = "block"
    <3> DEFINE f == worker.job
    <3>1. f \in JobIds /\ Decided(f) /\ finalizeCh = f /\ finalizeCh' = None
      BY <1>0, <2>1, <2>4 DEF WorkerOK, WorkerWaits
    <3>2. head' \in Nat /\ head' >= head /\ head' >= jobs[f].num
      <4>1. jobs[f].num \in 1 .. head + 1
        <5>1. Started(f)
          BY <3>1, DecidedStarted
        <5> QED  BY <3>1, <5>1 DEF SealInv
      <4>2. CASE jobs[f].num = head + 1
        <5>1. blocks' = Append(blocks, f) /\ blocks \in Seq(Blocks) /\ f \in Blocks
          BY <2>1, <2>4, <3>1, <4>2 DEF SealInv, TypeOK, Blocks
        <5>2. head' = head + 1
          BY <5>1 DEF head
        <5> QED  BY <1>0, <4>2, <5>2
      <4>3. CASE jobs[f].num # head + 1
        <5>1. head' = head
          BY <2>1, <4>3 DEF head
        <5> QED  BY <1>0, <4>1, <4>3, <5>1
      <4> QED  BY <4>2, <4>3
    <3>3. ASSUME NEW i \in JobIds PROVE Waits(i)' /\ Ended(i)' /\ Kept(i)'
      <4>1. Started(i) => head >= jobs[i].num \/ jobs[f].num = jobs[i].num
        BY <1>0, <3>1 DEF Waits, Superseded
      <4>2. jobs[i].num \in Nat
        BY <1>0, Bounds DEF Job
      <4>3. Waits(i)'
        BY <1>0, <2>1, <3>2, <4>1, <4>2 DEF Waits, Started
      <4>4. finalizeCh' # i
        BY <3>1, Bounds
      <4>5. Ended(i)' /\ Kept(i)'
        BY <1>0, <2>1, <4>4 DEF Ended, Kept, OnItsWay
      <4> QED  BY <4>3, <4>5
    <3> QED  BY <2>2, <3>3, KeptAssemble
  <2> QED  BY <2>1, <2>3, <2>4
<1>4. CASE commitNewWork
  <2>1. /\ UNCHANGED <<blocks, commitCh, core, handed>> /\ worker'.pc = "select"
        /\ worker.pc = "work" /\ head' = head
    BY <1>4 DEF commitNewWork, At, head
  <2>2. WorkerWaits' /\ head' \in Nat /\ head' >= head
    BY <1>0, <2>1 DEF WorkerWaits
  <2>3. CASE UNCHANGED <<jobs, finalizeCh>>
    <3>1. CoreWaits'
      BY <1>0, <2>1, <2>3 DEF CoreWaits
    <3> QED  BY <2>1, <2>2, <2>3, <3>1, JobsKept
  <2>4. CASE ~ UNCHANGED <<jobs, finalizeCh>>
    <3>1. PICK k \in JobIds :
              /\ head < MaxBlock /\ jobs[k] = NoJob /\ finalizeCh' = k
              /\ jobs' = [jobs EXCEPT ![k] = [NoJob EXCEPT !.num = head + 1, !.pc = "prepare"]]
      BY <1>4, <2>4 DEF commitNewWork
    <3>2. /\ jobs'[k].num = head + 1 /\ jobs'[k].result = "none"
          /\ \A i \in JobIds \ {k} : jobs'[i] = jobs[i]
      BY <1>0, <3>1 DEF NoJob
    <3>3. k \notin handed /\ commitCh # k
      BY <1>0, <3>1, Bounds DEF Kept, SendOK, NoJob
    <3>4. CoreWaits'
      BY <1>0, <2>1, <3>2, <3>3 DEF CoreWaits, RestType
    <3>5. Waits(k)' /\ Ended(k)' /\ Kept(k)'
      BY <2>1, <3>1, <3>2, <3>3 DEF Waits, Ended, Kept
    <3>6. ASSUME NEW i \in JobIds, i # k PROVE Waits(i)' /\ Ended(i)' /\ Kept(i)'
      <4>1. jobs'[i] = jobs[i] /\ finalizeCh' # i
        BY <3>1, <3>2, <3>6
      <4>2. Started(i) => jobs[i].num \in 1 .. head + 1
        BY DEF SealInv
      <4>3. Waits(i)'
        <5>1. CASE head >= jobs[i].num
          BY <2>1, <4>1, <5>1 DEF Waits
        <5>2. CASE Started(i) /\ ~ head >= jobs[i].num
          <6>1. jobs[i].num = head + 1
            BY <1>0, <4>2, <5>2
          <6>2. Superseded(i)'
            BY <3>1, <3>2, <3>6, <4>1, <6>1 DEF Superseded
          <6> QED  BY <6>2 DEF Waits
        <5>3. CASE ~ Started(i)
          BY <4>1, <5>3 DEF Waits, Started
        <5> QED  BY <5>1, <5>2, <5>3
      <4>4. Ended(i)' /\ Kept(i)'
        BY <1>0, <2>1, <4>1 DEF Ended, Kept, OnItsWay
      <4> QED  BY <4>3, <4>4
    <3>7. \A i \in JobIds : Waits(i)' /\ Ended(i)' /\ Kept(i)'
      BY <3>5, <3>6
    <3> QED  BY <2>2, <3>4, <3>7, KeptAssemble
  <2> QED  BY <2>3, <2>4
<1> QED  BY <1>1, <1>2, <1>3, <1>4 DEF WorkerStep

\* This is where a decision has to take longer than the return of a woken Seal:
\* Commit then finds the channel of a Seal that waits, and finds it empty.
LEMMA KeptCoreSteps ==
    ASSUME SealInv, KeptInv, SealInv', SlowConsensus,
           CoreStep \/ CatchUp \/ InsertChain \/ \E b \in Blocks : Decide(b)
    PROVE  KeptInv'
<1> USE DEF chain, view, seal, locks
<1>0. /\ RestType /\ SendOK /\ head \in Nat /\ jobs \in [JobIds -> Job]
      /\ WorkerWaits /\ CoreWaits
      /\ \A i \in JobIds : Waits(i) /\ Ended(i) /\ Kept(i)
  BY Parts, KeptParts
<1>1. head' \in Nat /\ head' >= head /\ UNCHANGED <<worker, finalizeCh>> /\ WorkerWaits'
  <2>1. UNCHANGED <<worker, finalizeCh>>
    BY DEF CoreStep, handleChainHead, CommitSends, CommitSkips, CatchUp, InsertChain, Decide
  <2>2. CASE UNCHANGED blocks
    BY <1>0, <2>1, <2>2 DEF WorkerWaits, head
  <2>3. CASE ~ UNCHANGED blocks
    <3>1. InsertChain
      BY <2>3 DEF CoreStep, handleChainHead, CommitSends, CommitSkips, CatchUp, Decide
    <3>2. PICK b \in Blocks : blocks' = Append(blocks, b)
      BY <3>1 DEF InsertChain, Requested, Blocks
    <3>3. blocks \in Seq(Blocks)
      BY DEF SealInv, TypeOK, Blocks
    <3> QED  BY <1>0, <2>1, <3>2, <3>3 DEF WorkerWaits, head
  <2> QED  BY <2>2, <2>3
<1>2. CASE handleChainHead \/ CatchUp \/ CommitSkips \/ InsertChain
  <2>1. /\ UNCHANGED <<jobs, commitCh, handed>>
        /\ core' = core \/ core'.pc \in {"post", "select"}
    <3>1. CASE handleChainHead \/ CatchUp
      <4>1. UNCHANGED <<jobs, commitCh, handed>> /\ (core' = core \/ core' = At("post", None))
        BY <3>1 DEF handleChainHead, CatchUp, NewSequence
      <4> QED  BY <4>1 DEF At
    <3>2. CASE CommitSkips
      BY <3>2 DEF CommitSkips, At
    <3>3. CASE InsertChain
      BY <3>3 DEF InsertChain
    <3> QED  BY <1>2, <3>1, <3>2, <3>3
  <2>2. CoreWaits'
    BY <1>0, <2>1 DEF CoreWaits
  <2> QED  BY <1>1, <2>1, <2>2, JobsKept
<1>3. CASE \E b \in Blocks : Decide(b)
  <2>1. UNCHANGED <<jobs, commitCh, handed>> /\ \A k \in JobIds : ~ Woken(k)
    BY <1>3 DEF Decide
  <2>2. ASSUME commitCh # None PROVE jobs[commitCh].pc = "wait" /\ jobs[commitCh].ch = "empty"
    <3>1. commitCh \in JobIds /\ jobs[commitCh].pc \in {"wait", "cleanup"} /\ ~ Woken(commitCh)
      BY <1>0, <2>1, <2>2 DEF RestType, SendOK
    <3> QED  BY <3>1 DEF Woken
  <2>3. CoreWaits'
    BY <2>1, <2>2 DEF CoreWaits
  <2> QED  BY <1>1, <2>1, <2>3, JobsKept
<1>4. CASE CommitSends
  <2>0. PICK k \in JobIds : k = commitCh
    BY <1>0, <1>4 DEF CommitSends, RestType
  <2>1. /\ proposed = k /\ jobs[k].pc = "wait" /\ jobs[k].ch = "empty" /\ k # None
    BY <1>0, <1>4, <2>0 DEF CommitSends, CoreWaits, SendOK
  <2>2. /\ jobs' = [jobs EXCEPT ![k].ch = Content(core.job)] /\ core' = At("select", None)
        /\ handed' = IF k = core.job THEN handed \cup {k} ELSE handed
    BY <1>4, <2>0, <2>1 DEF CommitSends
  <2>3. /\ \A i \in JobIds \ {k} : jobs'[i] = jobs[i]
        /\ jobs'[k].num = jobs[k].num /\ jobs'[k].pc = jobs[k].pc
        /\ jobs'[k].ch = Content(core.job) /\ jobs'[k].result = jobs[k].result
    BY <1>0, <2>2 DEF Job
  <2>4. ASSUME NEW i \in JobIds PROVE Waits(i)'
    <3>1. \A m \in JobIds : jobs'[m].num = jobs[m].num /\ (Started(m)' => Started(m))
      BY <2>3 DEF Started
    <3> QED  BY <1>0, <1>1, <3>1, WaitsStays
  <2>5. CoreWaits'
    BY <2>2 DEF CoreWaits, At
  <2>6. ASSUME NEW i \in JobIds, i # k PROVE Ended(i)' /\ Kept(i)'
    <3>1. jobs'[i] = jobs[i] /\ (i \in handed' => i \in handed)
      BY <2>2, <2>3, <2>6
    <3> QED  BY <1>0, <1>1, <3>1, KeptStays
  <2>7. Ended(k)' /\ Kept(k)'
    <3>1. jobs[k].num \in Nat
      BY <1>0, Bounds DEF Job
    <3>2. jobs[k].result # "block" /\ Ended(k)'
      BY <1>0, <2>1, <2>3 DEF Ended
    <3>3. CASE k = core.job
      <4>1. jobs'[k].ch = "block"
        BY <2>1, <2>3, <3>3 DEF Content
      <4> QED  BY <2>1, <2>3, <3>2, <4>1 DEF Kept, OnItsWay
    <3>4. CASE k # core.job
      <4>1. k \in handed' => head >= jobs[k].num \/ finalizeCh # k \/ worker = At("block", k)
        BY <1>0, <2>1, <2>2, <3>2, <3>4 DEF Kept, OnItsWay
      <4>2. k \in handed' => head' >= jobs'[k].num \/ finalizeCh' # k \/ worker' = At("block", k)
        <5>1. head >= jobs[k].num => head' >= jobs[k].num
          BY <1>0, <1>1, <3>1
        <5> QED  BY <1>1, <2>3, <4>1, <5>1
      <4> QED  BY <2>1, <2>3, <3>2, <4>2 DEF Kept, OnItsWay
    <3> QED  BY <3>3, <3>4
  <2>8. \A i \in JobIds : Waits(i)' /\ Ended(i)' /\ Kept(i)'
    BY <2>4, <2>6, <2>7
  <2> QED  BY <1>1, <2>5, <2>8, KeptAssemble
<1> QED  BY <1>2, <1>3, <1>4 DEF CoreStep

LEMMA KeptMinerSteps ==
    ASSUME SealInv, KeptInv, SealInv', Call("start") \/ Call("stop") \/ MinerStep
    PROVE  KeptInv'
<1> USE DEF chain, view, seal, locks
<1>0. /\ RestType /\ SendOK /\ head \in Nat /\ jobs \in [JobIds -> Job]
      /\ WorkerWaits /\ CoreWaits
      /\ \A i \in JobIds : Waits(i) /\ Ended(i) /\ Kept(i)
  BY Parts, KeptParts
<1>1. head' = head /\ UNCHANGED <<worker, finalizeCh>> /\ WorkerWaits'
  <2>1. UNCHANGED <<blocks, worker, finalizeCh>>
    BY DEF Call, MinerStep, CallRefused, Start, Stop, HandlerExits
  <2> QED  BY <1>0, <2>1 DEF WorkerWaits, head
<1>2. CASE Call("start") \/ Call("stop") \/ CallRefused \/ HandlerExits
  <2>1. UNCHANGED <<jobs, commitCh, handed>> /\ (core' = core \/ core'.pc = "off")
    <3>1. CASE Call("start") \/ Call("stop") \/ CallRefused
      BY <3>1 DEF Call, CallRefused
    <3>2. CASE HandlerExits
      BY <3>2 DEF HandlerExits, At
    <3> QED  BY <1>2, <3>1, <3>2
  <2>2. CoreWaits'
    BY <1>0, <2>1 DEF CoreWaits
  <2> QED  BY <1>0, <1>1, <2>1, <2>2, JobsKept
<1>3. CASE Start \/ Stop
  <2>1. commitCh' = None /\ handed' = {} /\ jobs' = CloseCommitCh
    BY <1>3 DEF Start, Stop
  <2>2. ASSUME NEW i \in JobIds
        PROVE  /\ jobs'[i].num = jobs[i].num /\ jobs'[i].pc = jobs[i].pc
               /\ jobs'[i].result = jobs[i].result
    BY <1>0, <2>1 DEF CloseCommitCh, Job
  <2>3. ASSUME NEW i \in JobIds PROVE Waits(i)' /\ Ended(i)' /\ Kept(i)'
    <3>1. Waits(i)'
      <4>1. \A m \in JobIds : jobs'[m].num = jobs[m].num /\ (Started(m)' => Started(m))
        BY <2>2 DEF Started
      <4>2. head' \in Nat /\ head' >= head
        BY <1>0, <1>1
      <4> QED  BY <1>0, <1>1, <4>1, <4>2, WaitsStays
    <3>2. Ended(i)' /\ Kept(i)'
      BY <1>0, <2>1, <2>2 DEF Ended, Kept
    <3> QED  BY <3>1, <3>2
  <2>4. CoreWaits'
    BY <2>1 DEF CoreWaits
  <2> QED  BY <1>1, <2>3, <2>4, KeptAssemble
<1> QED  BY <1>2, <1>3 DEF MinerStep

LEMMA KeptInduction ==
    ASSUME SlowConsensus
    PROVE  SealInv /\ KeptInv /\ [Next]_vars => KeptInv'
<1> SUFFICES ASSUME SealInv, KeptInv, [Next]_vars PROVE KeptInv'
  OBVIOUS
<1>0. SealInv'
  BY SealInduction
<1>1. CASE \E k \in JobIds : SealStep(k)
  BY <1>0, <1>1, KeptSealSteps
<1>2. CASE WorkerStep
  BY <1>0, <1>2, KeptWorkerSteps
<1>3. CASE CoreStep \/ CatchUp \/ InsertChain \/ \E b \in JobIds \cup {Other} : Decide(b)
  BY <1>0, <1>3, KeptCoreSteps DEF Blocks
<1>4. CASE Call("start") \/ Call("stop") \/ MinerStep
  BY <1>0, <1>4, KeptMinerSteps
<1>5. CASE UNCHANGED vars
  <2>1. UNCHANGED <<blocks, jobs, finalizeCh, handed, worker, core, commitCh>>
    BY <1>5 DEF vars, chain, seal
  <2>2. head' \in Nat /\ head' >= head
    BY <2>1, Parts DEF head
  <2>3. CoreWaits' /\ WorkerWaits'
    BY <2>1, KeptParts DEF CoreWaits, WorkerWaits
  <2> QED  BY <1>0, <2>1, <2>2, <2>3, JobsKept
<1> QED  BY <1>1, <1>2, <1>3, <1>4, <1>5 DEF Next

\* With consensus slower than the return of a woken Seal, the own block that Commit
\* hands to Seal stays in commitCh, in Seal, in finalizeCh or with the worker until
\* the chain has its number, for any interleaving of the goroutines.
THEOREM HandedBlocksAreKept ==
    ASSUME SlowConsensus
    PROVE  Spec => []HandedBlockKept
<1>1. Init => KeptInv
  <2> SUFFICES ASSUME Init PROVE KeptInv
    OBVIOUS
  <2>1. \A k \in JobIds : ~ Started(k) /\ jobs[k].result = "none"
    BY DEF Init, Started, NoJob
  <2>2. worker.pc = "select" /\ core.pc = "off" /\ handed = {}
    BY DEF Init, At
  <2> QED  BY <2>1, <2>2 DEF KeptInv
<1>2. SealInv /\ KeptInv => HandedBlockKept
  <2> SUFFICES ASSUME SealInv, KeptInv, NEW k \in handed
               PROVE  \/ head >= jobs[k].num
                      \/ jobs[k].pc = "wait" /\ jobs[k].ch = "block"
                      \/ jobs[k].pc = "cleanup" /\ jobs[k].got = "block"
                      \/ jobs[k].result = "block" /\ finalizeCh = k
                      \/ worker = At("block", k)
                      \/ finalizeCh \in JobIds \ {k} /\ jobs[finalizeCh].num = jobs[k].num
    BY DEF HandedBlockKept
  <2>1. k \in JobIds /\ Waits(k) /\ Kept(k)
    BY Parts, KeptParts DEF RestType
  <2>2. Started(k) /\ OnItsWay(k)
    BY <2>1 DEF Kept, Started
  <2> QED  BY <2>1, <2>2 DEF Waits, OnItsWay, Superseded
<1> QED  BY <1>1, <1>2, KeptInduction, SealInit, SealInduction, PTL DEF Spec
=============================================================================
