---------------------------- MODULE BlockFetcher ----------------------------
(***************************************************************************)
(* The block fetcher of a node: the loop that turns announcements of       *)
(* hashes into header and body requests, the queue of blocks waiting for   *)
(* their parents, the worker that inserts them into the chain, and the     *)
(* counters that limit what one peer may have outstanding.                 *)
(*                                                                         *)
(* Headers and bodies arrive at any time from any peer, asked for or not,  *)
(* or never.  Time is abstract: which announcements are old enough is      *)
(* chosen when a timer fires, and a timer is armed or not.                 *)
(***************************************************************************)
EXTENDS Integers, Sequences, FiniteSetsExt

CONSTANTS
    Peers, Hashes,
    Number,        \* Number[h]: the number in the header of the block h
    Valid,         \* the blocks that pass the verification and the insertion
    EmptyBody,     \* the blocks without transactions
    TxHash,        \* TxHash[h]: the body the header of h commits to
    hashLimit, blockLimit, maxQueueDist, numInsertTasks,
    MaxNotify,     \* bound: calls of Notify
    MaxEnqueue,    \* bound: calls of Enqueue
    MaxOthers,     \* bound: blocks that reach the chain by other ways
    None

ASSUME BlocksAssumption ==
    /\ Number \in [Hashes -> Nat \ {0}] /\ Valid \subseteq Hashes
    /\ EmptyBody \subseteq Hashes /\ DOMAIN TxHash = Hashes
    /\ \A g, h \in Valid : Number[g] = Number[h] => g = h
    /\ {Number[h] : h \in Valid} = 1 .. Cardinality(Valid)

ASSUME LimitsAssumption ==
    /\ {hashLimit, blockLimit, maxQueueDist, numInsertTasks} \subseteq Nat \ {0}
    /\ {MaxNotify, MaxEnqueue, MaxOthers} \subseteq Nat

VARIABLES
    height,         \* the number of the current block
    announces,      \* announces[p]: the announce count of a peer
    announced,      \* announced[h]: the announcements waiting for the fetch timer
    fetching,       \* fetching[h]: the announcement whose header was asked for
    fetched,        \* fetched[h]: the announcement whose header has arrived
    completing,     \* completing[h]: the announcement whose body was asked for
    fetchTimer,     \* is the timer armed?
    completeTimer,
    queue,          \* the blocks waiting for import
    queues,         \* queues[p]: the block count of a peer
    queued,         \* queued[h]: the peer a block in the queue or in import is from
    insertTasks,    \* the channel to the worker
    done,           \* the channel from the worker
    loop,           \* the loop: where it is, and its last reading of the height
    worker,         \* the worker: where it is, and its block
    calls

announcements == <<announces, announced, fetching, fetched, completing>>
timers == <<fetchTimer, completeTimer>>
imports == <<queue, queues, queued>>
channels == <<insertTasks, done>>
vars == <<height, announcements, timers, imports, channels, loop, worker, calls>>

Heights == 0 .. Cardinality(Valid)
Announcement == [origin : Peers, number : Nat]

\* A hash has 32 bytes, so there are finitely many.
ASSUME ValuesAssumption ==
    IsFiniteSet(Hashes) /\ None \notin Peers /\ None \notin Hashes /\ None \notin Announcement

\* Whether getBlock finds the block: the chain holds the valid blocks up to height.
Known(h) == h \in Valid /\ Number[h] <= height

\* dist in the code: how far a number is above the chain.
Near(n) == n - height \in 1 .. maxQueueDist

Init ==
    /\ height = 0
    /\ announces = [p \in Peers |-> 0] /\ queues = [p \in Peers |-> 0]
    /\ announced = [h \in Hashes |-> <<>>]
    /\ fetching = [h \in Hashes |-> None]
    /\ fetched = fetching /\ completing = fetching /\ queued = fetching
    /\ fetchTimer = TRUE /\ completeTimer = TRUE
    /\ queue = {} /\ insertTasks = <<>> /\ done = <<>>
    /\ loop = [pc |-> "top", height |-> 0]
    /\ worker = [pc |-> "idle", hash |-> None]
    /\ calls = [notify |-> 0, enqueue |-> 0, others |-> 0]

-----------------------------------------------------------------------------
(* Forgetting and queueing *)

\* The announcements of h that wait for the fetch timer, and those further on.
Waiting(h) == {<<h, i, announced[h][i]>> : i \in DOMAIN announced[h]}
Further(h) == {<<h, -1, fetching[h]>>, <<h, -2, fetched[h]>>, <<h, -3, completing[h]>>}

\* How many of some entries are of p.
Count(entries, p) == Cardinality({e \in entries : e[3] # None /\ e[3].origin = p})

\* forgetHash takes one off the count for each entry, although only the announcement
\* was counted, and once.
Discounted(H) ==
    [p \in Peers |-> announces[p] - Count(UNION {Waiting(h) \cup Further(h) : h \in H}, p)]

Without(f, H, none) == [h \in Hashes |-> IF h \in H THEN none ELSE f[h]]

\* Mutant: the count is only given back for announcements that were acted upon.
forgetHashKeepsCount(H) ==
    /\ announces' = [p \in Peers |-> announces[p] - Count(UNION {Further(h) : h \in H}, p)]
    /\ announced' = Without(announced, H, <<>>)
    /\ fetching' = Without(fetching, H, None)
    /\ fetched' = Without(fetched, H, None)
    /\ completing' = Without(completing, H, None)

forgetHash(H) ==
    /\ announces' = Discounted(H)
    /\ announced' = Without(announced, H, <<>>)
    /\ fetching' = Without(fetching, H, None)
    /\ fetched' = Without(fetched, H, None)
    /\ completing' = Without(completing, H, None)

forgetBlock(h) ==
    /\ queues' = IF queued[h] = None THEN queues ELSE [queues EXCEPT ![queued[h]] = @ - 1]
    /\ queued' = [queued EXCEPT ![h] = None]

\* Mutant: the limit is compared with the count of before.
PushedOneMore(p, H) ==
    LET fresh == {h \in H : Near(Number[h]) /\ queued[h] = None}
        room == blockLimit + 1 - queues[p]
    IN {T \in SUBSET fresh : Cardinality(T) = Min({Cardinality(fresh), room})}

\* enqueue for the blocks H of one peer, one after the other in any order: those in
\* range are pushed while the peer has room, one already queued is left alone, and
\* what is refused is forgotten.
Pushed(p, H) ==
    LET fresh == {h \in H : Near(Number[h]) /\ queued[h] = None}
        room == blockLimit - queues[p]
    IN {T \in SUBSET fresh : Cardinality(T) = Min({Cardinality(fresh), room})}

Refused(p, H, T) ==
    IF queues[p] >= blockLimit THEN H
    ELSE {h \in H \ T : ~ Near(Number[h]) \/ queued[h] = None}

\* Mutant: a block that is already queued is pushed again.
PushAgain(p, T, H) ==
    /\ queue' = queue \cup H
    /\ queued' = [h \in Hashes |-> IF h \in T THEN p ELSE queued[h]]
    /\ queues' = [queues EXCEPT ![p] = @ + Cardinality(T)]

Push(p, T, H) ==
    /\ queue' = queue \cup T
    /\ queued' = [h \in Hashes |-> IF h \in T THEN p ELSE queued[h]]
    /\ queues' = [queues EXCEPT ![p] = @ + Cardinality(T)]

-----------------------------------------------------------------------------
(* The loop, before it waits *)

\* Fetches that took too long are forgotten, and the height is read.
LoopTop ==
    /\ loop.pc = "top"
    /\ \E expired \in SUBSET {h \in Hashes : fetching[h] # None} : forgetHash(expired)
    /\ loop' = [pc |-> "import", height |-> height]
    /\ UNCHANGED <<height, timers, imports, channels, worker, calls>>

\* Mutant: the priority of a block is its number.
FirstHighest(h) == h \in queue /\ \A g \in queue : Number[h] >= Number[g]

\* A block with the lowest number in the queue.
First(h) == h \in queue /\ \A g \in queue : Number[h] <= Number[g]

\* A queued block is popped.  The break after the wait for a full channel leaves only
\* the select, so the loop pops again and stays here until there is room.
ImportBlock ==
    /\ loop.pc = "import"
    /\ \E h \in Hashes :
         /\ First(h) /\ Number[h] = loop.height + 1 /\ ~ Known(h)
         /\ Len(insertTasks) < numInsertTasks
         /\ queue' = queue \ {h}
         /\ insertTasks' = Append(insertTasks, h)
    /\ UNCHANGED <<height, announcements, timers, queues, queued, done, loop, worker,
                   calls>>

\* One that is no longer of use.
ImportStale ==
    /\ loop.pc = "import"
    /\ \E h \in Hashes :
         /\ First(h) /\ Number[h] <= loop.height + 1
         /\ Number[h] <= loop.height \/ Known(h)
         /\ queue' = queue \ {h}
         /\ forgetBlock(h)
    /\ UNCHANGED <<height, announcements, timers, channels, loop, worker, calls>>

\* The rest of the queue is too high, or the queue is empty.
ImportEnds ==
    /\ loop.pc = "import"
    /\ \A h \in Hashes : First(h) => Number[h] > loop.height + 1
    /\ loop' = [loop EXCEPT !.pc = "select"]
    /\ UNCHANGED <<height, announcements, timers, imports, channels, worker, calls>>

-----------------------------------------------------------------------------
(* The events of the loop *)

Selecting == loop.pc = "select" /\ loop' = [loop EXCEPT !.pc = "top"]

\* A hash is announced, with a number that may be wrong, or 0 for unknown.
Accepts(p, h, n) ==
    /\ announces[p] + 1 <= hashLimit
    /\ n > 0 => Near(n)
    /\ fetching[h] = None /\ completing[h] = None

\* rescheduleFetch, called when announced holds one hash.
ScheduleFetch(f) ==
    fetchTimer' = (fetchTimer \/ Cardinality({h \in Hashes : f[h] # <<>>}) = 1)

Notify(p, h, n) ==
    /\ Selecting /\ calls.notify < MaxNotify
    /\ IF Accepts(p, h, n)
       THEN /\ announces' = [announces EXCEPT ![p] = @ + 1]
            /\ announced' = [announced EXCEPT ![h] =
                                Append(@, [origin |-> p, number |-> n])]
            /\ ScheduleFetch(announced')
       ELSE UNCHANGED <<announces, announced, fetchTimer>>
    /\ calls' = [calls EXCEPT !.notify = @ + 1]
    /\ UNCHANGED <<height, fetching, fetched, completing, completeTimer, imports,
                   channels, worker>>

Enqueue(p, h) ==
    /\ Selecting /\ calls.enqueue < MaxEnqueue
    /\ \E T \in Pushed(p, {h}) : Push(p, T, {h}) /\ forgetHash(Refused(p, {h}, T))
    /\ calls' = [calls EXCEPT !.enqueue = @ + 1]
    /\ UNCHANGED <<height, timers, channels, worker>>

Done ==
    /\ Selecting /\ done # <<>>
    /\ forgetHash({Head(done)})
    /\ forgetBlock(Head(done))
    /\ done' = Tail(done)
    /\ UNCHANGED <<height, timers, queue, insertTasks, worker, calls>>

\* The fetch timer: of each hash announced long enough ago one announcement is kept,
\* and its peer is asked for the header unless the block has arrived.
FetchTimer(due) ==
    /\ Selecting /\ fetchTimer
    /\ \A h \in due : announced[h] # <<>>
    /\ announces' = Discounted(due)
    /\ announced' = Without(announced, due, <<>>)
    /\ \E chosen \in [due -> 1 .. MaxNotify] :
         /\ \A h \in due : chosen[h] \in DOMAIN announced[h]
         /\ fetching' = [h \in Hashes |->
                IF h \notin due THEN fetching[h]
                ELSE IF Known(h) THEN None ELSE announced[h][chosen[h]]]
    /\ fetched' = Without(fetched, due, None)
    /\ completing' = Without(completing, due, None)
    /\ fetchTimer' = (\E h \in Hashes : announced'[h] # <<>>)
    /\ UNCHANGED <<height, completeTimer, imports, channels, worker, calls>>

\* The complete timer: the bodies of all blocks with a header are asked for.
CompleteTimer ==
    LET due == {h \in Hashes : fetched[h] # None} IN
    /\ Selecting /\ completeTimer
    /\ announces' = Discounted(due)
    /\ announced' = Without(announced, due, <<>>)
    /\ fetching' = Without(fetching, due, None)
    /\ fetched' = [h \in Hashes |-> None]
    /\ completing' = [h \in Hashes |->
           IF h \notin due THEN completing[h] ELSE IF Known(h) THEN None ELSE fetched[h]]
    /\ completeTimer' = FALSE
    /\ UNCHANGED <<height, fetchTimer, imports, channels, worker, calls>>

\* A header arrives.  It is the fetcher's if its peer was asked for it and nothing has
\* come of it yet; any other is handed back and only wakes the loop.
Wanted(p, h) ==
    /\ fetching[h] # None /\ fetching[h].origin = p
    /\ fetched[h] = None /\ completing[h] = None /\ queued[h] = None

FilterForeignHeader(p, h) ==
    /\ Selecting /\ ~ Wanted(p, h)
    /\ UNCHANGED <<height, announcements, timers, imports, channels, worker, calls>>

\* It is forgotten if the number is not the announced one, or if the block has arrived.
FilterUselessHeader(p, h) ==
    /\ Selecting /\ Wanted(p, h)
    /\ Number[h] # fetching[h].number \/ Known(h)
    /\ forgetHash({h})
    /\ UNCHANGED <<height, timers, imports, channels, worker, calls>>

\* The header of a block without transactions is the block.
FilterEmptyBlock(p, h) ==
    /\ Selecting /\ Wanted(p, h)
    /\ Number[h] = fetching[h].number /\ ~ Known(h) /\ h \in EmptyBody
    /\ \E T \in Pushed(p, {h}) :
         /\ Push(p, T, {h})
         /\ IF T = {}
            THEN /\ announces' = [announces EXCEPT ![p] = @ - 2]
                 /\ fetching' = [fetching EXCEPT ![h] = None]
                 /\ UNCHANGED completing
            ELSE /\ completing' = [completing EXCEPT ![h] = fetching[h]]
                 /\ UNCHANGED <<announces, fetching>>
    /\ UNCHANGED <<height, announced, fetched, timers, channels, worker, calls>>

\* Mutant: the timer is armed by the second header.
FilterHeaderUnscheduled(p, h) ==
    /\ Selecting /\ Wanted(p, h)
    /\ Number[h] = fetching[h].number /\ ~ Known(h) /\ h \notin EmptyBody
    /\ fetched' = [fetched EXCEPT ![h] = fetching[h]]
    /\ completeTimer' = (completeTimer \/ \E g \in Hashes : fetched[g] # None)
    /\ UNCHANGED <<height, announces, announced, fetching, completing, fetchTimer,
                   imports, channels, worker, calls>>

\* rescheduleComplete is called when fetched holds one hash.
FilterHeader(p, h) ==
    /\ Selecting /\ Wanted(p, h)
    /\ Number[h] = fetching[h].number /\ ~ Known(h) /\ h \notin EmptyBody
    /\ fetched' = [fetched EXCEPT ![h] = fetching[h]]
    /\ completeTimer' =
           (completeTimer \/ Cardinality({g \in Hashes : fetched'[g] # None}) = 1)
    /\ UNCHANGED <<height, announces, announced, fetching, completing, fetchTimer,
                   imports, channels, worker, calls>>

\* Bodies arrive: they complete the blocks of their peer with that transaction root,
\* and those that have arrived otherwise are forgotten.
FilterBodies(p, bodies) ==
    LET matched == {h \in Hashes : /\ completing[h] # None /\ completing[h].origin = p
                                   /\ queued[h] = None /\ TxHash[h] \in bodies}
        blocks == {h \in matched : ~ Known(h)}
    IN
    /\ Selecting
    /\ \E T \in Pushed(p, blocks) :
         /\ Push(p, T, blocks)
         /\ forgetHash((matched \ blocks) \cup Refused(p, blocks, T))
    /\ UNCHANGED <<height, timers, channels, worker, calls>>

-----------------------------------------------------------------------------
(* The worker *)

WorkerTake ==
    /\ worker.pc = "idle" /\ insertTasks # <<>>
    /\ worker' = [pc |-> "insert", hash |-> Head(insertTasks)]
    /\ insertTasks' = Tail(insertTasks)
    /\ UNCHANGED <<height, announcements, timers, imports, done, loop, calls>>

\* A block at or below the height, without its parent, or that fails the verification
\* or the insertion changes nothing.
WorkerInsert ==
    /\ worker.pc = "insert"
    /\ height' = IF worker.hash \in Valid THEN Max({height, Number[worker.hash]}) ELSE height
    /\ worker' = [worker EXCEPT !.pc = "report"]
    /\ UNCHANGED <<announcements, timers, imports, channels, loop, calls>>

WorkerReport ==
    /\ worker.pc = "report" /\ Len(done) < numInsertTasks
    /\ done' = Append(done, worker.hash)
    /\ worker' = [pc |-> "idle", hash |-> None]
    /\ UNCHANGED <<height, announcements, timers, imports, insertTasks, loop, calls>>

-----------------------------------------------------------------------------
(* The rest of the node *)

\* Consensus or the downloader appends the next block.
OtherImport ==
    /\ height < Cardinality(Valid) /\ calls.others < MaxOthers
    /\ height' = height + 1
    /\ calls' = [calls EXCEPT !.others = @ + 1]
    /\ UNCHANGED <<announcements, timers, imports, channels, loop, worker>>

Bodies == {TxHash[h] : h \in Hashes}

Event ==
    \/ \E p \in Peers, h \in Hashes :
         \/ \E n \in {0, Number[h]} : Notify(p, h, n)
         \/ Enqueue(p, h)
         \/ FilterForeignHeader(p, h)
         \/ FilterUselessHeader(p, h)
         \/ FilterEmptyBlock(p, h)
         \/ FilterHeader(p, h)
    \/ \E p \in Peers, bodies \in SUBSET Bodies : FilterBodies(p, bodies)
    \/ \E due \in SUBSET Hashes : FetchTimer(due)
    \/ CompleteTimer
    \/ Done

Loop == LoopTop \/ ImportBlock \/ ImportStale \/ ImportEnds \/ Event
Worker == WorkerTake \/ WorkerInsert \/ WorkerReport

Next == Loop \/ Worker \/ OtherImport

Spec == Init /\ [][Next]_vars

\* The goroutines run, and a select takes a case that is ready again and again.
FairSpec ==
    /\ Spec
    /\ WF_vars(LoopTop \/ ImportBlock \/ ImportStale \/ ImportEnds)
    /\ WF_vars(Worker)
    /\ SF_vars(Done)

-----------------------------------------------------------------------------
(* Properties *)

\* The variables have their types; a peer has at most blockLimit blocks in the queue
\* (the bound enqueue checks), and the channels keep their capacities.
TypeOK ==
    /\ height \in Heights
    /\ announces \in [Peers -> Int]
    /\ announced \in [Hashes -> Seq(Announcement)]
    /\ {fetching, fetched, completing} \subseteq [Hashes -> Announcement \cup {None}]
    /\ fetchTimer \in BOOLEAN /\ completeTimer \in BOOLEAN
    /\ queue \subseteq Hashes
    /\ queues \in [Peers -> 0 .. blockLimit]
    /\ queued \in [Hashes -> Peers \cup {None}]
    /\ {insertTasks, done} \subseteq Seq(Hashes)
    /\ Len(insertTasks) <= numInsertTasks /\ Len(done) <= numInsertTasks
    /\ loop \in [pc : {"top", "import", "select"}, height : Heights]
    /\ worker \in [pc : {"idle", "insert", "report"},
                   hash : Hashes \cup {None}]
    /\ calls \in [notify : 0 .. MaxNotify, enqueue : 0 .. MaxEnqueue, others : 0 .. MaxOthers]

\* How many times a block is somewhere between enqueue and the end of its import.
Occurs(s, h) == Cardinality({i \in DOMAIN s : s[i] = h})
One(b) == IF b THEN 1 ELSE 0
Places(h) == Occurs(insertTasks, h) + Occurs(done, h) + One(h \in queue) + One(worker.hash = h)

\* The set queued, by which enqueue rejects duplicates, is exactly the blocks in the
\* queue, in the channels or with the worker, each of them in one place, and the block
\* counts of the peers are exactly theirs: no block is imported twice at a time, and
\* neither a late done nor a stale block leaves a count behind that would shut a peer
\* out.
QueueAccounted ==
    /\ \A h \in Hashes : Places(h) = IF queued[h] = None THEN 0 ELSE 1
    /\ \A p \in Peers : queues[p] = Cardinality({h \in Hashes : queued[h] = p})

\* The announce count of a peer is never above the announcements of the peer that are
\* waiting, whatever arrives, expires or is imported meanwhile: a peer is refused for
\* hashLimit only while it has that many announcements outstanding.
CountNeverHigh ==
    \A p \in Peers : announces[p] <= Count(UNION {Waiting(h) : h \in Hashes}, p)

\* Announcements never wait for a timer that is not running, however their hashes came
\* and went: whenever a hash is announced the fetch timer is armed, and whenever a
\* header waits for its body the complete timer is.
TimersArmed ==
    /\ (\E h \in Hashes : announced[h] # <<>>) => fetchTimer
    /\ (\E h \in Hashes : fetched[h] # None) => completeTimer

\* The loop knows the height, and the valid blocks above it up to h are queued.
Ready(h) ==
    /\ loop.height = height
    /\ \A n \in height + 1 .. Number[h] :
           \E g \in Valid : Number[g] = n /\ queued[g] # None

\* Blocks queued in any order are imported once the gap below them is filled, all of
\* them and with no further message, also with blocks that fail queued among them.
\* (When others extend the chain while the loop goes through its queue, the rest of the
\* queue waits for the next event.)
QueuedBlocksImported ==
    \A h \in Valid, k \in 0 .. MaxOthers :
        Ready(h) /\ calls.others = k ~> Number[h] <= height \/ calls.others # k

-----------------------------------------------------------------------------
(* The inductive invariant *)

\* The block counts have their type because they are exact, and they are exact because
\* the worker holds a block from the moment it takes one until it has reported it.
FetcherInv ==
    /\ TypeOK /\ QueueAccounted /\ CountNeverHigh /\ TimersArmed
    /\ worker.pc = "idle" <=> worker.hash = None
=============================================================================
