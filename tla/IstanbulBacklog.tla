--------------------------- MODULE IstanbulBacklog ---------------------------
(***************************************************************************)
(* The intake of one Istanbul core: the events posted to it, the queues of *)
(* messages and of miner's requests that are too early for its view, and   *)
(* the release of these queues whenever the core changes its phase.        *)
(*                                                                         *)
(* Which block a message is about and how many votes have been counted is  *)
(* the business of IstanbulCore.  Here a handler that accepts a message    *)
(* may move on or not, as the counting decides; what matters is the view,  *)
(* the phase and the flag that checkMessage looks at.                      *)
(***************************************************************************)
EXTENDS Integers, FiniteSets

CONSTANTS
    Sources,    \* the validators whose messages reach the core
    Self,       \* the address of the core itself
    Messages,   \* the messages and requests that may reach the core
    Rounds,     \* the rounds a view may have
    GetProposer(_, _),  \* the proposer of a sequence and round
    MaxSeq,     \* bound: the sequences a core takes part in
    None

Codes == {"PREPREPARE", "PREPARE", "COMMIT", "ROUNDCHANGE"}

Message == [code : Codes \cup {"REQUEST"}, src : Sources, seq : Nat, round : Nat]

\* toPriority leaves room for the rounds 0 to 99.
ASSUME RoundsAssumption == Rounds \subseteq 0 .. 99 /\ 0 \in Rounds

ASSUME MessagesAssumption ==
    /\ Messages \subseteq Message
    /\ \A m \in Messages : m.round \in Rounds
    /\ MaxSeq \in Nat /\ Self \in Sources /\ None \notin Message

VARIABLES
    head,             \* the number of the last block of the chain
    core,             \* view, phase and waitingForRoundChange of the core
    running,          \* between Start and Stop
    backlogs,         \* backlogs[s]: the early messages of s
    pendingRequests,  \* the early requests of the miner
    deferred,         \* the PREPREPARE the futurePreprepareTimer will post again
    posted,           \* events on their way to handleEvents, in no order
    known,            \* the messages the backend or the miner has posted once
    handled           \* the messages that some handler has accepted

vars == <<head, core, running, backlogs, pendingRequests, deferred, posted,
          known, handled>>

Phases == {"AcceptRequest", "Preprepared", "Prepared", "Committed"}

Core == [seq : Nat, round : Rounds, phase : Phases, waiting : BOOLEAN]

-----------------------------------------------------------------------------
(* checkMessage and checkRequestMsg *)

SameView(c, m) == m.seq = c.seq /\ m.round = c.round
Newer(c, m) == m.seq > c.seq \/ (m.seq = c.seq /\ m.round > c.round)
Older(c, m) == m.seq < c.seq \/ (m.seq = c.seq /\ m.round < c.round)

\* errFutureMessage
Future(c, m) ==
    CASE m.code \in {"REQUEST", "ROUNDCHANGE"} -> m.seq > c.seq
      [] OTHER -> \/ Newer(c, m)
                  \/ SameView(c, m) /\ \/ c.waiting
                                       \/ c.phase = "AcceptRequest" /\ m.code # "PREPREPARE"

\* errOldMessage
Old(c, m) == IF m.code = "REQUEST" THEN m.seq < c.seq ELSE Older(c, m)

Accepts(c, m) == ~ Future(c, m) /\ ~ Old(c, m)

-----------------------------------------------------------------------------
(* The queues *)

\* Mutant: votes overtake the proposal they are about.
msgPriorityCommitFirst(code) ==
    CASE code = "COMMIT" -> 1 [] code = "PREPREPARE" -> 2 [] OTHER -> 3

msgPriority(code) ==
    CASE code = "PREPREPARE" -> 1 [] code = "COMMIT" -> 2 [] OTHER -> 3

\* Lower views first, and in a view the ROUND CHANGE, PREPREPARE, COMMIT, PREPARE.
toPriority(m) ==
    CASE m.code = "REQUEST" -> - m.seq
      [] m.code = "ROUNDCHANGE" -> - (m.seq * 1000)
      [] OTHER -> - (m.seq * 1000 + m.round * 10 + msgPriority(m.code))

\* What the loop of processBacklog and processPendingRequests pops for good: it
\* stops at the first message that is early, which goes back to the queue.
Popped(c, q) == {m \in q : \A x \in q : Future(c, x) => toPriority(m) > toPriority(x)}

Posts(c, q) == {m \in Popped(c, q) : Accepts(c, m)}

\* Mutant: own messages are kept too.
storeBacklogOwn(m) == [backlogs EXCEPT ![m.src] = @ \cup {m}]

\* Own messages are not kept.
storeBacklog(m) ==
    IF m.src = Self THEN backlogs ELSE [backlogs EXCEPT ![m.src] = @ \cup {m}]

\* Mutant: the early message that ends the loop does not go back to the queue.
ReleaseDropsFirst(c, q, ev) ==
    LET first(S) == {m \in S : \A x \in S : toPriority(m) >= toPriority(x)}
        accepting == c.phase = "AcceptRequest"
    IN  /\ backlogs' = [s \in Sources |-> (q[s] \ Popped(c, q[s]))
                                            \ first(q[s] \ Popped(c, q[s]))]
        /\ pendingRequests' =
             pendingRequests \ (IF accepting THEN Popped(c, pendingRequests) ELSE {})
        /\ posted' = ev \cup (UNION {Posts(c, q[s]) : s \in Sources})
                        \cup (IF accepting THEN Posts(c, pendingRequests) ELSE {})

\* processPendingRequests and processBacklog of a core that has come to view and
\* phase c, with the backlogs q and the events ev on their way.
Release(c, q, ev) ==
    LET accepting == c.phase = "AcceptRequest"
    IN  /\ backlogs' = [s \in Sources |-> q[s] \ Popped(c, q[s])]
        /\ pendingRequests' =
             pendingRequests \ (IF accepting THEN Popped(c, pendingRequests) ELSE {})
        /\ posted' = ev \cup (UNION {Posts(c, q[s]) : s \in Sources})
                        \cup (IF accepting THEN Posts(c, pendingRequests) ELSE {})

setState(c, q, ev) == core' = c /\ Release(c, q, ev)

-----------------------------------------------------------------------------
(* Changing views *)

NewView(s, r) == [seq |-> s, round |-> r, phase |-> "AcceptRequest", waiting |-> FALSE]

\* startNewRound when the chain has reached the sequence: go to the next one.  The
\* timer of a deferred PREPREPARE is stopped.
startNewSequence(q, ev) ==
    /\ head >= core.seq
    /\ setState(NewView(head + 1, 0), q, ev)
    /\ deferred' = None

\* startNewRound for a round change: nothing happens for round 0 or a lower round.
startNewRound(r, ev) ==
    \/ startNewSequence(backlogs, ev)
    \/ /\ head < core.seq /\ r # 0 /\ r >= core.round
       /\ setState(NewView(core.seq, r), backlogs, ev)
       /\ deferred' = None

\* sendRoundChange with its catchUpRound: the queues are not looked at.
sendRoundChange(r, ev) ==
    /\ r \in Rounds /\ r > core.round
    /\ core' = [core EXCEPT !.round = r, !.waiting = TRUE]
    /\ posted' = ev
    /\ deferred' = None
    /\ UNCHANGED <<backlogs, pendingRequests>>

EnterPhase(p, ev) ==
    /\ setState([core EXCEPT !.phase = p], backlogs, ev)
    /\ UNCHANGED deferred

\* Nothing but the event is consumed.
Stay(ev) ==
    /\ posted' = ev
    /\ UNCHANGED <<core, backlogs, pendingRequests, deferred>>

-----------------------------------------------------------------------------
(* handleEvents *)

\* A consensus message is early: keep it, and catch up if the chain has gone on.
Early(m, ev) ==
    /\ Future(core, m)
    /\ \/ head < core.seq /\ backlogs' = storeBacklog(m) /\ posted' = ev
          /\ UNCHANGED <<core, pendingRequests, deferred>>
       \/ startNewSequence(storeBacklog(m), ev)
    /\ UNCHANGED handled

Late(m, ev) == Old(core, m) /\ Stay(ev) /\ UNCHANGED handled

\* A proposal for a later time: the timer replaces the one before.
deferPreprepare(m, ev) ==
    /\ deferred' = m /\ posted' = ev
    /\ UNCHANGED <<core, backlogs, pendingRequests, handled>>

\* A proposal is ignored, put off until its time comes, refused, or accepted.
handlePreprepare(m, ev) ==
    /\ m.code = "PREPREPARE" /\ Accepts(core, m)
    /\ \/ handled' = handled \cup {m} /\ Stay(ev)
       \/ /\ m.src = GetProposer(core.seq, core.round)
          /\ \/ deferPreprepare(m, ev)
             \/ /\ handled' = handled \cup {m}
                /\ \/ sendRoundChange(core.round + 1, ev)
                   \/ /\ core.phase = "AcceptRequest"
                      /\ \E p \in {"Preprepared", "Prepared"} : EnterPhase(p, ev)

\* A vote is counted, and may complete the quorum.
handlePrepare(m, ev) ==
    /\ m.code = "PREPARE" /\ Accepts(core, m)
    /\ handled' = handled \cup {m}
    /\ \/ Stay(ev)
       \/ core.phase = "Preprepared" /\ EnterPhase("Prepared", ev)

\* commit: the backend takes the block, or fails and the core asks for a new round.
commitFails(ev) ==
    LET c == [core EXCEPT !.phase = "Committed"]
    IN  /\ core.round + 1 \in Rounds
        /\ core' = [c EXCEPT !.round = @ + 1, !.waiting = TRUE]
        /\ Release(c, backlogs, ev)
        /\ deferred' = None

handleCommit(m, ev) ==
    /\ m.code = "COMMIT" /\ Accepts(core, m)
    /\ handled' = handled \cup {m}
    /\ \/ Stay(ev)
       \/ core.phase = "Preprepared" /\ EnterPhase("Prepared", ev)
       \/ core.phase # "Committed" /\ (EnterPhase("Committed", ev) \/ commitFails(ev))

handleRoundChange(m, ev) ==
    /\ m.code = "ROUNDCHANGE" /\ Accepts(core, m)
    /\ handled' = handled \cup {m}
    /\ \/ Stay(ev)
       \/ (core.waiting \/ core.round < m.round) /\ startNewRound(m.round, ev)
       \/ core.waiting /\ sendRoundChange(m.round, ev)

\* The proposal of a request is broadcast to the core itself too; see Receive.
handleRequest(m, ev) ==
    /\ m.code = "REQUEST"
    /\ \/ Accepts(core, m) /\ handled' = handled \cup {m} /\ Stay(ev)
       \/ Old(core, m) /\ UNCHANGED handled /\ Stay(ev)
       \/ /\ Future(core, m)
          /\ pendingRequests' = pendingRequests \cup {m}
          /\ posted' = ev
          /\ UNCHANGED <<core, backlogs, deferred, handled>>

handleCheckedMsg(m, ev) ==
    \/ m.code # "REQUEST" /\ (Early(m, ev) \/ Late(m, ev))
    \/ handlePreprepare(m, ev) \/ handlePrepare(m, ev)
    \/ handleCommit(m, ev) \/ handleRoundChange(m, ev)

\* Mutant: no event is taken while a round change is pending.
handleEventUnlessWaiting(m) ==
    /\ running /\ m \in posted /\ ~ core.waiting
    /\ handleCheckedMsg(m, posted \ {m}) \/ handleRequest(m, posted \ {m})
    /\ UNCHANGED <<head, running, known>>

handleEvent(m) ==
    /\ running /\ m \in posted
    /\ handleCheckedMsg(m, posted \ {m}) \/ handleRequest(m, posted \ {m})
    /\ UNCHANGED <<head, running, known>>

\* A round timer: ask for the next round, or for one that f + 1 others ask for.
handleTimeoutMsg(r) ==
    /\ running /\ head < core.seq
    /\ sendRoundChange(r, posted)
    /\ UNCHANGED <<head, running, known, handled>>

handleChainHead ==
    /\ running
    /\ startNewSequence(backlogs, posted)
    /\ UNCHANGED <<head, running, known, handled>>

-----------------------------------------------------------------------------
(* What happens around the core *)

\* What the core broadcasts is for its view.  sendPrepare, sendCommit and
\* sendRoundChange follow the change of phase or round they announce;
\* sendPreprepare needs the phase AcceptRequest and does not look at waiting.
Broadcasts(m) ==
    IF m.code = "PREPREPARE" THEN SameView(core, m) /\ core.phase = "AcceptRequest"
    ELSE SameView(core, m) /\ Accepts(core, m)

\* backend.HandleMsg posts a message once.  What the core broadcasts is posted
\* to itself too, and so is the request of its miner.
Receive(m) ==
    /\ running /\ m \notin known
    /\ m.src = Self /\ m.code # "REQUEST" => Broadcasts(m)
    /\ known' = known \cup {m}
    /\ posted' = posted \cup {m}
    /\ UNCHANGED <<head, core, running, backlogs, pendingRequests, deferred, handled>>

\* The timer of a deferred PREPREPARE fires.
futurePreprepareTimer ==
    /\ deferred # None
    /\ posted' = posted \cup {deferred}
    /\ deferred' = None
    /\ UNCHANGED <<head, core, running, backlogs, pendingRequests, known, handled>>

\* A block is written to the chain, the own one or a peer's.
InsertBlock ==
    /\ head < MaxSeq
    /\ head' = head + 1
    /\ UNCHANGED <<core, running, backlogs, pendingRequests, deferred, posted, known, handled>>

\* Stop ends the subscriptions, and with them every event not yet handled.  The
\* queues survive it.
Stop ==
    /\ running /\ running' = FALSE
    /\ posted' = {} /\ deferred' = None
    /\ UNCHANGED <<head, core, backlogs, pendingRequests, known, handled>>

Start ==
    /\ ~ running /\ running' = TRUE
    /\ setState(NewView(head + 1, 0), backlogs, posted)
    /\ UNCHANGED <<head, deferred, known, handled>>

Init ==
    /\ head = 0
    /\ core = NewView(1, 0)
    /\ running = TRUE
    /\ backlogs = [s \in Sources |-> {}]
    /\ pendingRequests = {}
    /\ deferred = None
    /\ posted = {} /\ known = {} /\ handled = {}

Next ==
    \/ \E m \in Messages : Receive(m) \/ handleEvent(m)
    \/ \E r \in Rounds : handleTimeoutMsg(r)
    \/ handleChainHead \/ futurePreprepareTimer
    \/ InsertBlock \/ Stop \/ Start

Spec == Init /\ [][Next]_vars

\* The event loop takes every posted event in the end.
FairSpec == Spec /\ \A m \in Messages : WF_vars(handleEvent(m))

-----------------------------------------------------------------------------
(* Properties *)

\* Every variable has the type its declaration announces; messages of the core
\* itself never enter the backlogs.
TypeOK ==
    /\ head \in 0 .. MaxSeq /\ core \in Core /\ running \in BOOLEAN
    /\ backlogs \in [Sources -> SUBSET Messages]
    /\ \A s \in Sources : \A m \in backlogs[s] :
         m.src = s /\ s # Self /\ m.code # "REQUEST"
    /\ \A m \in pendingRequests : m \in Messages /\ m.code = "REQUEST"
    /\ deferred \in Messages \cup {None}
    /\ posted \subseteq Messages /\ known \subseteq Messages /\ handled \subseteq Messages

\* processBacklog stops at the first early message of a source.  Nothing that
\* the core could handle in its present view and phase is ever behind it, and
\* outside a round change nothing is kept that has become old.
OnlyFutureKept ==
    running => /\ \A s \in Sources : \A m \in backlogs[s] :
                    Future(core, m) \/ (core.waiting /\ Old(core, m))
               /\ \A m \in pendingRequests : Future(core, m)

\* What has been posted or kept, the deferred PREPREPARE included.
Kept == posted \cup (UNION {backlogs[s] : s \in Sources}) \cup pendingRequests
          \cup ({deferred} \ {None})

\* What the core proposed itself; storeBacklog drops it while the core waits, and
\* startNewRound proposes again.
OwnProposal(m) == m.src = Self /\ m.code = "PREPREPARE"

\* A step of a running core lets go of a message only into a handler or because
\* its view has passed: nothing is lost between the queues, the timer of a
\* deferred PREPREPARE and the posted events, and storeBacklog, which drops
\* messages of the core itself, never meets one of its votes.
NeverDropped ==
    [][\A m \in Kept \ Kept' :
          running' => \/ m \in handled'
                      \/ Old(core, m) \/ Old(core', m)
                      \/ OwnProposal(m)]_vars

\* When the core comes to stay in a view and phase that accept a message, a
\* message that is kept is handled or put off to its time, unless the core stops.
EarlyMessageHandled ==
    \A m \in Messages :
        <>[] (Accepts(core, m) /\ ~ OwnProposal(m))
          => ((m \in Kept) ~> (m \in handled \/ m = deferred \/ ~ running))
-----------------------------------------------------------------------------
(* The inductive invariant behind NeverDropped *)

\* A vote or ROUND CHANGE of the core itself is never early when its event is
\* handled, so storeBacklog has none to drop.
OwnVotesInTime ==
    \A m \in posted : (m.src = Self /\ m.code \notin {"REQUEST", "PREPREPARE"}) =>
        ~ Future(core, m)

\* A deferred PREPREPARE is the one of the present view: leaving the view stops
\* its timer.
DeferredInView ==
    deferred # None =>
        /\ deferred.code = "PREPREPARE" /\ SameView(core, deferred)
        /\ deferred.src = GetProposer(core.seq, core.round)
        /\ ~ core.waiting

\* A core that is stopped has no event on its way and no timer.
StoppedIsQuiet == ~ running => posted = {} /\ deferred = None

DropInv == OwnVotesInTime /\ DeferredInView /\ StoppedIsQuiet
=============================================================================
