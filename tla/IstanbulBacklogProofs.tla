------------------------ MODULE IstanbulBacklogProofs ------------------------
(***************************************************************************)
(* What the priorities of the backlog achieve, for all sets of messages    *)
(* and all rounds that toPriority has room for: a core never keeps back a  *)
(* message it could handle.                                                *)
(***************************************************************************)
EXTENDS IstanbulBacklog, TLAPS

\* The messages of one queue: of a source, or the requests of the miner.
OneKind(q) == \/ \A m \in q : m.code # "REQUEST"
              \/ \A m \in q : m.code = "REQUEST"

\* The fields of a message have their types, and its round fits toPriority.
LEMMA MessageFields ==
    ASSUME NEW m \in Messages
    PROVE  /\ m.code \in Codes \cup {"REQUEST"} /\ m.src \in Sources
           /\ m.seq \in Nat /\ m.round \in 0 .. 99
BY RoundsAssumption, MessagesAssumption DEF Message

\* A thousand places per sequence, ten per round, are enough to compare sequences
\* first, rounds next, codes last.
Places == 0 .. 999
Rank(s, p) == - (s * 1000 + p)

LEMMA SequenceFirst ==
    \A s, t \in Nat : \A p, q \in Places :
        ~ (Rank(t, q) > Rank(s, p)) => s <= t /\ (s = t => p <= q)
BY DEF Places, Rank

LEMMA RoundNext ==
    ASSUME NEW r \in Nat, NEW t \in Nat, NEW j \in 1 .. 3, NEW k \in 1 .. 3,
           r * 10 + j <= t * 10 + k
    PROVE  r <= t /\ (r = t => j <= k)
OBVIOUS

LEMMA Squeeze ==
    ASSUME NEW a \in 0 .. 99, NEW b \in 0 .. 99, NEW k \in 0 .. 99,
           a >= k, a <= b, ~ (b > k)
    PROVE  b = k /\ a = k
OBVIOUS

LEMMA LowerStays ==
    ASSUME NEW i \in 0 .. 99, NEW j \in 0 .. 99, NEW k \in 0 .. 99, i < j, k > j
    PROVE  i < k
OBVIOUS

\* A message is of a later view than the core's, of the same or of an earlier one.
LEMMA Compared ==
    ASSUME NEW c, NEW m, c.seq \in Nat, c.round \in 0 .. 99,
           m.seq \in Nat, m.round \in 0 .. 99
    PROVE  Newer(c, m) \/ SameView(c, m) \/ Older(c, m)
<1>1. m.seq > c.seq \/ m.seq = c.seq \/ m.seq < c.seq
  BY SMTT(30)
<1>2. m.round > c.round \/ m.round = c.round \/ m.round < c.round
  BY SMTT(30)
<1> QED
  BY <1>1, <1>2, Zenon DEF Newer, SameView, Older

\* A PREPREPARE goes before the votes of its view.
LEMMA CodePriority ==
    ASSUME NEW code \in Codes
    PROVE  /\ msgPriority(code) \in 1 .. 3
           /\ msgPriority(code) = 1 <=> code = "PREPREPARE"
<1>1. CASE code = "PREPREPARE" BY <1>1 DEF msgPriority
<1>2. CASE code = "COMMIT" BY <1>2 DEF msgPriority
<1>3. CASE code # "PREPREPARE" /\ code # "COMMIT" BY <1>3 DEF msgPriority
<1> QED BY <1>1, <1>2, <1>3

\* The place of a message within its sequence.
Place(m) == IF m.code = "ROUNDCHANGE" THEN 0 ELSE m.round * 10 + msgPriority(m.code)

LEMMA PlaceRange ==
    ASSUME NEW m \in Messages, m.code # "REQUEST"
    PROVE  /\ Place(m) \in Places
           /\ Place(m) = 0 <=> m.code = "ROUNDCHANGE"
           /\ toPriority(m) = Rank(m.seq, Place(m))
<1> USE DEF Places, Rank
<1>1. m.code \in Codes /\ m.seq \in Nat /\ m.round \in 0 .. 99
  BY MessageFields
<1>2. CASE m.code = "ROUNDCHANGE"
  BY <1>1, <1>2 DEF Place, toPriority
<1>3. CASE m.code # "ROUNDCHANGE"
  <2>1. Place(m) = m.round * 10 + msgPriority(m.code) /\ msgPriority(m.code) \in 1 .. 3
    BY <1>1, <1>3, CodePriority DEF Place
  <2>2. toPriority(m) = - (m.seq * 1000 + m.round * 10 + msgPriority(m.code))
    BY <1>1, <1>3 DEF toPriority
  <2> QED
    BY <1>1, <1>3, <2>1, <2>2
<1> QED
  BY <1>2, <1>3

\* What errFutureMessage means for a consensus message.
LEMMA FutureMeans ==
    ASSUME NEW c, NEW m, m.code # "REQUEST"
    PROVE  /\ m.code = "ROUNDCHANGE" => (Future(c, m) <=> m.seq > c.seq)
           /\ m.code # "ROUNDCHANGE" =>
                (Future(c, m) <=>
                   \/ Newer(c, m)
                   \/ SameView(c, m) /\ c.waiting
                   \/ SameView(c, m) /\ c.phase = "AcceptRequest" /\ m.code # "PREPREPARE")
<1>1. CASE m.code = "ROUNDCHANGE" BY <1>1 DEF Future
<1>2. CASE m.code # "ROUNDCHANGE" BY <1>2 DEF Future
<1> QED BY <1>1, <1>2

\* Behind an early message there are only early ones: the order of toPriority is
\* the order in which checkMessage stops being errFutureMessage.
LEMMA EarlyIsUpward ==
    ASSUME NEW c \in Core, NEW x \in Messages, NEW m \in Messages,
           x.code # "REQUEST", m.code # "REQUEST",
           Future(c, x), ~ (toPriority(m) > toPriority(x))
    PROVE  Future(c, m)
<1>1. /\ x.seq \in Nat /\ x.round \in 0 .. 99 /\ x.code \in Codes
      /\ m.seq \in Nat /\ m.round \in 0 .. 99 /\ m.code \in Codes
  BY MessageFields
<1>2. c.seq \in Nat /\ c.round \in 0 .. 99
  BY RoundsAssumption DEF Core
<1>3. /\ Place(x) \in Places /\ toPriority(x) = Rank(x.seq, Place(x))
      /\ Place(m) \in Places /\ toPriority(m) = Rank(m.seq, Place(m))
  BY PlaceRange
<1>4. x.seq <= m.seq /\ (x.seq = m.seq => Place(x) <= Place(m))
  BY <1>1, <1>3, SequenceFirst, Zenon
<1>5. CASE m.seq > c.seq
  BY <1>1, <1>2, <1>5, FutureMeans DEF Newer
<1>6. CASE ~ (m.seq > c.seq)
  <2>1. ~ (x.seq > c.seq)
    BY <1>1, <1>2, <1>4, <1>6
  <2>2. x.code # "ROUNDCHANGE"
    BY <2>1, FutureMeans
  <2>3. x.seq = c.seq /\ x.round >= c.round
    <3>1. Newer(c, x) \/ SameView(c, x)
      BY <2>2, FutureMeans
    <3>2. x.seq = c.seq /\ (x.round > c.round \/ x.round = c.round)
      BY <2>1, <3>1, Zenon DEF Newer, SameView
    <3>3. x.round >= c.round
      BY <1>1, <1>2, <3>2, SMTT(30)
    <3> QED
      BY <3>2, <3>3
  <2>4. m.seq = c.seq /\ Place(x) <= Place(m) /\ Place(x) # 0
    BY <1>1, <1>2, <1>3, <1>4, <1>6, <2>2, <2>3, PlaceRange DEF Places
  <2>5. m.code # "ROUNDCHANGE"
    BY <1>3, <2>4, PlaceRange DEF Places
  <2>6. x.round * 10 + msgPriority(x.code) <= m.round * 10 + msgPriority(m.code)
    BY <2>2, <2>4, <2>5 DEF Place
  <2>7. /\ x.round <= m.round
        /\ x.round = m.round => msgPriority(x.code) <= msgPriority(m.code)
    <3>1. msgPriority(x.code) \in 1 .. 3 /\ msgPriority(m.code) \in 1 .. 3
      BY <1>1, CodePriority
    <3>2. x.round \in Nat /\ m.round \in Nat
      BY <1>1
    <3> QED
      BY <2>6, <3>1, <3>2, RoundNext
  <2>8. CASE m.round > c.round
    BY <2>4, <2>5, <2>8, FutureMeans DEF Newer
  <2>9. CASE ~ (m.round > c.round)
    <3>1. m.round = c.round /\ x.round = c.round
      BY <1>1, <1>2, <2>3, <2>7, <2>9, Squeeze
    <3>2. c.waiting \/ (c.phase = "AcceptRequest" /\ x.code # "PREPREPARE")
      BY <1>1, <1>2, <2>2, <2>3, <3>1, FutureMeans DEF Newer
    <3>3. x.code # "PREPREPARE" => m.code # "PREPREPARE"
      BY <1>1, <2>7, <3>1, CodePriority
    <3> QED
      BY <2>4, <2>5, <3>1, <3>2, <3>3, FutureMeans DEF SameView
  <2> QED
    BY <2>8, <2>9
<1> QED
  BY <1>5, <1>6

\* What processBacklog and processPendingRequests leave in a queue is early.
LEMMA LeftIsEarly ==
    ASSUME NEW c \in Core, NEW q \in SUBSET Messages, OneKind(q),
           NEW m \in q \ Popped(c, q)
    PROVE  Future(c, m)
<1>1. PICK x \in q : Future(c, x) /\ ~ (toPriority(m) > toPriority(x))
  BY DEF Popped
<1>2. CASE m.code # "REQUEST"
  <2>1. x.code # "REQUEST"
    BY <1>2 DEF OneKind
  <2> QED
    BY <1>1, <1>2, <2>1, EarlyIsUpward
<1>3. CASE m.code = "REQUEST"
  <2>1. x.code = "REQUEST"
    BY <1>3 DEF OneKind
  <2>2. x.seq > c.seq /\ ~ (- m.seq > - x.seq)
    BY <1>1, <1>3, <2>1 DEF Future, toPriority
  <2>3. m.seq > c.seq
    BY <2>2, MessageFields DEF Core
  <2> QED
    BY <1>3, <2>3 DEF Future
<1> QED
  BY <1>2, <1>3

\* A core that gives up its round for a higher one finds what it kept early, or
\* old by now.
LEMMA HigherRoundKeeps ==
    ASSUME NEW c \in Core, NEW d \in Core, d.seq = c.seq, d.round > c.round, d.waiting,
           NEW m \in Messages, m.code # "REQUEST",
           Future(c, m) \/ (c.waiting /\ Old(c, m))
    PROVE  Future(d, m) \/ (d.waiting /\ Old(d, m))
<1>1. m.seq \in Nat /\ m.round \in 0 .. 99
  BY MessageFields
<1>2. c.seq \in Nat /\ c.round \in 0 .. 99 /\ d.round \in 0 .. 99
  BY RoundsAssumption DEF Core
<1>3. d.seq = c.seq /\ d.round > c.round /\ d.waiting
  OBVIOUS
<1>4. CASE m.code = "ROUNDCHANGE"
  <2>1. CASE Future(c, m)
    BY <1>3, <1>4, <2>1, FutureMeans
  <2>2. CASE Old(c, m)
    <3>1. m.seq < c.seq \/ (m.seq = c.seq /\ m.round < c.round)
      BY <2>2 DEF Old, Older
    <3>2. m.round < c.round => m.round < d.round
      BY <1>1, <1>2, LowerStays
    <3>3. Old(d, m)
      BY <1>3, <1>4, <3>1, <3>2, Zenon DEF Old, Older
    <3> QED
      BY <1>3, <3>3, Zenon
  <2> QED
    BY <2>1, <2>2
<1>5. CASE m.code # "ROUNDCHANGE"
  <2>1. Newer(d, m) \/ SameView(d, m) \/ Older(d, m)
    <3>1. d.seq \in Nat
      BY <1>2, <1>3
    <3> QED
      BY <1>1, <1>2, <3>1, Compared
  <2> QED
    BY <1>3, <1>5, <2>1, FutureMeans DEF Old
<1> QED
  BY <1>4, <1>5

-----------------------------------------------------------------------------
(* The invariant *)

BacklogsOK(q) ==
    /\ q \in [Sources -> SUBSET Messages]
    /\ \A s \in Sources : \A m \in q[s] : m.src = s /\ s # Self /\ m.code # "REQUEST"

RequestsOK(p) == \A m \in p : m \in Messages /\ m.code = "REQUEST"

\* What OnlyFutureKept says of the two kinds of queue.
BacklogsEarly(c, q) ==
    \A s \in Sources : \A m \in q[s] : Future(c, m) \/ (c.waiting /\ Old(c, m))

RequestsEarly(c, p) == \A m \in p : Future(c, m)

\* processBacklog leaves only early messages.
LEMMA ReleasedBacklogs ==
    ASSUME NEW c \in Core, NEW q, BacklogsOK(q), NEW r,
           r = [s \in Sources |-> q[s] \ Popped(c, q[s])]
    PROVE  /\ BacklogsOK(r) /\ BacklogsEarly(c, r)
           /\ \A s \in Sources : \A m \in r[s] : Future(c, m)
           /\ \A s \in Sources : Posts(c, q[s]) \subseteq Messages
<1>1. \A s \in Sources : OneKind(q[s]) /\ q[s] \in SUBSET Messages
  BY DEF BacklogsOK, OneKind
<1>2. \A s \in Sources : r[s] = q[s] \ Popped(c, q[s])
  OBVIOUS
<1>3. \A s \in Sources : \A m \in r[s] : Future(c, m)
  BY <1>1, <1>2, LeftIsEarly
<1>4. BacklogsOK(r)
  BY <1>2 DEF BacklogsOK
<1>5. \A s \in Sources : Posts(c, q[s]) \subseteq Messages
  BY <1>1 DEF Posts, Popped
<1> QED
  BY <1>3, <1>4, <1>5 DEF BacklogsEarly

\* So does processPendingRequests.
LEMMA ReleasedRequests ==
    ASSUME NEW c \in Core, NEW p, RequestsOK(p)
    PROVE  /\ RequestsOK(p \ Popped(c, p)) /\ RequestsEarly(c, p \ Popped(c, p))
           /\ Posts(c, p) \subseteq Messages
<1>1. OneKind(p) /\ p \in SUBSET Messages
  BY DEF RequestsOK, OneKind
<1>2. RequestsEarly(c, p \ Popped(c, p))
  BY <1>1, LeftIsEarly DEF RequestsEarly
<1> QED
  BY <1>1, <1>2 DEF RequestsOK, Posts, Popped

IInv == TypeOK /\ OnlyFutureKept

\* The facts about the queues that the invariant holds, gathered.
Queues ==
    /\ core \in Core /\ posted \subseteq Messages
    /\ BacklogsOK(backlogs) /\ RequestsOK(pendingRequests)
    /\ running => BacklogsEarly(core, backlogs) /\ RequestsEarly(core, pendingRequests)

Rest ==
    /\ head \in 0 .. MaxSeq /\ running \in BOOLEAN
    /\ deferred \in Messages \cup {None}
    /\ known \subseteq Messages /\ handled \subseteq Messages

LEMMA InvariantParts == IInv <=> Queues /\ Rest
BY DEF IInv, TypeOK, OnlyFutureKept, Queues, Rest, BacklogsOK, RequestsOK,
       BacklogsEarly, RequestsEarly

\* Release, for a core that goes to c: everything left is early for c.
LEMMA ReleaseEstablishes ==
    ASSUME Queues, NEW c \in Core, NEW q, BacklogsOK(q), NEW ev \in SUBSET Messages,
           Release(c, q, ev),
           c.phase # "AcceptRequest" => RequestsEarly(c, pendingRequests)
    PROVE  /\ posted' \subseteq Messages
           /\ BacklogsOK(backlogs') /\ RequestsOK(pendingRequests')
           /\ \A s \in Sources : \A m \in backlogs'[s] : Future(c, m)
           /\ RequestsEarly(c, pendingRequests')
<1>1. /\ BacklogsOK(backlogs')
      /\ \A s \in Sources : \A m \in backlogs'[s] : Future(c, m)
      /\ \A s \in Sources : Posts(c, q[s]) \subseteq Messages
  <2>1. backlogs' = [s \in Sources |-> q[s] \ Popped(c, q[s])]
    BY DEF Release
  <2> QED
    BY <2>1, ReleasedBacklogs
<1>2. RequestsOK(pendingRequests)
  BY DEF Queues
<1>3. CASE c.phase = "AcceptRequest"
  <2>1. /\ pendingRequests' = pendingRequests \ Popped(c, pendingRequests)
        /\ posted' = ev \cup (UNION {Posts(c, q[s]) : s \in Sources})
                        \cup Posts(c, pendingRequests)
    BY <1>3 DEF Release
  <2>2. /\ RequestsOK(pendingRequests') /\ RequestsEarly(c, pendingRequests')
        /\ Posts(c, pendingRequests) \subseteq Messages
    BY <1>2, <2>1, ReleasedRequests
  <2>3. (UNION {Posts(c, q[s]) : s \in Sources}) \subseteq Messages
    BY <1>1
  <2>4. posted' \subseteq Messages
    BY <2>1, <2>2, <2>3
  <2> QED
    BY <1>1, <2>2, <2>4
<1>4. CASE c.phase # "AcceptRequest"
  <2>1. /\ pendingRequests' = pendingRequests
        /\ posted' = ev \cup (UNION {Posts(c, q[s]) : s \in Sources})
    BY <1>4 DEF Release
  <2> QED
    BY <1>1, <1>2, <1>4, <2>1
<1> QED
  BY <1>3, <1>4

\* A request is early as long as the sequence is the same.
LEMMA RequestsStayEarly ==
    ASSUME NEW p, RequestsOK(p), NEW c, NEW d, d.seq = c.seq, RequestsEarly(c, p)
    PROVE  RequestsEarly(d, p)
BY DEF RequestsOK, RequestsEarly, Future

LEMMA NewViewIsCore ==
    ASSUME NEW s \in Nat, NEW r \in Rounds
    PROVE  NewView(s, r) \in Core /\ NewView(s, r).phase = "AcceptRequest"
BY DEF NewView, Core, Phases

\* A new round or sequence.
LEMMA NewViewStep ==
    ASSUME Queues, NEW s \in Nat, NEW r \in Rounds, NEW q, BacklogsOK(q),
           NEW ev \in SUBSET Messages, setState(NewView(s, r), q, ev)
    PROVE  Queues'
<1>1. NewView(s, r) \in Core /\ NewView(s, r).phase = "AcceptRequest"
  BY NewViewIsCore
<1>2. core' = NewView(s, r) /\ Release(NewView(s, r), q, ev)
  BY DEF setState
<1>3. /\ posted' \subseteq Messages
      /\ BacklogsOK(backlogs') /\ RequestsOK(pendingRequests')
      /\ \A t \in Sources : \A m \in backlogs'[t] : Future(NewView(s, r), m)
      /\ RequestsEarly(NewView(s, r), pendingRequests')
  BY <1>1, <1>2, ReleaseEstablishes
<1> QED
  BY <1>1, <1>2, <1>3 DEF Queues, BacklogsEarly

\* A new phase of the same view.
LEMMA PhaseStep ==
    ASSUME Queues, running, NEW p \in Phases \ {"AcceptRequest"},
           NEW ev \in SUBSET Messages, EnterPhase(p, ev)
    PROVE  Queues'
<1> DEFINE c == [core EXCEPT !.phase = p]
<1>1. c \in Core /\ c.seq = core.seq
  BY DEF Queues, Core
<1>2. core' = c /\ Release(c, backlogs, ev)
  BY DEF EnterPhase, setState
<1>3. RequestsEarly(c, pendingRequests) /\ BacklogsOK(backlogs)
  BY <1>1, RequestsStayEarly DEF Queues
<1> HIDE DEF c
<1>4. /\ posted' \subseteq Messages
      /\ BacklogsOK(backlogs') /\ RequestsOK(pendingRequests')
      /\ \A t \in Sources : \A m \in backlogs'[t] : Future(c, m)
      /\ RequestsEarly(c, pendingRequests')
  BY <1>1, <1>2, <1>3, ReleaseEstablishes
<1> QED
  BY <1>1, <1>2, <1>4 DEF Queues, BacklogsEarly

\* The core goes to a higher round of its sequence and waits.
LEMMA HigherRound ==
    ASSUME NEW c \in Core, NEW d \in Core, d.seq = c.seq, d.round > c.round, d.waiting,
           NEW q, BacklogsOK(q), BacklogsEarly(c, q),
           NEW p, RequestsOK(p), RequestsEarly(c, p)
    PROVE  BacklogsEarly(d, q) /\ RequestsEarly(d, p)
<1>1. ASSUME NEW s \in Sources, NEW m \in q[s]
      PROVE  Future(d, m) \/ (d.waiting /\ Old(d, m))
  <2>1. m \in Messages /\ m.code # "REQUEST" /\ (Future(c, m) \/ (c.waiting /\ Old(c, m)))
    BY DEF BacklogsOK, BacklogsEarly
  <2> QED
    BY <2>1, HigherRoundKeeps
<1>2. BacklogsEarly(d, q)
  BY <1>1 DEF BacklogsEarly
<1> QED
  BY <1>2, RequestsStayEarly

LEMMA RoundChangeStep ==
    ASSUME Queues, running, running' = running, NEW r, NEW ev \in SUBSET Messages,
           sendRoundChange(r, ev)
    PROVE  Queues'
<1>1. /\ r \in Rounds /\ r > core.round
      /\ core' = [core EXCEPT !.round = r, !.waiting = TRUE]
      /\ posted' = ev /\ backlogs' = backlogs /\ pendingRequests' = pendingRequests
  BY DEF sendRoundChange
<1>2. /\ core \in Core /\ BacklogsOK(backlogs) /\ RequestsOK(pendingRequests)
      /\ BacklogsEarly(core, backlogs) /\ RequestsEarly(core, pendingRequests)
  BY DEF Queues
<1>3. core' \in Core /\ core'.seq = core.seq /\ core'.round > core.round /\ core'.waiting
  <2>1. core' \in Core /\ core'.seq = core.seq /\ core'.round = r /\ core'.waiting
    BY <1>1, <1>2 DEF Core
  <2> QED
    BY <1>1, <2>1
<1>4. BacklogsEarly(core', backlogs) /\ RequestsEarly(core', pendingRequests)
  BY <1>1, <1>2, <1>3, HigherRound
<1> QED
  BY <1>1, <1>2, <1>3, <1>4 DEF Queues

LEMMA CommitFailsStep ==
    ASSUME Queues, running, running' = running, NEW ev \in SUBSET Messages,
           commitFails(ev)
    PROVE  Queues'
<1> DEFINE c == [core EXCEPT !.phase = "Committed"]
<1>1. c \in Core /\ c.seq = core.seq /\ c.round = core.round /\ c.phase = "Committed"
  BY DEF Queues, Core, Phases
<1>2. /\ c.round + 1 \in Rounds /\ Release(c, backlogs, ev)
      /\ core' = [c EXCEPT !.round = c.round + 1, !.waiting = TRUE]
  BY <1>1 DEF commitFails
<1>3. RequestsEarly(c, pendingRequests) /\ BacklogsOK(backlogs)
  BY <1>1, RequestsStayEarly DEF Queues
<1> HIDE DEF c
<1>4. /\ posted' \subseteq Messages
      /\ BacklogsOK(backlogs') /\ RequestsOK(pendingRequests')
      /\ \A t \in Sources : \A m \in backlogs'[t] : Future(c, m)
      /\ RequestsEarly(c, pendingRequests')
  BY <1>1, <1>2, <1>3, ReleaseEstablishes
<1>5. BacklogsEarly(c, backlogs')
  BY <1>4 DEF BacklogsEarly
<1>6. core' \in Core /\ core'.seq = c.seq /\ core'.round > c.round /\ core'.waiting
  <2>1. c.round \in 0 .. 99
    BY <1>1, RoundsAssumption DEF Core
  <2>2. /\ core' \in Core /\ core'.seq = c.seq /\ core'.round = c.round + 1
        /\ core'.waiting
    BY <1>1, <1>2 DEF Core
  <2>3. core'.round > c.round
    BY <2>1, <2>2
  <2> QED
    BY <2>2, <2>3
<1>7. BacklogsEarly(core', backlogs') /\ RequestsEarly(core', pendingRequests')
  BY <1>1, <1>4, <1>5, <1>6, HigherRound
<1> QED
  BY <1>4, <1>6, <1>7 DEF Queues

LEMMA StayStep ==
    ASSUME Queues, running' = running, NEW ev \in SUBSET Messages, Stay(ev)
    PROVE  Queues'
BY DEF Queues, Stay

\* storeBacklog keeps an early consensus message of another validator.
LEMMA StoreKeeps ==
    ASSUME Queues, NEW m \in Messages, m.code # "REQUEST"
    PROVE  /\ BacklogsOK(storeBacklog(m))
           /\ running /\ Future(core, m) => BacklogsEarly(core, storeBacklog(m))
<1>1. CASE m.src = Self
  BY <1>1 DEF storeBacklog, Queues
<1>2. CASE m.src # Self
  <2> DEFINE q == [backlogs EXCEPT ![m.src] = @ \cup {m}]
  <2>1. /\ storeBacklog(m) = q /\ m.src \in Sources
        /\ backlogs \in [Sources -> SUBSET Messages]
    BY <1>2, MessageFields DEF storeBacklog, Queues, BacklogsOK
  <2>2. /\ q \in [Sources -> SUBSET Messages]
        /\ \A s \in Sources : \A x \in q[s] : x \in backlogs[s] \/ (x = m /\ s = m.src)
    BY <2>1
  <2> HIDE DEF q
  <2>3. BacklogsOK(q)
    BY <1>2, <2>2 DEF Queues, BacklogsOK
  <2>4. running /\ Future(core, m) => BacklogsEarly(core, q)
    BY <2>2 DEF Queues, BacklogsEarly
  <2> QED
    BY <2>1, <2>3, <2>4
<1> QED
  BY <1>1, <1>2

\* Every event handler keeps the invariant.
LEMMA HandlerStep ==
    ASSUME Queues, Rest, NEW m \in Messages, handleEvent(m)
    PROVE  Queues' /\ Rest'
<1> DEFINE ev == posted \ {m}
<1>1. /\ running /\ running' = running /\ head' = head /\ known' = known
      /\ ev \in SUBSET Messages
      /\ handleCheckedMsg(m, ev) \/ handleRequest(m, ev)
  BY DEF handleEvent, Queues
<1> HIDE DEF ev
<1>2. /\ core \in Core /\ BacklogsOK(backlogs) /\ RequestsOK(pendingRequests)
      /\ head + 1 \in Nat /\ core.seq \in Nat /\ 0 \in Rounds /\ m.round \in Rounds
      /\ deferred \in Messages \cup {None} /\ handled \subseteq Messages
  BY MessagesAssumption, RoundsAssumption DEF Queues, Rest, Core
<1>3. Rest'
  <2>1. deferred' \in {deferred, None, m} /\ handled' \subseteq handled \cup {m}
    BY <1>1 DEF handleCheckedMsg, handleRequest, Early, Late, Stay, handlePreprepare,
       deferPreprepare, handlePrepare, handleCommit, handleRoundChange,
       sendRoundChange, EnterPhase, commitFails, startNewRound, startNewSequence
  <2> QED
    BY <1>1, <1>2, <2>1 DEF Rest
<1> SUFFICES Queues'
  BY <1>3
<1>4. CASE m.code # "REQUEST" /\ Early(m, ev)
  <2>1. CASE head < core.seq /\ backlogs' = storeBacklog(m) /\ posted' = ev
             /\ UNCHANGED <<core, pendingRequests, deferred>>
    <3>1. BacklogsOK(backlogs') /\ BacklogsEarly(core, backlogs')
      BY <1>1, <1>4, <2>1, StoreKeeps DEF Early
    <3> QED
      BY <1>1, <2>1, <3>1 DEF Queues
  <2>2. CASE startNewSequence(storeBacklog(m), ev)
    <3>1. setState(NewView(head + 1, 0), storeBacklog(m), ev) /\ BacklogsOK(storeBacklog(m))
      BY <1>4, <2>2, StoreKeeps DEF startNewSequence
    <3> QED
      BY <1>1, <1>2, <3>1, NewViewStep
  <2> QED
    BY <1>4, <2>1, <2>2 DEF Early
<1>5. CASE Stay(ev)
  BY <1>1, <1>5, StayStep
<1>6. CASE EnterPhase("Preprepared", ev) \/ EnterPhase("Prepared", ev)
             \/ EnterPhase("Committed", ev)
  BY <1>1, <1>6, PhaseStep DEF Phases
<1>7. CASE sendRoundChange(core.round + 1, ev) \/ sendRoundChange(m.round, ev)
  BY <1>1, <1>7, RoundChangeStep
<1>8. CASE commitFails(ev)
  BY <1>1, <1>8, CommitFailsStep
<1>9. CASE startNewRound(m.round, ev)
  <2>1. \/ setState(NewView(head + 1, 0), backlogs, ev)
        \/ setState(NewView(core.seq, m.round), backlogs, ev)
    BY <1>9 DEF startNewRound, startNewSequence
  <2> QED
    BY <1>1, <1>2, <2>1, NewViewStep
<1>10. CASE deferPreprepare(m, ev)
  BY <1>1, <1>10 DEF Queues, deferPreprepare
<1>11. CASE /\ m.code = "REQUEST" /\ Future(core, m)
            /\ pendingRequests' = pendingRequests \cup {m}
            /\ posted' = ev
            /\ UNCHANGED <<core, backlogs, deferred, handled>>
  BY <1>1, <1>11 DEF Queues, RequestsOK, RequestsEarly
<1>12. handleRequest(m, ev) => Queues'
  BY <1>5, <1>11 DEF handleRequest
<1>13. handleCheckedMsg(m, ev) => Queues'
  BY <1>4, <1>5, <1>6, <1>7, <1>8, <1>9, <1>10
     DEF handleCheckedMsg, Late, handlePreprepare, handlePrepare, handleCommit,
         handleRoundChange
<1> QED
  BY <1>1, <1>12, <1>13

\* Whatever happens, the invariant is kept.
LEMMA InvariantStep == IInv /\ [Next]_vars => IInv'
<1> SUFFICES ASSUME Queues, Rest, [Next]_vars PROVE Queues' /\ Rest'
  BY InvariantParts, PTL
<1>1. ASSUME NEW m \in Messages, Receive(m) PROVE Queues' /\ Rest'
  BY <1>1 DEF Receive, Queues, Rest
<1>2. ASSUME NEW m \in Messages, handleEvent(m) PROVE Queues' /\ Rest'
  BY <1>2, HandlerStep
<1>3. ASSUME NEW r \in Rounds, handleTimeoutMsg(r) PROVE Queues' /\ Rest'
  <2>1. running /\ running' = running /\ sendRoundChange(r, posted) /\ posted \in SUBSET Messages
    BY <1>3 DEF handleTimeoutMsg, Queues
  <2>2. Rest'
    BY <1>3 DEF handleTimeoutMsg, sendRoundChange, Rest
  <2> QED
    BY <2>1, <2>2, RoundChangeStep
<1>4. CASE handleChainHead
  <2>1. /\ setState(NewView(head + 1, 0), backlogs, posted) /\ posted \in SUBSET Messages
        /\ BacklogsOK(backlogs) /\ head + 1 \in Nat /\ 0 \in Rounds
    BY <1>4, RoundsAssumption, MessagesAssumption
       DEF handleChainHead, startNewSequence, Queues, Rest
  <2>2. Rest'
    BY <1>4 DEF handleChainHead, startNewSequence, Rest
  <2> QED
    BY <2>1, <2>2, NewViewStep
<1>5. CASE futurePreprepareTimer
  BY <1>5 DEF futurePreprepareTimer, Queues, Rest
<1>6. CASE InsertBlock
  BY <1>6, MessagesAssumption DEF InsertBlock, Queues, Rest
<1>7. CASE Stop
  BY <1>7 DEF Stop, Queues, Rest
<1>8. CASE Start
  <2>1. /\ setState(NewView(head + 1, 0), backlogs, posted) /\ posted \in SUBSET Messages
        /\ BacklogsOK(backlogs) /\ head + 1 \in Nat /\ 0 \in Rounds
    BY <1>8, RoundsAssumption, MessagesAssumption DEF Start, Queues, Rest
  <2>2. Rest'
    BY <1>8 DEF Start, Rest
  <2> QED
    BY <2>1, <2>2, NewViewStep
<1>9. CASE UNCHANGED vars
  BY <1>9 DEF vars, Queues, Rest
<1> QED
  BY <1>1, <1>2, <1>3, <1>4, <1>5, <1>6, <1>7, <1>8, <1>9 DEF Next

\* The invariant holds when the core starts.
LEMMA InvariantInit == Init => IInv
<1> SUFFICES ASSUME Init PROVE Queues /\ Rest
  BY InvariantParts
<1> QED
  BY NewViewIsCore, RoundsAssumption, MessagesAssumption
     DEF Init, Queues, Rest, BacklogsOK, RequestsOK, BacklogsEarly, RequestsEarly

\* For every set of messages and every choice of rounds up to 99: a running core
\* never keeps in its backlogs or among its pending requests a message that it
\* could handle, and outside a round change keeps no message that is old.
THEOREM OnlyFutureKeptAlways == Spec => []OnlyFutureKept
<1>1. IInv => OnlyFutureKept
  BY DEF IInv
<1> QED
  BY <1>1, InvariantInit, InvariantStep, PTL DEF Spec

\* Every variable keeps its type, and no message of the core itself or request of
\* its miner ever enters the backlogs.
THEOREM TypeCorrect == Spec => []TypeOK
<1>1. IInv => TypeOK
  BY DEF IInv
<1> QED
  BY <1>1, InvariantInit, InvariantStep, PTL DEF Spec
-----------------------------------------------------------------------------
(* No message is dropped *)

Up(c, d) == d.seq > c.seq \/ (d.seq = c.seq /\ d.round > c.round)

\* How the view and phase of a running core move: no handler takes it back to
\* AcceptRequest or lets it wait in a view in which it votes.
Forward(c, d) ==
    \/ Up(c, d)
    \/ /\ d.seq = c.seq /\ d.round = c.round
       /\ (~ c.waiting /\ c.phase # "AcceptRequest") =>
             ~ d.waiting /\ d.phase # "AcceptRequest"

\* What a step, with the event m or none, does to the timer of a PREPREPARE.
DeferStep(m) ==
    \/ /\ deferred' = deferred
       /\ core'.seq = core.seq /\ core'.round = core.round /\ core'.waiting = core.waiting
    \/ /\ deferred' = None
       /\ deferred # None => Up(core, core') \/ core.waiting
    \/ /\ deferred' = m /\ core' = core
       /\ m.code = "PREPREPARE" /\ SameView(core, m)
       /\ m.src = GetProposer(core.seq, core.round) /\ ~ core.waiting

Queued == posted \cup (UNION {backlogs[s] : s \in Sources}) \cup pendingRequests

Excused(x) == x \in handled' \/ Old(core, x) \/ Old(core', x) \/ OwnProposal(x)

NotOwnVote(x) == x.src = Self => x.code \in {"REQUEST", "PREPREPARE"}

\* What a step does to the events and the queues.
QueueStep ==
    /\ \A x \in Queued \ Queued' : x = deferred' \/ Excused(x)
    /\ \A x \in posted' \ posted : NotOwnVote(x)

\* An early message of a queue is not popped; one that is neither early nor old is
\* posted.
LEMMA PoppedIsPosted ==
    ASSUME NEW c, NEW q \in SUBSET Messages, NEW x \in Popped(c, q), ~ Old(c, x)
    PROVE  x \in Posts(c, q)
<1>1. x \in q /\ (Future(c, x) => toPriority(x) > toPriority(x))
  BY DEF Popped
<1>2. x.seq \in Nat /\ x.round \in Nat /\ msgPriority(x.code) \in Nat
  BY <1>1, MessageFields DEF msgPriority
<1>3. toPriority(x) \in Int
  BY <1>2 DEF toPriority
<1>4. ~ (toPriority(x) > toPriority(x))
  <2> HIDE DEF toPriority
  <2> QED  BY <1>3
<1> QED  BY <1>1, <1>4 DEF Posts, Accepts

\* Release lets go only of messages that are old.
LEMMA ReleaseStep ==
    ASSUME NEW c \in Core, NEW q, BacklogsOK(q), RequestsOK(pendingRequests),
           NEW ev \in SUBSET Messages, Release(c, q, ev)
    PROVE  /\ \A x \in ev \cup (UNION {q[s] : s \in Sources}) \cup pendingRequests :
                 x \in Queued' \/ Old(c, x)
           /\ \A x \in posted' \ ev : NotOwnVote(x)
<1>1. /\ \A s \in Sources : backlogs'[s] = q[s] \ Popped(c, q[s])
      /\ posted' = (ev \cup (UNION {Posts(c, q[s]) : s \in Sources}))
                      \cup (IF c.phase = "AcceptRequest" THEN Posts(c, pendingRequests) ELSE {})
      /\ pendingRequests' = pendingRequests \
             (IF c.phase = "AcceptRequest" THEN Popped(c, pendingRequests) ELSE {})
  BY DEF Release
<1>2. /\ \A s \in Sources : q[s] \in SUBSET Messages
      /\ pendingRequests \in SUBSET Messages
  BY DEF BacklogsOK, RequestsOK
<1>3. \A x \in ev : x \in Queued'
  BY <1>1 DEF Queued
<1>4. ASSUME NEW s \in Sources, NEW x \in q[s] PROVE x \in Queued' \/ Old(c, x)
  <2>1. CASE x \notin Popped(c, q[s])
    BY <2>1, <1>1 DEF Queued
  <2>2. CASE x \in Popped(c, q[s]) /\ ~ Old(c, x)
    <3>1. x \in Posts(c, q[s])
      BY <2>2, <1>2, PoppedIsPosted
    <3> QED  BY <3>1, <1>1 DEF Queued
  <2> QED  BY <2>1, <2>2
<1>5. ASSUME NEW x \in pendingRequests PROVE x \in Queued' \/ Old(c, x)
  <2>1. CASE x \in pendingRequests'
    BY <2>1 DEF Queued
  <2>2. CASE x \notin pendingRequests' /\ ~ Old(c, x)
    <3>1. c.phase = "AcceptRequest" /\ x \in Popped(c, pendingRequests)
      BY <2>2, <1>1
    <3>2. x \in Posts(c, pendingRequests)
      BY <3>1, <2>2, <1>2, PoppedIsPosted
    <3> QED  BY <3>1, <3>2, <1>1 DEF Queued
  <2> QED  BY <2>1, <2>2
<1>6. ASSUME NEW x \in posted' \ ev PROVE NotOwnVote(x)
  <2>1. CASE \E s \in Sources : x \in Posts(c, q[s])
    BY <2>1 DEF Posts, Popped, BacklogsOK, NotOwnVote
  <2>2. CASE x \in Posts(c, pendingRequests)
    BY <2>2 DEF Posts, Popped, RequestsOK, NotOwnVote
  <2> QED  BY <2>1, <2>2, <1>1
<1> QED  BY <1>3, <1>4, <1>5, <1>6

\* Old depends on the view only.
LEMMA OldSameView ==
    ASSUME NEW c, NEW d, NEW x, c.seq = d.seq, c.round = d.round, Old(c, x)
    PROVE  Old(d, x)
BY DEF Old, Older

\* A handler of the event m that releases the queues.
LEMMA ReleaseQueueStep ==
    ASSUME Queues, NEW m \in Messages, NEW c \in Core,
           NEW q, BacklogsOK(q), \A s \in Sources : backlogs[s] \subseteq q[s],
           Release(c, q, posted \ {m}) \/ Release(c, q, posted),
           Excused(m) \/ (\E s \in Sources : m \in q[s]) \/ Release(c, q, posted),
           \A x : Old(c, x) => Old(core, x) \/ Old(core', x)
    PROVE  QueueStep
<1>1. PICK ev \in {posted \ {m}, posted} : Release(c, q, ev) /\
           (Excused(m) \/ (\E s \in Sources : m \in q[s]) \/ ev = posted)
  OBVIOUS
<1>2. RequestsOK(pendingRequests) /\ ev \in SUBSET Messages
  BY DEF Queues
<1>3. /\ \A x \in ev \cup (UNION {q[s] : s \in Sources}) \cup pendingRequests :
             x \in Queued' \/ Old(c, x)
      /\ \A x \in posted' \ ev : NotOwnVote(x)
  BY <1>1, <1>2, ReleaseStep
<1>4. ASSUME NEW x \in Queued, x \notin Queued' PROVE Excused(x)
  <2>1. CASE x \in ev \cup (UNION {q[s] : s \in Sources}) \cup pendingRequests
    BY <2>1, <1>3, <1>4 DEF Excused
  <2>2. CASE x \notin ev \cup (UNION {q[s] : s \in Sources}) \cup pendingRequests
    <3>1. x \notin ev /\ x \notin pendingRequests /\ \A s \in Sources : x \notin q[s]
      BY <2>2
    <3>2. x \in posted
      BY <3>1, <1>4 DEF Queued
    <3>3. x = m /\ ev # posted
      BY <3>1, <3>2, <1>1
    <3> QED  BY <3>1, <3>3, <1>1
  <2> QED  BY <2>1, <2>2
<1>5. \A x \in posted' \ posted : NotOwnVote(x)
  BY <1>1, <1>3
<1> QED  BY <1>4, <1>5 DEF QueueStep

\* The view and phase of a handler's step, and what it does to the timer.
LEMMA NewViewForward ==
    ASSUME core \in Core, NEW s \in Nat, NEW r \in Rounds, core' = NewView(s, r),
           s > core.seq \/ (s = core.seq /\ r >= core.round)
    PROVE  /\ Up(core, core') \/ (core'.seq = core.seq /\ core'.round = core.round)
           /\ Up(core, core') \/ core.waiting => Forward(core, core')
           /\ s > core.seq \/ r > core.round => Up(core, core')
<1>1. core'.seq = s /\ core'.round = r
  BY DEF NewView
<1>2. core.seq \in Nat /\ core.round \in 0 .. 99 /\ r \in 0 .. 99
  BY RoundsAssumption DEF Core
<1>3. Up(core, core') \/ (core'.seq = core.seq /\ core'.round = core.round)
  BY <1>1, <1>2 DEF Up
<1>4. s > core.seq \/ r > core.round => Up(core, core')
  BY <1>1, <1>2 DEF Up
<1> QED  BY <1>3, <1>4 DEF Forward

\* startNewSequence, for an event that is kept, or without one.
LEMMA NewSequenceDrops ==
    ASSUME Queues, Rest, NEW m \in Messages, NEW q, BacklogsOK(q),
           \A s \in Sources : backlogs[s] \subseteq q[s],
           startNewSequence(q, posted \ {m}) \/ startNewSequence(q, posted),
           Excused(m) \/ (\E s \in Sources : m \in q[s]) \/ startNewSequence(q, posted)
    PROVE  Forward(core, core') /\ DeferStep(m) /\ QueueStep
<1> DEFINE c == NewView(head + 1, 0)
<1>1. /\ core' = c /\ deferred' = None /\ head >= core.seq
      /\ Release(c, q, posted \ {m}) \/ Release(c, q, posted)
      /\ Excused(m) \/ (\E s \in Sources : m \in q[s]) \/ Release(c, q, posted)
  BY DEF startNewSequence, setState
<1>2. /\ core \in Core /\ head + 1 \in Nat /\ 0 \in Rounds /\ c \in Core
      /\ head + 1 > core.seq
  BY <1>1, RoundsAssumption, MessagesAssumption, NewViewIsCore DEF Queues, Rest, Core
<1>3. Up(core, core') /\ Forward(core, core')
  BY <1>1, <1>2, NewViewForward
<1> HIDE DEF c
<1>4. QueueStep
  BY <1>1, <1>2, ReleaseQueueStep
<1> QED  BY <1>1, <1>3, <1>4 DEF DeferStep

\* sendRoundChange.
LEMMA RoundChangeDrops ==
    ASSUME Queues, NEW m \in Messages, NEW r,
           \/ sendRoundChange(r, posted \ {m}) /\ Excused(m)
           \/ sendRoundChange(r, posted)
    PROVE  Forward(core, core') /\ DeferStep(m) /\ QueueStep
<1>1. /\ r > core.round /\ core' = [core EXCEPT !.round = r, !.waiting = TRUE]
      /\ deferred' = None /\ backlogs' = backlogs /\ pendingRequests' = pendingRequests
      /\ posted' \subseteq posted /\ (posted \ posted' = {} \/ (posted \ {m} \subseteq posted' /\ Excused(m)))
  BY DEF sendRoundChange
<1>2. core'.seq = core.seq /\ core'.round = r
  BY <1>1 DEF Queues, Core
<1>3. Up(core, core')
  BY <1>1, <1>2 DEF Up
<1>4. QueueStep
  BY <1>1 DEF QueueStep, Queued
<1> QED  BY <1>1, <1>3, <1>4 DEF DeferStep, Forward

\* A step that leaves the view, the phase and the queues alone.
LEMMA StayDrops ==
    ASSUME NEW m \in Messages, Stay(posted \ {m}), Excused(m)
    PROVE  Forward(core, core') /\ DeferStep(m) /\ QueueStep
BY DEF Stay, Forward, DeferStep, QueueStep, Queued

\* A change of phase.
LEMMA PhaseDrops ==
    ASSUME Queues, NEW m \in Messages, NEW p \in Phases \ {"AcceptRequest"},
           EnterPhase(p, posted \ {m}), Excused(m)
    PROVE  Forward(core, core') /\ DeferStep(m) /\ QueueStep
<1> DEFINE c == [core EXCEPT !.phase = p]
<1>1. /\ c \in Core /\ c.seq = core.seq /\ c.round = core.round
      /\ c.waiting = core.waiting /\ c.phase = p
  BY DEF Queues, Core
<1>2. core' = c /\ Release(c, backlogs, posted \ {m}) /\ deferred' = deferred
  BY DEF EnterPhase, setState
<1> HIDE DEF c
<1>3. Forward(core, core') /\ DeferStep(m)
  BY <1>1, <1>2 DEF Forward, DeferStep
<1>4. BacklogsOK(backlogs) /\ \A x : Old(c, x) => Old(core', x)
  BY <1>2 DEF Queues
<1>5. QueueStep
  BY <1>1, <1>2, <1>4, ReleaseQueueStep
<1> QED  BY <1>3, <1>5

\* A commit that fails.
LEMMA CommitFailsDrops ==
    ASSUME Queues, NEW m \in Messages, commitFails(posted \ {m}), Excused(m)
    PROVE  Forward(core, core') /\ DeferStep(m) /\ QueueStep
<1> DEFINE c == [core EXCEPT !.phase = "Committed"]
<1>1. c \in Core /\ c.seq = core.seq /\ c.round = core.round
  BY DEF Queues, Core, Phases
<1>2. /\ core' = [c EXCEPT !.round = c.round + 1, !.waiting = TRUE]
      /\ Release(c, backlogs, posted \ {m}) /\ deferred' = None
  BY DEF commitFails
<1> HIDE DEF c
<1>3. Up(core, core')
  <2>1. core.round \in 0 .. 99
    BY RoundsAssumption DEF Queues, Core
  <2>2. core'.seq = core.seq /\ core'.round = core.round + 1
    BY <1>1, <1>2 DEF Core
  <2> QED  BY <2>1, <2>2 DEF Up
<1>4. BacklogsOK(backlogs) /\ \A x : Old(c, x) => Old(core, x)
  BY <1>1, OldSameView DEF Queues
<1>5. QueueStep
  BY <1>1, <1>2, <1>4, ReleaseQueueStep
<1> QED  BY <1>2, <1>3, <1>5 DEF DeferStep, Forward

\* A round that a quorum asked for.
LEMMA NewRoundDrops ==
    ASSUME Queues, Rest, NEW m \in Messages, core.waiting \/ core.round < m.round,
           startNewRound(m.round, posted \ {m}), Excused(m)
    PROVE  Forward(core, core') /\ DeferStep(m) /\ QueueStep
<1>0. BacklogsOK(backlogs)
  BY DEF Queues
<1>1. CASE startNewSequence(backlogs, posted \ {m})
  BY <1>0, <1>1, NewSequenceDrops
<1>2. CASE /\ m.round >= core.round /\ deferred' = None
           /\ setState(NewView(core.seq, m.round), backlogs, posted \ {m})
  <2> DEFINE c == NewView(core.seq, m.round)
  <2>1. core' = c /\ Release(c, backlogs, posted \ {m})
    BY <1>2 DEF setState
  <2>2. core \in Core /\ core.seq \in Nat /\ m.round \in Rounds /\ c \in Core
    BY MessagesAssumption, NewViewIsCore DEF Queues, Core
  <2>3. /\ Up(core, core') \/ core.waiting => Forward(core, core')
        /\ m.round > core.round => Up(core, core')
    BY <1>2, <2>1, <2>2, NewViewForward
  <2>4. Up(core, core') \/ core.waiting
    <3>1. core.round < m.round => m.round > core.round
      BY <2>2, RoundsAssumption DEF Core
    <3> QED  BY <2>3, <3>1
  <2> HIDE DEF c
  <2>5. QueueStep
    BY <1>0, <2>1, <2>2, ReleaseQueueStep
  <2> QED  BY <1>2, <2>3, <2>4, <2>5 DEF DeferStep
<1> QED  BY <1>1, <1>2 DEF startNewRound

\* An early message is kept, and so is what was kept before; the core's own votes
\* are never early.
LEMMA EarlyDrops ==
    ASSUME Queues, Rest, OwnVotesInTime, NEW m \in posted, m.code # "REQUEST",
           Early(m, posted \ {m})
    PROVE  Forward(core, core') /\ DeferStep(m) /\ QueueStep
<1> DEFINE q == storeBacklog(m)
<1>0. m \in Messages /\ m.src \in Sources /\ Future(core, m) /\ BacklogsOK(backlogs)
  BY MessageFields DEF Queues, Early
<1>1. BacklogsOK(q)
  BY <1>0, StoreKeeps
<1>2. (\A s \in Sources : backlogs[s] \subseteq q[s]) /\ (m.src # Self => m \in q[m.src])
  BY <1>0 DEF storeBacklog, BacklogsOK
<1>3. m.src = Self => OwnProposal(m)
  BY <1>0 DEF OwnVotesInTime, OwnProposal
<1>4. Excused(m) \/ \E s \in Sources : m \in q[s]
  BY <1>0, <1>2, <1>3 DEF Excused
<1> HIDE DEF q
<1>5. CASE startNewSequence(q, posted \ {m})
  BY <1>0, <1>1, <1>2, <1>4, <1>5, NewSequenceDrops
<1>6. CASE /\ backlogs' = q /\ posted' = posted \ {m}
           /\ UNCHANGED <<core, pendingRequests, deferred>>
  <2>1. Forward(core, core') /\ DeferStep(m)
    BY <1>6 DEF Forward, DeferStep
  <2>2. ASSUME NEW x \in Queued, x \notin Queued' PROVE Excused(x)
    <3>1. x \notin posted' /\ x \notin pendingRequests' /\ \A s \in Sources : x \notin q[s]
      BY <1>6, <2>2 DEF Queued
    <3>2. x = m
      BY <1>2, <1>6, <3>1 DEF Queued
    <3> QED  BY <1>4, <3>1, <3>2
  <2>3. \A x \in posted' \ posted : NotOwnVote(x)
    BY <1>6
  <2> QED  BY <2>1, <2>2, <2>3 DEF QueueStep
<1> QED  BY <1>5, <1>6 DEF Early, q

\* A PREPREPARE that the core accepts is one of its view.
LEMMA DeferDrops ==
    ASSUME Queues, NEW m \in posted, m.code = "PREPREPARE", Accepts(core, m),
           m.src = GetProposer(core.seq, core.round), deferPreprepare(m, posted \ {m})
    PROVE  Forward(core, core') /\ DeferStep(m) /\ QueueStep
<1>1. /\ core.seq \in Nat /\ core.round \in 0 .. 99 /\ m.seq \in Nat /\ m.round \in 0 .. 99
  BY RoundsAssumption, MessageFields DEF Queues, Core
<1>2. ~ Newer(core, m) /\ ~ Older(core, m)
      /\ (SameView(core, m) => ~ core.waiting)
  BY DEF Accepts, Future, Old
<1>3. SameView(core, m) /\ ~ core.waiting
  BY <1>1, <1>2, Compared
<1>4. QueueStep
  BY DEF deferPreprepare, QueueStep, Queued
<1> QED  BY <1>3, <1>4 DEF deferPreprepare, Forward, DeferStep

LEMMA HandlerDrops ==
    ASSUME Queues, Rest, OwnVotesInTime, NEW m \in Messages, handleEvent(m)
    PROVE  Forward(core, core') /\ DeferStep(m) /\ QueueStep
<1> DEFINE Goal == Forward(core, core') /\ DeferStep(m) /\ QueueStep
<1>0. m \in posted /\ (handleCheckedMsg(m, posted \ {m}) \/ handleRequest(m, posted \ {m}))
  BY DEF handleEvent
<1>1. ASSUME m \in handled' \/ Old(core, m) PROVE Excused(m)
  BY <1>1 DEF Excused
<1> SUFFICES Goal
  OBVIOUS
<1> HIDE DEF Goal
<1>2. ASSUME Excused(m), Stay(posted \ {m}) PROVE Goal
  BY <1>2, StayDrops DEF Goal
<1>3. ASSUME Excused(m), NEW p \in Phases \ {"AcceptRequest"}, EnterPhase(p, posted \ {m}) PROVE Goal
  BY <1>3, PhaseDrops DEF Goal
<1>4. ASSUME Excused(m), NEW r, sendRoundChange(r, posted \ {m}) PROVE Goal
  BY <1>4, RoundChangeDrops DEF Goal
<1>5. CASE m.code # "REQUEST" /\ Early(m, posted \ {m})
  BY <1>0, <1>5, EarlyDrops DEF Goal
<1>6. CASE Late(m, posted \ {m})
  BY <1>1, <1>2, <1>6 DEF Late
<1>7. CASE handlePreprepare(m, posted \ {m})
  <2>1. CASE m.src = GetProposer(core.seq, core.round) /\ deferPreprepare(m, posted \ {m})
    BY <1>0, <1>7, <2>1, DeferDrops DEF handlePreprepare, Goal
  <2> QED  BY <1>1, <1>2, <1>3, <1>4, <1>7, <2>1 DEF handlePreprepare, Phases
<1>8. CASE handlePrepare(m, posted \ {m})
  BY <1>1, <1>2, <1>3, <1>8 DEF handlePrepare, Phases
<1>9. CASE handleCommit(m, posted \ {m})
  <2>1. ASSUME Excused(m), commitFails(posted \ {m}) PROVE Goal
    BY <2>1, CommitFailsDrops DEF Goal
  <2> QED  BY <1>1, <1>2, <1>3, <1>9, <2>1 DEF handleCommit, Phases
<1>10. CASE handleRoundChange(m, posted \ {m})
  <2>1. ASSUME Excused(m), core.waiting \/ core.round < m.round,
               startNewRound(m.round, posted \ {m})
        PROVE  Goal
    BY <2>1, NewRoundDrops DEF Goal
  <2> QED  BY <1>1, <1>2, <1>4, <1>10, <2>1 DEF handleRoundChange
<1>11. CASE handleRequest(m, posted \ {m})
  <2>1. CASE /\ pendingRequests' = pendingRequests \cup {m} /\ posted' = posted \ {m}
             /\ UNCHANGED <<core, backlogs, deferred, handled>>
    BY <2>1 DEF Goal, Forward, DeferStep, QueueStep, Queued
  <2> QED  BY <1>1, <1>2, <1>11, <2>1 DEF handleRequest
<1> QED
  BY <1>0, <1>5, <1>6, <1>7, <1>8, <1>9, <1>10, <1>11 DEF handleCheckedMsg

\* What is not early stays so as the core moves on.
LEMMA OwnVoteStaysInTime ==
    ASSUME core \in Core, core' \in Core, Forward(core, core'), NEW x \in Messages,
           x.code \notin {"REQUEST", "PREPREPARE"}, ~ Future(core, x)
    PROVE  ~ Future(core', x)
<1>1. /\ core.seq \in Nat /\ core.round \in 0 .. 99 /\ core'.seq \in Nat
      /\ core'.round \in 0 .. 99 /\ x.seq \in Nat /\ x.round \in 0 .. 99
  BY RoundsAssumption, MessageFields DEF Core
<1>2. CASE x.code = "ROUNDCHANGE"
  <2>1. ~ (x.seq > core.seq) /\ core'.seq >= core.seq
    BY <1>1, <1>2 DEF Future, Forward, Up
  <2>2. ~ (x.seq > core'.seq)
    BY <2>1, <1>1
  <2> QED  BY <2>2, <1>2 DEF Future
<1>3. CASE x.code # "ROUNDCHANGE"
  <2>1. /\ ~ Newer(core, x)
        /\ SameView(core, x) => ~ core.waiting /\ core.phase # "AcceptRequest"
    BY <1>3 DEF Future
  <2>2. CASE Up(core, core')
    <3>1. ~ Newer(core', x) /\ ~ SameView(core', x)
      BY <1>1, <2>1, <2>2, SMTT(30) DEF Up, Newer, SameView
    <3> QED  BY <1>3, <3>1 DEF Future
  <2>3. CASE ~ Up(core, core')
    <3>1. /\ core'.seq = core.seq /\ core'.round = core.round
          /\ (~ core.waiting /\ core.phase # "AcceptRequest") =>
                ~ core'.waiting /\ core'.phase # "AcceptRequest"
      BY <2>3 DEF Forward
    <3>2. ~ Newer(core', x) /\ (SameView(core', x) => SameView(core, x))
      BY <2>1, <3>1 DEF Newer, SameView
    <3> QED  BY <1>3, <2>1, <3>1, <3>2 DEF Future
  <2> QED  BY <2>2, <2>3
<1> QED  BY <1>2, <1>3

\* A step of this form of a running core keeps DropInv and drops nothing.
LEMMA StepDrops ==
    ASSUME Queues, Rest, DropInv, Queues', running, running' = running, NEW m \in Messages,
           Forward(core, core'), DeferStep(m), QueueStep
    PROVE  DropInv' /\ \A x \in Kept \ Kept' : Excused(x)
<1>0. core \in Core /\ core' \in Core /\ posted \subseteq Messages
  BY DEF Queues
<1>1. OwnVotesInTime'
  <2> SUFFICES ASSUME NEW x \in posted', x.src = Self, x.code \notin {"REQUEST", "PREPREPARE"}
               PROVE  ~ Future(core', x)
    BY DEF OwnVotesInTime, Future, SameView, Newer
  <2>1. x \in posted
    BY DEF QueueStep, NotOwnVote
  <2>2. ~ Future(core, x) /\ x \in Messages
    BY <1>0, <2>1 DEF DropInv, OwnVotesInTime
  <2> QED  BY <1>0, <2>2, OwnVoteStaysInTime
<1>2. DeferredInView'
  BY DEF DropInv, DeferredInView, DeferStep, SameView
<1>3. StoppedIsQuiet'
  BY DEF StoppedIsQuiet
<1>4. ASSUME deferred # None, deferred' # deferred PROVE Excused(deferred)
  <2>1. /\ deferred \in Messages /\ deferred.code = "PREPREPARE" /\ SameView(core, deferred)
        /\ deferred.src = GetProposer(core.seq, core.round) /\ ~ core.waiting
    BY <1>4 DEF DropInv, DeferredInView, Rest
  <2>2. CASE deferred' = None
    <3>1. Up(core, core')
      BY <1>4, <2>1, <2>2, MessagesAssumption DEF DeferStep
    <3>2. core.seq \in Nat /\ core.round \in 0 .. 99 /\ core'.seq \in Nat /\ core'.round \in 0 .. 99
      BY <1>0, RoundsAssumption DEF Core
    <3>3. Older(core', deferred)
      BY <2>1, <3>1, <3>2 DEF Older, SameView, Up
    <3> QED  BY <2>1, <3>3 DEF Old, Excused
  <2>3. CASE deferred' = m
    <3>1. /\ m.code = "PREPREPARE" /\ SameView(core, m)
          /\ m.src = GetProposer(core.seq, core.round)
      BY <1>4, <2>3, MessagesAssumption DEF DeferStep
    <3>2. m.code = deferred.code /\ m.src = deferred.src /\ m.seq = deferred.seq
          /\ m.round = deferred.round
      BY <2>1, <3>1 DEF SameView
    <3>3. m \in Message /\ deferred \in Message
      BY <2>1, MessagesAssumption
    <3>4. m = deferred
      BY <3>2, <3>3 DEF Message
    <3> QED  BY <1>4, <2>3, <3>4
  <2> QED  BY <1>4, <2>2, <2>3 DEF DeferStep
<1>5. ASSUME NEW x \in Kept \ Kept' PROVE Excused(x)
  <2>1. (x \notin Queued' /\ x # deferred') \/ x = None
    BY <1>5 DEF Kept, Queued
  <2>2. x # None
    BY <1>0, MessagesAssumption DEF Kept, Queues, BacklogsOK, RequestsOK
  <2>3. CASE x \in Queued
    BY <2>1, <2>2, <2>3 DEF QueueStep
  <2>4. CASE x = deferred
    BY <1>4, <2>1, <2>2, <2>4
  <2> QED  BY <2>3, <2>4, <1>5 DEF Kept, Queued
<1> QED  BY <1>1, <1>2, <1>3, <1>5 DEF DropInv

Dropless == \A x \in Kept \ Kept' : running' => Excused(x)

\* Every step keeps DropInv and drops nothing that it should not.
LEMMA NextDrops ==
    ASSUME Queues, Rest, DropInv, Queues', [Next]_vars
    PROVE  DropInv' /\ Dropless
<1>0. core \in Core /\ posted \in SUBSET Messages /\ BacklogsOK(backlogs)
  BY DEF Queues
<1>1. ASSUME NEW m \in Messages, Receive(m) PROVE DropInv' /\ Dropless
  <2>1. /\ posted' = posted \cup {m} /\ running /\ running' = running
        /\ UNCHANGED <<core, backlogs, pendingRequests, deferred>>
    BY <1>1 DEF Receive
  <2>2. OwnVotesInTime'
    <3>1. (m.src = Self /\ m.code \notin {"REQUEST", "PREPREPARE"}) => ~ Future(core, m)
      BY <1>1 DEF Receive, Broadcasts, Accepts
    <3> QED  BY <2>1, <3>1 DEF DropInv, OwnVotesInTime
  <2>3. DeferredInView' /\ StoppedIsQuiet'
    BY <2>1 DEF DropInv, DeferredInView, StoppedIsQuiet, SameView
  <2>4. Dropless
    BY <2>1 DEF Dropless, Kept
  <2> QED  BY <2>2, <2>3, <2>4 DEF DropInv
<1>2. ASSUME NEW m \in Messages, handleEvent(m) PROVE DropInv' /\ Dropless
  <2>1. running /\ running' = running
    BY <1>2 DEF handleEvent
  <2>2. Forward(core, core') /\ DeferStep(m) /\ QueueStep
    BY <1>2, HandlerDrops DEF DropInv
  <2> QED  BY <1>2, <2>1, <2>2, StepDrops DEF Dropless
<1>3. ASSUME NEW r \in Rounds, handleTimeoutMsg(r) PROVE DropInv' /\ Dropless
  <2>0. running /\ running' = running /\ sendRoundChange(r, posted) /\ deferred' = None
    BY <1>3 DEF handleTimeoutMsg, sendRoundChange
  <2>1. CASE Messages = {}
    <3>1. Queued = {} /\ deferred = None /\ posted' = {}
      BY <1>0, <2>0, <2>1 DEF Queued, Rest, Queues, BacklogsOK, RequestsOK, sendRoundChange
    <3> QED  BY <2>0, <3>1 DEF DropInv, OwnVotesInTime, DeferredInView, StoppedIsQuiet,
                 Dropless, Kept, Queued
  <2>2. ASSUME NEW m \in Messages PROVE DropInv' /\ Dropless
    <3>1. Forward(core, core') /\ DeferStep(m) /\ QueueStep
      BY <2>0, RoundChangeDrops
    <3> QED  BY <2>0, <3>1, StepDrops DEF Dropless
  <2> QED  BY <2>1, <2>2
<1>4. CASE handleChainHead
  <2>0. /\ running /\ running' = running /\ startNewSequence(backlogs, posted) /\ deferred' = None
    BY <1>4 DEF handleChainHead, startNewSequence
  <2>1. CASE Messages = {}
    <3>1. Queued = {} /\ deferred = None
      BY <1>0, <2>1 DEF Queued, Rest, Queues, BacklogsOK, RequestsOK
    <3>2. posted' = {}
      BY <2>1 DEF Queues
    <3> QED  BY <2>0, <3>1, <3>2 DEF DropInv, OwnVotesInTime, DeferredInView, StoppedIsQuiet,
                 Dropless, Kept, Queued
  <2>2. ASSUME NEW m \in Messages PROVE DropInv' /\ Dropless
    <3>1. Forward(core, core') /\ DeferStep(m) /\ QueueStep
      BY <1>0, <2>0, NewSequenceDrops
    <3> QED  BY <2>0, <3>1, StepDrops DEF Dropless
  <2> QED  BY <2>1, <2>2
<1>5. CASE futurePreprepareTimer
  <2>1. /\ deferred # None /\ posted' = posted \cup {deferred} /\ deferred' = None
        /\ UNCHANGED <<core, running, backlogs, pendingRequests>>
    BY <1>5 DEF futurePreprepareTimer
  <2>2. OwnVotesInTime' /\ DeferredInView' /\ StoppedIsQuiet'
    BY <2>1 DEF DropInv, OwnVotesInTime, DeferredInView, StoppedIsQuiet
  <2>3. Dropless
    BY <2>1 DEF Dropless, Kept
  <2> QED  BY <2>2, <2>3 DEF DropInv
<1>6. CASE InsertBlock \/ UNCHANGED vars
  <2>1. UNCHANGED <<core, running, backlogs, pendingRequests, deferred, posted>>
    BY <1>6 DEF InsertBlock, vars
  <2>2. DropInv'
    BY <2>1 DEF DropInv, OwnVotesInTime, DeferredInView, StoppedIsQuiet, SameView
  <2>3. Dropless
    BY <2>1 DEF Dropless, Kept
  <2> QED  BY <2>2, <2>3
<1>7. CASE Stop
  <2>1. ~ running' /\ posted' = {} /\ deferred' = None
    BY <1>7 DEF Stop
  <2> QED  BY <2>1 DEF DropInv, OwnVotesInTime, DeferredInView, StoppedIsQuiet, Dropless
<1>8. CASE Start
  <2> DEFINE c == NewView(head + 1, 0)
  <2>1. /\ ~ running /\ running' /\ posted = {} /\ deferred = None /\ deferred' = None
        /\ core' = c /\ Release(c, backlogs, {})
    BY <1>8 DEF Start, setState, DropInv, StoppedIsQuiet
  <2>2. c \in Core /\ RequestsOK(pendingRequests) /\ {} \in SUBSET Messages
    BY RoundsAssumption, MessagesAssumption, NewViewIsCore DEF Rest, Queues
  <2> HIDE DEF c
  <2>3. /\ \A x \in {} \cup (UNION {backlogs[s] : s \in Sources}) \cup pendingRequests :
               x \in Queued' \/ Old(c, x)
        /\ \A x \in posted' \ {} : NotOwnVote(x)
    BY <1>0, <2>1, <2>2, ReleaseStep
  <2>4. OwnVotesInTime' /\ DeferredInView' /\ StoppedIsQuiet'
    BY <2>1, <2>3 DEF OwnVotesInTime, DeferredInView, StoppedIsQuiet, NotOwnVote
  <2>5. Dropless
    BY <2>1, <2>3 DEF Dropless, Kept, Queued, Excused
  <2> QED  BY <2>4, <2>5 DEF DropInv
<1> QED
  BY <1>1, <1>2, <1>3, <1>4, <1>5, <1>6, <1>7, <1>8 DEF Next

\* For every set of messages and every choice of rounds up to 99: a step of a
\* running core lets go of a message only into a handler, because its view has
\* passed, or because it is a proposal of the core itself.
THEOREM NothingIsDropped == Spec => NeverDropped
<1>1. Init => DropInv
  BY DEF Init, DropInv, OwnVotesInTime, DeferredInView, StoppedIsQuiet
<1>2. IInv /\ IInv' /\ DropInv /\ [Next]_vars => DropInv' /\ Dropless
  <2> SUFFICES ASSUME IInv, IInv', DropInv, [Next]_vars PROVE DropInv' /\ Dropless
    OBVIOUS
  <2>1. Queues /\ Rest /\ Queues'
    <3>1. IInv' <=> Queues' /\ Rest'
      BY InvariantParts, PTL
    <3> QED  BY <3>1, InvariantParts
  <2> QED  BY <2>1, NextDrops
<1>3. Dropless =>
        [\A m \in Kept \ Kept' :
          running' => \/ m \in handled'
                      \/ Old(core, m) \/ Old(core', m)
                      \/ OwnProposal(m)]_vars
  BY DEF Dropless, Excused
<1> QED
  BY <1>1, <1>2, <1>3, InvariantInit, InvariantStep, PTL DEF Spec, NeverDropped
=============================================================================
