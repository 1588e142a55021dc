------------------------- MODULE BlockFetcherProofs -------------------------
(***************************************************************************)
(* Proofs about the block fetcher: the set queued and the block counts of  *)
(* the peers are exact, the announce counts are never too high and no      *)
(* announcement waits for a timer that is not armed, for any peers, blocks *)
(* and limits.                                                             *)
(***************************************************************************)
EXTENDS BlockFetcher, FiniteSetTheorems, TLAPS

LEMMA Constants ==
    /\ IsFiniteSet(Hashes) /\ None \notin Peers /\ None \notin Hashes /\ None \notin Announcement
    /\ Number \in [Hashes -> Nat \ {0}] /\ Valid \subseteq Hashes /\ EmptyBody \subseteq Hashes
    /\ hashLimit \in Nat /\ blockLimit \in Nat \ {0} /\ numInsertTasks \in Nat \ {0}
    /\ MaxNotify \in Nat /\ MaxEnqueue \in Nat /\ MaxOthers \in Nat
  BY BlocksAssumption, LimitsAssumption, ValuesAssumption

LEMMA ValidNumbers ==
    /\ Cardinality(Valid) \in Nat
    /\ \A h \in Valid : Number[h] \in Heights
<1>1. Cardinality(Valid) \in Nat
  BY Constants, FS_Subset, FS_CardinalityType
<1>2. \A h \in Valid : Number[h] \in 1 .. Cardinality(Valid)
  BY BlocksAssumption
<1> QED  BY <1>1, <1>2 DEF Heights

LEMMA MinOfTwo ==
    ASSUME NEW a \in Int, NEW b \in Int
    PROVE  Min({a, b}) \in {a, b} /\ Min({a, b}) <= a /\ Min({a, b}) <= b
<1>1. \E x \in {a, b} : \A y \in {a, b} : x =< y
  <2>1. CASE a <= b
    BY <2>1
  <2>2. CASE b <= a
    BY <2>2
  <2> QED  BY <2>1, <2>2
<1> QED  BY <1>1 DEF Min

LEMMA MaxOfTwo ==
    ASSUME NEW a \in Int, NEW b \in Int
    PROVE  Max({a, b}) \in {a, b}
<1>1. \E x \in {a, b} : \A y \in {a, b} : x >= y
  <2>1. CASE a >= b
    BY <2>1
  <2>2. CASE b >= a
    BY <2>2
  <2> QED  BY <2>1, <2>2
<1> QED  BY <1>1 DEF Max

-----------------------------------------------------------------------------
(* Counting the places of a block *)

LEMMA OccursFinite ==
    ASSUME NEW s \in Seq(Hashes), NEW h
    PROVE  IsFiniteSet({i \in DOMAIN s : s[i] = h}) /\ Occurs(s, h) \in Nat
<1>1. IsFiniteSet(1 .. Len(s)) /\ DOMAIN s = 1 .. Len(s)
  BY FS_Interval
<1>2. IsFiniteSet({i \in DOMAIN s : s[i] = h})
  BY <1>1, FS_Subset
<1> QED  BY <1>2, FS_CardinalityType DEF Occurs

LEMMA OccursAppend ==
    ASSUME NEW s \in Seq(Hashes), NEW x \in Hashes, NEW h
    PROVE  Occurs(Append(s, x), h) = Occurs(s, h) + One(x = h)
<1> DEFINE S == {i \in DOMAIN s : s[i] = h}
           n == Len(s) + 1
           T == {i \in DOMAIN Append(s, x) : Append(s, x)[i] = h}
<1>1. IsFiniteSet(S) /\ n \notin S /\ Occurs(s, h) \in Nat
  BY OccursFinite
<1>2. CASE x = h
  <2>1. T = S \cup {n}
    BY <1>2
  <2>2. Occurs(Append(s, x), h) = Cardinality(T) /\ Occurs(s, h) = Cardinality(S)
    BY DEF Occurs
  <2>3. Cardinality(S \cup {n}) = Cardinality(S) + 1
    BY <1>1, FS_AddElement
  <2>4. One(x = h) = 1
    BY <1>2 DEF One
  <2> HIDE DEF S, T, n
  <2> QED  BY <2>1, <2>2, <2>3, <2>4
<1>3. CASE x # h
  <2>1. T = S
    BY <1>3
  <2>2. Occurs(Append(s, x), h) = Cardinality(T) /\ Occurs(s, h) = Cardinality(S)
    BY DEF Occurs
  <2>3. One(x = h) = 0
    BY <1>3 DEF One
  <2> HIDE DEF S, T
  <2> QED  BY <1>1, <2>1, <2>2, <2>3
<1> QED  BY <1>2, <1>3

LEMMA OccursTail ==
    ASSUME NEW s \in Seq(Hashes), s # <<>>, NEW h
    PROVE  Occurs(s, h) = Occurs(Tail(s), h) + One(Head(s) = h)
<1> DEFINE S == {i \in DOMAIN s : s[i] = h}
           T == {i \in DOMAIN Tail(s) : Tail(s)[i] = h}
           f == [i \in T |-> i + 1]
<1>0. Tail(s) \in Seq(Hashes)
  OBVIOUS
<1>1. IsFiniteSet(T) /\ IsFiniteSet(S) /\ Occurs(Tail(s), h) \in Nat
  BY <1>0, OccursFinite
<1>2. f \in Bijection(T, S \ {1})
  <2>1. \A i \in T : i + 1 \in S \ {1} /\ i \in Int
    OBVIOUS
  <2>2. \A j \in S \ {1} : j - 1 \in T /\ j = (j - 1) + 1
    OBVIOUS
  <2> HIDE DEF S, T
  <2>3. f \in [T -> S \ {1}] /\ \A a, b \in T : f[a] = f[b] => a = b
    BY <2>1
  <2>4. \A j \in S \ {1} : \E i \in T : f[i] = j
    BY <2>2
  <2> QED  BY <2>3, <2>4 DEF Bijection, Injection, Surjection, IsInjective
<1>3. Cardinality(S \ {1}) = Cardinality(T)
  <2>1. ExistsBijection(T, S \ {1})
    BY <1>2 DEF ExistsBijection
  <2> HIDE DEF S, T
  <2> QED  BY <1>1, <2>1, FS_Bijection
<1>4. 1 \in S <=> Head(s) = h
  OBVIOUS
<1>5. Cardinality(S \ {1}) = IF 1 \in S THEN Cardinality(S) - 1 ELSE Cardinality(S)
  BY <1>1, FS_RemoveElement
<1>6. Cardinality(S) \in Nat /\ Cardinality(T) \in Nat
  BY <1>1, FS_CardinalityType
<1>7. Occurs(s, h) = Cardinality(S) /\ Occurs(Tail(s), h) = Cardinality(T)
  BY DEF Occurs
<1> HIDE DEF S, T, f
<1> QED  BY <1>3, <1>4, <1>5, <1>6, <1>7 DEF One


\* Places, with the state that it depends on as parameters.
PlacesIn(it, dn, q, w, h) == Occurs(it, h) + Occurs(dn, h) + One(h \in q) + One(w = h)

LEMMA OneType == ASSUME NEW b \in BOOLEAN PROVE One(b) \in {0, 1} /\ (One(b) = 1 <=> b)
  BY DEF One

LEMMA PlacesType ==
    ASSUME NEW it \in Seq(Hashes), NEW dn \in Seq(Hashes), NEW q, NEW w, NEW h
    PROVE  /\ Occurs(it, h) \in Nat /\ Occurs(dn, h) \in Nat
           /\ PlacesIn(it, dn, q, w, h) \in Nat
           /\ h \in q \/ w = h => PlacesIn(it, dn, q, w, h) >= 1
<1>1. Occurs(it, h) \in Nat /\ Occurs(dn, h) \in Nat
  BY OccursFinite
<1> QED  BY <1>1 DEF PlacesIn, One

-----------------------------------------------------------------------------
(* The counts of queued blocks *)

Owned(qd, p) == {h \in Hashes : qd[h] = p}

LEMMA OwnedFinite ==
    ASSUME NEW qd, NEW p
    PROVE  IsFiniteSet(Owned(qd, p)) /\ Cardinality(Owned(qd, p)) \in Nat
  BY Constants, FS_Subset, FS_CardinalityType DEF Owned

\* What QueueAccounted says, in terms of the two operators.
PlacesExact ==
    \A h \in Hashes : PlacesIn(insertTasks, done, queue, worker.hash, h) = One(queued[h] # None)

CountsExact == \A p \in Peers : queues[p] = Cardinality(Owned(queued, p))

LEMMA Accounted == QueueAccounted <=> PlacesExact /\ CountsExact
  BY DEF QueueAccounted, PlacesExact, CountsExact, PlacesIn, Places, Owned, One

LEMMA AccountedAfter == QueueAccounted' <=> PlacesExact' /\ CountsExact'
  BY DEF QueueAccounted, PlacesExact, CountsExact, PlacesIn, Places, Owned, One

\* A block that leaves: its place is gone, and it is no longer counted.
LEMMA ForgetBlock ==
    ASSUME TypeOK, CountsExact, NEW h \in Hashes, queued[h] # None, forgetBlock(h)
    PROVE  /\ queued' \in [Hashes -> Peers \cup {None}] /\ queues' \in [Peers -> 0 .. blockLimit]
           /\ queued'[h] = None /\ \A g \in Hashes \ {h} : queued'[g] = queued[g]
           /\ CountsExact'
<1>0. /\ queued \in [Hashes -> Peers \cup {None}] /\ queues \in [Peers -> 0 .. blockLimit]
      /\ blockLimit \in Nat
  BY Constants DEF TypeOK
<1>1. /\ queued' = [queued EXCEPT ![h] = None] /\ queued[h] \in Peers
      /\ queues' = [queues EXCEPT ![queued[h]] = @ - 1]
  BY <1>0 DEF forgetBlock
<1>2. /\ queued' \in [Hashes -> Peers \cup {None}] /\ queued'[h] = None
      /\ \A g \in Hashes \ {h} : queued'[g] = queued[g]
  BY <1>0, <1>1
<1>3. ASSUME NEW p \in Peers
      PROVE  queues'[p] = Cardinality(Owned(queued', p)) /\ queues'[p] \in 0 .. blockLimit
  <2>1. /\ IsFiniteSet(Owned(queued, p)) /\ Cardinality(Owned(queued, p)) \in Nat
        /\ queues[p] = Cardinality(Owned(queued, p))
    BY OwnedFinite DEF CountsExact
  <2>a. Cardinality(Owned(queued', p)) \in Nat
    BY OwnedFinite
  <2>2. CASE queued[h] = p
    <3>1. Owned(queued', p) = Owned(queued, p) \ {h} /\ h \in Owned(queued, p)
      BY <1>2, <2>2, Constants DEF Owned
    <3>2. Cardinality(Owned(queued', p)) = Cardinality(Owned(queued, p)) - 1
      BY <2>1, <3>1, FS_RemoveElement
    <3>3. queues'[p] = queues[p] - 1
      BY <1>0, <1>1, <2>2
    <3> QED  BY <1>0, <2>1, <2>a, <3>2, <3>3
  <2>3. CASE queued[h] # p
    <3>1. Owned(queued', p) = Owned(queued, p)
      BY <1>2, <2>3, Constants DEF Owned
    <3>2. queues'[p] = queues[p]
      BY <1>0, <1>1, <2>3
    <3> QED  BY <1>0, <2>1, <3>1, <3>2
  <2> QED  BY <2>2, <2>3
<1>4. queues' \in [Peers -> 0 .. blockLimit]
  <2>1. DOMAIN queues' = Peers /\ queues' = [p \in DOMAIN queues' |-> queues'[p]]
    BY <1>0, <1>1
  <2> QED  BY <1>3, <2>1
<1>5. CountsExact'
  BY <1>3 DEF CountsExact, Owned
<1> QED  BY <1>2, <1>4, <1>5

\* The blocks that enqueue pushes are fresh, and the peer has room for them.
LEMMA PushBlocks ==
    ASSUME TypeOK, QueueAccounted, NEW p \in Peers, NEW H \in SUBSET Hashes, NEW T \in Pushed(p, H),
           Push(p, T, H), UNCHANGED <<insertTasks, done, worker>>
    PROVE  /\ queued' \in [Hashes -> Peers \cup {None}] /\ queues' \in [Peers -> 0 .. blockLimit]
           /\ queue' \subseteq Hashes /\ QueueAccounted'
<1> DEFINE fresh == {h \in H : Near(Number[h]) /\ queued[h] = None}
           room == blockLimit - queues[p]
<1>0. /\ queued \in [Hashes -> Peers \cup {None}] /\ queues \in [Peers -> 0 .. blockLimit]
      /\ queue \subseteq Hashes /\ blockLimit \in Nat
      /\ insertTasks \in Seq(Hashes) /\ done \in Seq(Hashes)
      /\ PlacesExact /\ CountsExact
  BY Constants, Accounted DEF TypeOK
<1>1. /\ queue' = queue \cup T
      /\ queued' = [h \in Hashes |-> IF h \in T THEN p ELSE queued[h]]
      /\ queues' = [queues EXCEPT ![p] = @ + Cardinality(T)]
  BY DEF Push
<1>2. T \subseteq fresh /\ Cardinality(T) = Min({Cardinality(fresh), room})
  BY DEF Pushed
<1>3. /\ T \subseteq Hashes /\ IsFiniteSet(T) /\ Cardinality(T) \in Nat
      /\ Cardinality(fresh) \in Nat
  BY <1>2, Constants, FS_Subset, FS_CardinalityType
<1>4. Cardinality(T) <= room /\ room \in Int
  <2>1. room \in Int
    BY <1>0
  <2> HIDE DEF fresh, room
  <2>2. Min({Cardinality(fresh), room}) <= room
    BY <1>3, <2>1, MinOfTwo
  <2> QED  BY <1>2, <2>1, <2>2
<1>5. \A h \in T : queued[h] = None
  BY <1>2
<1> HIDE DEF fresh
<1>6. queued' \in [Hashes -> Peers \cup {None}] /\ queue' \subseteq Hashes
  BY <1>0, <1>1, <1>3
<1>7. ASSUME NEW c \in Peers
      PROVE  queues'[c] = Cardinality(Owned(queued', c)) /\ queues'[c] \in 0 .. blockLimit
  <2>1. /\ IsFiniteSet(Owned(queued, c)) /\ Cardinality(Owned(queued, c)) \in Nat
        /\ queues[c] = Cardinality(Owned(queued, c)) /\ queues[c] \in 0 .. blockLimit
    BY <1>0, OwnedFinite DEF CountsExact
  <2>2. CASE c = p
    <3>1. Owned(queued', c) = Owned(queued, c) \cup T /\ Owned(queued, c) \cap T = {}
      BY <1>1, <1>3, <1>5, <2>2, Constants DEF Owned
    <3>2. Cardinality(Owned(queued', c)) = Cardinality(Owned(queued, c)) + Cardinality(T)
      <4>1. Cardinality(Owned(queued, c) \cup T)
              = Cardinality(Owned(queued, c)) + Cardinality(T) - Cardinality(Owned(queued, c) \cap T)
        BY <1>3, <2>1, FS_Union
      <4>2. Cardinality(Owned(queued, c) \cap T) = 0
        BY <3>1, FS_EmptySet
      <4> QED  BY <1>3, <2>1, <3>1, <4>1, <4>2
    <3>3. queues'[c] = queues[c] + Cardinality(T)
      BY <1>0, <1>1, <2>2
    <3> QED  BY <1>0, <1>3, <1>4, <2>1, <2>2, <3>2, <3>3
  <2>3. CASE c # p
    <3>1. Owned(queued', c) = Owned(queued, c)
      BY <1>1, <1>5, <2>3, Constants DEF Owned
    <3>2. queues'[c] = queues[c]
      BY <1>0, <1>1, <2>3
    <3> QED  BY <2>1, <3>1, <3>2
  <2> QED  BY <2>2, <2>3
<1>8. queues' \in [Peers -> 0 .. blockLimit]
  <2>1. DOMAIN queues' = Peers /\ queues' = [c \in DOMAIN queues' |-> queues'[c]]
    BY <1>0, <1>1
  <2> QED  BY <1>7, <2>1
<1>9. CountsExact'
  BY <1>7 DEF CountsExact, Owned
<1>10. ASSUME NEW h \in Hashes
       PROVE  PlacesIn(insertTasks, done, queue', worker.hash, h) = One(queued'[h] # None)
  <2>1. PlacesIn(insertTasks, done, queue, worker.hash, h) = One(queued[h] # None)
    BY <1>0 DEF PlacesExact
  <2>2. CASE h \in T
    <3>1. One(queued[h] # None) = 0 /\ One(queued'[h] # None) = 1 /\ h \in queue'
      BY <1>1, <1>5, <2>2, Constants DEF One
    <3>2. Occurs(insertTasks, h) \in Nat /\ Occurs(done, h) \in Nat
      BY <1>0, PlacesType
    <3>3. h \notin queue
      BY <1>0, <2>1, <3>1, PlacesType
    <3>4. One(h \in queue) = 0 /\ One(h \in queue') = 1 /\ One(worker.hash = h) \in {0, 1}
      BY <3>1, <3>3 DEF One
    <3> QED  BY <2>1, <3>1, <3>2, <3>4 DEF PlacesIn
  <2>3. CASE h \notin T
    <3>1. queued'[h] = queued[h] /\ (h \in queue' <=> h \in queue)
      BY <1>1, <2>3
    <3> QED  BY <2>1, <3>1 DEF PlacesIn, One
  <2> QED  BY <2>2, <2>3
<1>11. PlacesExact'
  BY <1>10 DEF PlacesExact
<1> QED  BY <1>6, <1>8, <1>9, <1>11, AccountedAfter

-----------------------------------------------------------------------------
(* The counts of announcements *)

Of(E, p) == {e \in E : e[3] # None /\ e[3].origin = p}

\* The entries that forgetHash goes through for the hashes H.
Entries(H) == UNION {Waiting(h) \cup Further(h) : h \in H}

Announcements == UNION {Waiting(h) : h \in Hashes}

LEMMA WaitingFinite ==
    ASSUME TypeOK, NEW h \in Hashes
    PROVE  IsFiniteSet(Waiting(h)) /\ IsFiniteSet(Further(h))
<1>1. announced[h] \in Seq(Announcement)
  BY DEF TypeOK
<1>2. IsFiniteSet(DOMAIN announced[h])
  BY <1>1, FS_Interval
<1>3. IsFiniteSet(Waiting(h))
  <2> DEFINE f == [i \in DOMAIN announced[h] |-> <<h, i, announced[h][i]>>]
  <2>1. f \in Surjection(DOMAIN announced[h], Waiting(h))
    BY DEF Surjection, Waiting
  <2> QED  BY <1>2, <2>1, FS_Surjection
<1>4. IsFiniteSet(Further(h))
  <2>1. IsFiniteSet({<<h, -1, fetching[h]>>})
    BY FS_Singleton
  <2>2. IsFiniteSet({<<h, -1, fetching[h]>>} \cup {<<h, -2, fetched[h]>>})
    BY <2>1, FS_AddElement
  <2>3. IsFiniteSet(({<<h, -1, fetching[h]>>} \cup {<<h, -2, fetched[h]>>}) \cup {<<h, -3, completing[h]>>})
    BY <2>2, FS_AddElement
  <2>4. Further(h) = ({<<h, -1, fetching[h]>>} \cup {<<h, -2, fetched[h]>>}) \cup {<<h, -3, completing[h]>>}
    BY DEF Further
  <2> QED  BY <2>3, <2>4
<1> QED  BY <1>3, <1>4

LEMMA EntriesFinite ==
    ASSUME TypeOK, NEW H \in SUBSET Hashes
    PROVE  IsFiniteSet(Entries(H)) /\ IsFiniteSet(Announcements)
<1>1. IsFiniteSet(H)
  BY Constants, FS_Subset
<1>2. IsFiniteSet(Entries(H))
  <2> DEFINE f == [h \in H |-> Waiting(h) \cup Further(h)]
             S == {Waiting(h) \cup Further(h) : h \in H}
  <2>1. f \in Surjection(H, S)
    BY DEF Surjection
  <2>2. IsFiniteSet(S)
    BY <1>1, <2>1, FS_Surjection
  <2>3. \A E \in S : IsFiniteSet(E)
    BY WaitingFinite, FS_Union
  <2> QED  BY <2>2, <2>3, FS_UNION DEF Entries
<1>3. IsFiniteSet(Announcements)
  <2> DEFINE f == [h \in Hashes |-> Waiting(h)]
             S == {Waiting(h) : h \in Hashes}
  <2>1. f \in Surjection(Hashes, S)
    BY DEF Surjection
  <2>2. IsFiniteSet(S)
    BY Constants, <2>1, FS_Surjection
  <2>3. \A E \in S : IsFiniteSet(E)
    BY WaitingFinite
  <2> QED  BY <2>2, <2>3, FS_UNION DEF Announcements
<1> QED  BY <1>2, <1>3

LEMMA CountType ==
    ASSUME NEW E, IsFiniteSet(E), NEW p
    PROVE  IsFiniteSet(Of(E, p)) /\ Count(E, p) = Cardinality(Of(E, p)) /\ Count(E, p) \in Nat
<1>1. Of(E, p) \in SUBSET E /\ Count(E, p) = Cardinality(Of(E, p))
  BY DEF Of, Count
<1>2. IsFiniteSet(Of(E, p))
  BY <1>1, FS_Subset
<1> QED  BY <1>1, <1>2, FS_CardinalityType

LEMMA DiscountType ==
    ASSUME TypeOK, NEW H \in SUBSET Hashes
    PROVE  Discounted(H) \in [Peers -> Int]
<1>1. announces \in [Peers -> Int]
  BY DEF TypeOK
<1>2. \A p \in Peers : Count(Entries(H), p) \in Nat
  BY EntriesFinite, CountType
<1> QED  BY <1>1, <1>2 DEF Discounted, Entries

\* Taking off every entry of the hashes H takes off at least the announcements of H.
LEMMA DiscountKeeps ==
    ASSUME TypeOK, CountNeverHigh, NEW H \in SUBSET Hashes,
           announces' = Discounted(H), announced' = Without(announced, H, <<>>)
    PROVE  CountNeverHigh'
<1> SUFFICES ASSUME NEW p \in Peers
             PROVE  announces'[p] <= Count(Announcements', p)
  BY DEF CountNeverHigh, Announcements
<1>1. /\ announces'[p] = announces[p] - Count(Entries(H), p)
      /\ announces[p] <= Count(Announcements, p) /\ announces[p] \in Int
  BY DEF TypeOK, Discounted, Entries, CountNeverHigh, Announcements
<1>2. IsFiniteSet(Entries(H)) /\ IsFiniteSet(Announcements) /\ IsFiniteSet(Announcements')
  <2>1. IsFiniteSet(Entries(H)) /\ IsFiniteSet(Announcements)
    BY EntriesFinite
  <2>2. Announcements' \subseteq Announcements
    BY DEF Announcements, Waiting, Without
  <2> QED  BY <2>1, <2>2, FS_Subset
<1>3. Of(Announcements, p) \subseteq Of(Announcements', p) \cup Of(Entries(H), p)
  <2>1. ASSUME NEW h \in Hashes, NEW e \in Waiting(h)
        PROVE  e \in Announcements' \/ e \in Entries(H)
    <3>1. CASE h \in H
      BY <2>1, <3>1 DEF Entries
    <3>2. CASE h \notin H
      <4>1. announced'[h] = announced[h]
        BY <3>2 DEF Without
      <4>2. e \in Waiting(h)'
        BY <2>1, <4>1 DEF Waiting
      <4> QED  BY <4>2 DEF Announcements
    <3> QED  BY <3>1, <3>2
  <2> QED  BY <2>1 DEF Of, Announcements
<1>4. Count(Announcements, p) <= Count(Announcements', p) + Count(Entries(H), p)
  <2> DEFINE A == Of(Announcements', p)
             B == Of(Entries(H), p)
             C == Of(Announcements, p)
  <2>1. /\ IsFiniteSet(A) /\ IsFiniteSet(B) /\ IsFiniteSet(C)
        /\ Count(Announcements', p) = Cardinality(A) /\ Count(Entries(H), p) = Cardinality(B)
        /\ Count(Announcements, p) = Cardinality(C)
        /\ Cardinality(A) \in Nat /\ Cardinality(B) \in Nat /\ Cardinality(C) \in Nat
    BY <1>2, CountType
  <2> HIDE DEF A, B, C
  <2>2. /\ IsFiniteSet(A \cup B) /\ Cardinality(A \cup B) = Cardinality(A) + Cardinality(B) - Cardinality(A \cap B)
        /\ Cardinality(A \cap B) \in Nat
    BY <2>1, FS_Union, FS_Intersection, FS_CardinalityType
  <2>3. Cardinality(C) <= Cardinality(A \cup B)
    BY <1>3, <2>2, FS_Subset DEF A, B, C
  <2> QED  BY <2>1, <2>2, <2>3
<1>5. Count(Announcements, p) \in Nat /\ Count(Announcements', p) \in Nat /\ Count(Entries(H), p) \in Nat
  BY <1>2, CountType
<1> QED  BY <1>1, <1>4, <1>5

-----------------------------------------------------------------------------
(* The three parts of the invariant *)

AnnouncesOK ==
    /\ announces \in [Peers -> Int] /\ announced \in [Hashes -> Seq(Announcement)]
    /\ fetching \in [Hashes -> Announcement \cup {None}]
    /\ fetched \in [Hashes -> Announcement \cup {None}]
    /\ completing \in [Hashes -> Announcement \cup {None}]
    /\ fetchTimer \in BOOLEAN /\ completeTimer \in BOOLEAN
    /\ CountNeverHigh /\ TimersArmed

ImportsOK ==
    /\ queue \subseteq Hashes /\ queues \in [Peers -> 0 .. blockLimit]
    /\ queued \in [Hashes -> Peers \cup {None}]
    /\ insertTasks \in Seq(Hashes) /\ Len(insertTasks) <= numInsertTasks
    /\ done \in Seq(Hashes) /\ Len(done) <= numInsertTasks
    /\ worker \in [pc : {"idle", "insert", "report"}, hash : Hashes \cup {None}]
    /\ worker.pc = "idle" <=> worker.hash = None
    /\ QueueAccounted

RestOK ==
    /\ height \in Heights
    /\ loop \in [pc : {"top", "import", "select"}, height : Heights]
    /\ calls \in [notify : 0 .. MaxNotify, enqueue : 0 .. MaxEnqueue, others : 0 .. MaxOthers]

LEMMA Parts == ASSUME FetcherInv PROVE TypeOK /\ AnnouncesOK /\ ImportsOK /\ RestOK
<1>1. TypeOK
  BY DEF FetcherInv
<1>2. AnnouncesOK
  BY DEF FetcherInv, TypeOK, AnnouncesOK
<1>3. ImportsOK
  BY DEF FetcherInv, TypeOK, ImportsOK
<1>4. RestOK
  BY DEF FetcherInv, TypeOK, RestOK
<1> QED  BY <1>1, <1>2, <1>3, <1>4

LEMMA Assemble == ASSUME AnnouncesOK', ImportsOK', RestOK' PROVE FetcherInv'
<1>1. TypeOK'
  BY DEF AnnouncesOK, ImportsOK, RestOK, TypeOK
<1> QED  BY <1>1 DEF FetcherInv, AnnouncesOK, ImportsOK

-----------------------------------------------------------------------------
(* Steps of the announcements *)

LEMMA AnnouncesStay ==
    ASSUME FetcherInv, UNCHANGED <<announcements, timers>>
    PROVE  AnnouncesOK'
<1>1. AnnouncesOK
  BY Parts
<1>2. UNCHANGED <<announces, announced, fetching, fetched, completing, fetchTimer, completeTimer>>
  BY DEF announcements, timers
<1> QED  BY <1>1, <1>2 DEF AnnouncesOK, CountNeverHigh, TimersArmed, Count, Waiting

LEMMA Forgets ==
    ASSUME FetcherInv, NEW H \in SUBSET Hashes, forgetHash(H), UNCHANGED timers
    PROVE  AnnouncesOK'
<1>0. TypeOK /\ AnnouncesOK
  BY Parts
<1>1. /\ announces' = Discounted(H) /\ announced' = Without(announced, H, <<>>)
      /\ fetching' = Without(fetching, H, None) /\ fetched' = Without(fetched, H, None)
      /\ completing' = Without(completing, H, None)
      /\ UNCHANGED <<fetchTimer, completeTimer>>
  BY DEF forgetHash, timers
<1>2. announces' \in [Peers -> Int]
  BY <1>0, <1>1, DiscountType
<1>3. /\ announced' \in [Hashes -> Seq(Announcement)]
      /\ fetching' \in [Hashes -> Announcement \cup {None}]
      /\ fetched' \in [Hashes -> Announcement \cup {None}]
      /\ completing' \in [Hashes -> Announcement \cup {None}]
  BY <1>0, <1>1 DEF AnnouncesOK, Without
<1>4. CountNeverHigh'
  BY <1>0, <1>1, DiscountKeeps DEF AnnouncesOK
<1>5. TimersArmed'
  <2>1. \A h \in Hashes : (announced'[h] # <<>> => announced[h] # <<>>) /\ (fetched'[h] # None => fetched[h] # None)
    BY <1>1 DEF Without
  <2> QED  BY <1>0, <1>1, <2>1 DEF AnnouncesOK, TimersArmed
<1> QED  BY <1>0, <1>1, <1>2, <1>3, <1>4, <1>5 DEF AnnouncesOK

\* One more announcement: it is counted, and the first one arms the timer.
LEMMA NotifyAnnounces ==
    ASSUME FetcherInv, NEW p \in Peers, NEW h \in Hashes, NEW n \in {0, Number[h]}, Notify(p, h, n)
    PROVE  AnnouncesOK'
<1>0. TypeOK /\ AnnouncesOK
  BY Parts
<1>1. CASE ~ Accepts(p, h, n)
  <2>1. UNCHANGED <<announcements, timers>>
    BY <1>1 DEF Notify, announcements, timers
  <2> QED  BY <2>1, AnnouncesStay
<1>2. CASE Accepts(p, h, n)
  <2> DEFINE a == [origin |-> p, number |-> n]
             x == <<h, Len(announced[h]) + 1, a>>
  <2>1. /\ announces' = [announces EXCEPT ![p] = @ + 1]
        /\ announced' = [announced EXCEPT ![h] = Append(@, a)]
        /\ ScheduleFetch(announced')
        /\ UNCHANGED <<fetching, fetched, completing, completeTimer>>
    BY <1>2 DEF Notify
  <2>2. a \in Announcement /\ a # None /\ a.origin = p
    BY Constants DEF Announcement
  <2> HIDE DEF a
  <2>3. announces' \in [Peers -> Int] /\ announced' \in [Hashes -> Seq(Announcement)]
    BY <1>0, <2>1, <2>2 DEF AnnouncesOK
  <2>4. fetchTimer' \in BOOLEAN
    BY <2>1 DEF ScheduleFetch
  <2>5. CountNeverHigh'
    <3>1. Waiting(h)' = Waiting(h) \cup {x} /\ \A g \in Hashes \ {h} : Waiting(g)' = Waiting(g)
      <4>1. announced[h] \in Seq(Announcement) /\ announced'[h] = Append(announced[h], a)
            /\ \A g \in Hashes \ {h} : announced'[g] = announced[g]
        BY <1>0, <2>1 DEF AnnouncesOK
      <4>2. DOMAIN announced'[h] = DOMAIN announced[h] \cup {Len(announced[h]) + 1}
        BY <2>2, <4>1
      <4>3. /\ \A i \in DOMAIN announced[h] : announced'[h][i] = announced[h][i]
            /\ announced'[h][Len(announced[h]) + 1] = a
        BY <2>2, <4>1
      <4>4. Waiting(h)' = Waiting(h) \cup {x}
        BY <4>2, <4>3 DEF Waiting
      <4> QED  BY <4>1, <4>4 DEF Waiting
    <3>2. x \notin Announcements
      <4>1. \A g \in Hashes : x \notin Waiting(g)
        BY <1>0 DEF Waiting, AnnouncesOK
      <4> QED  BY <4>1 DEF Announcements
    <3>3. Announcements' = Announcements \cup {x}
      BY <3>1 DEF Announcements
    <3>4. IsFiniteSet(Announcements) /\ x[3] = a
      BY <1>0, EntriesFinite
    <3> HIDE DEF x
    <3> SUFFICES ASSUME NEW q \in Peers PROVE announces'[q] <= Count(Announcements', q)
      BY DEF CountNeverHigh, Announcements
    <3>5. /\ IsFiniteSet(Of(Announcements, q)) /\ Count(Announcements, q) = Cardinality(Of(Announcements, q))
          /\ Count(Announcements, q) \in Nat /\ Count(Announcements', q) = Cardinality(Of(Announcements', q))
          /\ announces[q] <= Count(Announcements, q) /\ announces[q] \in Int
      <4>1. /\ IsFiniteSet(Of(Announcements, q)) /\ Count(Announcements, q) = Cardinality(Of(Announcements, q))
            /\ Count(Announcements, q) \in Nat
        BY <3>4, CountType
      <4>2. Count(Announcements', q) = Cardinality(Of(Announcements', q))
        BY DEF Count, Of
      <4>3. announces[q] <= Count(Announcements, q) /\ announces[q] \in Int
        BY <1>0 DEF AnnouncesOK, CountNeverHigh, Announcements
      <4> QED  BY <4>1, <4>2, <4>3
    <3>6. CASE q = p
      <4>1. Of(Announcements', q) = Of(Announcements, q) \cup {x} /\ x \notin Of(Announcements, q)
        BY <2>2, <3>2, <3>3, <3>4, <3>6 DEF Of
      <4>2. Cardinality(Of(Announcements', q)) = Cardinality(Of(Announcements, q)) + 1
        BY <3>5, <4>1, FS_AddElement
      <4>3. announces'[q] = announces[q] + 1
        BY <1>0, <2>1, <3>6 DEF AnnouncesOK
      <4> QED  BY <3>5, <4>2, <4>3
    <3>7. CASE q # p
      <4>1. Of(Announcements', q) = Of(Announcements, q)
        BY <2>2, <3>3, <3>4, <3>7 DEF Of
      <4>2. announces'[q] = announces[q]
        BY <1>0, <2>1, <3>7 DEF AnnouncesOK
      <4> QED  BY <3>5, <4>1, <4>2
    <3> QED  BY <3>6, <3>7
  <2>6. TimersArmed'
    <3>1. (\E g \in Hashes : announced'[g] # <<>>) => fetchTimer'
      <4>1. CASE \E g \in Hashes : announced[g] # <<>>
        BY <1>0, <2>1, <4>1 DEF AnnouncesOK, TimersArmed, ScheduleFetch
      <4>2. CASE \A g \in Hashes : announced[g] = <<>>
        <5>1. {g \in Hashes : announced'[g] # <<>>} = {h}
          BY <1>0, <2>1, <2>2, <4>2 DEF AnnouncesOK
        <5> QED  BY <2>1, <5>1, FS_Singleton DEF ScheduleFetch
      <4> QED  BY <4>1, <4>2
    <3> QED  BY <1>0, <2>1, <3>1 DEF AnnouncesOK, TimersArmed
  <2> QED  BY <1>0, <2>1, <2>3, <2>4, <2>5, <2>6 DEF AnnouncesOK
<1> QED  BY <1>1, <1>2

LEMMA FetchTimerAnnounces ==
    ASSUME FetcherInv, NEW due \in SUBSET Hashes, FetchTimer(due)
    PROVE  AnnouncesOK'
<1>0. TypeOK /\ AnnouncesOK
  BY Parts
<1>1. /\ announces' = Discounted(due) /\ announced' = Without(announced, due, <<>>)
      /\ fetched' = Without(fetched, due, None) /\ completing' = Without(completing, due, None)
      /\ fetchTimer' = (\E h \in Hashes : announced'[h] # <<>>) /\ UNCHANGED completeTimer
  BY DEF FetchTimer
<1>2. PICK chosen \in [due -> 1 .. MaxNotify] :
          /\ \A h \in due : chosen[h] \in DOMAIN announced[h]
          /\ fetching' = [h \in Hashes |->
                IF h \notin due THEN fetching[h]
                ELSE IF Known(h) THEN None ELSE announced[h][chosen[h]]]
  BY DEF FetchTimer
<1>3. \A h \in due : announced[h][chosen[h]] \in Announcement
  <2>1. \A h \in due : announced[h] \in Seq(Announcement) /\ chosen[h] \in DOMAIN announced[h]
    BY <1>0, <1>2 DEF AnnouncesOK
  <2> QED  BY <2>1
<1>4. fetching' \in [Hashes -> Announcement \cup {None}]
  BY <1>0, <1>2, <1>3 DEF AnnouncesOK
<1>5. announces' \in [Peers -> Int]
  BY <1>0, <1>1, DiscountType
<1>6. /\ announced' \in [Hashes -> Seq(Announcement)]
      /\ fetched' \in [Hashes -> Announcement \cup {None}]
      /\ completing' \in [Hashes -> Announcement \cup {None}]
  BY <1>0, <1>1 DEF AnnouncesOK, Without
<1>7. CountNeverHigh'
  BY <1>0, <1>1, DiscountKeeps DEF AnnouncesOK
<1>8. TimersArmed'
  <2>1. \A h \in Hashes : fetched'[h] # None => fetched[h] # None
    BY <1>1 DEF Without
  <2> QED  BY <1>0, <1>1, <2>1 DEF AnnouncesOK, TimersArmed
<1>9. fetchTimer' \in BOOLEAN /\ completeTimer' \in BOOLEAN
  BY <1>0, <1>1 DEF AnnouncesOK
<1> QED  BY <1>4, <1>5, <1>6, <1>7, <1>8, <1>9 DEF AnnouncesOK

LEMMA CompleteTimerAnnounces ==
    ASSUME FetcherInv, CompleteTimer
    PROVE  AnnouncesOK'
<1> DEFINE due == {h \in Hashes : fetched[h] # None}
<1>0. TypeOK /\ AnnouncesOK
  BY Parts
<1>1. /\ announces' = Discounted(due) /\ announced' = Without(announced, due, <<>>)
      /\ fetching' = Without(fetching, due, None) /\ fetched' = [h \in Hashes |-> None]
      /\ completing' = [h \in Hashes |->
             IF h \notin due THEN completing[h] ELSE IF Known(h) THEN None ELSE fetched[h]]
      /\ completeTimer' = FALSE /\ UNCHANGED fetchTimer
  BY DEF CompleteTimer
<1>2. due \in SUBSET Hashes
  OBVIOUS
<1> HIDE DEF due
<1>3. announces' \in [Peers -> Int]
  BY <1>0, <1>1, <1>2, DiscountType
<1>4. /\ announced' \in [Hashes -> Seq(Announcement)]
      /\ fetching' \in [Hashes -> Announcement \cup {None}]
      /\ fetched' \in [Hashes -> Announcement \cup {None}]
      /\ completing' \in [Hashes -> Announcement \cup {None}]
  BY <1>0, <1>1 DEF AnnouncesOK, Without
<1>5. CountNeverHigh'
  BY <1>0, <1>1, <1>2, DiscountKeeps DEF AnnouncesOK
<1>6. TimersArmed'
  <2>1. \A h \in Hashes : (announced'[h] # <<>> => announced[h] # <<>>) /\ fetched'[h] = None
    BY <1>1 DEF Without
  <2> QED  BY <1>0, <1>1, <2>1 DEF AnnouncesOK, TimersArmed
<1>7. fetchTimer' \in BOOLEAN /\ completeTimer' \in BOOLEAN
  BY <1>0, <1>1 DEF AnnouncesOK
<1> QED  BY <1>3, <1>4, <1>5, <1>6, <1>7 DEF AnnouncesOK

\* Where a header goes: into completing with its block pushed, or away with two taken
\* off the count, and the announcements that wait are left alone.
LEMMA EmptyBlockAnnounces ==
    ASSUME FetcherInv, NEW p \in Peers, NEW h \in Hashes, FilterEmptyBlock(p, h)
    PROVE  AnnouncesOK'
<1>0. TypeOK /\ AnnouncesOK
  BY Parts
<1>1. /\ UNCHANGED <<announced, fetched, fetchTimer, completeTimer>>
      /\ \/ /\ announces' = [announces EXCEPT ![p] = @ - 2]
            /\ fetching' = [fetching EXCEPT ![h] = None] /\ UNCHANGED completing
         \/ /\ completing' = [completing EXCEPT ![h] = fetching[h]]
            /\ UNCHANGED <<announces, fetching>>
  BY DEF FilterEmptyBlock, timers
<1>2. /\ announces' \in [Peers -> Int]
      /\ fetching' \in [Hashes -> Announcement \cup {None}]
      /\ completing' \in [Hashes -> Announcement \cup {None}]
      /\ \A q \in Peers : announces'[q] <= announces[q]
  <2>1. /\ announces \in [Peers -> Int] /\ fetching \in [Hashes -> Announcement \cup {None}]
        /\ completing \in [Hashes -> Announcement \cup {None}]
    BY <1>0 DEF AnnouncesOK
  <2>2. CASE /\ announces' = [announces EXCEPT ![p] = @ - 2]
             /\ fetching' = [fetching EXCEPT ![h] = None] /\ UNCHANGED completing
    <3>1. \A q \in Peers : announces'[q] = (IF q = p THEN announces[q] - 2 ELSE announces[q]) /\ announces[q] \in Int
      BY <2>1, <2>2
    <3>2. \A q \in Peers : announces'[q] <= announces[q]
      BY <3>1
    <3>3. announces' \in [Peers -> Int]
      BY <2>1, <2>2
    <3>4. fetching' \in [Hashes -> Announcement \cup {None}]
      BY <2>1, <2>2
    <3> QED  BY <2>1, <2>2, <3>2, <3>3, <3>4
  <2>3. CASE /\ completing' = [completing EXCEPT ![h] = fetching[h]]
             /\ UNCHANGED <<announces, fetching>>
    BY <2>1, <2>3
  <2> QED  BY <1>1, <2>2, <2>3
<1>3. CountNeverHigh'
  <2> SUFFICES ASSUME NEW q \in Peers PROVE announces'[q] <= Count(Announcements', q)
    BY DEF CountNeverHigh, Announcements
  <2>1. announces[q] <= Count(Announcements, q) /\ announces[q] \in Int /\ announces'[q] \in Int
    BY <1>0, <1>2 DEF AnnouncesOK, CountNeverHigh, Announcements
  <2>2. Announcements' = Announcements
    BY <1>1 DEF Announcements, Waiting
  <2>3. Count(Announcements, q) \in Nat
    BY <1>0, EntriesFinite, CountType
  <2>4. announces'[q] <= announces[q]
    BY <1>2
  <2> QED  BY <2>1, <2>2, <2>3, <2>4
<1>4. TimersArmed'
  BY <1>0, <1>1 DEF AnnouncesOK, TimersArmed
<1> QED  BY <1>0, <1>1, <1>2, <1>3, <1>4 DEF AnnouncesOK

LEMMA HeaderAnnounces ==
    ASSUME FetcherInv, NEW p \in Peers, NEW h \in Hashes, FilterHeader(p, h)
    PROVE  AnnouncesOK'
<1>0. TypeOK /\ AnnouncesOK
  BY Parts
<1>1. /\ UNCHANGED <<announces, announced, fetching, completing, fetchTimer>>
      /\ fetched' = [fetched EXCEPT ![h] = fetching[h]] /\ fetching[h] # None
      /\ completeTimer' = (completeTimer \/ Cardinality({g \in Hashes : fetched'[g] # None}) = 1)
  BY DEF FilterHeader, Wanted
<1>2. fetched' \in [Hashes -> Announcement \cup {None}] /\ completeTimer' \in BOOLEAN
  BY <1>0, <1>1 DEF AnnouncesOK
<1>3. CountNeverHigh'
  BY <1>0, <1>1 DEF AnnouncesOK, CountNeverHigh, Waiting, Count
<1>4. TimersArmed'
  <2>1. (\E g \in Hashes : fetched'[g] # None) => completeTimer'
    <3>1. CASE \E g \in Hashes : fetched[g] # None
      BY <1>0, <1>1, <3>1 DEF AnnouncesOK, TimersArmed
    <3>2. CASE \A g \in Hashes : fetched[g] = None
      <4>1. {g \in Hashes : fetched'[g] # None} = {h}
        BY <1>0, <1>1, <3>2 DEF AnnouncesOK
      <4> QED  BY <1>1, <4>1, FS_Singleton
    <3> QED  BY <3>1, <3>2
  <2> QED  BY <1>0, <1>1, <2>1 DEF AnnouncesOK, TimersArmed
<1> QED  BY <1>0, <1>1, <1>2, <1>3, <1>4 DEF AnnouncesOK

-----------------------------------------------------------------------------
(* Steps of the imports *)

LEMMA ImportsStay ==
    ASSUME FetcherInv, UNCHANGED <<imports, channels, worker>>
    PROVE  ImportsOK'
<1>1. ImportsOK
  BY Parts
<1>2. UNCHANGED <<queue, queues, queued, insertTasks, done, worker>>
  BY DEF imports, channels
<1>3. QueueAccounted'
  BY <1>1, <1>2 DEF ImportsOK, QueueAccounted, Places
<1> QED  BY <1>1, <1>2, <1>3 DEF ImportsOK

LEMMA Pushes ==
    ASSUME FetcherInv, NEW p \in Peers, NEW H \in SUBSET Hashes, NEW T \in Pushed(p, H),
           Push(p, T, H), UNCHANGED <<channels, worker>>
    PROVE  ImportsOK'
<1>0. TypeOK /\ ImportsOK /\ QueueAccounted
  BY Parts DEF ImportsOK
<1>1. UNCHANGED <<insertTasks, done, worker>>
  BY DEF channels
<1>2. /\ queued' \in [Hashes -> Peers \cup {None}] /\ queues' \in [Peers -> 0 .. blockLimit]
      /\ queue' \subseteq Hashes /\ QueueAccounted'
  BY <1>0, <1>1, PushBlocks
<1> QED  BY <1>0, <1>1, <1>2 DEF ImportsOK

\* A block moves from one place to the next.
LEMMA Moves ==
    ASSUME FetcherInv, UNCHANGED <<queued, queues>>, queue' \subseteq Hashes,
           insertTasks' \in Seq(Hashes), done' \in Seq(Hashes),
           Len(insertTasks') <= numInsertTasks, Len(done') <= numInsertTasks,
           worker' \in [pc : {"idle", "insert", "report"}, hash : Hashes \cup {None}],
           worker'.pc = "idle" <=> worker'.hash = None,
           \A g \in Hashes : PlacesIn(insertTasks', done', queue', worker'.hash, g)
                           = PlacesIn(insertTasks, done, queue, worker.hash, g)
    PROVE  ImportsOK'
<1>0. ImportsOK /\ PlacesExact /\ CountsExact
  BY Parts, Accounted DEF ImportsOK
<1>1. PlacesExact'
  BY <1>0 DEF PlacesExact
<1>2. CountsExact'
  BY <1>0 DEF CountsExact, Owned
<1>3. QueueAccounted'
  BY <1>1, <1>2, AccountedAfter
<1> QED  BY <1>0, <1>3 DEF ImportsOK

LEMMA ImportBlockStep == ASSUME FetcherInv, ImportBlock PROVE ImportsOK'
<1>0. ImportsOK
  BY Parts
<1>1. PICK h \in Hashes : /\ h \in queue /\ Len(insertTasks) < numInsertTasks
                          /\ queue' = queue \ {h} /\ insertTasks' = Append(insertTasks, h)
  BY DEF ImportBlock, First
<1>2. UNCHANGED <<queues, queued, done, worker>>
  BY DEF ImportBlock
<1>3. /\ insertTasks' \in Seq(Hashes) /\ Len(insertTasks') <= numInsertTasks
      /\ queue' \subseteq Hashes
  BY <1>0, <1>1, Constants DEF ImportsOK
<1>4. ASSUME NEW g \in Hashes
      PROVE  PlacesIn(insertTasks', done', queue', worker'.hash, g)
           = PlacesIn(insertTasks, done, queue, worker.hash, g)
  <2>1. /\ Occurs(insertTasks', g) = Occurs(insertTasks, g) + One(h = g)
        /\ Occurs(insertTasks, g) \in Nat /\ Occurs(done, g) \in Nat
    <3>1. insertTasks \in Seq(Hashes) /\ done \in Seq(Hashes)
      BY <1>0 DEF ImportsOK
    <3>2. Occurs(Append(insertTasks, h), g) = Occurs(insertTasks, g) + One(h = g)
      BY <3>1, OccursAppend
    <3>3. Occurs(insertTasks, g) \in Nat /\ Occurs(done, g) \in Nat
      BY <3>1, OccursFinite
    <3> QED  BY <1>1, <3>2, <3>3
  <2>2. One(g \in queue) = One(g \in queue') + One(h = g) /\ One(h = g) \in Nat /\ One(g \in queue') \in Nat
    <3>1. CASE h = g
      <4>1. g \in queue /\ g \notin queue'
        BY <1>1, <3>1
      <4> QED  BY <3>1, <4>1 DEF One
    <3>2. CASE h # g
      <4>1. g \in queue <=> g \in queue'
        BY <1>1, <3>2
      <4> QED  BY <3>2, <4>1 DEF One
    <3> QED  BY <3>1, <3>2
  <2>3. One(worker.hash = g) \in Nat
    BY DEF One
  <2> QED  BY <1>2, <2>1, <2>2, <2>3 DEF PlacesIn
<1> QED  BY <1>0, <1>2, <1>3, <1>4, Moves DEF ImportsOK

LEMMA WorkerStepImports == ASSUME FetcherInv, Worker PROVE ImportsOK'
<1>0. ImportsOK
  BY Parts
<1>1. CASE WorkerTake
  <2>1. /\ worker.pc = "idle" /\ insertTasks # <<>> /\ insertTasks' = Tail(insertTasks)
        /\ worker' = [pc |-> "insert", hash |-> Head(insertTasks)]
        /\ UNCHANGED <<queue, queues, queued, done>>
    BY <1>1 DEF WorkerTake, imports
  <2>2. /\ Head(insertTasks) \in Hashes /\ insertTasks' \in Seq(Hashes)
        /\ Len(insertTasks') <= numInsertTasks
    BY <1>0, <2>1, Constants DEF ImportsOK
  <2>3. ASSUME NEW g \in Hashes
        PROVE  PlacesIn(insertTasks', done', queue', worker'.hash, g)
             = PlacesIn(insertTasks, done, queue, worker.hash, g)
    <3>1. /\ Occurs(insertTasks, g) = Occurs(insertTasks', g) + One(Head(insertTasks) = g)
          /\ Occurs(insertTasks', g) \in Nat /\ Occurs(done, g) \in Nat
      <4>1. insertTasks \in Seq(Hashes) /\ done \in Seq(Hashes)
        BY <1>0 DEF ImportsOK
      <4>2. Occurs(insertTasks, g) = Occurs(Tail(insertTasks), g) + One(Head(insertTasks) = g)
        BY <2>1, <4>1, OccursTail
      <4>3. Occurs(insertTasks', g) \in Nat /\ Occurs(done, g) \in Nat
        BY <2>2, <4>1, OccursFinite
      <4> QED  BY <2>1, <4>2, <4>3
    <3>2. worker.hash # g /\ worker'.hash = Head(insertTasks)
      BY <1>0, <2>1, Constants DEF ImportsOK
    <3>3. One(worker.hash = g) = 0 /\ One(g \in queue) \in Nat /\ One(Head(insertTasks) = g) \in Nat
      BY <3>2 DEF One
    <3> QED  BY <2>1, <3>1, <3>2, <3>3 DEF PlacesIn
  <2>4. /\ worker' \in [pc : {"idle", "insert", "report"}, hash : Hashes \cup {None}]
        /\ worker'.pc # "idle" /\ worker'.hash # None
    BY <2>1, <2>2, Constants
  <2> QED  BY <1>0, <2>1, <2>2, <2>3, <2>4, Moves DEF ImportsOK
<1>2. CASE WorkerInsert
  <2>1. /\ worker.pc = "insert" /\ worker' = [worker EXCEPT !.pc = "report"]
        /\ UNCHANGED <<queue, queues, queued, insertTasks, done>>
    BY <1>2 DEF WorkerInsert, imports, channels
  <2>2. /\ worker' \in [pc : {"idle", "insert", "report"}, hash : Hashes \cup {None}]
        /\ worker'.pc = "report" /\ worker'.hash = worker.hash
    BY <1>0, <2>1 DEF ImportsOK
  <2>3. worker'.pc = "idle" <=> worker'.hash = None
    BY <1>0, <2>1, <2>2 DEF ImportsOK
  <2> QED  BY <1>0, <2>1, <2>2, <2>3, Moves DEF ImportsOK
<1>3. CASE WorkerReport
  <2>1. /\ worker.pc = "report" /\ Len(done) < numInsertTasks /\ done' = Append(done, worker.hash)
        /\ worker' = [pc |-> "idle", hash |-> None]
        /\ UNCHANGED <<queue, queues, queued, insertTasks>>
    BY <1>3 DEF WorkerReport, imports
  <2>2. worker.hash \in Hashes
    BY <1>0, <2>1 DEF ImportsOK
  <2>3. done' \in Seq(Hashes) /\ Len(done') <= numInsertTasks
    BY <1>0, <2>1, <2>2, Constants DEF ImportsOK
  <2>4. ASSUME NEW g \in Hashes
        PROVE  PlacesIn(insertTasks', done', queue', worker'.hash, g)
             = PlacesIn(insertTasks, done, queue, worker.hash, g)
    <3>1. /\ Occurs(done', g) = Occurs(done, g) + One(worker.hash = g)
          /\ Occurs(insertTasks, g) \in Nat /\ Occurs(done, g) \in Nat
      <4>1. insertTasks \in Seq(Hashes) /\ done \in Seq(Hashes)
        BY <1>0 DEF ImportsOK
      <4>2. Occurs(Append(done, worker.hash), g) = Occurs(done, g) + One(worker.hash = g)
        BY <2>2, <4>1, OccursAppend
      <4>3. Occurs(insertTasks, g) \in Nat /\ Occurs(done, g) \in Nat
        BY <4>1, OccursFinite
      <4> QED  BY <2>1, <4>2, <4>3
    <3>2. worker'.hash = None /\ g # None
      BY <2>1, Constants
    <3>3. One(worker'.hash = g) = 0
      BY <3>2 DEF One
    <3>4. One(g \in queue) \in Nat /\ One(worker.hash = g) \in Nat
      BY DEF One
    <3> QED  BY <2>1, <3>1, <3>3, <3>4 DEF PlacesIn
  <2>5. /\ worker' \in [pc : {"idle", "insert", "report"}, hash : Hashes \cup {None}]
        /\ worker'.pc = "idle" /\ worker'.hash = None
    BY <2>1
  <2> QED  BY <1>0, <2>1, <2>3, <2>4, <2>5, Moves DEF ImportsOK
<1> QED  BY <1>1, <1>2, <1>3 DEF Worker

\* A block that leaves its last place is forgotten.
LEMMA Leaves ==
    ASSUME FetcherInv, NEW h \in Hashes, forgetBlock(h), UNCHANGED <<insertTasks, worker>>,
           queue' \subseteq Hashes, done' \in Seq(Hashes), Len(done') <= numInsertTasks,
           \A g \in Hashes : PlacesIn(insertTasks, done, queue, worker.hash, g)
                           = PlacesIn(insertTasks, done', queue', worker.hash, g) + One(h = g)
    PROVE  ImportsOK'
<1>0. TypeOK /\ ImportsOK /\ PlacesExact /\ CountsExact
  BY Parts, Accounted DEF ImportsOK
<1>1. \A g \in Hashes : /\ PlacesIn(insertTasks, done', queue', worker.hash, g) \in Nat
                        /\ PlacesIn(insertTasks, done, queue, worker.hash, g) = One(queued[g] # None)
  BY <1>0, PlacesType DEF ImportsOK, PlacesExact
<1>2. queued[h] # None
  <2>1. One(h = h) = 1
    BY DEF One
  <2>2. PlacesIn(insertTasks, done, queue, worker.hash, h) >= 1
    BY <1>1, <2>1
  <2>3. One(queued[h] # None) >= 1
    BY <1>1, <2>2
  <2> QED  BY <2>3 DEF One
<1>3. /\ queued' \in [Hashes -> Peers \cup {None}] /\ queues' \in [Peers -> 0 .. blockLimit]
      /\ queued'[h] = None /\ \A g \in Hashes \ {h} : queued'[g] = queued[g]
      /\ CountsExact'
  BY <1>0, <1>2, ForgetBlock
<1>4. ASSUME NEW g \in Hashes
      PROVE  PlacesIn(insertTasks, done', queue', worker.hash, g) = One(queued'[g] # None)
  <2> DEFINE after == PlacesIn(insertTasks, done', queue', worker.hash, g)
             moved == One(h = g)
             was   == One(queued[g] # None)
             is    == One(queued'[g] # None)
  <2>0. after \in Nat /\ was = after + moved
    BY <1>1
  <2>1. CASE g = h
    <3>1. moved = 1 /\ was = 1 /\ is = 0
      <4>1. h = g /\ queued[g] # None /\ queued'[g] = None
        BY <1>2, <1>3, <2>1
      <4> QED  BY <4>1 DEF One
    <3> HIDE DEF after, moved, was, is
    <3>2. after = is
      BY <2>0, <3>1
    <3> QED  BY <3>2 DEF after, is
  <2>2. CASE g # h
    <3>1. moved = 0 /\ was = is
      <4>1. h # g /\ queued[g] = queued'[g]
        BY <1>3, <2>2
      <4> QED  BY <4>1 DEF One
    <3> HIDE DEF after, moved, was, is
    <3>2. after = is
      BY <2>0, <3>1
    <3> QED  BY <3>2 DEF after, is
  <2> QED  BY <2>1, <2>2
<1>5. PlacesExact'
  BY <1>4 DEF PlacesExact
<1>6. QueueAccounted'
  BY <1>3, <1>5, AccountedAfter
<1> QED  BY <1>0, <1>3, <1>6 DEF ImportsOK

LEMMA ImportStaleStep == ASSUME FetcherInv, ImportStale PROVE ImportsOK'
<1>0. ImportsOK
  BY Parts
<1>1. PICK h \in Hashes : h \in queue /\ queue' = queue \ {h} /\ forgetBlock(h)
  BY DEF ImportStale, First
<1>2. UNCHANGED <<insertTasks, done, worker>>
  BY DEF ImportStale, channels
<1>3. ASSUME NEW g \in Hashes
      PROVE  PlacesIn(insertTasks, done, queue, worker.hash, g)
           = PlacesIn(insertTasks, done', queue', worker.hash, g) + One(h = g)
  <2>1. Occurs(insertTasks, g) \in Nat /\ Occurs(done, g) \in Nat /\ One(worker.hash = g) \in Nat
    BY <1>0, OccursFinite DEF ImportsOK, One
  <2>2. One(g \in queue) = One(g \in queue') + One(h = g) /\ One(h = g) \in Nat /\ One(g \in queue') \in Nat
    <3>1. CASE h = g
      <4>1. g \in queue /\ g \notin queue'
        BY <1>1, <3>1
      <4> QED  BY <3>1, <4>1 DEF One
    <3>2. CASE h # g
      <4>1. g \in queue <=> g \in queue'
        BY <1>1, <3>2
      <4> QED  BY <3>2, <4>1 DEF One
    <3> QED  BY <3>1, <3>2
  <2> QED  BY <1>2, <2>1, <2>2 DEF PlacesIn
<1>4. queue' \subseteq Hashes /\ done' \in Seq(Hashes) /\ Len(done') <= numInsertTasks
  BY <1>0, <1>1, <1>2 DEF ImportsOK
<1> QED  BY <1>1, <1>2, <1>3, <1>4, Leaves

LEMMA DoneStep == ASSUME FetcherInv, Done PROVE ImportsOK'
<1>0. ImportsOK
  BY Parts
<1>1. /\ done # <<>> /\ forgetBlock(Head(done)) /\ done' = Tail(done)
      /\ UNCHANGED <<queue, insertTasks, worker>>
  BY DEF Done
<1>2. /\ Head(done) \in Hashes /\ done' \in Seq(Hashes) /\ Len(done') <= numInsertTasks
      /\ queue' \subseteq Hashes
  BY <1>0, <1>1, Constants DEF ImportsOK
<1>3. ASSUME NEW g \in Hashes
      PROVE  PlacesIn(insertTasks, done, queue, worker.hash, g)
           = PlacesIn(insertTasks, done', queue', worker.hash, g) + One(Head(done) = g)
  <2>1. /\ Occurs(done, g) = Occurs(done', g) + One(Head(done) = g)
        /\ Occurs(insertTasks, g) \in Nat /\ Occurs(done', g) \in Nat
    <3>1. insertTasks \in Seq(Hashes) /\ done \in Seq(Hashes)
      BY <1>0 DEF ImportsOK
    <3>2. Occurs(done, g) = Occurs(Tail(done), g) + One(Head(done) = g)
      BY <1>1, <3>1, OccursTail
    <3>3. Occurs(insertTasks, g) \in Nat /\ Occurs(done', g) \in Nat
      BY <1>2, <3>1, OccursFinite
    <3> QED  BY <1>1, <3>2, <3>3
  <2>2. One(Head(done) = g) \in Nat /\ One(g \in queue) \in Nat /\ One(worker.hash = g) \in Nat
    BY DEF One
  <2> QED  BY <1>1, <2>1, <2>2 DEF PlacesIn
<1> QED  BY <1>1, <1>2, <1>3, Leaves

-----------------------------------------------------------------------------
(* The steps of the fetcher *)

LEMMA LoopAfter ==
    ASSUME FetcherInv, UNCHANGED <<height, calls>>,
           \/ UNCHANGED loop \/ loop' = [pc |-> "import", height |-> height]
           \/ loop' = [loop EXCEPT !.pc = "select"] \/ loop' = [loop EXCEPT !.pc = "top"]
    PROVE  RestOK'
<1>1. RestOK
  BY Parts
<1> QED  BY <1>1 DEF RestOK

LEMMA BeforeSelect ==
    ASSUME FetcherInv, LoopTop \/ ImportBlock \/ ImportStale \/ ImportEnds
    PROVE  FetcherInv'
<1>1. CASE LoopTop
  <2>1. PICK H \in SUBSET Hashes : forgetHash(H)
    BY <1>1 DEF LoopTop
  <2>2. /\ UNCHANGED <<height, timers, imports, channels, worker, calls>>
        /\ loop' = [pc |-> "import", height |-> height]
    BY <1>1 DEF LoopTop
  <2> QED  BY <2>1, <2>2, Forgets, ImportsStay, LoopAfter, Assemble
<1>2. CASE ImportBlock
  <2>1. UNCHANGED <<height, announcements, timers, loop, calls>>
    BY <1>2 DEF ImportBlock
  <2> QED  BY <1>2, <2>1, AnnouncesStay, ImportBlockStep, LoopAfter, Assemble
<1>3. CASE ImportStale
  <2>1. UNCHANGED <<height, announcements, timers, loop, calls>>
    BY <1>3 DEF ImportStale
  <2> QED  BY <1>3, <2>1, AnnouncesStay, ImportStaleStep, LoopAfter, Assemble
<1>4. CASE ImportEnds
  <2>1. /\ UNCHANGED <<height, announcements, timers, imports, channels, worker, calls>>
        /\ loop' = [loop EXCEPT !.pc = "select"]
    BY <1>4 DEF ImportEnds
  <2> QED  BY <2>1, AnnouncesStay, ImportsStay, LoopAfter, Assemble
<1> QED  BY <1>1, <1>2, <1>3, <1>4

\* What enqueue refuses is among the blocks it was given.
LEMMA RefusedType == ASSUME NEW p, NEW H, NEW T PROVE Refused(p, H, T) \subseteq H
  BY DEF Refused

LEMMA Events ==
    ASSUME FetcherInv, Event
    PROVE  FetcherInv'
<1>1. ASSUME NEW p \in Peers, NEW h \in Hashes, NEW n \in {0, Number[h]}, Notify(p, h, n)
      PROVE  FetcherInv'
  <2>1. AnnouncesOK'
    BY <1>1, NotifyAnnounces
  <2>2. UNCHANGED <<imports, channels, worker>>
    BY <1>1 DEF Notify
  <2>3. RestOK'
    <3>1. /\ UNCHANGED height /\ loop' = [loop EXCEPT !.pc = "top"] /\ calls.notify < MaxNotify
          /\ calls' = [calls EXCEPT !.notify = @ + 1]
      BY <1>1 DEF Notify, Selecting
    <3> QED  BY <3>1, Parts, Constants DEF RestOK
  <2> QED  BY <2>1, <2>2, <2>3, ImportsStay, Assemble
<1>2. ASSUME NEW p \in Peers, NEW h \in Hashes, Enqueue(p, h)
      PROVE  FetcherInv'
  <2>1. PICK T \in Pushed(p, {h}) : Push(p, T, {h}) /\ forgetHash(Refused(p, {h}, T))
    BY <1>2 DEF Enqueue
  <2>2. UNCHANGED <<timers, channels, worker>> /\ {h} \in SUBSET Hashes
    BY <1>2 DEF Enqueue
  <2>3. AnnouncesOK'
    BY <2>1, <2>2, RefusedType, Forgets
  <2>4. ImportsOK'
    BY <2>1, <2>2, Pushes
  <2>5. RestOK'
    <3>1. /\ UNCHANGED height /\ loop' = [loop EXCEPT !.pc = "top"] /\ calls.enqueue < MaxEnqueue
          /\ calls' = [calls EXCEPT !.enqueue = @ + 1]
      BY <1>2 DEF Enqueue, Selecting
    <3> QED  BY <3>1, Parts, Constants DEF RestOK
  <2> QED  BY <2>3, <2>4, <2>5, Assemble
<1>3. ASSUME NEW p \in Peers, NEW h \in Hashes, FilterForeignHeader(p, h)
      PROVE  FetcherInv'
  <2>1. /\ UNCHANGED <<height, announcements, timers, imports, channels, worker, calls>>
        /\ loop' = [loop EXCEPT !.pc = "top"]
    BY <1>3 DEF FilterForeignHeader, Selecting
  <2> QED  BY <2>1, AnnouncesStay, ImportsStay, LoopAfter, Assemble
<1>4. ASSUME NEW p \in Peers, NEW h \in Hashes, FilterUselessHeader(p, h)
      PROVE  FetcherInv'
  <2>1. /\ UNCHANGED <<height, timers, imports, channels, worker, calls>>
        /\ loop' = [loop EXCEPT !.pc = "top"] /\ forgetHash({h}) /\ {h} \in SUBSET Hashes
    BY <1>4 DEF FilterUselessHeader, Selecting
  <2> QED  BY <2>1, Forgets, ImportsStay, LoopAfter, Assemble
<1>5. ASSUME NEW p \in Peers, NEW h \in Hashes, FilterEmptyBlock(p, h)
      PROVE  FetcherInv'
  <2>1. AnnouncesOK'
    BY <1>5, EmptyBlockAnnounces
  <2>2. PICK T \in Pushed(p, {h}) : Push(p, T, {h})
    BY <1>5 DEF FilterEmptyBlock
  <2>3. /\ UNCHANGED <<height, channels, worker, calls>> /\ {h} \in SUBSET Hashes
        /\ loop' = [loop EXCEPT !.pc = "top"]
    BY <1>5 DEF FilterEmptyBlock, Selecting
  <2>4. ImportsOK'
    BY <2>2, <2>3, Pushes
  <2> QED  BY <2>1, <2>3, <2>4, LoopAfter, Assemble
<1>6. ASSUME NEW p \in Peers, NEW h \in Hashes, FilterHeader(p, h)
      PROVE  FetcherInv'
  <2>1. /\ UNCHANGED <<height, imports, channels, worker, calls>>
        /\ loop' = [loop EXCEPT !.pc = "top"]
    BY <1>6 DEF FilterHeader, Selecting
  <2> QED  BY <1>6, <2>1, HeaderAnnounces, ImportsStay, LoopAfter, Assemble
<1>7. ASSUME NEW p \in Peers, NEW bodies \in SUBSET Bodies, FilterBodies(p, bodies)
      PROVE  FetcherInv'
  <2> DEFINE matched == {h \in Hashes : /\ completing[h] # None /\ completing[h].origin = p
                                        /\ queued[h] = None /\ TxHash[h] \in bodies}
             blocks == {h \in matched : ~ Known(h)}
  <2>1. PICK T \in Pushed(p, blocks) :
            /\ Push(p, T, blocks)
            /\ forgetHash((matched \ blocks) \cup Refused(p, blocks, T))
    BY <1>7 DEF FilterBodies
  <2>2. /\ UNCHANGED <<height, timers, channels, worker, calls>>
        /\ loop' = [loop EXCEPT !.pc = "top"]
    BY <1>7 DEF FilterBodies, Selecting
  <2>3. matched \in SUBSET Hashes /\ blocks \in SUBSET Hashes
    OBVIOUS
  <2> HIDE DEF matched, blocks
  <2>4. (matched \ blocks) \cup Refused(p, blocks, T) \in SUBSET Hashes
    BY <2>3, RefusedType
  <2>5. AnnouncesOK'
    BY <2>1, <2>2, <2>4, Forgets
  <2>6. ImportsOK'
    BY <2>1, <2>2, <2>3, Pushes
  <2> QED  BY <2>2, <2>5, <2>6, LoopAfter, Assemble
<1>8. ASSUME NEW due \in SUBSET Hashes, FetchTimer(due)
      PROVE  FetcherInv'
  <2>1. /\ UNCHANGED <<height, imports, channels, worker, calls>>
        /\ loop' = [loop EXCEPT !.pc = "top"]
    BY <1>8 DEF FetchTimer, Selecting
  <2> QED  BY <1>8, <2>1, FetchTimerAnnounces, ImportsStay, LoopAfter, Assemble
<1>9. CASE CompleteTimer
  <2>1. /\ UNCHANGED <<height, imports, channels, worker, calls>>
        /\ loop' = [loop EXCEPT !.pc = "top"]
    BY <1>9 DEF CompleteTimer, Selecting
  <2> QED  BY <1>9, <2>1, CompleteTimerAnnounces, ImportsStay, LoopAfter, Assemble
<1>10. CASE Done
  <2>1. /\ UNCHANGED <<height, timers, calls>> /\ forgetHash({Head(done)}) /\ done # <<>>
        /\ loop' = [loop EXCEPT !.pc = "top"]
    BY <1>10 DEF Done, Selecting
  <2>2. {Head(done)} \in SUBSET Hashes
    BY <2>1, Parts DEF ImportsOK
  <2> QED  BY <1>10, <2>1, <2>2, Forgets, DoneStep, LoopAfter, Assemble
<1> QED  BY <1>1, <1>2, <1>3, <1>4, <1>5, <1>6, <1>7, <1>8, <1>9, <1>10 DEF Event

LEMMA WorkerSteps == ASSUME FetcherInv, Worker PROVE FetcherInv'
<1>1. ImportsOK'
  BY WorkerStepImports
<1>2. UNCHANGED <<announcements, timers, loop, calls>>
  BY DEF Worker, WorkerTake, WorkerInsert, WorkerReport
<1>3. height' \in Heights
  <2>1. CASE WorkerTake \/ WorkerReport
    BY <2>1, Parts DEF WorkerTake, WorkerReport, RestOK
  <2>2. CASE WorkerInsert /\ worker.hash \in Valid
    <3>1. height' = Max({height, Number[worker.hash]}) /\ height \in Heights
      BY <2>2, Parts DEF WorkerInsert, RestOK
    <3>2. Number[worker.hash] \in Heights
      BY <2>2, ValidNumbers
    <3>3. Heights \subseteq Int
      BY ValidNumbers DEF Heights
    <3>4. Max({height, Number[worker.hash]}) \in {height, Number[worker.hash]}
      BY <3>1, <3>2, <3>3, MaxOfTwo
    <3> QED  BY <3>1, <3>2, <3>4
  <2>3. CASE WorkerInsert /\ worker.hash \notin Valid
    BY <2>3, Parts DEF WorkerInsert, RestOK
  <2> QED  BY <2>1, <2>2, <2>3 DEF Worker
<1>4. RestOK'
  BY <1>2, <1>3, Parts DEF RestOK
<1> QED  BY <1>1, <1>2, <1>4, AnnouncesStay, Assemble

LEMMA OtherStep == ASSUME FetcherInv, OtherImport PROVE FetcherInv'
<1>1. /\ UNCHANGED <<announcements, timers, imports, channels, loop, worker>>
      /\ height < Cardinality(Valid) /\ height' = height + 1 /\ calls.others < MaxOthers
      /\ calls' = [calls EXCEPT !.others = @ + 1]
  BY DEF OtherImport
<1>2. RestOK
  BY Parts
<1>3. height' \in Heights
  BY <1>1, <1>2, ValidNumbers DEF RestOK, Heights
<1>4. calls' \in [notify : 0 .. MaxNotify, enqueue : 0 .. MaxEnqueue, others : 0 .. MaxOthers]
  BY <1>1, <1>2, Constants DEF RestOK
<1>5. RestOK'
  BY <1>1, <1>2, <1>3, <1>4 DEF RestOK
<1> QED  BY <1>1, <1>5, AnnouncesStay, ImportsStay, Assemble

-----------------------------------------------------------------------------
(* The theorems *)

LEMMA InitInv == Init => FetcherInv
<1> SUFFICES ASSUME Init PROVE FetcherInv
  OBVIOUS
<1>1. /\ height = 0 /\ announces = [p \in Peers |-> 0] /\ queues = [p \in Peers |-> 0]
      /\ announced = [h \in Hashes |-> <<>>] /\ fetching = [h \in Hashes |-> None]
      /\ fetched = [h \in Hashes |-> None] /\ completing = [h \in Hashes |-> None]
      /\ queued = [h \in Hashes |-> None] /\ fetchTimer = TRUE /\ completeTimer = TRUE
      /\ queue = {} /\ insertTasks = <<>> /\ done = <<>>
      /\ loop = [pc |-> "top", height |-> 0] /\ worker = [pc |-> "idle", hash |-> None]
      /\ calls = [notify |-> 0, enqueue |-> 0, others |-> 0]
  BY DEF Init
<1>2. 0 \in Heights
  BY ValidNumbers DEF Heights
<1>3. TypeOK
  <2>1. /\ announces \in [Peers -> Int] /\ announced \in [Hashes -> Seq(Announcement)]
        /\ {fetching, fetched, completing} \subseteq [Hashes -> Announcement \cup {None}]
    <3>1. [p \in Peers |-> 0] \in [Peers -> Int]
      OBVIOUS
    <3>2. [h \in Hashes |-> <<>>] \in [Hashes -> Seq(Announcement)]
      <4>1. <<>> \in Seq(Announcement)
        OBVIOUS
      <4> QED  BY <4>1
    <3>3. [h \in Hashes |-> None] \in [Hashes -> Announcement \cup {None}]
      OBVIOUS
    <3> QED  BY <1>1, <3>1, <3>2, <3>3
  <2>2. /\ queue \subseteq Hashes /\ queues \in [Peers -> 0 .. blockLimit]
        /\ queued \in [Hashes -> Peers \cup {None}]
    <3>1. 0 \in 0 .. blockLimit
      BY Constants
    <3>2. [p \in Peers |-> 0] \in [Peers -> 0 .. blockLimit]
      BY <3>1
    <3>3. [h \in Hashes |-> None] \in [Hashes -> Peers \cup {None}]
      OBVIOUS
    <3> QED  BY <1>1, <3>2, <3>3
  <2>3. /\ {insertTasks, done} \subseteq Seq(Hashes)
        /\ Len(insertTasks) <= numInsertTasks /\ Len(done) <= numInsertTasks
    <3>1. <<>> \in Seq(Hashes) /\ Len(<<>>) = 0
      OBVIOUS
    <3>2. Len(<<>>) <= numInsertTasks
      BY <3>1, Constants
    <3> QED  BY <1>1, <3>1, <3>2
  <2>4. /\ loop \in [pc : {"top", "import", "select"}, height : Heights]
        /\ worker \in [pc : {"idle", "insert", "report"}, hash : Hashes \cup {None}]
        /\ calls \in [notify : 0 .. MaxNotify, enqueue : 0 .. MaxEnqueue, others : 0 .. MaxOthers]
    <3>1. 0 \in 0 .. MaxNotify /\ 0 \in 0 .. MaxEnqueue /\ 0 \in 0 .. MaxOthers
      BY Constants
    <3>2. calls \in [notify : 0 .. MaxNotify, enqueue : 0 .. MaxEnqueue, others : 0 .. MaxOthers]
      BY <1>1, <3>1
    <3> QED  BY <1>1, <1>2, <3>2
  <2> QED  BY <1>1, <1>2, <2>1, <2>2, <2>3, <2>4 DEF TypeOK
<1>4. PlacesExact
  <2> SUFFICES ASSUME NEW h \in Hashes
               PROVE  PlacesIn(insertTasks, done, queue, worker.hash, h) = One(queued[h] # None)
    BY DEF PlacesExact
  <2>1. Occurs(<<>>, h) = 0
    <3>1. {i \in DOMAIN <<>> : <<>>[i] = h} = {}
      OBVIOUS
    <3> QED  BY <3>1, FS_EmptySet DEF Occurs
  <2>2. One(h \in queue) = 0 /\ One(worker.hash = h) = 0 /\ One(queued[h] # None) = 0
    BY <1>1, Constants DEF One
  <2>3. Occurs(insertTasks, h) = 0 /\ Occurs(done, h) = 0
    BY <1>1, <2>1
  <2> DEFINE inTasks == Occurs(insertTasks, h)
             inDone  == Occurs(done, h)
             inQueue == One(h \in queue)
             atWork  == One(worker.hash = h)
  <2>4. PlacesIn(insertTasks, done, queue, worker.hash, h) = inTasks + inDone + inQueue + atWork
    BY DEF PlacesIn
  <2>5. inTasks + inDone + inQueue + atWork = 0
    <3>1. inTasks = 0 /\ inDone = 0 /\ inQueue = 0 /\ atWork = 0
      BY <2>2, <2>3
    <3> HIDE DEF inTasks, inDone, inQueue, atWork
    <3> QED  BY <3>1
  <2> QED  BY <2>2, <2>4, <2>5
<1>5. CountsExact
  <2> SUFFICES ASSUME NEW p \in Peers PROVE queues[p] = Cardinality(Owned(queued, p))
    BY DEF CountsExact
  <2>1. Owned(queued, p) = {}
    BY <1>1, Constants DEF Owned
  <2> QED  BY <1>1, <2>1, FS_EmptySet
<1>6. CountNeverHigh
  <2> SUFFICES ASSUME NEW p \in Peers PROVE announces[p] <= Count(Announcements, p)
    BY DEF CountNeverHigh, Announcements
  <2>1. Count(Announcements, p) \in Nat
    BY <1>3, EntriesFinite, CountType
  <2>2. announces[p] = 0
    BY <1>1
  <2> QED  BY <2>1, <2>2
<1>7. TimersArmed
  BY <1>1 DEF TimersArmed
<1>8. QueueAccounted
  BY <1>4, <1>5, Accounted
<1> QED  BY <1>1, <1>3, <1>6, <1>7, <1>8 DEF FetcherInv

LEMMA Induction == FetcherInv /\ [Next]_vars => FetcherInv'
<1> SUFFICES ASSUME FetcherInv, [Next]_vars PROVE FetcherInv'
  OBVIOUS
<1>1. CASE Loop
  BY <1>1, BeforeSelect, Events DEF Loop
<1>2. CASE Worker
  BY <1>2, WorkerSteps
<1>3. CASE OtherImport
  BY <1>3, OtherStep
<1>4. CASE UNCHANGED vars
  <2>1. UNCHANGED <<height, announcements, timers, imports, channels, loop, worker, calls>>
    BY <1>4 DEF vars
  <2> QED  BY <2>1, AnnouncesStay, ImportsStay, LoopAfter, Assemble
<1> QED  BY <1>1, <1>2, <1>3, <1>4 DEF Next

\* FetcherInv is inductive.
THEOREM FetcherInvariance == Spec => []FetcherInv
  BY InitInv, Induction, PTL DEF Spec

\* The variables keep their types; with them a peer never has more than blockLimit
\* blocks queued, and its count never falls below zero.
THEOREM TypeCorrect == Spec => []TypeOK
<1>1. FetcherInv => TypeOK
  BY DEF FetcherInv
<1> QED  BY <1>1, FetcherInvariance, PTL

\* enqueue, the import loop, the worker and the done channel keep queued and queues
\* exact: every queued block is in one place, and is counted for one peer.
THEOREM QueueIsAccounted == Spec => []QueueAccounted
<1>1. FetcherInv => QueueAccounted
  BY DEF FetcherInv
<1> QED  BY <1>1, FetcherInvariance, PTL

\* forgetHash and the timers take off at least what Notify has counted, so a peer is
\* refused for hashLimit only while it has that many announcements waiting.
THEOREM CountsAreNeverHigh == Spec => []CountNeverHigh
<1>1. FetcherInv => CountNeverHigh
  BY DEF FetcherInv
<1> QED  BY <1>1, FetcherInvariance, PTL

\* rescheduleFetch and rescheduleComplete, called only when their map holds one hash,
\* leave no announcement and no header without an armed timer.
THEOREM TimersAreArmed == Spec => []TimersArmed
<1>1. FetcherInv => TimersArmed
  BY DEF FetcherInv
<1> QED  BY <1>1, FetcherInvariance, PTL
=============================================================================
