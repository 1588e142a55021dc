------------------------ MODULE ValsetCouncilProofs -------------------------
(***************************************************************************)
(* Proofs about the council of valset: what the schema records and what    *)
(* GetCouncil answers is what the votes in the headers define, on a node   *)
(* that migrates from Istanbul snapshots as on one that starts without     *)
(* any, through rewinds and restarts, for every length of a chain,         *)
(* interval, set of validators and bound.                                  *)
(***************************************************************************)
EXTENDS ValsetCouncilLemmas

-----------------------------------------------------------------------------
(* Reading *)

LEMMA CouncilRepeats ==
    ASSUME votes \in [Blocks -> Votes], NEW n \in Blocks
    PROVE  applyVote(votes[n], CouncilOf(n + 1)) = CouncilOf(n + 1)
<1>1. n \in Numbers /\ n \in Nat \ {0} /\ votes[n] \in Votes
  BY Bounds DEF Blocks, Numbers
<1>2. CouncilOf(n) \in SUBSET Validators
  BY <1>1, CouncilOfType
<1>3. applyVote(votes[n], applyVote(votes[n], CouncilOf(n))) = applyVote(votes[n], CouncilOf(n))
  BY <1>1, <1>2, VoteType
<1> QED  BY <1>1, <1>3, CouncilNext

\* After the migration the database has every answer.
LEMMA DatabaseComplete ==
    ASSUME TypeInv, NEW num \in Nat \ {0}, lowest = 0
    PROVE  InDB(num)
<1>1. nums \subseteq 0 .. MaxBlock
  BY Bounds DEF TypeInv
<1>2. lastNumLessThan(num) \in Nat
  BY <1>1, LastNum
<1> QED  BY <1>2 DEF InDB

\* Before that, the council after the last settled block comes from the cache or from a
\* snapshot.  The object in the cache is the one of the last settled block.
LEMMA ReadNext ==
    ASSUME IInv, NeverEmpty, lowest \notin {None, 0}, NEW num, num = Settled + 1, ~ InDB(num)
    PROVE  /\ ReadCouncil(num).ok /\ ReadCouncil(num).council = CouncilOf(num)
           /\ \E ref \in Numbers :
                /\ ReadCouncil(num).cache = [cache EXCEPT ![num] = ref]
                /\ ReadCouncil(num).heap = [heap EXCEPT ![ref] = CouncilOf(num)]
                /\ cache[Settled] # None => ref = cache[Settled]
<1>1. TypeInv /\ LowestInv /\ VotesInv /\ CacheInv
  BY DEF IInv
<1>2. /\ headers \in Nat /\ Settled <= headers /\ Settled \in Numbers /\ Settled \in Nat
      /\ num \in Nat \ {0} /\ num \in 1 .. Settled + 1 /\ num - 1 = Settled /\ num - 1 <= headers
      /\ (Settled > 0 => num >= 2 /\ num \in Nat)
  BY <1>1, SettledType
<1>3. CASE cache[Settled] # None
  <2>1. PICK ref \in Numbers : ref = cache[Settled]
    BY <1>1, <1>2, <1>3, Zenon DEF TypeInv
  <2>2. Settled > 0
    BY <1>1, <1>2, <1>3 DEF TypeInv
  <2>3. applyVote(votes[Settled], heap[cache[Settled]]) = CouncilOf(num)
    BY <1>1, <1>3, <2>2 DEF CacheInv
  <2>4. heap[cache[Settled]] # None
    BY <1>1, <2>1, NoneAssumption DEF TypeInv
  <2>5. PICK d : d = CouncilOf(num)
    OBVIOUS
  <2>6. /\ cache[num - 1] # None /\ heap[cache[num - 1]] # None
        /\ d = applyVote(votes[num - 1], heap[cache[num - 1]])
    BY <1>2, <1>3, <2>3, <2>4, <2>5
  <2>7. /\ ReadCouncil(num).ok /\ ReadCouncil(num).council = d
        /\ ReadCouncil(num).cache = [cache EXCEPT ![num] = cache[num - 1]]
        /\ ReadCouncil(num).heap = [heap EXCEPT ![cache[num - 1]] = d]
    BY <1>2, <2>2, <2>6, RegenerateHit
  <2> QED  BY <1>2, <2>1, <2>5, <2>7, Zenon
<1>4. CASE cache[Settled] = None
  <2>1. PICK s : s = snapshotNum(num)
    OBVIOUS
  <2>2. getValidIstanbulSnapshotBefore(s) = CouncilOf(s + 1) /\ CouncilOf(s + 1) # None
    BY <1>1, <1>2, <2>1, SnapshotForReader
  <2>3. cache[num - 1] = None
    BY <1>2, <1>4
  <2>4. /\ ReadCouncil(num).ok /\ ReadCouncil(num).council = CouncilOf(num)
        /\ ReadCouncil(num).cache = [cache EXCEPT ![num] = FreeRef]
        /\ ReadCouncil(num).heap = [heap EXCEPT ![FreeRef] = CouncilOf(num)]
    BY <1>2, <2>1, <2>2, <2>3, RegenerateRead, Zenon
  <2>5. FreeRef \in Numbers
    BY <1>1, FreeRefIsFree DEF TypeInv
  <2> QED  BY <1>4, <2>4, <2>5, Zenon
<1> QED  BY <1>3, <1>4, Zenon

LEMMA NoRewoundVote ==
    ASSUME rewinds \subseteq 0 .. MaxBlock, NEW m, ~ RewoundToVote
    PROVE  Sound(m)
  BY DEF RewoundToVote, Sound, Changed

\* Until the migration is over, readers ask for the next block, and not while one is
\* being inserted.
LEMMA GetCouncilKeeps ==
    ASSUME IInv, NEW num \in Numbers, GetCouncil(num),
           lowest # 0 => NeverEmpty /\ num = head + 1 /\ ~ inserting
    PROVE  IInv'
<1> DEFINE c == CASE InDB(num) -> CouncilDB(num)
                  [] ~ InDB(num) /\ ReadCouncil(num).ok -> ReadCouncil(num).council
                  [] OTHER -> None
<1>1. /\ up /\ num \in 1 .. head + 1 /\ target' = target /\ up' = up /\ rewinds' = rewinds
      /\ votes' = votes /\ head' = head /\ headers' = headers /\ inserting' = inserting
      /\ snapshots' = snapshots /\ nums' = nums /\ councils' = councils /\ lowest' = lowest
  BY DEF GetCouncil, chain, db
<1>2. answer' = [num |-> num, council |-> c, settled |-> ~ inserting /\ ~ RewoundToVote,
                 correct |-> c = CouncilOf(num)]
  BY DEF GetCouncil, ReadCouncil
<1>3. IF InDB(num) THEN cache' = cache /\ heap' = heap
                   ELSE cache' = ReadCouncil(num).cache /\ heap' = ReadCouncil(num).heap
  BY Zenon DEF GetCouncil, ReadCouncil, mem
<1>4. TypeInv /\ LowestInv /\ VotesInv /\ CacheInv /\ lowest # None /\ Settled' = Settled
  BY <1>1, SMTT(20) DEF IInv, TypeInv, Settled
<1>5. /\ Settled \in 0 .. MaxBlock /\ Settled \in Numbers /\ Settled + 1 \in Numbers
      /\ head \in Nat /\ num \in Nat \ {0} /\ Settled \in Nat /\ (Settled > 0 => Settled \in Blocks)
      /\ (~ inserting => Settled = head)
  BY <1>1, <1>4, SettledType DEF Settled
<1>6. VotesInv'
  BY <1>1, <1>4, <1>5, NumberTypes, SameRecords
<1>7. LowestInv' /\ TargetInv'
  BY <1>1, <1>4 DEF IInv, LowestInv, TargetInv
<1>8. CouncilOf(Settled + 1)' = CouncilOf(Settled + 1)
  BY <1>1, <1>4, SameVotes
<1>9. CASE InDB(num)
  <2>1. c = CouncilDB(num)
    BY <1>9
  <2>2. c # None
    BY <2>1, NoneAssumption DEF CouncilDB
  <2>3. ASSUME ~ inserting, ~ RewoundToVote PROVE c = CouncilOf(num)
    <3>1. Sound(num - 1)
      BY <1>4, <2>3, NoRewoundVote DEF TypeInv
    <3>2. num \in 1 .. Settled + 1
      BY <1>1, <1>5, <2>3
    <3> QED  BY <1>4, <1>9, <2>1, <3>1, <3>2, DatabaseAnswer
  <2>4. AnswerInv'
    <3> HIDE DEF c
    <3> QED  BY <1>2, <2>2, <2>3, Zenon DEF AnswerInv, AnswersCorrect, AlwaysAnswered
  <2>5. TypeInv' /\ CacheInv'
    BY <1>1, <1>3, <1>4, <1>8, <1>9 DEF TypeInv, CacheInv
  <2> QED  BY <1>6, <1>7, <2>4, <2>5 DEF IInv
<1>10. CASE ~ InDB(num)
  <2>1. lowest # 0 /\ lowest \in Nat
    BY <1>4, <1>5, <1>10, DatabaseComplete DEF TypeInv
  <2>2. num = Settled + 1 /\ NeverEmpty
    BY <1>5, <2>1
  <2>3. ReadCouncil(num).ok /\ ReadCouncil(num).council = CouncilOf(num)
    BY <1>4, <1>10, <2>1, <2>2, ReadNext
  <2>4. PICK ref \in Numbers :
           /\ ReadCouncil(num).cache = [cache EXCEPT ![num] = ref]
           /\ ReadCouncil(num).heap = [heap EXCEPT ![ref] = CouncilOf(num)]
           /\ cache[Settled] # None => ref = cache[Settled]
    BY <1>4, <1>10, <2>1, <2>2, ReadNext
  <2>5. CouncilOf(num) \in SUBSET Validators /\ CouncilOf(num) # None
    BY <1>4, CouncilOfType DEF TypeInv
  <2>6. c = CouncilOf(num)
    BY <1>10, <2>3
  <2>7. AnswerInv'
    <3> HIDE DEF c
    <3> QED  BY <1>2, <2>5, <2>6, Zenon DEF AnswerInv, AnswersCorrect, AlwaysAnswered
  <2>8. cache' = [cache EXCEPT ![num] = ref] /\ heap' = [heap EXCEPT ![ref] = CouncilOf(num)]
    BY <1>3, <1>10, <2>4
  <2>9. TypeInv'
    <3>1. cache' \in [Numbers -> Numbers \cup {None}] /\ cache'[0] = None
      BY <1>4, <1>5, <2>8, FunctionTypes
    <3>2. heap' \in [Numbers -> SUBSET Validators]
      BY <1>4, <2>5, <2>8 DEF TypeInv
    <3> QED  BY <1>1, <1>4, <3>1, <3>2 DEF TypeInv
  <2>10. CacheInv'
    <3>1. \A n \in Numbers : cache'[n] = IF n = num THEN ref ELSE cache[n]
      BY <1>4, <2>8, SMTT(20) DEF TypeInv
    <3>2. heap'[ref] = CouncilOf(num)
      BY <1>4, <2>8 DEF TypeInv
    <3>3. num >= target /\ target \in Nat
      BY <1>1, <1>4, <1>5, <2>1, <2>2, NumberTypes DEF IInv, TargetInv, LowestInv
    <3>4. \A n \in Numbers : cache'[n] # None => n <= Settled + 1 /\ n >= target
      <4>1. \A n \in Numbers : cache[n] # None => n <= Settled + 1 /\ n >= target
        BY <1>1, <1>4, <2>1 DEF CacheInv
      <4> QED  BY <1>5, <2>2, <3>1, <3>3, <4>1
    <3>5. (Settled > 0 /\ cache'[Settled] # None)
            => applyVote(votes[Settled], heap'[cache'[Settled]]) = CouncilOf(Settled + 1)
      <4>1. SUFFICES ASSUME Settled > 0, cache'[Settled] # None
                     PROVE  applyVote(votes[Settled], heap'[cache'[Settled]]) = CouncilOf(Settled + 1)
        BY SMTT(20)
      <4>2. cache'[Settled] = ref
        BY <1>5, <2>2, <2>4, <3>1, <4>1
      <4> QED  BY <1>4, <1>5, <2>2, <3>2, <4>1, <4>2, CouncilRepeats DEF TypeInv
    <3>6. heap'[cache'[Settled + 1]] = CouncilOf(Settled + 1)
      BY <1>5, <2>2, <3>1, <3>2
    <3> QED  BY <1>1, <1>4, <1>8, <3>4, <3>5, <3>6 DEF CacheInv
  <2> QED  BY <1>6, <1>7, <2>7, <2>9, <2>10 DEF IInv
<1> QED  BY <1>9, <1>10

-----------------------------------------------------------------------------
(* Inserting *)

LEMMA WriteBlockKeeps ==
    ASSUME IInv, NEW vote \in Votes, WriteBlock(vote)
    PROVE  IInv'
<1>1. /\ up /\ ~ inserting /\ head < MaxBlock /\ (head < headers => vote = votes[head + 1])
      /\ votes' = [votes EXCEPT ![head + 1] = vote] /\ head' = head + 1
      /\ headers' = Max({headers, head + 1}) /\ inserting' = TRUE
      /\ snapshots' = snapshots /\ nums' = nums /\ councils' = councils /\ lowest' = lowest
      /\ cache' = cache /\ heap' = heap /\ target' = target /\ up' = up
      /\ answer' = answer /\ rewinds' = rewinds
  BY DEF WriteBlock, db, mem
<1>2. TypeInv /\ LowestInv /\ VotesInv /\ CacheInv /\ lowest # None
  BY <1>1 DEF IInv, TypeInv
<1>3. /\ headers \in 0 .. MaxBlock /\ headers \in Nat /\ head \in 0 .. headers /\ MaxBlock \in Nat
      /\ lowest \in Nat /\ head + 1 \in Blocks /\ Settled = head
  BY <1>1, <1>2, NumberTypes, Bounds DEF Blocks, Settled
<1>4. Settled' = Settled
  BY <1>1, <1>3 DEF Settled
<1>5. headers' = IF headers < head + 1 THEN head + 1 ELSE headers
  <2>1. head + 1 \in Nat
    BY <1>3
  <2> QED  BY <1>1, <1>3, <2>1, Max2
<1>6. headers' \in 0 .. MaxBlock /\ headers <= headers' /\ head' \in 0 .. headers'
  BY <1>1, <1>3, <1>5 DEF Blocks
<1>7. \A m \in 1 .. headers : votes'[m] = votes[m]
  BY <1>1, <1>2, <1>3, FunctionTypes DEF Blocks
<1>8. /\ \A n \in 0 .. headers + 1 : CouncilOf(n)' = CouncilOf(n)
      /\ \A m \in 0 .. headers : Changed(m)' <=> Changed(m)
  BY <1>3, <1>7, AgreeingVotes
<1>9. \A m \in 0 .. headers : Sound(m)' <=> Sound(m)
  BY <1>1, <1>2, <1>3, <1>7, AgreeingSound DEF TypeInv
<1>10. TypeInv'
  <2>1. votes' \in [Blocks -> Votes]
    BY <1>1, <1>2, <1>3 DEF TypeInv
  <2>2. nums' \subseteq 0 .. headers' /\ head' > 0
    BY <1>1, <1>2, <1>3, <1>6, NumberTypes
  <2> QED  BY <1>1, <1>2, <1>6, <2>1, <2>2, Zenon DEF TypeInv
<1>11. LowestInv'
  <2>1. ASSUME lowest # 0, NEW n \in 0 .. headers', n <= lowest PROVE n \in 0 .. headers
    BY <1>2, <1>3, <1>6, <2>1 DEF LowestInv
  <2>2. lowest \notin {None, 0} => lowest <= headers'
    BY <1>2, <1>3, <1>6 DEF LowestInv
  <2> QED  BY <1>1, <1>2, <1>4, <2>1, <2>2, Zenon DEF LowestInv
<1>12. TargetInv' /\ AnswerInv'
  BY <1>1, SameAnswer DEF IInv, TargetInv
<1>13. VotesInv'
  <2>1. ASSUME NEW m \in Blocks, lowest <= m, m <= Settled, Changed(m)', Sound(m)'
        PROVE  m \in nums
    <3>1. m \in 0 .. headers
      BY <1>3, <2>1 DEF Blocks
    <3> QED  BY <1>2, <1>8, <1>9, <2>1, <3>1 DEF VotesInv
  <2>2. ASSUME NEW m \in nums, Sound(m)' PROVE councils[m] = CouncilOf(m + 1)'
    <3>1. m \in 0 .. headers /\ m + 1 \in 0 .. headers + 1
      BY <1>2, <1>3 DEF TypeInv
    <3> QED  BY <1>2, <1>8, <1>9, <2>2, <3>1 DEF VotesInv
  <2> QED  BY <1>1, <1>4, <2>1, <2>2 DEF VotesInv
<1>14. CacheInv'
  <2>1. Settled + 1 \in 0 .. headers + 1 /\ (Settled > 0 => Settled \in 1 .. headers)
    BY <1>3
  <2>2. CouncilOf(Settled + 1)' = CouncilOf(Settled + 1)
    BY <1>4, <1>8, <2>1
  <2>3. Settled > 0 => votes'[Settled] = votes[Settled]
    BY <1>7, <2>1
  <2> QED  BY <1>1, <1>2, <1>4, <2>2, <2>3 DEF CacheInv
<1> QED  BY <1>10, <1>11, <1>12, <1>13, <1>14 DEF IInv

LEMMA PostInsertBlockKeeps ==
    ASSUME IInv, PostInsertBlock, lowest # 0 => NeverEmpty
    PROVE  IInv'
<1> DEFINE c == IF InDB(head) THEN CouncilDB(head) ELSE ReadCouncil(head).council
           d == applyVote(votes[head], c)
           failed == ~ InDB(head) /\ ~ ReadCouncil(head).ok
<1>1. /\ up /\ inserting /\ inserting' = FALSE
      /\ votes' = votes /\ head' = head /\ headers' = headers /\ snapshots' = snapshots
      /\ lowest' = lowest /\ target' = target /\ up' = up /\ answer' = answer
      /\ rewinds' = rewinds
  BY Zenon DEF PostInsertBlock
<1>2. IF ~ failed /\ c # d
      THEN nums' = nums \cup {head} /\ councils' = [councils EXCEPT ![head] = d]
      ELSE nums' = nums /\ councils' = councils
  BY Zenon DEF PostInsertBlock, ReadCouncil, writeVote
<1>3. IF InDB(head) \/ failed
      THEN cache' = cache /\ heap' = heap
      ELSE cache' = ReadCouncil(head).cache
           /\ heap' = [ReadCouncil(head).heap EXCEPT ![ReadCouncil(head).cache[head]] = d]
  BY Zenon DEF PostInsertBlock, ReadCouncil, mem
<1>4. TypeInv /\ LowestInv /\ VotesInv /\ CacheInv /\ lowest # None
  BY <1>1, NumberTypes DEF IInv
<1>5. /\ headers \in 0 .. MaxBlock /\ head \in 1 .. headers /\ MaxBlock \in Nat /\ lowest \in Nat
      /\ head \in Blocks /\ head \in Numbers /\ head \in Nat \ {0} /\ head + 1 \in Numbers
      /\ head - 1 \in Numbers /\ head # 0 /\ Settled = head - 1 /\ Settled + 1 = head
      /\ Settled' = head
  BY <1>1, <1>4, NumberTypes, Bounds DEF Blocks, Numbers, Settled
<1>6. \A n : CouncilOf(n)' = CouncilOf(n) /\ (Changed(n)' <=> Changed(n)) /\ (Sound(n)' <=> Sound(n))
  BY <1>1, SameVotes, SameSound
<1>7. CouncilOf(head + 1) = applyVote(votes[head], CouncilOf(head))
  BY <1>5, CouncilNext
<1>8. CouncilOf(head) \in SUBSET Validators /\ CouncilOf(head + 1) \in SUBSET Validators
      /\ votes[head] \in Votes
  BY <1>4, <1>5, CouncilOfType DEF TypeInv
<1>9. lowest # 0 => lowest <= head /\ target \in Nat /\ target <= head
  BY <1>1, <1>4, <1>5, NumberTypes, NoneAssumption DEF IInv, TargetInv, LowestInv
<1>10. ~ InDB(head) =>
         /\ lowest # 0 /\ ReadCouncil(head).ok /\ ReadCouncil(head).council = CouncilOf(head)
         /\ \E ref \in Numbers : /\ ReadCouncil(head).cache = [cache EXCEPT ![head] = ref]
                                 /\ ReadCouncil(head).heap = [heap EXCEPT ![ref] = CouncilOf(head)]
  <2>1. SUFFICES ASSUME ~ InDB(head)
                 PROVE  /\ lowest # 0 /\ ReadCouncil(head).ok
                        /\ ReadCouncil(head).council = CouncilOf(head)
                        /\ \E ref \in Numbers :
                             /\ ReadCouncil(head).cache = [cache EXCEPT ![head] = ref]
                             /\ ReadCouncil(head).heap = [heap EXCEPT ![ref] = CouncilOf(head)]
    BY Zenon
  <2>2. lowest # 0
    BY <1>4, <1>5, <2>1, DatabaseComplete
  <2>3. PICK num : num = head
    OBVIOUS
  <2>4. num = Settled + 1 /\ ~ InDB(num) /\ lowest \notin {None, 0} /\ NeverEmpty
    BY <1>4, <1>5, <2>1, <2>2, <2>3
  <2>5. /\ ReadCouncil(num).ok /\ ReadCouncil(num).council = CouncilOf(num)
        /\ \E ref \in Numbers :
             /\ ReadCouncil(num).cache = [cache EXCEPT ![num] = ref]
             /\ ReadCouncil(num).heap = [heap EXCEPT ![ref] = CouncilOf(num)]
    BY <2>4, ReadNext, Zenon
  <2> QED  BY <2>2, <2>3, <2>5, Zenon
<1>11. ~ failed
  BY <1>10
<1>12. c \in SUBSET Validators /\ d \in SUBSET Validators
  <2>1. c \in SUBSET Validators
    <3>1. CASE InDB(head)
      <4>1. nums \subseteq 0 .. MaxBlock
        BY <1>4, <1>5 DEF TypeInv
      <4>2. lastNumLessThan(head) \in Numbers
        BY <1>5, <4>1, LastNum DEF Numbers
      <4>3. PICK x : x = councils[lastNumLessThan(head)]
        OBVIOUS
      <4>4. x \in (SUBSET Validators) \cup {None}
        BY <1>4, <4>2, <4>3 DEF TypeInv
      <4>5. CouncilDB(head) = IF x = None THEN {} ELSE x
        BY <4>3 DEF CouncilDB
      <4> QED  BY <3>1, <4>4, <4>5
    <3>2. CASE ~ InDB(head)
      BY <1>8, <1>10, <3>2
    <3> QED  BY <3>1, <3>2
  <2> HIDE DEF c
  <2> QED  BY <1>8, <2>1, VoteType
<1>13. Sound(head - 1) => c = CouncilOf(head) /\ d = CouncilOf(head + 1)
  <2>1. SUFFICES ASSUME Sound(head - 1) PROVE c = CouncilOf(head)
    BY <1>7
  <2>2. CASE InDB(head)
    <3>1. PICK num : num = head
      OBVIOUS
    <3>2. num \in 1 .. Settled + 1 /\ InDB(num) /\ Sound(num - 1)
      BY <1>5, <2>1, <2>2, <3>1
    <3>3. CouncilDB(num) = CouncilOf(num)
      BY <1>4, <3>2, DatabaseAnswer
    <3> QED  BY <2>2, <3>1, <3>3
  <2>3. CASE ~ InDB(head)
    BY <1>10, <2>3
  <2> QED  BY <2>2, <2>3
<1> HIDE DEF c, d
<1>14. IF c # d
       THEN nums' = nums \cup {head} /\ councils' = [councils EXCEPT ![head] = d]
       ELSE nums' = nums /\ councils' = councils
  BY <1>2, <1>11
<1>15. \A n \in Numbers : councils'[n] = IF n = head /\ c # d THEN d ELSE councils[n]
  <2>1. CASE c = d
    BY <1>14, <2>1
  <2>2. CASE c # d
    <3>1. councils' = [councils EXCEPT ![head] = d]
      BY <1>14, <2>2
    <3> QED  BY <1>4, <2>2, <3>1 DEF TypeInv
  <2> QED  BY <2>1, <2>2
<1>16. TypeInv'
  <2>1. nums' \subseteq 0 .. headers /\ councils' \in [Numbers -> (SUBSET Validators) \cup {None}]
    <3>1. d \in (SUBSET Validators) \cup {None}
      BY <1>12
    <3>2. PICK T : T = (SUBSET Validators) \cup {None}
      BY Zenon
    <3>3. councils \in [Numbers -> T] /\ d \in T
      BY <1>4, <3>1, <3>2 DEF TypeInv
    <3>4. councils' \in [Numbers -> T]
      BY <1>14, <3>3
    <3>5. nums' \subseteq 0 .. headers
      BY <1>4, <1>5, <1>14, Zenon DEF TypeInv
    <3> QED  BY <3>2, <3>4, <3>5
  <2>2. /\ cache' \in [Numbers -> Numbers \cup {None}] /\ cache'[0] = None
        /\ heap' \in [Numbers -> SUBSET Validators]
    <3>1. CASE InDB(head)
      BY <1>3, <1>4, <3>1 DEF TypeInv
    <3>2. CASE ~ InDB(head)
      <4>1. PICK ref \in Numbers : /\ ReadCouncil(head).cache = [cache EXCEPT ![head] = ref]
                                   /\ ReadCouncil(head).heap = [heap EXCEPT ![ref] = CouncilOf(head)]
        BY <1>10, <3>2, Zenon
      <4>2. /\ cache' = [cache EXCEPT ![head] = ref]
            /\ heap' = [ReadCouncil(head).heap EXCEPT ![ReadCouncil(head).cache[head]] = d]
        BY <1>3, <1>11, <3>2, <4>1
      <4>3. ReadCouncil(head).heap \in [Numbers -> SUBSET Validators]
        BY <1>4, <1>8, <4>1 DEF TypeInv
      <4>4. heap' \in [Numbers -> SUBSET Validators]
        BY <1>12, <4>2, <4>3, Zenon
      <4> QED  BY <1>4, <1>5, <4>2, <4>4 DEF TypeInv
    <3> QED  BY <3>1, <3>2
  <2> QED  BY <1>1, <1>4, <2>1, <2>2, Zenon DEF TypeInv
<1>17. LowestInv'
  <2>1. councils'[0] = councils[0]
    BY <1>5, <1>15 DEF Numbers
  <2>2. lowest \notin {None, 0} => lowest <= head + 1
    BY <1>5, <1>9
  <2> QED  BY <1>1, <1>4, <1>5, <2>1, <2>2 DEF LowestInv
<1>18. TargetInv' /\ AnswerInv'
  BY <1>1, SameAnswer DEF IInv, TargetInv
<1>19. VotesInv'
  <2>1. ASSUME NEW m \in Blocks, lowest <= m, m <= head, Changed(m), Sound(m)
        PROVE  m \in nums'
    <3>1. CASE m = head
      <4>1. Sound(head - 1)
        BY <1>4, <1>5, <2>1, <3>1, SoundBelow DEF TypeInv
      <4>2. c # d
        BY <1>13, <2>1, <3>1, <4>1 DEF Changed
      <4> QED  BY <1>14, <3>1, <4>2
    <3>2. CASE m # head
      <4>1. m <= Settled
        BY <1>5, <2>1, <3>2 DEF Blocks
      <4> QED  BY <1>4, <1>14, <2>1, <4>1 DEF VotesInv
    <3> QED  BY <3>1, <3>2
  <2>2. ASSUME NEW m \in nums', Sound(m) PROVE councils'[m] = CouncilOf(m + 1)
    <3>1. CASE m = head /\ c # d
      <4>1. Sound(head - 1)
        BY <1>4, <1>5, <2>2, <3>1, NumberTypes, SoundBelow
      <4> QED  BY <1>4, <1>5, <1>13, <1>14, <3>1, <4>1 DEF TypeInv
    <3>2. CASE m # head \/ c = d
      <4>1. m \in nums
        BY <1>14, <2>2, <3>2, Zenon
      <4>2. m \in Numbers
        BY <1>4, <1>5, <4>1 DEF TypeInv, Numbers
      <4>3. councils'[m] = councils[m]
        BY <1>15, <3>2, <4>2
      <4> QED  BY <1>4, <2>2, <4>1, <4>3 DEF VotesInv
    <3> QED  BY <3>1, <3>2
  <2> QED  BY <1>1, <1>5, <1>6, <2>1, <2>2 DEF VotesInv
<1>20. CacheInv'
  <2>1. SUFFICES ASSUME lowest # 0
                 PROVE  /\ \A n \in Numbers : cache'[n] # None => n <= head + 1 /\ n >= target
                        /\ cache'[head] # None
                             => applyVote(votes[head], heap'[cache'[head]]) = CouncilOf(head + 1)
                        /\ cache'[head + 1] = None
    BY <1>1, <1>5, <1>6 DEF CacheInv
  <2>2. \A n \in Numbers : cache[n] # None => n <= head /\ n >= target
    BY <1>1, <1>4, <1>5, <2>1 DEF CacheInv
  <2>3. cache[head + 1] = None /\ head + 1 # head
    BY <1>5, <2>2
  <2>4. CASE InDB(head)
    <3>1. cache' = cache /\ heap' = heap
      BY <1>3, <2>4
    <3>2. cache[head] # None => heap[cache[head]] = CouncilOf(head)
      BY <1>4, <1>5, <2>1 DEF CacheInv
    <3> QED  BY <1>5, <1>7, <2>2, <2>3, <3>1, <3>2 DEF Numbers
  <2>5. CASE ~ InDB(head)
    <3>1. PICK ref \in Numbers : /\ ReadCouncil(head).cache = [cache EXCEPT ![head] = ref]
                                 /\ ReadCouncil(head).heap = [heap EXCEPT ![ref] = CouncilOf(head)]
      BY <1>10, <2>5, Zenon
    <3>2. /\ cache' = [cache EXCEPT ![head] = ref] /\ ReadCouncil(head).cache[head] = ref
          /\ heap' = [ReadCouncil(head).heap EXCEPT ![ReadCouncil(head).cache[head]] = d]
      BY <1>3, <1>4, <1>5, <1>11, <2>5, <3>1 DEF TypeInv
    <3>3. heap'[ref] = d
      BY <1>4, <3>1, <3>2, Zenon DEF TypeInv
    <3>4. \A n \in Numbers : cache'[n] = IF n = head THEN ref ELSE cache[n]
      BY <1>4, <3>2, Zenon DEF TypeInv
    <3>5. d = CouncilOf(head + 1)
      <4>1. Sound(head - 1)
        BY <1>4, <2>1 DEF LowestInv, Sound
      <4> QED  BY <1>13, <4>1
    <3>6. applyVote(votes[head], heap'[cache'[head]]) = CouncilOf(head + 1)
      BY <1>4, <1>5, <3>3, <3>4, <3>5, CouncilRepeats DEF TypeInv
    <3>7. \A n \in Numbers : cache'[n] # None => n <= head + 1 /\ n >= target
      BY <1>5, <1>9, <2>1, <2>2, <3>4 DEF Numbers
    <3> QED  BY <1>5, <2>3, <3>4, <3>6, <3>7
  <2> QED  BY <2>4, <2>5, Zenon
<1> QED  BY <1>16, <1>17, <1>18, <1>19, <1>20 DEF IInv

-----------------------------------------------------------------------------
(* Rewinding *)

\* After the migration: the votes from the new head on are forgotten, and the vote of
\* the new head with them.
LEMMA SetHeadKeeps ==
    ASSUME IInv, NEW h \in 0 .. head, SetHead(h), lowest = 0
    PROVE  IInv'
<1>1. /\ up /\ ~ inserting /\ h < head /\ head' = h /\ headers' = h
      /\ votes' = [n \in Blocks |-> IF n > h THEN NoVote ELSE votes[n]]
      /\ nums' = {n \in nums : n < h}
      /\ councils' = [n \in Numbers |-> IF n > h THEN None ELSE councils[n]]
      /\ target' = 0 /\ rewinds' = rewinds \cup {h} /\ inserting' = inserting
      /\ lowest' = 0 /\ cache' = cache /\ heap' = heap /\ up' = up /\ answer' = answer
  BY DEF SetHead, trimValidatorVoteBlockNums, mem
<1>2. TypeInv /\ LowestInv /\ VotesInv /\ 0 # None
  BY NoneAssumption DEF IInv
<1>3. /\ headers \in 0 .. MaxBlock /\ head \in 0 .. headers /\ MaxBlock \in Nat /\ h \in Nat
      /\ h < MaxBlock /\ 0 \in Numbers /\ Settled = head /\ Settled' = h
  BY <1>1, <1>2, NumberTypes, Bounds DEF Numbers, Settled
<1>4. \A m \in 1 .. h : votes'[m] = votes[m]
  BY <1>1, <1>3 DEF Blocks
<1>5. /\ \A n \in 0 .. h + 1 : CouncilOf(n)' = CouncilOf(n)
      /\ \A m \in 0 .. h : Changed(m)' <=> Changed(m)
  BY <1>3, <1>4, AgreeingVotes
<1>6. ASSUME NEW m \in 0 .. h, Sound(m)' PROVE Sound(m)
  <2>1. \A k \in rewinds : k <= m => k \in 0 .. h /\ ~ Changed(k)'
    BY <1>1, <1>2, <1>3, <1>6, NumberTypes DEF Sound
  <2> QED  BY <1>5, <2>1 DEF Sound
<1>7. TypeInv'
  <2>1. votes' \in [Blocks -> Votes]
    <3>1. NoVote \in Votes
      BY DEF Votes
    <3> QED  BY <1>1, <1>2, <3>1, Zenon DEF TypeInv
  <2>2. councils' \in [Numbers -> (SUBSET Validators) \cup {None}]
    BY <1>1, <1>2 DEF TypeInv
  <2>3. nums' \subseteq 0 .. headers' /\ headers' \in 0 .. MaxBlock /\ head' \in 0 .. headers'
    <3>1. \A n \in nums : n \in Nat
      BY <1>2, <1>3, NumberTypes
    <3>2. nums' \subseteq 0 .. h
      BY <1>1, <1>3, <3>1
    <3> QED  BY <1>1, <1>3, <3>2
  <2>4. rewinds' \subseteq 0 .. MaxBlock
    BY <1>1, <1>2, <1>3, NumberTypes
  <2> QED  BY <1>1, <1>2, <2>1, <2>2, <2>3, <2>4, Zenon DEF TypeInv
<1>8. LowestInv'
  <2>1. councils'[0] = Genesis
    <3>1. councils[0] = Genesis
      BY <1>2 DEF LowestInv
    <3> QED  BY <1>1, <1>3, <3>1
  <2> QED  BY <1>1, <1>2, <2>1, Zenon DEF LowestInv
<1>9. TargetInv' /\ CacheInv' /\ AnswerInv'
  BY <1>1, SameAnswer DEF IInv, TargetInv, CacheInv
<1>10. VotesInv'
  <2>1. ASSUME NEW m \in Blocks, m <= h, Changed(m)', Sound(m)'
        PROVE  m \in nums'
    <3>1. m # h
      BY <1>1, <1>3, <2>1 DEF Sound
    <3>2. m \in 0 .. h /\ m < h /\ m <= Settled /\ lowest <= m
      BY <1>3, <2>1, <3>1 DEF Blocks
    <3>3. m \in nums
      BY <1>2, <1>5, <1>6, <2>1, <3>2 DEF VotesInv
    <3> QED  BY <1>1, <3>2, <3>3
  <2>2. ASSUME NEW m \in nums', Sound(m)' PROVE councils'[m] = CouncilOf(m + 1)'
    <3>1. m \in nums /\ m \in 0 .. h /\ m + 1 \in 0 .. h + 1 /\ m \in Numbers /\ ~ (m > h)
      BY <1>1, <1>2, <1>3, NumberTypes DEF Numbers
    <3>2. councils'[m] = councils[m]
      BY <1>1, <3>1
    <3> QED  BY <1>2, <1>5, <1>6, <2>2, <3>1, <3>2 DEF VotesInv
  <2> QED  BY <1>3, <2>1, <2>2 DEF VotesInv
<1> QED  BY <1>7, <1>8, <1>9, <1>10 DEF IInv

-----------------------------------------------------------------------------
(* The theorems *)

\* The course of a migration that the schema survives: the governing node or another
\* member is always in the council, the node is not rewound, readers ask for the council
\* of the next block between insertions, and a crash does not lose blocks below the
\* scanned range.  After the migration (lowestScannedValidatorVoteNum = 0) anything goes.
GentleMigration ==
    lowest # 0 =>
        /\ NeverEmpty
        /\ \A h \in 0 .. head : ~ SetHead(h)
        /\ \A num \in Numbers : GetCouncil(num) => num = head + 1 /\ ~ inserting
        /\ \A h \in 0 .. head : Crash(h) => lowest <= h + 1

LEMMA StepKeeps ==
    ASSUME ~ HeadStateOnDisk, IInv, [Next]_vars, [GentleMigration]_vars
    PROVE  IInv'
<1>1. CASE UNCHANGED vars
  <2>1. /\ votes' = votes /\ head' = head /\ headers' = headers /\ inserting' = inserting
        /\ snapshots' = snapshots /\ nums' = nums /\ councils' = councils /\ lowest' = lowest
        /\ cache' = cache /\ heap' = heap /\ target' = target /\ up' = up
        /\ answer' = answer /\ rewinds' = rewinds
    BY <1>1 DEF vars, chain, db, mem
  <2>2. TypeInv /\ Settled' = Settled
    BY <2>1 DEF IInv, Settled
  <2>3. TypeInv' /\ LowestInv' /\ TargetInv' /\ AnswerInv'
    BY <2>1, <2>2, SameAnswer, Zenon DEF IInv, TypeInv, LowestInv, TargetInv
  <2>4. VotesInv'
    BY <2>1, <2>2, NumberTypes, SettledType, SameRecords DEF IInv
  <2>5. CacheInv'
    <3>1. CouncilOf(Settled + 1)' = CouncilOf(Settled + 1)
      BY <2>1, <2>2, SameVotes
    <3> QED  BY <2>1, <2>2, <3>1, Zenon DEF IInv, CacheInv
  <2> QED  BY <2>3, <2>4, <2>5 DEF IInv
<1>2. CASE Next /\ GentleMigration
  <2>1. lowest # 0 => NeverEmpty
    BY <1>2, Zenon DEF GentleMigration
  <2>2. CASE initSchema
    BY <2>2, InitSchemaKeeps
  <2>3. CASE scanLastInterval
    <3>1. lowest = None /\ lowest # 0
      BY <2>3, NoneAssumption DEF scanLastInterval
    <3> QED  BY <2>1, <2>3, <3>1, ScanLastIntervalKeeps
  <2>4. CASE Start
    BY <2>4, StartKeeps
  <2>5. CASE migrate
    BY <2>1, <2>5, MigrateKeeps
  <2>6. CASE migrationComplete
    BY <2>6, MigrationCompleteKeeps
  <2>7. ASSUME NEW num \in Numbers, GetCouncil(num) PROVE IInv'
    BY <1>2, <2>7, GetCouncilKeeps DEF GentleMigration
  <2>8. ASSUME NEW vote \in Votes, WriteBlock(vote) PROVE IInv'
    BY <2>8, WriteBlockKeeps
  <2>9. CASE PostInsertBlock
    BY <2>1, <2>9, PostInsertBlockKeeps
  <2>10. ASSUME NEW h \in 0 .. head, SetHead(h) PROVE IInv'
    BY <1>2, <2>10, SetHeadKeeps DEF GentleMigration
  <2>11. ASSUME NEW h \in 0 .. head, Crash(h) PROVE IInv'
    BY <1>2, <2>11, CrashKeeps DEF GentleMigration
  <2> QED  BY <1>2, <2>2, <2>3, <2>4, <2>5, <2>6, <2>7, <2>8, <2>9, <2>10, <2>11 DEF Next
<1> QED  BY <1>1, <1>2

LEMMA InvariantImplies ==
    ASSUME IInv
    PROVE  StoredVotesCorrect /\ AnswersCorrect /\ AlwaysAnswered
<1>1. ASSUME ~ RewoundToVote PROVE NoVoteMissed /\ \A n \in nums : councils[n] = CouncilOf(n + 1)
  <2>1. \A m : Sound(m)
    BY <1>1, NoRewoundVote DEF IInv, TypeInv
  <2>2. \A n \in nums : councils[n] = CouncilOf(n + 1)
    BY <2>1 DEF IInv, VotesInv
  <2>3. ASSUME lowest # None, ~ inserting, NEW n \in Blocks, n \in lowest .. head, Changed(n)
        PROVE  n \in nums
    <3>1. lowest <= n /\ n <= Settled
      BY <2>3 DEF IInv, TypeInv, Settled
    <3> QED  BY <2>1, <2>3, <3>1 DEF IInv, VotesInv
  <2> QED  BY <2>2, <2>3 DEF NoVoteMissed, Changed
<1> QED  BY <1>1 DEF StoredVotesCorrect, IInv, AnswerInv

\* The inductive invariant holds as long as the migration takes a gentle course:
\* initSchema, migrate, PostInsertBlock, RewindTo and readers in any interleaving, and
\* after the migration with any rewinds and crashes.
THEOREM CouncilInvariant ==
    ASSUME ~ HeadStateOnDisk
    PROVE  Spec /\ [][GentleMigration]_vars => []IInv
<1>1. Init => IInv
  BY InitEstablishes
<1>2. IInv /\ [Next]_vars /\ [GentleMigration]_vars => IInv'
  BY StepKeeps
<1> QED  BY <1>1, <1>2, PTL DEF Spec

\* The schema neither misses a vote that changed the council, in the range declared
\* scanned by lowestScannedValidatorVoteNum, nor stores a wrong council for one.
THEOREM StoredVotesAreCorrect ==
    ASSUME ~ HeadStateOnDisk
    PROVE  Spec /\ [][GentleMigration]_vars => []StoredVotesCorrect
<1>1. IInv => StoredVotesCorrect
  BY InvariantImplies
<1> QED  BY <1>1, CouncilInvariant, PTL

\* GetCouncil returns the council that the votes of the headers define, from the
\* database, from a snapshot or from the objects that the cache shares.
THEOREM AnswersAreCorrect ==
    ASSUME ~ HeadStateOnDisk
    PROVE  Spec /\ [][GentleMigration]_vars => []AnswersCorrect
<1>1. IInv => AnswersCorrect
  BY InvariantImplies
<1> QED  BY <1>1, CouncilInvariant, PTL

\* GetCouncil finds a snapshot wherever the database has no answer yet.
THEOREM CouncilAlwaysAnswered ==
    ASSUME ~ HeadStateOnDisk
    PROVE  Spec /\ [][GentleMigration]_vars => []AlwaysAnswered
<1>1. IInv => AlwaysAnswered
  BY InvariantImplies
<1> QED  BY <1>1, CouncilInvariant, PTL

-----------------------------------------------------------------------------
(* A node that starts with this version *)

\* There is no migration: block 0 is all there is to scan.
FreshInv == lowest = 0 \/ (lowest = None /\ ~ up /\ head = 0 /\ headers = 0)

LEMMA FreshStep ==
    ASSUME IInv, FreshInv, [Next]_vars
    PROVE  [GentleMigration]_vars /\ FreshInv'
<1>1. TypeInv /\ TargetInv
  BY DEF IInv
<1>2. GentleMigration
  <2>1. SUFFICES ASSUME lowest # 0 PROVE GentleMigration
    BY DEF GentleMigration
  <2>2. ~ up /\ headers = 0
    BY <2>1 DEF FreshInv
  <2>3. 1 \in Numbers
    BY Bounds DEF Numbers
  <2>4. CouncilOf(0 + 1) # {}
    BY <1>1, <2>3, FunctionTypes, CouncilOfType, GenesisAssumption
  <2>5. NeverEmpty
    BY <2>2, <2>4 DEF NeverEmpty
  <2> QED  BY <2>2, <2>5, Zenon DEF GentleMigration, SetHead, GetCouncil, Crash
<1>3. FreshInv'
  <2>1. CASE UNCHANGED vars
    BY <2>1, Zenon DEF FreshInv, vars, chain, db
  <2>2. CASE initSchema
    BY <2>2 DEF FreshInv, initSchema, chain
  <2>3. CASE scanLastInterval
    <3>1. head = 0
      <4>1. lowest = None
        BY <2>3 DEF scanLastInterval
      <4> QED  BY <4>1, NoneAssumption DEF FreshInv
    <3>2. lowest' = 0
      BY <2>3, <3>1 DEF scanLastInterval
    <3> QED  BY <3>2 DEF FreshInv
  <2>4. CASE Start
    BY <2>4 DEF FreshInv, Start, db
  <2>5. CASE migrate
    <3>1. up /\ target \notin {None, 0}
      BY <2>5 DEF migrate
    <3> QED  BY <1>1, <3>1 DEF FreshInv, TargetInv
  <2>6. CASE migrationComplete
    BY <2>6 DEF FreshInv, migrationComplete
  <2>7. ASSUME NEW num \in Numbers, GetCouncil(num) PROVE FreshInv'
    BY <2>7 DEF FreshInv, GetCouncil, db
  <2>8. ASSUME NEW vote \in Votes, WriteBlock(vote) PROVE FreshInv'
    BY <2>8 DEF FreshInv, WriteBlock, db
  <2>9. CASE PostInsertBlock
    <3>1. lowest' = lowest /\ head' = head /\ headers' = headers /\ up' = up
      BY <2>9, Zenon DEF PostInsertBlock
    <3> QED  BY <3>1 DEF FreshInv
  <2>10. ASSUME NEW h \in 0 .. head, SetHead(h) PROVE FreshInv'
    BY <2>10 DEF FreshInv, SetHead
  <2>11. ASSUME NEW h \in 0 .. head, Crash(h) PROVE FreshInv'
    BY <2>11 DEF FreshInv, Crash, db
  <2> QED  BY <2>1, <2>2, <2>3, <2>4, <2>5, <2>6, <2>7, <2>8, <2>9, <2>10, <2>11 DEF Next
<1> QED  BY <1>2, <1>3

\* A node that runs this version from block 0 stores every vote and answers every call
\* of GetCouncil rightly, whatever the votes, rewinds, crashes and reads.
THEOREM FreshNode ==
    ASSUME ~ HeadStateOnDisk, UpgradeAt = {0}
    PROVE  Spec => [](StoredVotesCorrect /\ AnswersCorrect /\ AlwaysAnswered)
<1>1. Init => IInv /\ FreshInv
  BY InitEstablishes, Zenon DEF Init, FreshInv
<1>2. IInv /\ FreshInv /\ [Next]_vars => IInv' /\ FreshInv'
  BY FreshStep, StepKeeps
<1>3. IInv => StoredVotesCorrect /\ AnswersCorrect /\ AlwaysAnswered
  BY InvariantImplies
<1> QED  BY <1>1, <1>2, <1>3, PTL DEF Spec

-----------------------------------------------------------------------------
(* A node that migrates *)

\* Before the first crash the scanned range begins at or below the head.
LossInv ==
    /\ crashes \in Nat
    /\ (lowest \notin {None, 0} /\ crashes = 0) => lowest <= head

\* What is asked of the node: readers of the next block between insertions, no rewinds,
\* and at most one crash, which takes back at most one block.
ShortMigration ==
    /\ ~ HeadStateOnDisk /\ ~ ReadsInWindow
    /\ QueryDepth = 0 /\ MaxRewinds = 0 /\ MaxCrashes <= 1 /\ MaxLoss <= 1
    /\ GoverningNode \in Genesis

LEMMA ShortIsGentle ==
    ASSUME ShortMigration, IInv, LossInv, Next
    PROVE  GentleMigration
<1>1. TypeInv /\ LowestInv
  BY DEF IInv
<1>2. SUFFICES ASSUME lowest # 0 PROVE GentleMigration
  BY DEF GentleMigration
<1>3. headers \in 0 .. MaxBlock /\ head \in 0 .. headers /\ MaxBlock \in Nat /\ head \in Nat
  BY <1>1, Bounds DEF TypeInv
<1>4. NeverEmpty
  <2>1. ASSUME NEW n \in 0 .. headers PROVE CouncilOf(n + 1) # {}
    <3>1. n + 1 \in Numbers
      BY <1>3 DEF Numbers
    <3>2. GoverningNode \in CouncilAt(votes, n + 1)
      BY <1>1, <3>1, CouncilType DEF TypeInv, ShortMigration
    <3> QED  BY <3>2, CouncilIs
  <2> QED  BY <2>1 DEF NeverEmpty
<1>5. ASSUME NEW h \in 0 .. head, SetHead(h) PROVE FALSE
  <2>1. rewinds \cup {h} = {h}
    BY <1>1, <1>2 DEF LowestInv
  <2>2. Cardinality({h}) = 1
    BY FS_Singleton
  <2>3. Cardinality(rewinds \cup {h}) <= MaxRewinds
    BY <1>5 DEF SetHead
  <2>4. Cardinality({h}) <= 0
    BY <2>1, <2>3 DEF ShortMigration
  <2> QED  BY <2>2, <2>4
<1>6. ASSUME NEW num \in Numbers, GetCouncil(num) PROVE num = head + 1 /\ ~ inserting
  <2>1. num \in 1 .. head + 1 /\ num + QueryDepth > head /\ (inserting => ReadsInWindow)
    BY <1>6 DEF GetCouncil
  <2> QED  BY <1>3, <2>1 DEF ShortMigration
<1>7. ASSUME NEW h \in 0 .. head, Crash(h) PROVE lowest <= h + 1
  <2>1. up /\ crashes < MaxCrashes /\ head - h <= MaxLoss
    BY <1>7 DEF Crash
  <2>2. crashes = 0 /\ head - h <= 1
    BY <1>3, <2>1, Bounds DEF ShortMigration, LossInv
  <2>3. lowest \in Nat /\ lowest <= head
    BY <1>1, <1>2, <2>1, <2>2, Zenon DEF TypeInv, LossInv
  <2> QED  BY <1>3, <2>2, <2>3
<1> QED  BY <1>4, <1>5, <1>6, <1>7 DEF GentleMigration

LEMMA LossStep ==
    ASSUME ShortMigration, IInv, LossInv, Next
    PROVE  LossInv'
<1>1. TypeInv /\ LowestInv /\ TargetInv
  BY Zenon DEF IInv
<1>2. headers \in 0 .. MaxBlock /\ head \in 0 .. headers /\ MaxBlock \in Nat /\ head \in Nat
      /\ crashes \in Nat
  BY <1>1, NumberTypes, Bounds DEF LossInv
<1>3. CASE initSchema
  BY <1>3 DEF LossInv, initSchema, chain
<1>4. CASE scanLastInterval
  <2>1. head' = head /\ crashes' = crashes
    BY <1>4, Zenon DEF scanLastInterval, chain
  <2>2. CASE head = 0
    BY <1>2, <1>4, <2>1, <2>2 DEF scanLastInterval, LossInv
  <2>3. CASE head # 0
    <3>1. lowest' = snapshotNum(head) + 1
      BY <1>4, <2>3 DEF scanLastInterval
    <3>2. lowest' <= head
      BY <1>2, <2>3, <3>1, SnapshotNum
    <3> QED  BY <1>2, <2>1, <3>2 DEF LossInv
  <2> QED  BY <2>2, <2>3
<1>5. CASE Start
  BY <1>5 DEF LossInv, Start, chain, db
<1>6. CASE migrate
  <2>1. head' = head /\ crashes' = crashes /\ up /\ target \notin {None, 0}
    BY <1>6, Zenon DEF migrate, chain
  <2>2. lowest' = snapshotNum(target) + 1 \/ lowest' = lowest
    BY <1>6, Zenon DEF migrate
  <2>3. lowest \notin {None, 0} /\ lowest \in Nat /\ target \in Nat \ {0} /\ target <= lowest
    BY <1>1, <2>1 DEF TypeInv, TargetInv
  <2>4. snapshotNum(target) + 1 <= lowest /\ snapshotNum(target) \in Nat
    BY <2>3, SnapshotNum
  <2> QED  BY <1>2, <2>1, <2>2, <2>3, <2>4 DEF LossInv
<1>7. CASE migrationComplete
  BY <1>7 DEF LossInv, migrationComplete
<1>8. ASSUME NEW num \in Numbers, GetCouncil(num) PROVE LossInv'
  BY <1>8 DEF LossInv, GetCouncil, chain, db
<1>9. ASSUME NEW vote \in Votes, WriteBlock(vote) PROVE LossInv'
  <2>1. head' = head + 1 /\ lowest' = lowest /\ crashes' = crashes
    BY <1>9 DEF WriteBlock, db
  <2> QED  BY <1>1, <1>2, <2>1 DEF LossInv, TypeInv
<1>10. CASE PostInsertBlock
  <2>1. lowest' = lowest /\ head' = head /\ crashes' = crashes
    BY <1>10, Zenon DEF PostInsertBlock
  <2> QED  BY <2>1 DEF LossInv
<1>11. ASSUME NEW h \in 0 .. head, SetHead(h) PROVE LossInv'
  <2>1. lowest = 0
    BY <1>11, ShortIsGentle DEF GentleMigration
  <2> QED  BY <1>11, <2>1 DEF LossInv, SetHead
<1>12. ASSUME NEW h \in 0 .. head, Crash(h) PROVE LossInv'
  BY <1>2, <1>12 DEF LossInv, Crash
<1> QED  BY <1>3, <1>4, <1>5, <1>6, <1>7, <1>8, <1>9, <1>10, <1>11, <1>12 DEF Next

\* A node that comes from the old version, at any block and with any votes, stores every
\* vote and answers rightly throughout the migration, and through a crash in it.
THEOREM MigratingNode ==
    ASSUME ShortMigration
    PROVE  Spec => [](StoredVotesCorrect /\ AnswersCorrect /\ AlwaysAnswered)
<1>1. Init => IInv /\ LossInv
  <2>1. Init => LossInv
    <3>1. Init => crashes = 0 /\ lowest = None
      BY DEF Init
    <3> QED  BY <3>1 DEF LossInv
  <2> QED  BY <2>1, InitEstablishes
<1>2. IInv /\ LossInv /\ [Next]_vars => IInv' /\ LossInv'
  <2>1. SUFFICES ASSUME IInv, LossInv, [Next]_vars PROVE IInv' /\ LossInv'
    OBVIOUS
  <2>2. ~ HeadStateOnDisk
    BY DEF ShortMigration
  <2>3. [GentleMigration]_vars
    BY <2>1, ShortIsGentle
  <2>4. LossInv'
    <3>1. CASE UNCHANGED vars
      BY <2>1, <3>1 DEF LossInv, vars, chain, db
    <3>2. CASE Next
      BY <2>1, <3>2, LossStep
    <3> QED  BY <2>1, <3>1, <3>2
  <2> QED  BY <2>1, <2>2, <2>3, <2>4, StepKeeps
<1>3. IInv => StoredVotesCorrect /\ AnswersCorrect /\ AlwaysAnswered
  BY InvariantImplies
<1> QED  BY <1>1, <1>2, <1>3, PTL DEF Spec

=============================================================================
