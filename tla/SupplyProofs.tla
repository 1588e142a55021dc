---------------------------- MODULE SupplyProofs ----------------------------
(***************************************************************************)
(* Proofs about the total supply module: the types, and that the sums in   *)
(* the database, in memory and in the cache are those of the canonical     *)
(* blocks, for every interval, chain length and number of queries.         *)
(***************************************************************************)
EXTENDS Supply, TLAPS

-----------------------------------------------------------------------------
(* Checkpoints *)

LEMMA IntervalType == Interval \in Nat /\ Interval > 0 /\ MaxBlock \in Nat
  BY BoundsAssumption

\* A number is a multiple of the interval and a rest.
LEMMA DivMod ==
    ASSUME NEW n \in Int
    PROVE  /\ n % Interval \in 0 .. Interval - 1 /\ n \div Interval \in Int
           /\ n = Interval * (n \div Interval) + (n % Interval)
<1>1. ASSUME NEW i \in Int, i > 0 PROVE n = i * (n \div i) + (n % i)
  BY <1>1, Z3
<1>2. n % Interval \in 0 .. Interval - 1 /\ n \div Interval \in Int
  BY IntervalType
<1> QED  BY <1>1, <1>2, IntervalType

LEMMA Multiple ==
    ASSUME NEW q \in Int
    PROVE  (Interval * q) % Interval = 0
  BY IntervalType

LEMMA CheckpointIsMultiple ==
    ASSUME NEW n \in Int, IsCheckpoint(n)
    PROVE  \E q \in Int : n = Interval * q
<1>1. n % Interval = 0
  BY DEF IsCheckpoint
<1>2. n \div Interval \in Int /\ n = Interval * (n \div Interval) + (n % Interval)
  BY DivMod
<1>3. Interval * (n \div Interval) \in Int
  BY <1>2, IntervalType
<1>4. n = Interval * (n \div Interval)
  BY <1>1, <1>2, <1>3
<1> QED  BY <1>2, <1>4

\* nearestCheckpointNumber is the checkpoint at or below a block.
LEMMA NearestCheckpoint ==
    ASSUME NEW n \in Nat
    PROVE  /\ nearestCheckpointNumber(n) \in 0 .. n /\ IsCheckpoint(nearestCheckpointNumber(n))
           /\ n < nearestCheckpointNumber(n) + Interval
<1>1. PICK q \in Int, r \in 0 .. Interval - 1 : n = Interval * q + r /\ r = n % Interval
  BY DivMod
<1>2. Interval * q \in Int /\ nearestCheckpointNumber(n) = Interval * q
  BY <1>1, IntervalType DEF nearestCheckpointNumber
<1>3. q >= 0
  <2>1. CASE q < 0
    <3>1. Interval * q <= 0 - Interval
      BY <2>1, IntervalType
    <3> QED  BY <1>1, <1>2, <3>1, IntervalType
  <2> QED  BY <2>1
<1>4. Interval * q >= 0
  BY <1>3, IntervalType
<1>5. IsCheckpoint(nearestCheckpointNumber(n))
  BY <1>2, Multiple DEF IsCheckpoint
<1> QED  BY <1>1, <1>2, <1>4, <1>5, IntervalType

\* Two checkpoints are an interval apart.
LEMMA CheckpointGap ==
    ASSUME NEW m \in Int, NEW n \in Int, IsCheckpoint(m), IsCheckpoint(n), m < n
    PROVE  m + Interval <= n
<1>1. PICK p \in Int : m = Interval * p
  BY CheckpointIsMultiple
<1>2. PICK q \in Int : n = Interval * q
  BY CheckpointIsMultiple
<1>3. n - m = Interval * (q - p)
  BY <1>1, <1>2, IntervalType
<1>4. CASE q - p <= 0
  <2>1. Interval * (q - p) <= 0
    BY <1>4, IntervalType
  <2> QED  BY <1>3, <2>1
<1>5. CASE q - p >= 1
  <2>1. Interval * (q - p) >= Interval
    BY <1>5, IntervalType
  <2> QED  BY <1>3, <2>1, IntervalType
<1> QED  BY <1>4, <1>5

LEMMA NextCheckpoint ==
    ASSUME NEW n \in Int, IsCheckpoint(n)
    PROVE  IsCheckpoint(n + Interval)
<1>1. PICK q \in Int : n = Interval * q
  BY CheckpointIsMultiple
<1>2. n + Interval = Interval * (q + 1)
  BY <1>1, IntervalType
<1> QED  BY <1>2, Multiple DEF IsCheckpoint

LEMMA ZeroIsCheckpoint == IsCheckpoint(0)
  BY IntervalType DEF IsCheckpoint

\* The sums below the first bad checkpoint are of blocks below Osaka.
LEMMA FirstBad ==
    /\ firstBadCheckpoint \in Nat /\ IsCheckpoint(firstBadCheckpoint)
    /\ firstBadCheckpoint - Interval \in Nat
    /\ \A n \in Nat : IsCheckpoint(n) /\ n < firstBadCheckpoint => n < Osaka
<1>0. Osaka \in Nat /\ Osaka >= 1
  BY BoundsAssumption
<1>1. Osaka + Interval - 1 \in Nat
  BY <1>0, IntervalType
<1>2. /\ firstBadCheckpoint \in 0 .. (Osaka + Interval - 1) /\ IsCheckpoint(firstBadCheckpoint)
      /\ Osaka + Interval - 1 < firstBadCheckpoint + Interval
  BY <1>1, NearestCheckpoint DEF firstBadCheckpoint
<1>3. firstBadCheckpoint \in Nat /\ firstBadCheckpoint >= Osaka
      /\ firstBadCheckpoint <= Osaka + Interval - 1
  BY <1>0, <1>2, IntervalType
<1>4. 0 + Interval <= firstBadCheckpoint
  BY <1>0, <1>2, <1>3, ZeroIsCheckpoint, CheckpointGap
<1>5. ASSUME NEW n \in Nat, IsCheckpoint(n), n < firstBadCheckpoint PROVE n < Osaka
  <2>1. n + Interval <= firstBadCheckpoint
    BY <1>2, <1>3, <1>5, CheckpointGap
  <2> QED  BY <1>0, <1>3, <2>1, IntervalType
<1>6. firstBadCheckpoint - Interval \in Nat
  BY <1>3, <1>4, IntervalType
<1> QED  BY <1>2, <1>3, <1>5, <1>6

-----------------------------------------------------------------------------
(* Sums *)

LEMMA NumbersType == /\ Numbers \subseteq Nat /\ Queried \subseteq Numbers /\ 0 \in Numbers
                     /\ \A n \in Nat : n <= MaxBlock <=> n \in Numbers
                     /\ \A n \in Nat, m \in Numbers : n <= m => n \in Numbers
  BY BoundsAssumption DEF Numbers

\* A sum of n blocks is a sequence of length n.
LEMMA SumIsSeq ==
    ASSUME NEW n \in Numbers, NEW acc \in SumsOf(n)
    PROVE  acc \in Seq(Rewards) /\ Len(acc) = n /\ acc \in Sums
  BY NumbersType DEF SumsOf, Sums

LEMMA SeqIsSum ==
    ASSUME NEW acc \in Seq(Rewards), Len(acc) \in Numbers
    PROVE  acc \in SumsOf(Len(acc))
  BY NumbersType DEF SumsOf

LEMMA ChainIsSeq ==
    ASSUME NEW c \in Sums
    PROVE  c \in Seq(Rewards) /\ Len(c) \in Numbers /\ Len(c) \in Nat
  BY NumbersType, SumIsSeq DEF Sums

LEMMA EmptySum ==
    /\ <<>> \in SumsOf(0) /\ <<>> \in Sums
    /\ \A c \in Sums : IsSum(c, <<>>, 0)
<1>1. <<>> \in SumsOf(0)
  BY DEF SumsOf
<1>2. ASSUME NEW c \in Sums PROVE IsSum(c, <<>>, 0)
  <2>1. c \in Seq(Rewards) /\ Len(c) \in Nat
    BY ChainIsSeq
  <2>2. SubSeq(c, 1, 0) = <<>>
    BY <2>1
  <2> QED  BY <2>1, <2>2 DEF IsSum
<1> QED  BY <1>1, <1>2, SumIsSeq, NumbersType

LEMMA SumAppend ==
    ASSUME NEW n \in Numbers, NEW acc \in SumsOf(n), NEW r \in Rewards, n + 1 \in Numbers
    PROVE  Append(acc, r) \in SumsOf(n + 1)
<1>1. acc \in Seq(Rewards) /\ Len(acc) = n /\ n \in Nat
  BY SumIsSeq, NumbersType
<1>2. Append(acc, r) \in Seq(Rewards) /\ Len(Append(acc, r)) = n + 1
  BY <1>1
<1> QED  BY <1>2, SeqIsSum

LEMMA ChainReward ==
    ASSUME NEW c \in Sums, NEW n \in Nat, 1 <= n, n <= Len(c)
    PROVE  c[n] \in Rewards
  BY ChainIsSeq

\* Adding the reward of the next block to a sum makes the next sum.
LEMMA SumExtends ==
    ASSUME NEW c \in Sums, NEW n \in Nat, NEW acc, IsSum(c, acc, n), n + 1 <= Len(c)
    PROVE  IsSum(c, Append(acc, c[n + 1]), n + 1)
<1>1. c \in Seq(Rewards) /\ Len(c) \in Nat
  BY ChainIsSeq
<1>2. acc = SubSeq(c, 1, n)
  BY DEF IsSum
<1>3. Append(SubSeq(c, 1, n), c[n + 1]) = SubSeq(c, 1, n + 1)
  BY <1>1
<1> QED  BY <1>2, <1>3 DEF IsSum

\* A sum stays one when the chain grows, or shrinks to no less than its blocks.
LEMMA SumOfLonger ==
    ASSUME NEW c \in Sums, NEW r \in Rewards, NEW n \in Nat, NEW acc, IsSum(c, acc, n)
    PROVE  IsSum(Append(c, r), acc, n)
<1>1. c \in Seq(Rewards) /\ Len(c) \in Nat
  BY ChainIsSeq
<1>2. acc = SubSeq(c, 1, n) /\ n <= Len(c)
  BY DEF IsSum
<1>3. SubSeq(Append(c, r), 1, n) = SubSeq(c, 1, n) /\ n <= Len(Append(c, r))
  BY <1>1, <1>2
<1> QED  BY <1>2, <1>3 DEF IsSum

LEMMA SumOfPrefix ==
    ASSUME NEW c \in Sums, NEW k \in Nat, k <= Len(c)
    PROVE  /\ SubSeq(c, 1, k) \in SumsOf(k) /\ SubSeq(c, 1, k) \in Sums
           /\ Len(SubSeq(c, 1, k)) = k
           /\ \A n \in Nat : \A acc : n <= k /\ IsSum(c, acc, n) => IsSum(SubSeq(c, 1, k), acc, n)
<1>1. c \in Seq(Rewards) /\ Len(c) \in Nat /\ Len(c) \in Numbers /\ k \in Numbers
  BY ChainIsSeq, BoundsAssumption DEF Numbers
<1>2. SubSeq(c, 1, k) \in Seq(Rewards) /\ Len(SubSeq(c, 1, k)) = k
  BY <1>1
<1>3. ASSUME NEW n \in Nat, n <= k PROVE SubSeq(SubSeq(c, 1, k), 1, n) = SubSeq(c, 1, n)
  BY <1>1, <1>3
<1>4. \A n \in Nat : \A acc : n <= k /\ IsSum(c, acc, n) => IsSum(SubSeq(c, 1, k), acc, n)
  BY <1>2, <1>3 DEF IsSum
<1>5. SubSeq(c, 1, k) \in SumsOf(k)
  BY <1>1, <1>2, SeqIsSum
<1> QED  BY <1>1, <1>2, <1>4, <1>5, SumIsSeq

-----------------------------------------------------------------------------
(* Types *)

\* The type invariant by threads and stores.
ChainType == /\ chain \in Sums /\ head \in 0 .. Len(chain)
             /\ rewinds \in 0 .. MaxRewinds /\ faults \in 0 .. MaxFaults
StoredType == /\ stored \in [Numbers -> Sums \cup {None}] /\ torn \subseteq Numbers
              /\ \A n \in Numbers : stored[n] # None => IsCheckpoint(n) /\ stored[n] \in SumsOf(n)
MemType == mem \in [num : Numbers, acc : Sums] /\ mem.acc \in SumsOf(mem.num)
CtlType == /\ ctl \in [pc : {"down", "fixup", "fixed", "load", "up", "stopping", "rewind", "delete"},
                       num : Nat, moved : BOOLEAN]
           /\ quit \in BOOLEAN /\ fixupDone \in BOOLEAN
CatchupType == /\ catchup \in [pc : {"check", "work", "stored", "sleep", "off", "failed"},
                               to : Numbers, num : Numbers, acc : Sums]
               /\ catchup.acc \in SumsOf(catchup.num)
PostType == /\ post \in [pc : {"none", "written", "begun", "stored"}, num : Numbers,
                         locked : BOOLEAN, acc : Sums]
            /\ Locked => post.acc \in SumsOf(post.num)
QueryType == /\ query \in [pc : {"idle", "sum"}, num : Queried \cup {0}, at : Numbers,
                           acc : Sums, clean : BOOLEAN]
             /\ query.at <= query.num /\ query.acc \in SumsOf(query.at)
             /\ query.pc = "sum" => query.num \in Queried
CacheType == /\ DOMAIN supplyCache = Queried
             /\ \A n \in Queried :
                   supplyCache[n] # None => supplyCache[n] \in [acc : SumsOf(n), clean : BOOLEAN]

LEMMA TypeParts ==
    TypeOK <=> /\ ChainType /\ last \in Numbers /\ StoredType /\ MemType /\ CtlType
               /\ CatchupType /\ PostType /\ QueryType /\ CacheType
  BY DEF TypeOK, ChainType, StoredType, MemType, CtlType, CatchupType, PostType, QueryType,
         CacheType

\* What a step leaves alone keeps its type.
LEMMA TypeFrame ==
    ASSUME TypeOK
    PROVE  /\ UNCHANGED blockchain => ChainType'
           /\ UNCHANGED last => (last \in Numbers)'
           /\ UNCHANGED <<stored, torn>> => StoredType'
           /\ UNCHANGED mem => MemType'
           /\ UNCHANGED <<ctl, quit, fixupDone>> => CtlType'
           /\ UNCHANGED catchup => CatchupType'
           /\ UNCHANGED post => PostType'
           /\ UNCHANGED query => QueryType'
           /\ UNCHANGED supplyCache => CacheType'
<1>1. UNCHANGED blockchain => ChainType'
  BY DEF TypeOK, ChainType, blockchain
<1>2. UNCHANGED <<stored, torn>> => StoredType'
  BY DEF TypeOK, StoredType
<1>3. UNCHANGED mem => MemType'
  BY DEF TypeOK, MemType
<1>4. UNCHANGED <<ctl, quit, fixupDone>> => CtlType'
  BY DEF TypeOK, CtlType
<1>5. UNCHANGED catchup => CatchupType'
  BY DEF TypeOK, CatchupType
<1>6. UNCHANGED post => PostType'
  BY DEF TypeOK, PostType, Locked
<1>7. UNCHANGED query => QueryType'
  BY DEF TypeOK, QueryType
<1>8. UNCHANGED supplyCache => CacheType'
  BY DEF TypeOK, CacheType
<1> QED
  BY <1>1, <1>2, <1>3, <1>4, <1>5, <1>6, <1>7, <1>8 DEF TypeOK

\* The records of an idle thread.
IdleType ==
    /\ query = Idle => QueryType
    /\ post = NoPost => PostType
    /\ \A p \in {"check", "off", "failed"} : catchup = [Off EXCEPT !.pc = p] => CatchupType
    /\ catchup = Off => CatchupType
    /\ supplyCache = [n \in Queried |-> None] => CacheType
    /\ mem = [num |-> 0, acc |-> <<>>] => MemType

LEMMA IdleTypes == IdleType
<1> USE EmptySum, NumbersType
<1>1. query = Idle => QueryType
  BY DEF Idle, QueryType
<1>2. post = NoPost => PostType
  BY DEF NoPost, PostType, Locked
<1>3. \A p \in {"check", "off", "failed"} : catchup = [Off EXCEPT !.pc = p] => CatchupType
  BY DEF Off, CatchupType
<1>4. catchup = Off => CatchupType
  BY DEF Off, CatchupType
<1>5. supplyCache = [n \in Queried |-> None] => CacheType
  BY DEF CacheType
<1>6. mem = [num |-> 0, acc |-> <<>>] => MemType
  BY DEF MemType
<1> QED  BY <1>1, <1>2, <1>3, <1>4, <1>5, <1>6 DEF IdleType

\* Storing a sum of n blocks, or deleting one.
LEMMA WriteType ==
    ASSUME StoredType, NEW n \in Numbers, NEW acc, WriteAccReward(n, acc),
           acc = None \/ (IsCheckpoint(n) /\ acc \in SumsOf(n))
    PROVE  StoredType'
<1>1. acc \in Sums \cup {None}
  BY SumIsSeq
<1>2. stored' \in [Numbers -> Sums \cup {None}] /\ torn' \subseteq Numbers
  BY <1>1 DEF StoredType, WriteAccReward
<1>3. ASSUME NEW k \in Numbers, stored'[k] # None
      PROVE  IsCheckpoint(k) /\ stored'[k] \in SumsOf(k)
  BY <1>3 DEF StoredType, WriteAccReward
<1> QED  BY <1>2, <1>3 DEF StoredType, IsCheckpoint, SumsOf, Rewards

\* loadLastAccReward keeps the types.
LEMMA LoadType ==
    ASSUME TypeOK, loadLastAccReward, torn' = torn
    PROVE  (last \in Numbers)' /\ StoredType' /\ MemType'
<1>1. /\ last \in Numbers /\ stored \in [Numbers -> Sums \cup {None}] /\ torn \subseteq Numbers
      /\ \A n \in Numbers : stored[n] # None => IsCheckpoint(n) /\ stored[n] \in SumsOf(n)
  BY DEF TypeOK
<1>2. Loaded \in Numbers /\ (Loaded = 0 \/ stored[Loaded] # None)
  BY <1>1, NumbersType DEF Loaded
<1>3. stored' = [stored EXCEPT ![Loaded] = IF Loaded = 0 THEN <<>> ELSE stored[Loaded]]
      /\ last' = Loaded /\ mem' = [num |-> Loaded, acc |-> stored'[Loaded]]
  BY DEF loadLastAccReward
<1>4. stored'[Loaded] \in SumsOf(Loaded) /\ stored'[Loaded] \in Sums
  BY <1>1, <1>2, <1>3, EmptySum, SumIsSeq
<1>5. stored' \in [Numbers -> Sums \cup {None}]
  BY <1>1, <1>2, <1>3, <1>4
<1>6. ASSUME NEW n \in Numbers, stored'[n] # None
      PROVE  IsCheckpoint(n) /\ stored'[n] \in SumsOf(n)
  <2>1. CASE n = Loaded
    BY <1>1, <1>2, <1>4, <2>1, ZeroIsCheckpoint
  <2>2. CASE n # Loaded
    BY <1>1, <1>2, <1>3, <1>6, <2>2
  <2> QED  BY <2>1, <2>2
<1>7. StoredType'
  BY <1>1, <1>5, <1>6 DEF StoredType, IsCheckpoint, SumsOf, Rewards
<1>8. MemType'
  BY <1>2, <1>3, <1>4 DEF MemType
<1> QED  BY <1>2, <1>3, <1>7, <1>8

LEMMA NextTypeParts ==
    TypeOK' <=> /\ ChainType' /\ (last \in Numbers)' /\ StoredType' /\ MemType' /\ CtlType'
                /\ CatchupType' /\ PostType' /\ QueryType' /\ CacheType'
  BY TypeParts, PTL

LEMMA NextIdleTypes == IdleType'
  BY IdleTypes, PTL

LEMMA StartingType ==
    ASSUME TypeOK, Threads, Starting
    PROVE  TypeOK' /\ Threads'
<1> USE DEF db
<1>0. /\ last \in Numbers /\ fixupDone \in BOOLEAN /\ StoredType /\ quit \in BOOLEAN
      /\ ctl \in [pc : {"down", "fixup", "fixed", "load", "up", "stopping", "rewind", "delete"},
                  num : Nat, moved : BOOLEAN]
  BY DEF TypeOK, StoredType
<1>1. CASE Boot
  <2>1. CtlType'
    BY <1>0, <1>1, FirstBad DEF Boot, CtlType
  <2>2. TypeOK'
    BY <1>1, <2>1, TypeFrame, NextTypeParts DEF Boot
  <2>3. Threads'
    BY <1>1 DEF Boot, Threads, Working, blockchain
  <2> QED  BY <2>2, <2>3
<1>2. CASE FixupDelete
  <2>1. ctl.num \in Numbers
    BY <1>0, <1>2, NumbersType DEF FixupDelete
  <2>2. CtlType'
    BY <1>0, <1>2, IntervalType DEF FixupDelete, CtlType
  <2>3. StoredType'
    BY <1>0, <1>2, <2>1, WriteType DEF FixupDelete
  <2>4. TypeOK'
    BY <1>2, <2>2, <2>3, TypeFrame, NextTypeParts DEF FixupDelete
  <2>5. Threads'
    BY <1>0, <1>2 DEF FixupDelete, Threads, Working, blockchain
  <2> QED  BY <2>4, <2>5
<1>3. CASE FixupReset
  <2>1. last' \in Numbers
    BY <1>0, <1>3, FirstBad, IntervalType DEF FixupReset, FixupNeeded, Numbers
  <2>2. CtlType'
    BY <1>0, <1>3 DEF FixupReset, CtlType
  <2>4. TypeOK'
    BY <1>3, <2>1, <2>2, TypeFrame, NextTypeParts DEF FixupReset
  <2>5. Threads'
    BY <1>0, <1>3 DEF FixupReset, Threads, Working, blockchain
  <2> QED  BY <2>4, <2>5
<1>4. CASE FixupFlag
  <2>2. CtlType'
    BY <1>0, <1>4 DEF FixupFlag, CtlType
  <2>4. TypeOK'
    BY <1>4, <2>2, TypeFrame, NextTypeParts DEF FixupFlag
  <2>5. Threads'
    BY <1>0, <1>4 DEF FixupFlag, Threads, Working, blockchain
  <2> QED  BY <2>4, <2>5
<1>5. CASE FixupSkip
  <2>2. CtlType'
    BY <1>0, <1>5 DEF FixupSkip, CtlType
  <2>4. TypeOK'
    BY <1>5, <2>2, TypeFrame, NextTypeParts DEF FixupSkip
  <2>5. Threads'
    BY <1>0, <1>5 DEF FixupSkip, Threads, Working, blockchain
  <2> QED  BY <2>4, <2>5
<1>6. CASE Start
  <2>1. (last \in Numbers)' /\ StoredType' /\ MemType'
    BY <1>6, LoadType DEF Start
  <2>2. CtlType'
    BY <1>0, <1>6 DEF Start, CtlType
  <2>3. QueryType'
    BY <1>6 DEF Start, TypeOK, QueryType
  <2>4. CatchupType' /\ CacheType'
    BY <1>6, NextIdleTypes DEF Start, IdleType
  <2>5. TypeOK'
    BY <1>6, <2>1, <2>2, <2>3, <2>4, TypeFrame, NextTypeParts DEF Start
  <2>6. Threads'
    BY <1>6 DEF Start, Threads, Working, Off
  <2> QED  BY <2>5, <2>6
<1> QED  BY <1>1, <1>2, <1>3, <1>4, <1>5, <1>6 DEF Starting

LEMMA CatchupTypes ==
    ASSUME TypeOK, Threads, CatchingUp \/ CatchupFails
    PROVE  TypeOK' /\ Threads'
<1> USE DEF db
<1>0. /\ catchup \in [pc : {"check", "work", "stored", "sleep", "off", "failed"},
                      to : Numbers, num : Numbers, acc : Sums]
      /\ catchup.acc \in SumsOf(catchup.num) /\ StoredType /\ chain \in Sums
      /\ Len(chain) \in Numbers /\ head \in Numbers /\ head <= Len(chain) /\ MemType
      /\ mem \in [num : Numbers, acc : Sums] /\ mem.acc \in SumsOf(mem.num)
      /\ faults \in 0 .. MaxFaults
  <2>1. Len(chain) \in Numbers /\ Len(chain) \in Nat
    BY ChainIsSeq DEF TypeOK
  <2>2. head \in Numbers /\ head <= Len(chain)
    BY <2>1, NumbersType DEF TypeOK
  <2> QED  BY <2>1, <2>2 DEF TypeOK, StoredType, MemType
<1>1. CASE CatchupCheck
  <2>1. CatchupType'
    BY <1>0, <1>1 DEF CatchupCheck, CatchupType
  <2>2. TypeOK'
    BY <1>1, <2>1, TypeFrame, NextTypeParts DEF CatchupCheck
  <2>3. Threads'
    <3>1. mem.num \in Nat /\ head \in Nat
      BY <1>0, NumbersType
    <3>2. catchup'.pc = "work" => catchup'.num <= catchup'.to
      BY <1>1, <3>1 DEF CatchupCheck
    <3>3. catchup'.pc \in {"work", "sleep"} /\ catchup'.to <= Len(chain)
      BY <1>0, <1>1 DEF CatchupCheck
    <3>4. catchup.pc = "check" /\ UNCHANGED <<ctl, chain, head>>
      BY <1>1 DEF CatchupCheck, blockchain
    <3> QED  BY <3>2, <3>3, <3>4 DEF Threads, Working
  <2> QED  BY <2>2, <2>3
<1>2. CASE CatchupAdd
  <2> DEFINE num == catchup.num + 1
             acc == Append(catchup.acc, chain[num])
  <2>1. /\ catchup.num \in Nat /\ catchup.to \in Numbers /\ catchup.num < catchup.to
        /\ catchup.to <= Len(chain) /\ num \in Nat /\ num \in Numbers /\ num <= Len(chain)
        /\ 1 <= num /\ num <= catchup.to
    <3>1. catchup.num < catchup.to /\ catchup.to <= Len(chain)
      BY <1>2 DEF CatchupAdd, Threads, Working
    <3>2. catchup.num \in Nat /\ catchup.to \in Numbers /\ catchup.to \in Nat /\ Len(chain) \in Nat
      BY <1>0, NumbersType
    <3> QED  BY <3>1, <3>2, NumbersType
  <2>2. acc \in SumsOf(num) /\ acc \in Sums
    <3>1. chain[num] \in Rewards
      BY <1>0, <2>1, ChainReward
    <3> QED  BY <1>0, <2>1, <3>1, SumAppend, SumIsSeq
  <2>3. /\ catchup' = [catchup EXCEPT !.num = num, !.acc = acc,
                                      !.pc = IF IsCheckpoint(num) THEN "stored" ELSE "work"]
        /\ IF IsCheckpoint(num) THEN WriteAccReward(num, acc) ELSE UNCHANGED <<stored, torn>>
        /\ UNCHANGED <<blockchain, last, fixupDone, mem, quit, ctl, post, query, supplyCache>>
    BY <1>2 DEF CatchupAdd
  <2> HIDE DEF num, acc
  <2>4. CatchupType'
    BY <1>0, <2>1, <2>2, <2>3 DEF CatchupType
  <2>5. StoredType'
    BY <1>0, <2>1, <2>2, <2>3, WriteType, TypeFrame
  <2>6. TypeOK'
    BY <2>3, <2>4, <2>5, TypeFrame, NextTypeParts
  <2>7. Threads'
    BY <1>0, <1>2, <2>1, <2>3 DEF CatchupAdd, Threads, Working, blockchain
  <2> QED  BY <2>6, <2>7
<1>3. CASE CatchupLast
  <2>1. CatchupType' /\ last' \in Numbers
    BY <1>0, <1>3 DEF CatchupLast, CatchupType
  <2>2. TypeOK'
    BY <1>3, <2>1, TypeFrame, NextTypeParts DEF CatchupLast
  <2>3. Threads'
    BY <1>0, <1>3 DEF CatchupLast, Threads, Working, blockchain
  <2> QED  BY <2>2, <2>3
<1>4. CASE CatchupSet
  <2>1. CatchupType'
    BY <1>4, NextIdleTypes DEF CatchupSet, IdleType
  <2>2. MemType'
    BY <1>0, <1>4 DEF CatchupSet, MemType
  <2>3. TypeOK'
    BY <1>4, <2>1, <2>2, TypeFrame, NextTypeParts DEF CatchupSet
  <2>4. Threads'
    BY <1>4 DEF CatchupSet, Threads, Working, Off, blockchain
  <2> QED  BY <2>3, <2>4
<1>5. CASE CatchupTimer
  <2>1. CatchupType'
    BY <1>5, NextIdleTypes DEF CatchupTimer, IdleType
  <2>2. TypeOK'
    BY <1>5, <2>1, TypeFrame, NextTypeParts DEF CatchupTimer
  <2>3. Threads'
    BY <1>5 DEF CatchupTimer, Threads, Working, Off, blockchain
  <2> QED  BY <2>2, <2>3
<1>6. CASE CatchupQuit
  <2>1. CatchupType'
    BY <1>6, NextIdleTypes DEF CatchupQuit, IdleType
  <2>2. TypeOK'
    BY <1>6, <2>1, TypeFrame, NextTypeParts DEF CatchupQuit
  <2>3. Threads'
    BY <1>6 DEF CatchupQuit, Threads, Working, Off, blockchain
  <2> QED  BY <2>2, <2>3
<1>7. CASE CatchupFails
  <2>1. CatchupType'
    BY <1>7, NextIdleTypes DEF CatchupFails, IdleType
  <2>2. ChainType'
    BY <1>0, <1>7, BoundsAssumption DEF CatchupFails, ChainType, TypeOK
  <2>3. TypeOK'
    BY <1>7, <2>1, <2>2, TypeFrame, NextTypeParts DEF CatchupFails
  <2>4. Threads'
    BY <1>7 DEF CatchupFails, Threads, Working, Off
  <2> QED  BY <2>3, <2>4
<1> QED  BY <1>1, <1>2, <1>3, <1>4, <1>5, <1>6, <1>7 DEF CatchingUp

LEMMA PostTypes ==
    ASSUME TypeOK, Threads, Posting \/ \E locked \in BOOLEAN : InsertBlock(locked)
    PROVE  TypeOK' /\ Threads'
<1> USE DEF db
<1>0. /\ post \in [pc : {"none", "written", "begun", "stored"}, num : Numbers,
                   locked : BOOLEAN, acc : Sums]
      /\ Locked => post.acc \in SumsOf(post.num)
      /\ last \in Numbers /\ StoredType /\ chain \in Sums
      /\ Len(chain) \in Numbers /\ Len(chain) \in Nat /\ head \in Nat /\ head <= Len(chain)
      /\ mem \in [num : Numbers, acc : Sums] /\ mem.acc \in SumsOf(mem.num)
  <2>1. Len(chain) \in Numbers /\ Len(chain) \in Nat
    BY ChainIsSeq DEF TypeOK
  <2> QED  BY <2>1 DEF TypeOK, StoredType
<1>1. ASSUME NEW locked \in BOOLEAN, InsertBlock(locked) PROVE TypeOK' /\ Threads'
  <2>1. /\ head < MaxBlock /\ head' = head + 1 /\ ctl.pc = "up"
        /\ chain' = IF head < Len(chain) THEN chain ELSE Append(chain, rewinds)
        /\ post' = [pc |-> "written", num |-> head', locked |-> locked, acc |-> <<>>]
        /\ UNCHANGED <<rewinds, faults, last, stored, fixupDone, mem, quit, ctl, catchup, query,
                       supplyCache, torn>>
    BY <1>1 DEF InsertBlock
  <2>2. head' \in Numbers
    BY <1>0, <2>1, IntervalType, NumbersType
  <2>3. chain' \in Sums /\ head' \in 0 .. Len(chain') /\ Len(chain') >= Len(chain)
    <3>1. CASE head < Len(chain)
      BY <1>0, <2>1, <3>1
    <3>2. CASE ~ (head < Len(chain))
      <4>1. chain \in SumsOf(Len(chain)) /\ chain \in Seq(Rewards) /\ Len(chain) = head
        BY <1>0, <3>2, ChainIsSeq, SeqIsSum
      <4>2. rewinds \in Rewards
        BY DEF TypeOK, Rewards
      <4>3. chain' = Append(chain, rewinds)
        BY <2>1, <3>2
      <4>4. chain' \in SumsOf(Len(chain) + 1) /\ Len(chain) + 1 \in Numbers
        BY <1>0, <2>1, <2>2, <4>1, <4>2, <4>3, SumAppend
      <4>5. chain' \in Sums /\ Len(chain') = Len(chain) + 1
        BY <4>4, SumIsSeq
      <4> QED  BY <1>0, <2>1, <4>1, <4>5
    <3> QED  BY <3>1, <3>2
  <2>4. ChainType'
    BY <2>1, <2>3 DEF ChainType, TypeOK
  <2>5. PostType'
    BY <2>1, <2>2, EmptySum DEF PostType, Locked
  <2>6. TypeOK'
    BY <2>1, <2>4, <2>5, TypeFrame, NextTypeParts
  <2>7. Working => catchup.to <= Len(chain')
    <3>1. Working => catchup.to <= Len(chain) /\ catchup.to \in Nat
      BY NumbersType DEF Threads, TypeOK
    <3>2. Len(chain') \in Nat
      BY <2>3, ChainIsSeq
    <3> QED  BY <1>0, <2>3, <3>1, <3>2
  <2>8. Threads'
    BY <2>1, <2>7 DEF Threads, Working
  <2> QED  BY <2>6, <2>8
<1>2. CASE PostBegin
  <2>0. UNCHANGED <<blockchain, db, mem, quit, ctl, catchup, query, supplyCache, torn>>
    BY <1>2 DEF PostBegin
  <2>1. CASE post' = NoPost
    BY <2>1, NextIdleTypes, <2>0, TypeFrame, NextTypeParts
       DEF Threads, Working, blockchain, IdleType
  <2>2. CASE ~ (post' = NoPost)
    <3>1. /\ post' = [post EXCEPT !.pc = "begun", !.acc = Append(mem.acc, chain[post.num])]
          /\ post.num = mem.num + 1 /\ post.num <= Len(chain)
      BY <1>2, <2>2 DEF PostBegin, Follows
    <3>2. mem.num \in Nat /\ mem.num \in Numbers /\ post.num \in Numbers /\ post.num \in Nat
      BY <1>0, NumbersType
    <3>3. chain[post.num] \in Rewards
      BY <1>0, <3>1, <3>2, ChainReward
    <3>4. Append(mem.acc, chain[post.num]) \in SumsOf(post.num)
      BY <1>0, <3>1, <3>2, <3>3, SumAppend
    <3>5. Append(mem.acc, chain[post.num]) \in Sums
      BY <3>2, <3>4, SumIsSeq
    <3>6. PostType'
      BY <1>0, <3>1, <3>4, <3>5 DEF PostType
    <3> QED  BY <3>6, <2>0, TypeFrame, NextTypeParts DEF Threads, Working, blockchain
  <2> QED  BY <2>1, <2>2
<1>3. CASE PostStore
  <2>1. StoredType'
    BY <1>0, <1>3, WriteType DEF PostStore, Locked
  <2>2. PostType'
    BY <1>0, <1>3 DEF PostStore, PostType, Locked
  <2>3. TypeOK'
    BY <1>3, <2>1, <2>2, TypeFrame, NextTypeParts DEF PostStore
  <2>4. Threads'
    BY <1>3 DEF PostStore, Threads, Working, blockchain
  <2> QED  BY <2>3, <2>4
<1>4. CASE PostEnd
  <2>1. MemType' /\ last' \in Numbers
    BY <1>0, <1>4 DEF PostEnd, MemType, Locked
  <2>2. PostType'
    BY <1>4, NextIdleTypes DEF PostEnd, IdleType
  <2>3. TypeOK'
    BY <1>4, <2>1, <2>2, TypeFrame, NextTypeParts DEF PostEnd
  <2>4. Threads'
    BY <1>4 DEF PostEnd, Threads, Working, blockchain
  <2> QED  BY <2>3, <2>4
<1> QED  BY <1>1, <1>2, <1>3, <1>4 DEF Posting

LEMMA QueryTypes ==
    ASSUME TypeOK, Threads, (\E num \in Queried : QueryLookup(num)) \/ QueryAdd \/ QueryDone
    PROVE  TypeOK' /\ Threads'
<1> USE DEF db
<1>0. /\ query \in [pc : {"idle", "sum"}, num : Queried \cup {0}, at : Numbers, acc : Sums,
                    clean : BOOLEAN]
      /\ query.at <= query.num /\ query.acc \in SumsOf(query.at)
      /\ query.pc = "sum" => query.num \in Queried
      /\ StoredType /\ chain \in Sums /\ Len(chain) \in Nat
  BY ChainIsSeq DEF TypeOK, StoredType
<1>1. UNCHANGED <<blockchain, db, mem, quit, ctl, catchup, post, torn>> => Threads'
  BY DEF Threads, Working, blockchain
<1>2. ASSUME NEW num \in Queried, QueryLookup(num) PROVE TypeOK' /\ Threads'
  <2> DEFINE from == nearestCheckpointNumber(num)
  <2>1. from \in 0 .. num /\ from \in Numbers /\ num \in Nat
    BY NearestCheckpoint, NumbersType
  <2>2. /\ stored[from] # None
        /\ query' = [pc |-> "sum", num |-> num, at |-> from, acc |-> stored[from],
                     clean |-> from \notin torn]
        /\ UNCHANGED <<blockchain, db, mem, quit, ctl, catchup, post, supplyCache, torn>>
    BY <1>2 DEF QueryLookup
  <2> HIDE DEF from
  <2>3. stored[from] \in SumsOf(from) /\ stored[from] \in Sums
    BY <1>0, <2>1, <2>2, SumIsSeq DEF StoredType
  <2>4. QueryType'
    BY <2>1, <2>2, <2>3 DEF QueryType
  <2>5. TypeOK'
    BY <2>2, <2>4, TypeFrame, NextTypeParts
  <2> QED  BY <1>1, <2>2, <2>5
<1>3. CASE QueryAdd
  <2>0. UNCHANGED <<blockchain, db, mem, quit, ctl, catchup, post, supplyCache, torn>>
    BY <1>3 DEF QueryAdd
  <2>1. CASE query' = Idle
    BY <2>1, NextIdleTypes, <1>1, <2>0, TypeFrame, NextTypeParts DEF IdleType
  <2>2. CASE ~ (query' = Idle)
    <3> DEFINE acc == Append(query.acc, chain[query.at + 1])
    <3>1. /\ query.pc = "sum" /\ query.at < query.num /\ query.at < Len(chain)
          /\ query' = [query EXCEPT !.at = query.at + 1, !.acc = acc]
      BY <1>3, <2>2 DEF QueryAdd
    <3>2. query.at \in Nat /\ query.num \in Numbers /\ query.num \in Nat /\ query.num \in Queried
      BY <1>0, <3>1, NumbersType
    <3>3. query.at + 1 \in Numbers /\ query.at + 1 <= query.num /\ query.at + 1 <= Len(chain)
      BY <1>0, <3>1, <3>2, NumbersType
    <3>4. chain[query.at + 1] \in Rewards
      BY <1>0, <3>2, <3>3, ChainReward
    <3>5. acc \in SumsOf(query.at + 1) /\ acc \in Sums
      BY <1>0, <3>3, <3>4, SumAppend, SumIsSeq
    <3> HIDE DEF acc
    <3>6. QueryType'
      BY <1>0, <3>1, <3>2, <3>3, <3>5 DEF QueryType
    <3> QED  BY <1>1, <2>0, <3>6, TypeFrame, NextTypeParts
  <2> QED  BY <2>1, <2>2
<1>4. CASE QueryDone
  <2>1. QueryType'
    BY <1>4, NextIdleTypes DEF QueryDone, IdleType
  <2>2. CacheType'
    <3>1. /\ query.pc = "sum" /\ query.at = query.num
          /\ supplyCache' = IF query.num <= Len(chain)
                            THEN [supplyCache EXCEPT ![query.num] = [acc |-> query.acc,
                                                                     clean |-> query.clean]]
                            ELSE supplyCache
      BY <1>4 DEF QueryDone
    <3>2. [acc |-> query.acc, clean |-> query.clean] \in [acc : SumsOf(query.num), clean : BOOLEAN]
      BY <1>0, <3>1
    <3>3. CacheType
      BY DEF TypeOK, CacheType
    <3> DEFINE entry == [acc |-> query.acc, clean |-> query.clean]
    <3>4. supplyCache' = supplyCache \/ supplyCache' = [supplyCache EXCEPT ![query.num] = entry]
      BY <3>1
    <3>5. entry \in [acc : SumsOf(query.num), clean : BOOLEAN]
      BY <3>2
    <3> HIDE DEF entry
    <3>6. DOMAIN supplyCache' = Queried
      BY <3>3, <3>4 DEF CacheType
    <3>7. ASSUME NEW n \in Queried, supplyCache'[n] # None
          PROVE  supplyCache'[n] \in [acc : SumsOf(n), clean : BOOLEAN]
      BY <3>3, <3>4, <3>5, <3>7 DEF CacheType
    <3> QED  BY <3>6, <3>7 DEF CacheType, SumsOf, Rewards
  <2>3. TypeOK'
    BY <1>4, <2>1, <2>2, TypeFrame, NextTypeParts DEF QueryDone
  <2> QED  BY <1>1, <1>4, <2>3 DEF QueryDone
<1> QED  BY <1>2, <1>3, <1>4

LEMMA RewindTypes ==
    ASSUME TypeOK, Threads, Rewinding \/ Crash \/ \E num \in Numbers : SetHead(num)
    PROVE  TypeOK' /\ Threads'
<1> USE DEF db
<1>0. /\ ctl \in [pc : {"down", "fixup", "fixed", "load", "up", "stopping", "rewind", "delete"},
                  num : Nat, moved : BOOLEAN]
      /\ last \in Numbers /\ StoredType /\ chain \in Sums /\ quit \in BOOLEAN /\ fixupDone \in BOOLEAN
      /\ Len(chain) \in Numbers /\ Len(chain) \in Nat /\ head \in Nat /\ head <= Len(chain)
      /\ head \in Numbers /\ rewinds \in 0 .. MaxRewinds /\ faults \in 0 .. MaxFaults
      /\ MaxRewinds \in Nat /\ MaxFaults \in Nat
  <2>1. Len(chain) \in Numbers /\ Len(chain) \in Nat
    BY ChainIsSeq DEF TypeOK
  <2>2. head \in Nat /\ head <= Len(chain) /\ head \in Numbers
    BY <2>1, NumbersType DEF TypeOK
  <2> QED  BY <2>1, <2>2, BoundsAssumption DEF TypeOK, StoredType
<1>1. ASSUME NEW num \in Numbers, SetHead(num) PROVE TypeOK' /\ Threads'
  <2>1. CtlType'
    BY <1>0, <1>1, NumbersType DEF SetHead, CtlType
  <2>2. ChainType'
    <3>1. rewinds < MaxRewinds /\ rewinds' = rewinds + 1 /\ UNCHANGED <<chain, head, faults>>
      BY <1>1 DEF SetHead
    <3>2. rewinds' \in 0 .. MaxRewinds
      BY <1>0, <3>1
    <3>3. head' \in 0 .. Len(chain')
      BY <1>0, <3>1
    <3> QED  BY <1>0, <3>1, <3>2, <3>3 DEF ChainType
  <2>3. TypeOK'
    BY <1>1, <2>1, <2>2, TypeFrame, NextTypeParts DEF SetHead
  <2>4. Threads'
    BY <1>0, <1>1 DEF SetHead, Threads, Working
  <2> QED  BY <2>3, <2>4
<1>2. CASE Stopped
  <2>1. CtlType'
    BY <1>0, <1>2 DEF Stopped, CtlType
  <2>2. TypeOK'
    BY <1>2, <2>1, TypeFrame, NextTypeParts DEF Stopped
  <2>3. Threads'
    BY <1>0, <1>2 DEF Stopped, Threads, Working
  <2> QED  BY <2>2, <2>3
<1>3. CASE RewindHead
  <2>1. /\ ctl.pc = "rewind" /\ Len(chain) > ctl.num
        /\ ctl' = [pc |-> "delete", num |-> IF head' < ctl.num THEN head' ELSE ctl.num,
                   moved |-> ctl.moved \/ Len(chain) - 1 <= head]
        /\ UNCHANGED <<chain, rewinds, faults, stored, fixupDone, mem, quit, catchup, post,
                       query, supplyCache, torn>>
    BY <1>3 DEF RewindHead
  <2>2. head' \in Nat /\ head' < Len(chain) /\ last' \in Numbers
    <3>1. CASE \E num \in 0 .. (Len(chain) - 1) : head' = num /\ RewindTo(num)
      <4>1. PICK num \in 0 .. (Len(chain) - 1) : head' = num /\ RewindTo(num)
        BY <3>1
      <4>2. num \in Nat /\ num < Len(chain)
        BY <1>0, <4>1
      <4>3. nearestCheckpointNumber(num) \in 0 .. num
        BY <4>2, NearestCheckpoint
      <4>4. nearestCheckpointNumber(num) \in Numbers
        BY <1>0, <4>2, <4>3, NumbersType
      <4> QED  BY <4>1, <4>2, <4>4 DEF RewindTo
    <3>2. CASE Len(chain) - 1 > head /\ UNCHANGED <<head, last>>
      BY <1>0, <3>2
    <3> QED  BY <1>3, <3>1, <3>2 DEF RewindHead
  <2>3. CtlType'
    BY <1>0, <2>1, <2>2 DEF CtlType
  <2>4. ChainType'
    BY <1>0, <2>1, <2>2 DEF ChainType
  <2>5. TypeOK'
    BY <2>1, <2>2, <2>3, <2>4, TypeFrame, NextTypeParts
  <2>6. Threads'
    BY <2>1, <2>2 DEF Threads, Working
  <2> QED  BY <2>5, <2>6
<1>4. CASE DeleteBlock
  <2>1. /\ ctl.pc = "delete" /\ RewindDelete(Len(chain))
        /\ chain' = SubSeq(chain, 1, Len(chain) - 1)
        /\ ctl' = [ctl EXCEPT !.pc = "rewind"]
        /\ UNCHANGED <<head, rewinds, faults, last, fixupDone, mem, quit, catchup, post,
                       query, supplyCache>>
    BY <1>4 DEF DeleteBlock
  <2>2. head < Len(chain)
    BY <2>1 DEF Threads
  <2>3. Len(chain) - 1 \in Nat /\ head <= Len(chain) - 1
    BY <1>0, <2>2
  <2>4. chain' \in Sums /\ Len(chain') = Len(chain) - 1
    <3> DEFINE k == Len(chain) - 1
    <3>1. k \in Nat /\ k <= Len(chain) /\ chain' = SubSeq(chain, 1, k)
      BY <1>0, <2>1, <2>3
    <3> HIDE DEF k
    <3>2. chain' \in Sums /\ Len(chain') = k
      BY <1>0, <3>1, SumOfPrefix
    <3> QED  BY <3>2 DEF k
  <2>5. ChainType'
    BY <1>0, <2>1, <2>3, <2>4 DEF ChainType
  <2>6. StoredType'
    BY <1>0, <2>1, WriteType, TypeFrame DEF RewindDelete
  <2>7. CtlType'
    BY <1>0, <2>1 DEF CtlType
  <2>8. TypeOK'
    BY <2>1, <2>5, <2>6, <2>7, TypeFrame, NextTypeParts
  <2>9. Threads'
    BY <1>0, <2>1 DEF Threads, Working
  <2> QED  BY <2>8, <2>9
<1>5. CASE Rewound
  <2>1. CtlType'
    BY <1>0, <1>5, FirstBad DEF Rewound, CtlType
  <2>2. TypeOK'
    BY <1>5, <2>1, TypeFrame, NextTypeParts DEF Rewound
  <2>3. Threads'
    BY <1>0, <1>5 DEF Rewound, Threads, Working
  <2> QED  BY <2>2, <2>3
<1>6. CASE Crash
  <2>1. /\ faults < MaxFaults /\ faults' = faults + 1 /\ mem' = [num |-> 0, acc |-> <<>>]
        /\ quit' = FALSE /\ ctl' = Down /\ catchup' = Off /\ post' = NoPost /\ query' = Idle
        /\ supplyCache' = [n \in Queried |-> None] /\ UNCHANGED <<rewinds, last, stored, fixupDone>>
    BY <1>6 DEF Crash
  <2>2. chain' \in Sums /\ head' \in 0 .. Len(chain') /\ torn' \subseteq Numbers
    <3>1. CASE ctl.pc \in {"rewind", "delete"} /\ ctl.moved
      <4>1. /\ chain' = SubSeq(chain, 1, head) /\ head' = head
            /\ torn' = torn \cup {n \in Numbers : n > head /\ stored[n] # None}
        BY <1>6, <3>1 DEF Crash
      <4>2. chain' \in Sums /\ Len(chain') = head
        BY <1>0, <4>1, SumOfPrefix
      <4>3. head' \in 0 .. Len(chain')
        BY <1>0, <4>1, <4>2
      <4>4. torn' \subseteq Numbers
        BY <1>0, <4>1 DEF StoredType
      <4> QED  BY <4>2, <4>3, <4>4
    <3>2. CASE ~ (ctl.pc \in {"rewind", "delete"} /\ ctl.moved)
      <4>1. head' \in 0 .. head /\ UNCHANGED <<chain, torn>>
        BY <1>6, <3>2 DEF Crash
      <4> QED  BY <1>0, <4>1 DEF StoredType
    <3> QED  BY <3>1, <3>2
  <2>3. ChainType'
    BY <1>0, <2>1, <2>2 DEF ChainType
  <2>4. StoredType'
    BY <1>0, <2>1, <2>2 DEF StoredType
  <2>5. CtlType'
    BY <1>0, <2>1 DEF CtlType, Down
  <2>6. MemType' /\ CatchupType' /\ PostType' /\ QueryType' /\ CacheType'
    BY <2>1, NextIdleTypes DEF IdleType
  <2>7. TypeOK'
    BY <2>1, <2>3, <2>4, <2>5, <2>6, TypeFrame, NextTypeParts
  <2>8. Threads'
    BY <2>1 DEF Threads, Working, Off, Down
  <2> QED  BY <2>7, <2>8
<1> QED  BY <1>1, <1>2, <1>3, <1>4, <1>5, <1>6 DEF Rewinding

LEMMA TypeStep ==
    ASSUME TypeOK, Threads, [Next]_vars
    PROVE  TypeOK' /\ Threads'
<1>1. CASE UNCHANGED vars
  <2>1. TypeOK'
    BY <1>1, TypeFrame, NextTypeParts DEF vars, db
  <2>2. Threads'
    BY <1>1 DEF vars, blockchain, Threads, Working
  <2> QED  BY <2>1, <2>2
<1>2. CASE Next
  BY <1>2, StartingType, CatchupTypes, PostTypes, QueryTypes, RewindTypes DEF Next
<1> QED  BY <1>1, <1>2

\* The sums that an older version left: one of n blocks each.
LEMMA ShortSumType ==
    ASSUME NEW n \in Numbers
    PROVE  ShortSum(n) \in SumsOf(n)
  BY BoundsAssumption DEF ShortSum, SumsOf, Rewards

LEMMA TypeInit ==
    ASSUME Init
    PROVE  TypeOK /\ Threads
<1>1. InitHead \in Numbers /\ InitHead \in Nat /\ MaxRewinds \in Nat /\ MaxFaults \in Nat
  BY BoundsAssumption DEF Numbers
<1>2. /\ chain = [i \in 1 .. InitHead |-> 0] /\ head = InitHead /\ fixupDone = FALSE
      /\ mem = [num |-> 0, acc |-> <<>>] /\ quit = FALSE /\ ctl = Down
      /\ catchup = Off /\ post = NoPost /\ query = Idle
      /\ supplyCache = [n \in Queried |-> None] /\ torn = {} /\ rewinds = 0 /\ faults = 0
  BY DEF Init
<1>3. chain \in SumsOf(InitHead)
  BY <1>1, <1>2 DEF SumsOf, Rewards
<1>4. ChainType
  BY <1>1, <1>2, <1>3, SumIsSeq DEF ChainType
<1>5. PICK acc \in 0 .. InitHead :
         /\ last = nearestCheckpointNumber(acc)
         /\ stored = [n \in Numbers |-> IF IsCheckpoint(n) /\ n <= acc THEN ShortSum(n) ELSE None]
  BY DEF Init
<1>6. last \in Numbers
  <2>1. acc \in Nat /\ acc \in Numbers
    BY <1>1, NumbersType
  <2>2. nearestCheckpointNumber(acc) \in 0 .. acc
    BY <2>1, NearestCheckpoint
  <2> QED  BY <1>5, <2>1, <2>2, NumbersType
<1>7. StoredType
  BY <1>2, <1>5, ShortSumType, SumIsSeq DEF StoredType
<1>8. CtlType
  BY <1>2 DEF CtlType, Down
<1>9. MemType /\ CatchupType /\ PostType /\ QueryType /\ CacheType
  BY <1>2, IdleTypes DEF IdleType
<1>10. TypeOK
  BY <1>4, <1>6, <1>7, <1>8, <1>9, TypeParts
<1>11. Threads
  BY <1>2 DEF Threads, Working, Off, Down
<1> QED  BY <1>10, <1>11

\* For every interval, chain and number of rewinds and crashes: only checkpoints are
\* stored, catchup and a query never read a header that is gone, and every sum has as
\* many rewards as the number it is kept with says.
THEOREM TypeCorrect == Spec => []TypeOK
<1>1. Init => TypeOK /\ Threads
  BY TypeInit
<1>2. TypeOK /\ Threads /\ [Next]_vars => (TypeOK /\ Threads)'
  BY TypeStep
<1> QED  BY <1>1, <1>2, PTL DEF Spec

-----------------------------------------------------------------------------
(* The sums *)

LEMMA NumberFacts ==
    ASSUME TypeOK
    PROVE  /\ chain \in Sums /\ Len(chain) \in Nat /\ Len(chain) \in Numbers
           /\ head \in Nat /\ head <= Len(chain) /\ last \in Nat /\ last \in Numbers
           /\ mem.num \in Nat /\ ctl.num \in Nat /\ catchup.num \in Nat /\ catchup.to \in Nat
           /\ post.num \in Nat /\ post.num \in Numbers
           /\ rewinds \in Nat /\ faults \in Nat /\ MaxRewinds \in Nat /\ MaxFaults \in Nat
           /\ Numbers \subseteq Nat /\ torn \subseteq Nat /\ torn \subseteq Numbers
           /\ stored \in [Numbers -> Sums \cup {None}]
<1>1. chain \in Sums /\ Len(chain) \in Nat /\ Len(chain) \in Numbers
  BY ChainIsSeq DEF TypeOK
<1>2. head \in Nat /\ head <= Len(chain)
  BY <1>1 DEF TypeOK
<1>3. /\ last \in Numbers /\ mem.num \in Numbers /\ catchup.num \in Numbers
      /\ catchup.to \in Numbers /\ post.num \in Numbers /\ ctl.num \in Nat /\ torn \subseteq Numbers
      /\ stored \in [Numbers -> Sums \cup {None}]
  BY DEF TypeOK
<1>4. rewinds \in Nat /\ faults \in Nat /\ MaxRewinds \in Nat /\ MaxFaults \in Nat
  BY BoundsAssumption DEF TypeOK
<1> QED  BY <1>1, <1>2, <1>3, <1>4, NumbersType

\* What holds of the sums, with the phases it rests on.
Sound == Phases /\ SumsCorrect /\ TornAbove /\ CleanAnswers

LEMMA StartingSound ==
    ASSUME TypeOK, Threads, Sound, Starting
    PROVE  Sound'
<1> USE DEF db, blockchain
<1>0. Phases /\ SumsCorrect /\ TornAbove /\ CleanAnswers
  BY DEF Sound
<1>a. /\ ctl \in [pc : {"down", "fixup", "fixed", "load", "up", "stopping", "rewind", "delete"},
                  num : Nat, moved : BOOLEAN]
      /\ \A n \in Numbers : stored[n] # None => IsCheckpoint(n)
  BY DEF TypeOK
<1>1. CASE Boot
  <2>1. /\ ctl.pc = "down" /\ ctl' = [pc |-> "fixup", num |-> firstBadCheckpoint, moved |-> FALSE]
        /\ UNCHANGED <<chain, head, rewinds, faults, last, stored, fixupDone, mem, quit, catchup,
                       post, query, supplyCache, torn>>
    BY <1>1 DEF Boot
  <2>2. Phases'
    BY <1>0, <2>1, FirstBad DEF Phases, Locked
  <2>3. SumsCorrect'
    <3>1. \A n \in Numbers : Unfixed(n) => Unfixed(n)'
      BY <2>1 DEF Unfixed
    <3> QED  BY <1>0, <2>1, <3>1 DEF SumsCorrect, Working, Locked
  <2>4. TornAbove'
    BY <1>0, <2>1 DEF TornAbove, Working
  <2>5. CleanAnswers'
    BY <2>1 DEF CleanAnswers
  <2> QED  BY <2>2, <2>3, <2>4, <2>5 DEF Sound
<1>2. CASE FixupDelete
  <2>1. /\ ctl.pc = "fixup" /\ ctl.num <= last /\ ctl' = [ctl EXCEPT !.num = ctl.num + Interval]
        /\ stored' = [stored EXCEPT ![ctl.num] = None] /\ torn' = torn \ {ctl.num}
        /\ UNCHANGED <<chain, head, rewinds, faults, last, fixupDone, mem, quit, catchup, post,
                       query, supplyCache>>
    BY <1>2 DEF FixupDelete, WriteAccReward
  <2>2. /\ IsCheckpoint(ctl.num) /\ ctl.num \in Nat /\ ctl.num >= firstBadCheckpoint
        /\ ctl'.pc = "fixup" /\ ctl'.num = ctl.num + Interval /\ ctl'.moved = ctl.moved
    BY <1>0, <1>a, <2>1 DEF Phases
  <2>3. Phases'
    <3>1. IsCheckpoint(ctl.num + Interval)
      BY <2>2, NextCheckpoint
    <3>2. ctl'.num >= firstBadCheckpoint
      BY <2>2, FirstBad, IntervalType
    <3> QED  BY <1>0, <2>1, <2>2, <3>1, <3>2 DEF Phases, Locked
  <2>4. SumsCorrect'
    <3>1. ASSUME NEW n \in Numbers \ torn', stored'[n] # None
          PROVE  IsSum(chain', stored'[n], n) \/ Unfixed(n)'
      <4>1. n # ctl.num /\ n \notin torn /\ stored'[n] = stored[n]
        BY <2>1, <3>1, NumberFacts
      <4>2. IsCheckpoint(n) /\ n \in Nat
        BY <1>a, <3>1, <4>1, NumbersType
      <4>3. Unfixed(n) => Unfixed(n)'
        <5>1. n > ctl.num => n >= ctl.num + Interval
          BY <2>2, <4>2, CheckpointGap
        <5>2. Unfixed(n) => n >= ctl.num
          BY <2>1 DEF Unfixed
        <5> QED  BY <2>1, <2>2, <4>1, <4>2, <5>1, <5>2 DEF Unfixed
      <4> QED  BY <1>0, <2>1, <3>1, <4>1, <4>3 DEF SumsCorrect
    <3> QED  BY <1>0, <2>1, <2>2, <3>1 DEF SumsCorrect, Working, Locked
  <2>5. TornAbove'
    BY <1>0, <2>1, <2>2 DEF TornAbove, Working
  <2>6. CleanAnswers'
    BY <2>2 DEF CleanAnswers
  <2> QED  BY <2>3, <2>4, <2>5, <2>6 DEF Sound
<1>3. CASE FixupReset
  <2>1. /\ ctl.pc = "fixup" /\ ctl.num > last /\ last >= firstBadCheckpoint
        /\ last' = firstBadCheckpoint - Interval /\ ctl' = [ctl EXCEPT !.pc = "fixed"]
        /\ UNCHANGED <<chain, head, rewinds, faults, stored, fixupDone, mem, quit, catchup, post,
                       query, supplyCache, torn>>
    BY <1>3 DEF FixupReset, FixupNeeded
  <2>2. ctl'.pc = "fixed"
    BY <1>a, <2>1
  <2>3. Phases'
    BY <1>0, <2>1, <2>2 DEF Phases, Locked
  <2>4. SumsCorrect'
    <3>1. \A n \in Numbers : ~ Unfixed(n)
      BY <2>1, NumberFacts DEF Unfixed
    <3> QED  BY <1>0, <2>1, <2>2, <3>1 DEF SumsCorrect, Working, Locked
  <2>5. TornAbove'
    <3>1. \A n \in torn : n > last => n > last'
      BY <2>1, NumberFacts, FirstBad, IntervalType
    <3> QED  BY <1>0, <2>1, <2>2, <3>1 DEF TornAbove, Working
  <2>6. CleanAnswers'
    BY <2>2 DEF CleanAnswers
  <2> QED  BY <2>3, <2>4, <2>5, <2>6 DEF Sound
<1>4. CASE FixupFlag
  <2>1. /\ ctl.pc = "fixed" /\ ctl' = [ctl EXCEPT !.pc = "load"]
        /\ UNCHANGED <<chain, head, rewinds, faults, last, stored, mem, quit, catchup, post,
                       query, supplyCache, torn>>
    BY <1>4 DEF FixupFlag
  <2>2. ctl'.pc = "load"
    BY <1>a, <2>1
  <2>3. Phases'
    BY <1>0, <2>1, <2>2 DEF Phases, Locked
  <2>4. SumsCorrect'
    BY <1>0, <2>1, <2>2 DEF SumsCorrect, Working, Locked, Unfixed
  <2>5. TornAbove'
    BY <1>0, <2>1, <2>2 DEF TornAbove, Working
  <2>6. CleanAnswers'
    BY <2>2 DEF CleanAnswers
  <2> QED  BY <2>3, <2>4, <2>5, <2>6 DEF Sound
<1>5. CASE FixupSkip
  <2>1. /\ ctl.pc = "fixup" /\ ~ FixupNeeded /\ ctl' = [ctl EXCEPT !.pc = "load"]
        /\ UNCHANGED <<chain, head, rewinds, faults, last, stored, fixupDone, mem, quit, catchup,
                       post, query, supplyCache, torn>>
    BY <1>5 DEF FixupSkip
  <2>2. ctl'.pc = "load"
    BY <1>a, <2>1
  <2>3. Phases'
    BY <1>0, <2>1, <2>2 DEF Phases, Locked
  <2>4. SumsCorrect'
    <3>1. \A n \in Numbers : ~ Unfixed(n)
      BY <2>1, NumberFacts, FirstBad DEF Unfixed, FixupNeeded
    <3> QED  BY <1>0, <2>1, <2>2, <3>1 DEF SumsCorrect, Working, Locked
  <2>5. TornAbove'
    BY <1>0, <2>1, <2>2 DEF TornAbove, Working
  <2>6. CleanAnswers'
    BY <2>2 DEF CleanAnswers
  <2> QED  BY <2>3, <2>4, <2>5, <2>6 DEF Sound
<1>6. CASE Start
  <2>1. /\ ctl.pc = "load" /\ loadLastAccReward /\ quit' = FALSE
        /\ catchup'.pc = "check" /\ ctl' = [pc |-> "up", num |-> 0, moved |-> FALSE]
        /\ query' = [query EXCEPT !.clean = query.pc = "idle"]
        /\ supplyCache' = [n \in Queried |-> None]
        /\ UNCHANGED <<chain, head, rewinds, faults, fixupDone, post, torn>>
    BY <1>6 DEF Start, Off
  <2>2. /\ last' = Loaded /\ mem' = [num |-> Loaded, acc |-> stored'[Loaded]]
        /\ stored' = [stored EXCEPT ![Loaded] = IF Loaded = 0 THEN <<>> ELSE stored[Loaded]]
    BY <2>1 DEF loadLastAccReward
  <2>3. /\ Loaded \in Numbers /\ Loaded \in Nat /\ Loaded <= last
        /\ Loaded = 0 \/ (Loaded = last /\ stored[last] # None)
    BY NumberFacts, NumbersType DEF Loaded
  <2>4. \A n \in torn : n > Loaded /\ n > last /\ IsCheckpoint(n)
    BY <1>0, <2>3, NumberFacts DEF TornAbove
  <2>5. \A n \in Numbers \ torn : stored[n] # None => IsSum(chain, stored[n], n)
    BY <1>0, <2>1 DEF SumsCorrect, Unfixed
  <2>6. IsSum(chain, stored'[Loaded], Loaded)
    <3>1. CASE Loaded = 0
      BY <2>2, <2>3, <3>1, NumberFacts, EmptySum
    <3>2. CASE Loaded # 0
      <4>1. last \notin torn /\ stored'[Loaded] = stored[last] /\ Loaded = last
        BY <2>2, <2>3, <2>4, <3>2, NumberFacts
      <4> QED  BY <2>3, <2>5, <3>2, <4>1
    <3> QED  BY <3>1, <3>2
  <2>7. ASSUME NEW n \in Numbers \ torn, stored'[n] # None PROVE IsSum(chain, stored'[n], n)
    <3>1. CASE n = Loaded
      BY <2>6, <3>1
    <3>2. CASE n # Loaded
      BY <2>2, <2>3, <2>5, <2>7, <3>2, NumberFacts
    <3> QED  BY <3>1, <3>2
  <2>8. Phases'
    BY <1>0, <2>1 DEF Phases, Locked
  <2>9. SumsCorrect'
    BY <1>0, <2>1, <2>2, <2>6, <2>7 DEF SumsCorrect, Working, Locked, Phases
  <2>10. TornAbove'
    BY <1>0, <2>1, <2>2, <2>4 DEF TornAbove, Working
  <2>11. CleanAnswers'
    <3>1. query'.pc = "sum" => ~ query'.clean
      BY <2>1 DEF TypeOK
    <3> QED  BY <2>1, <3>1 DEF CleanAnswers
  <2> QED  BY <2>8, <2>9, <2>10, <2>11 DEF Sound
<1> QED  BY <1>1, <1>2, <1>3, <1>4, <1>5, <1>6 DEF Starting

\* A checkpoint above n that is not the checkpoint n + 1 is above n + 1.
LEMMA AboveNext ==
    ASSUME NEW n \in Nat, NEW t \in Nat, t > n, IsCheckpoint(t),
           t # n + 1 \/ ~ IsCheckpoint(n + 1)
    PROVE  t > n + 1
<1>1. t # n + 1
  OBVIOUS
<1> QED  BY <1>1

\* Storing a sum of the chain.
LEMMA WriteSound ==
    ASSUME TypeOK, SumsCorrect, NEW num \in Numbers, NEW acc, WriteAccReward(num, acc),
           acc = None \/ IsSum(chain, acc, num),
           UNCHANGED <<chain, fixupDone, ctl>>, ctl.pc \notin {"down", "fixup"}
    PROVE  \A n \in Numbers \ torn' :
              stored'[n] # None => IsSum(chain', stored'[n], n) \/ Unfixed(n)'
<1> SUFFICES ASSUME NEW n \in Numbers, n \notin torn', stored'[n] # None
             PROVE  IsSum(chain', stored'[n], n)
  OBVIOUS
<1>0. /\ stored' = [stored EXCEPT ![num] = acc] /\ torn' = torn \ {num}
      /\ stored \in [Numbers -> Sums \cup {None}]
  BY NumberFacts DEF WriteAccReward
<1>1. CASE n = num
  BY <1>0, <1>1
<1>2. CASE n # num
  BY <1>0, <1>2 DEF SumsCorrect, Unfixed
<1> QED  BY <1>1, <1>2

LEMMA CatchupSound ==
    ASSUME TypeOK, Threads, Sound, CatchingUp \/ CatchupFails
    PROVE  Sound'
<1> USE DEF db, blockchain
<1>0. Phases /\ SumsCorrect /\ TornAbove /\ CleanAnswers
  BY DEF Sound
<1>a. catchup \in [pc : {"check", "work", "stored", "sleep", "off", "failed"},
                   to : Numbers, num : Numbers, acc : Sums]
  BY DEF TypeOK
<1>1. CASE CatchupCheck
  <2>1. /\ catchup.pc = "check" /\ catchup'.num = mem.num /\ catchup'.acc = mem.acc
        /\ catchup'.pc \in {"work", "sleep"}
        /\ UNCHANGED <<chain, head, rewinds, faults, last, stored, fixupDone, mem, quit, ctl, post,
                       query, supplyCache, torn>>
    BY <1>1 DEF CatchupCheck
  <2>2. ctl.pc \in {"up", "stopping"}
    BY <2>1 DEF Threads
  <2>3. Phases'
    BY <1>0, <2>1 DEF Phases, Locked
  <2>4. SumsCorrect'
    BY <1>0, <2>1, <2>2 DEF SumsCorrect, Working, Locked, Unfixed
  <2>5. TornAbove'
    BY <1>0, <2>1, <2>2 DEF TornAbove, Working
  <2>6. CleanAnswers'
    BY <1>0, <2>1 DEF CleanAnswers
  <2> QED  BY <2>3, <2>4, <2>5, <2>6 DEF Sound
<1>2. CASE CatchupAdd
  <2> DEFINE num == catchup.num + 1
             acc == Append(catchup.acc, chain[num])
  <2>1. /\ catchup.pc = "work" /\ catchup.num < catchup.to /\ ctl.pc \in {"up", "stopping"}
        /\ catchup.to <= Len(chain)
    BY <1>2 DEF CatchupAdd, Threads, Working
  <2>2. num \in Nat /\ num \in Numbers /\ num <= Len(chain) /\ catchup.num \in Nat
    BY <2>1, NumberFacts, NumbersType
  <2>3. IsSum(chain, acc, num)
    <3>1. IsSum(chain, catchup.acc, catchup.num)
      BY <1>0, <2>1 DEF SumsCorrect, Working
    <3> QED  BY <2>2, <3>1, NumberFacts, SumExtends
  <2>4. /\ catchup' = [catchup EXCEPT !.num = num, !.acc = acc,
                                      !.pc = IF IsCheckpoint(num) THEN "stored" ELSE "work"]
        /\ IF IsCheckpoint(num) THEN WriteAccReward(num, acc) ELSE UNCHANGED <<stored, torn>>
        /\ UNCHANGED <<chain, head, rewinds, faults, last, fixupDone, mem, quit, ctl, post, query,
                       supplyCache>>
    BY <1>2 DEF CatchupAdd
  <2>5. num = catchup.num + 1
    OBVIOUS
  <2> HIDE DEF num, acc
  <2>6. /\ catchup'.num = num /\ catchup'.acc = acc
        /\ catchup'.pc = IF IsCheckpoint(num) THEN "stored" ELSE "work"
    BY <1>a, <2>4
  <2>7. torn' \subseteq torn /\ (IsCheckpoint(num) => num \notin torn')
    BY <2>4 DEF WriteAccReward
  <2>8. Phases'
    BY <1>0, <2>4, <2>6, <2>7 DEF Phases, Locked
  <2>9. SumsCorrect'
    <3>1. \A n \in Numbers \ torn' :
             stored'[n] # None => IsSum(chain', stored'[n], n) \/ Unfixed(n)'
      <4>1. CASE IsCheckpoint(num)
        BY <1>0, <2>1, <2>2, <2>3, <2>4, <4>1, WriteSound
      <4>2. CASE ~ IsCheckpoint(num)
        BY <1>0, <2>4, <4>2 DEF SumsCorrect, Unfixed
      <4> QED  BY <4>1, <4>2
    <3> QED  BY <1>0, <2>3, <2>4, <2>6, <3>1 DEF SumsCorrect, Locked
  <2>10. TornAbove'
    <3>1. \A n \in torn' : IsCheckpoint(n) /\ n > num
      <4> TAKE n \in torn'
      <4>1. IsCheckpoint(n) /\ n > catchup.num /\ n \in Nat
        BY <1>0, <2>1, <2>7, NumberFacts DEF TornAbove, Working
      <4> QED  BY <2>2, <2>5, <2>7, <4>1, AboveNext
    <3> QED  BY <1>0, <2>4, <2>6, <2>7, <3>1 DEF TornAbove
  <2>11. CleanAnswers'
    BY <1>0, <2>4 DEF CleanAnswers
  <2> QED  BY <2>8, <2>9, <2>10, <2>11 DEF Sound
<1>3. CASE CatchupLast
  <2>1. /\ catchup.pc = "stored" /\ last' = catchup.num /\ catchup'.pc = "work"
        /\ catchup'.num = catchup.num /\ catchup'.acc = catchup.acc
        /\ UNCHANGED <<chain, head, rewinds, faults, stored, fixupDone, mem, quit, ctl, post,
                       query, supplyCache, torn>>
    BY <1>a, <1>3 DEF CatchupLast
  <2>2. ctl.pc \in {"up", "stopping"}
    BY <2>1 DEF Threads
  <2>3. Phases'
    BY <1>0, <2>1, <2>2 DEF Phases, Locked
  <2>4. SumsCorrect'
    BY <1>0, <2>1, <2>2 DEF SumsCorrect, Working, Locked, Unfixed
  <2>5. TornAbove'
    BY <1>0, <2>1 DEF TornAbove, Working
  <2>6. CleanAnswers'
    BY <1>0, <2>1 DEF CleanAnswers
  <2> QED  BY <2>3, <2>4, <2>5, <2>6 DEF Sound
<1>4. CASE CatchupSet
  <2>1. /\ catchup.pc = "work" /\ catchup.num = catchup.to /\ ~ Locked
        /\ mem'.num = catchup.to /\ mem'.acc = catchup.acc /\ catchup'.pc = "check"
        /\ UNCHANGED <<chain, head, rewinds, faults, last, stored, fixupDone, quit, ctl, post,
                       query, supplyCache, torn>>
    BY <1>4 DEF CatchupSet, Off
  <2>2. ctl.pc \in {"up", "stopping"}
    BY <2>1 DEF Threads
  <2>3. Phases'
    BY <1>0, <2>1 DEF Phases, Locked
  <2>4. SumsCorrect'
    BY <1>0, <2>1, <2>2 DEF SumsCorrect, Working, Locked, Unfixed
  <2>5. TornAbove'
    BY <1>0, <2>1 DEF TornAbove, Working
  <2>6. CleanAnswers'
    BY <1>0, <2>1 DEF CleanAnswers
  <2> QED  BY <2>3, <2>4, <2>5, <2>6 DEF Sound
<1>5. CASE CatchupTimer \/ CatchupQuit \/ CatchupFails
  <2>1. /\ catchup'.pc \in {"check", "off", "failed"}
        /\ UNCHANGED <<chain, head, rewinds, last, stored, fixupDone, mem, quit, ctl, post,
                       query, supplyCache, torn>>
    BY <1>5 DEF CatchupTimer, CatchupQuit, CatchupFails, Off
  <2>3. Phases'
    BY <1>0, <2>1 DEF Phases, Locked
  <2>4. SumsCorrect'
    BY <1>0, <2>1 DEF SumsCorrect, Working, Locked, Unfixed
  <2>5. TornAbove'
    BY <1>0, <2>1 DEF TornAbove, Working
  <2>6. CleanAnswers'
    BY <1>0, <2>1 DEF CleanAnswers
  <2> QED  BY <2>3, <2>4, <2>5, <2>6 DEF Sound
<1> QED  BY <1>1, <1>2, <1>3, <1>4, <1>5 DEF CatchingUp

LEMMA PostSound ==
    ASSUME TypeOK, Threads, Sound, Posting \/ \E locked \in BOOLEAN : InsertBlock(locked)
    PROVE  Sound'
<1> USE DEF db, blockchain
<1>0. Phases /\ SumsCorrect /\ TornAbove /\ CleanAnswers
  BY DEF Sound
<1>a. post \in [pc : {"none", "written", "begun", "stored"}, num : Numbers, locked : BOOLEAN,
                acc : Sums]
  BY DEF TypeOK
<1>1. ASSUME NEW locked \in BOOLEAN, InsertBlock(locked) PROVE Sound'
  <2>1. /\ ctl.pc = "up" /\ post'.pc = "written"
        /\ chain' = IF head < Len(chain) THEN chain ELSE Append(chain, rewinds)
        /\ UNCHANGED <<rewinds, faults, last, stored, fixupDone, mem, quit, ctl, catchup, query,
                       supplyCache, torn>>
    BY <1>1 DEF InsertBlock
  <2>2. \A n \in Nat : \A acc : IsSum(chain, acc, n) => IsSum(chain', acc, n)
    <3>1. rewinds \in Rewards
      BY DEF TypeOK, Rewards
    <3> QED  BY <2>1, <3>1, NumberFacts, SumOfLonger
  <2>3. Phases'
    BY <1>0, <2>1 DEF Phases, Locked
  <2>4. SumsCorrect'
    <3>1. \A n \in Numbers \ torn' :
             stored'[n] # None => IsSum(chain', stored'[n], n) \/ Unfixed(n)'
      BY <1>0, <2>1, <2>2, NumberFacts DEF SumsCorrect, Unfixed
    <3> QED  BY <1>0, <2>1, <2>2, <3>1, NumberFacts DEF SumsCorrect, Working, Locked
  <2>5. TornAbove'
    BY <1>0, <2>1 DEF TornAbove, Working
  <2>6. CleanAnswers'
    <3>1. query.at \in Nat /\ Queried \subseteq Nat
      BY NumbersType DEF TypeOK
    <3> QED  BY <1>0, <2>1, <2>2, <3>1 DEF CleanAnswers
  <2> QED  BY <2>3, <2>4, <2>5, <2>6 DEF Sound
<1>2. CASE PostBegin
  <2>0. /\ post.pc = "written"
        /\ UNCHANGED <<chain, head, rewinds, faults, last, stored, fixupDone, mem, quit, ctl,
                       catchup, query, supplyCache, torn>>
    BY <1>2 DEF PostBegin
  <2>1. \/ post'.pc = "none"
        \/ /\ post'.pc = "begun" /\ post'.num = mem.num + 1 /\ post'.num <= Len(chain)
           /\ ~ quit /\ post'.acc = Append(mem.acc, chain[mem.num + 1])
    BY <1>a, <1>2 DEF PostBegin, NoPost, Follows
  <2>2. post'.pc = "begun" => ctl.pc = "up" /\ IsSum(chain, post'.acc, post'.num)
    <3> HAVE post'.pc = "begun"
    <3>1. ctl.pc = "up"
      BY <1>0, <2>0, <2>1 DEF Phases
    <3>2. IsSum(chain, mem.acc, mem.num)
      BY <1>0, <3>1 DEF SumsCorrect
    <3> QED  BY <2>1, <3>1, <3>2, NumberFacts, SumExtends
  <2>3. Phases'
    BY <1>0, <2>0, <2>1, <2>2 DEF Phases, Locked
  <2>4. SumsCorrect'
    BY <1>0, <2>0, <2>1, <2>2 DEF SumsCorrect, Working, Locked, Unfixed
  <2>5. TornAbove'
    BY <1>0, <2>0, <2>1 DEF TornAbove, Working
  <2>6. CleanAnswers'
    BY <1>0, <2>0 DEF CleanAnswers
  <2> QED  BY <2>3, <2>4, <2>5, <2>6 DEF Sound
<1>3. CASE PostStore
  <2>1. /\ post.pc = "begun" /\ IsCheckpoint(post.num) /\ WriteAccReward(post.num, post.acc)
        /\ post'.pc = "stored" /\ post'.num = post.num /\ post'.acc = post.acc
        /\ UNCHANGED <<chain, head, rewinds, faults, last, fixupDone, mem, quit, ctl, catchup,
                       query, supplyCache>>
    BY <1>a, <1>3 DEF PostStore
  <2>2. /\ ctl.pc = "up" /\ post.num = mem.num + 1 /\ IsSum(chain, post.acc, post.num)
        /\ torn' = torn \ {post.num}
    BY <1>0, <2>1 DEF Phases, SumsCorrect, Locked, WriteAccReward
  <2>3. Phases'
    BY <1>0, <2>1, <2>2 DEF Phases, Locked
  <2>4. SumsCorrect'
    <3>1. \A n \in Numbers \ torn' :
             stored'[n] # None => IsSum(chain', stored'[n], n) \/ Unfixed(n)'
      BY <1>0, <2>1, <2>2, NumberFacts, WriteSound
    <3> QED  BY <1>0, <2>1, <2>2, <3>1 DEF SumsCorrect, Working, Locked
  <2>5. TornAbove'
    <3>1. \A n \in torn' : n > post.num
      <4> TAKE n \in torn'
      <4>1. n \in Nat /\ n > mem.num /\ IsCheckpoint(n) /\ n # mem.num + 1
        BY <1>0, <2>2, NumberFacts DEF TornAbove
      <4> QED  BY <2>2, <4>1, NumberFacts, AboveNext
    <3> QED  BY <1>0, <2>1, <2>2, <3>1 DEF TornAbove, Working
  <2>6. CleanAnswers'
    BY <1>0, <2>1 DEF CleanAnswers
  <2> QED  BY <2>3, <2>4, <2>5, <2>6 DEF Sound
<1>4. CASE PostEnd
  <2>1. /\ post.pc = "stored" \/ (post.pc = "begun" /\ ~ IsCheckpoint(post.num))
        /\ last' = IF post.pc = "stored" THEN post.num ELSE last
        /\ mem'.num = post.num /\ mem'.acc = post.acc /\ post'.pc = "none"
        /\ UNCHANGED <<chain, head, rewinds, faults, stored, fixupDone, quit, ctl, catchup,
                       query, supplyCache, torn>>
    BY <1>4 DEF PostEnd, NoPost
  <2>2. /\ ctl.pc = "up" /\ post.num = mem.num + 1 /\ IsSum(chain, post.acc, post.num)
    BY <1>0, <2>1 DEF Phases, SumsCorrect, Locked
  <2>3. Phases'
    BY <1>0, <2>1, <2>2 DEF Phases, Locked
  <2>4. SumsCorrect'
    BY <1>0, <2>1, <2>2 DEF SumsCorrect, Working, Locked, Unfixed
  <2>5. TornAbove'
    <3>1. \A n \in torn : n > post.num
      <4> TAKE n \in torn
      <4>1. n \in Nat /\ n > mem.num /\ IsCheckpoint(n) /\ (post.pc = "stored" => n > post.num)
        BY <1>0, <2>2, NumberFacts DEF TornAbove
      <4>2. CASE ~ IsCheckpoint(post.num)
        BY <2>2, <4>1, <4>2, NumberFacts, AboveNext
      <4> QED  BY <2>1, <4>1, <4>2
    <3> QED  BY <1>0, <2>1, <3>1 DEF TornAbove, Working
  <2>6. CleanAnswers'
    BY <1>0, <2>1 DEF CleanAnswers
  <2> QED  BY <2>3, <2>4, <2>5, <2>6 DEF Sound
<1> QED  BY <1>1, <1>2, <1>3, <1>4 DEF Posting

LEMMA QuerySound ==
    ASSUME TypeOK, Threads, Sound,
           (\E num \in Queried : QueryLookup(num)) \/ QueryAdd \/ QueryDone
    PROVE  Sound'
<1> USE DEF db, blockchain
<1>0. Phases /\ SumsCorrect /\ TornAbove /\ CleanAnswers
  BY DEF Sound
<1>1. UNCHANGED <<chain, head, rewinds, faults, last, stored, fixupDone, mem, quit, ctl, catchup,
                  post, torn>>
  BY DEF QueryLookup, QueryAdd, QueryDone
<1>2. Phases' /\ SumsCorrect' /\ TornAbove'
  <2>1. Phases'
    BY <1>0, <1>1 DEF Phases, Locked
  <2>2. SumsCorrect'
    BY <1>0, <1>1 DEF SumsCorrect, Working, Locked, Unfixed
  <2>3. TornAbove'
    BY <1>0, <1>1 DEF TornAbove, Working
  <2> QED  BY <2>1, <2>2, <2>3
<1> SUFFICES CleanAnswers'
  BY <1>2 DEF Sound
<1>3. ASSUME NEW num \in Queried, QueryLookup(num) PROVE CleanAnswers'
  <2> DEFINE from == nearestCheckpointNumber(num)
  <2>1. /\ stored[from] # None /\ query'.at = from /\ query'.acc = stored[from]
        /\ query'.clean = (from \notin torn) /\ supplyCache' = supplyCache
    BY <1>3 DEF QueryLookup
  <2>2. from \in Numbers
    BY NearestCheckpoint, NumbersType
  <2> HIDE DEF from
  <2>3. ctl.pc = "up" /\ query'.clean => IsSum(chain, query'.acc, query'.at)
    BY <1>0, <2>1, <2>2 DEF SumsCorrect, Unfixed
  <2> QED  BY <1>0, <1>1, <2>1, <2>3 DEF CleanAnswers
<1>4. CASE QueryAdd
  <2>1. \/ query' = Idle
        \/ /\ query.pc = "sum" /\ query.at < Len(chain)
           /\ query'.at = query.at + 1 /\ query'.acc = Append(query.acc, chain[query.at + 1])
           /\ query'.clean = query.clean
    BY <1>4 DEF QueryAdd, TypeOK
  <2>2. query.at \in Nat
    BY NumbersType DEF TypeOK
  <2>3. ctl.pc = "up" /\ query'.pc = "sum" /\ query'.clean => IsSum(chain, query'.acc, query'.at)
    <3>1. CASE query' = Idle
      BY <3>1 DEF Idle
    <3>2. CASE query' # Idle
      <4>1. query.at + 1 <= Len(chain)
        BY <2>1, <2>2, <3>2, NumberFacts
      <4>2. ctl.pc = "up" /\ query.clean => IsSum(chain, query.acc, query.at)
        BY <1>0, <2>1, <3>2 DEF CleanAnswers
      <4> QED  BY <2>1, <2>2, <3>2, <4>1, <4>2, NumberFacts, SumExtends
    <3> QED  BY <3>1, <3>2
  <2>4. ctl' = ctl /\ chain' = chain /\ supplyCache' = supplyCache
    BY <1>1, <1>4 DEF QueryAdd
  <2>5. ctl.pc = "up" => \A n \in Queried : supplyCache'[n] # None /\ supplyCache'[n].clean
                                                => IsSum(chain, supplyCache'[n].acc, n)
    BY <1>0, <2>4 DEF CleanAnswers
  <2> QED  BY <2>3, <2>4, <2>5, Zenon DEF CleanAnswers
<1>5. CASE QueryDone
  <2>1. /\ query.pc = "sum" /\ query.at = query.num /\ query'.pc = "idle"
        /\ \/ supplyCache' = supplyCache
           \/ supplyCache' = [supplyCache EXCEPT ![query.num] = [acc |-> query.acc,
                                                                clean |-> query.clean]]
    BY <1>5 DEF QueryDone, Idle
  <2>2. DOMAIN supplyCache = Queried /\ query.num \in Queried
    BY <2>1 DEF TypeOK
  <2>3. ASSUME ctl.pc = "up", NEW n \in Queried, supplyCache'[n] # None, supplyCache'[n].clean
        PROVE  IsSum(chain, supplyCache'[n].acc, n)
    <3>1. CASE supplyCache'[n] = supplyCache[n]
      BY <1>0, <2>3, <3>1 DEF CleanAnswers
    <3>2. CASE supplyCache'[n] # supplyCache[n]
      <4>1. n = query.num /\ supplyCache'[n] = [acc |-> query.acc, clean |-> query.clean]
        BY <2>1, <2>2, <3>2
      <4>2. query.clean /\ supplyCache'[n].acc = query.acc
        BY <2>3, <4>1
      <4> QED  BY <1>0, <2>1, <2>3, <4>1, <4>2 DEF CleanAnswers
    <3> QED  BY <3>1, <3>2
  <2>4. ctl' = ctl /\ chain' = chain
    BY <1>1
  <2>5. ~ (query'.pc = "sum")
    BY <2>1
  <2> QED  BY <2>3, <2>4, <2>5, Zenon DEF CleanAnswers
<1> QED  BY <1>3, <1>4, <1>5

LEMMA RewindSound ==
    ASSUME TypeOK, Threads, Sound, SafeRewinds,
           Rewinding \/ Crash \/ \E num \in Numbers : SetHead(num)
    PROVE  Sound'
<1> USE DEF db, blockchain
<1>0. Phases /\ SumsCorrect /\ TornAbove /\ CleanAnswers
  BY DEF Sound
<1>a. ctl \in [pc : {"down", "fixup", "fixed", "load", "up", "stopping", "rewind", "delete"},
               num : Nat, moved : BOOLEAN]
  BY DEF TypeOK
<1>1. ASSUME NEW num \in Numbers, SetHead(num) PROVE Sound'
  <2>1. /\ ctl.pc = "up" /\ rewinds < MaxRewinds /\ rewinds' = rewinds + 1 /\ quit' = TRUE /\ ~ Locked
        /\ UNCHANGED <<chain, head, faults, last, stored, fixupDone, mem, catchup, post, query,
                       supplyCache, torn>>
    BY <1>1 DEF SetHead, SafeRewinds
  <2>2. ctl'.pc = "stopping" /\ ctl'.moved = ctl.moved
    BY <1>1, <1>a DEF SetHead
  <2>3. torn = {} /\ rewinds' > 0
    BY <1>0, <2>1, NumberFacts DEF TornAbove
  <2>4. Phases'
    BY <1>0, <2>1, <2>2, <2>3 DEF Phases, Locked
  <2>5. SumsCorrect'
    BY <1>0, <2>1, <2>2 DEF SumsCorrect, Working, Locked, Unfixed
  <2>6. TornAbove'
    BY <2>1, <2>3 DEF TornAbove
  <2>7. CleanAnswers'
    BY <2>2 DEF CleanAnswers
  <2> QED  BY <2>4, <2>5, <2>6, <2>7 DEF Sound
<1>2. CASE Stopped
  <2>1. /\ ctl.pc = "stopping" /\ catchup.pc \in {"off", "failed"}
        /\ UNCHANGED <<chain, head, rewinds, faults, last, stored, fixupDone, mem, quit, catchup,
                       post, query, supplyCache, torn>>
    BY <1>2 DEF Stopped
  <2>2. ctl'.pc = "rewind" /\ ctl'.moved = ctl.moved
    BY <1>2, <1>a DEF Stopped
  <2>4. Phases'
    BY <1>0, <2>1, <2>2 DEF Phases, Locked
  <2>5. SumsCorrect'
    BY <1>0, <2>1, <2>2 DEF SumsCorrect, Working, Locked, Unfixed
  <2>6. TornAbove'
    BY <1>0, <2>1, <2>2 DEF TornAbove, Working
  <2>7. CleanAnswers'
    BY <2>2 DEF CleanAnswers
  <2> QED  BY <2>4, <2>5, <2>6, <2>7 DEF Sound
<1>3. CASE RewindHead
  <2>1. /\ ctl.pc = "rewind" /\ ctl'.pc = "delete"
        /\ ctl'.moved = (ctl.moved \/ Len(chain) - 1 <= head)
        /\ UNCHANGED <<chain, rewinds, faults, stored, fixupDone, mem, quit, catchup, post,
                       query, supplyCache, torn>>
    BY <1>3 DEF RewindHead
  <2>2. torn = {}
    BY <1>0, <2>1 DEF Phases
  <2>3. ctl'.moved => last' <= head'
    <3>1. CASE \E num \in 0 .. (Len(chain) - 1) : head' = num /\ RewindTo(num)
      <4>1. PICK num \in 0 .. (Len(chain) - 1) : head' = num /\ RewindTo(num)
        BY <3>1
      <4>2. nearestCheckpointNumber(num) \in 0 .. num
        <5>1. num \in Nat
          BY NumberFacts
        <5> QED  BY <5>1, NearestCheckpoint
      <4> QED  BY <4>1, <4>2, NumberFacts DEF RewindTo
    <3>2. CASE Len(chain) - 1 > head /\ UNCHANGED <<head, last>>
      <4>1. ~ (Len(chain) - 1 <= head)
        BY <3>2, NumberFacts
      <4>2. ctl'.moved => ctl.moved
        BY <2>1, <4>1, Zenon
      <4>3. ctl.moved => last <= head
        BY <1>0, <2>1 DEF Phases
      <4>4. last' = last /\ head' = head
        BY <3>2
      <4> QED  BY <4>2, <4>3, <4>4
    <3> QED  BY <1>3, <3>1, <3>2 DEF RewindHead
  <2>4. Phases'
    BY <1>0, <2>1, <2>2, <2>3 DEF Phases, Locked
  <2>5. SumsCorrect'
    BY <1>0, <2>1 DEF SumsCorrect, Working, Locked, Unfixed
  <2>6. TornAbove'
    BY <2>1, <2>2 DEF TornAbove
  <2>7. CleanAnswers'
    BY <2>1 DEF CleanAnswers
  <2> QED  BY <2>4, <2>5, <2>6, <2>7 DEF Sound
<1>4. CASE DeleteBlock
  <2> DEFINE k == Len(chain) - 1
  <2>1. /\ ctl.pc = "delete" /\ RewindDelete(Len(chain)) /\ chain' = SubSeq(chain, 1, k)
        /\ UNCHANGED <<head, rewinds, faults, last, fixupDone, mem, quit, catchup, post,
                       query, supplyCache>>
    BY <1>4 DEF DeleteBlock
  <2>2. ctl'.pc = "rewind" /\ ctl'.moved = ctl.moved
    BY <1>4, <1>a DEF DeleteBlock
  <2>3. torn = {} /\ torn' = {}
    BY <1>0, <2>1 DEF Phases, RewindDelete, WriteAccReward
  <2>4. k \in Nat /\ k <= Len(chain) /\ (\A n \in Nat : n <= Len(chain) /\ n # Len(chain) => n <= k)
    <3>1. Len(chain) \in Nat /\ head \in Nat
      BY NumberFacts
    <3>2. head < Len(chain)
      BY <2>1 DEF Threads
    <3> QED  BY <3>1, <3>2
  <2> HIDE DEF k
  <2>5. \A n \in Nat : \A acc : n <= k /\ IsSum(chain, acc, n) => IsSum(chain', acc, n)
    BY <2>1, <2>4, NumberFacts, SumOfPrefix
  <2>6. ASSUME NEW n \in Numbers, stored'[n] # None PROVE IsSum(chain', stored'[n], n)
    <3>1. stored'[n] = stored[n] /\ n # Len(chain)
      <4>1. CASE IsCheckpoint(Len(chain))
        BY <2>1, <2>6, <4>1, NumberFacts DEF RewindDelete, WriteAccReward
      <4>2. CASE ~ IsCheckpoint(Len(chain))
        BY <2>1, <2>6, <4>2 DEF RewindDelete, TypeOK
      <4> QED  BY <4>1, <4>2
    <3>2. IsSum(chain, stored[n], n) /\ n \in Nat
      BY <1>0, <2>1, <2>3, <2>6, <3>1, NumbersType DEF SumsCorrect, Unfixed
    <3>3. n <= k
      BY <2>4, <3>1, <3>2 DEF IsSum
    <3> QED  BY <2>5, <3>1, <3>2, <3>3
  <2>7. Phases'
    BY <1>0, <2>1, <2>2, <2>3 DEF Phases, Locked
  <2>8. SumsCorrect'
    <3>1. ~ Working /\ ~ Locked
      BY <1>0, <2>1 DEF Threads, Working, Phases
    <3> QED  BY <2>1, <2>2, <2>6, <3>1 DEF SumsCorrect, Working, Locked
  <2>9. TornAbove'
    BY <2>3 DEF TornAbove
  <2>10. CleanAnswers'
    BY <2>2 DEF CleanAnswers
  <2> QED  BY <2>7, <2>8, <2>9, <2>10 DEF Sound
<1>5. CASE Rewound
  <2>1. /\ ctl.pc = "rewind" /\ ctl' = [pc |-> "fixup", num |-> firstBadCheckpoint, moved |-> FALSE]
        /\ UNCHANGED <<chain, head, rewinds, faults, last, stored, fixupDone, mem, quit, catchup,
                       post, query, supplyCache, torn>>
    BY <1>5 DEF Rewound
  <2>a. ctl'.pc = "fixup" /\ ctl'.num = firstBadCheckpoint /\ ~ Locked
    BY <1>0, <2>1 DEF Phases
  <2>b. IsCheckpoint(ctl'.num) /\ ctl'.num >= firstBadCheckpoint
    BY <2>a, FirstBad
  <2>2. Phases'
    BY <1>0, <2>1, <2>a, <2>b DEF Phases, Locked
  <2>3. SumsCorrect'
    BY <1>0, <2>1 DEF SumsCorrect, Working, Locked, Unfixed
  <2>4. TornAbove'
    BY <1>0, <2>1 DEF TornAbove, Working
  <2>5. CleanAnswers'
    BY <2>1 DEF CleanAnswers
  <2> QED  BY <2>2, <2>3, <2>4, <2>5 DEF Sound
<1>6. CASE Crash
  <2>1. /\ faults < MaxFaults /\ ctl.pc # "down" /\ ctl' = Down /\ catchup' = Off /\ post' = NoPost
        /\ UNCHANGED <<rewinds, last, stored, fixupDone>>
    BY <1>6 DEF Crash
  <2>2. ctl'.pc = "down" /\ catchup'.pc = "off" /\ post'.pc = "none"
    BY <2>1 DEF Down, Off, NoPost
  <2>3. Phases'
    BY <2>2 DEF Phases, Locked
  <2>4. CleanAnswers'
    BY <2>2 DEF CleanAnswers
  <2>5. ~ Working' /\ ~ Locked'
    BY <2>2 DEF Working, Locked
  <2>6. CASE ctl.pc \in {"rewind", "delete"} /\ ctl.moved
    <3>1. /\ chain' = SubSeq(chain, 1, head)
          /\ torn' = torn \cup {n \in Numbers : n > head /\ stored[n] # None}
      BY <1>6, <2>6 DEF Crash
    <3>2. torn = {} /\ rewinds > 0 /\ last <= head
      BY <1>0, <2>6 DEF Phases
    <3>3. rewinds = MaxRewinds
      <4>0. MaxRewinds \in Nat /\ MaxFaults \in Nat /\ faults \in Nat /\ rewinds \in Nat
        BY NumberFacts
      <4>1. MaxRewinds <= 1
        BY <2>1, <4>0 DEF SafeRewinds
      <4>2. rewinds <= MaxRewinds
        BY <4>0 DEF TypeOK
      <4> QED  BY <3>2, <4>0, <4>1, <4>2
    <3>4. \A n \in torn' : IsCheckpoint(n) /\ n > last
      <4>1. \A n \in Numbers : stored[n] # None => IsCheckpoint(n)
        BY DEF TypeOK
      <4>2. \A n \in Nat : n > head => n > last
        BY <3>2, NumberFacts
      <4> QED  BY <3>1, <3>2, <4>1, <4>2, NumbersType
    <3>5. TornAbove'
      BY <2>1, <2>2, <2>5, <3>3, <3>4 DEF TornAbove
    <3>6. ASSUME NEW n \in Numbers, n \notin torn', stored[n] # None
          PROVE  IsSum(chain', stored[n], n)
      <4>1. n <= head /\ n \in Nat
        BY <3>1, <3>6, NumberFacts
      <4>2. IsSum(chain, stored[n], n)
        BY <1>0, <2>6, <3>2, <3>6 DEF SumsCorrect, Unfixed
      <4> QED  BY <3>1, <4>1, <4>2, NumberFacts, SumOfPrefix
    <3>7. SumsCorrect'
      BY <2>1, <2>2, <2>5, <3>6 DEF SumsCorrect
    <3> QED  BY <2>3, <2>4, <3>5, <3>7 DEF Sound
  <2>7. CASE ~ (ctl.pc \in {"rewind", "delete"} /\ ctl.moved)
    <3>1. UNCHANGED <<chain, torn>>
      BY <1>6, <2>7 DEF Crash
    <3>2. TornAbove'
      BY <1>0, <2>1, <2>2, <2>5, <3>1 DEF TornAbove
    <3>3. \A n \in Numbers : Unfixed(n) => Unfixed(n)'
      BY <2>1, <2>2 DEF Unfixed
    <3>4. SumsCorrect'
      BY <1>0, <2>1, <2>2, <2>5, <3>1, <3>3 DEF SumsCorrect
    <3> QED  BY <2>3, <2>4, <3>2, <3>4 DEF Sound
  <2> QED  BY <2>6, <2>7
<1> QED  BY <1>1, <1>2, <1>3, <1>4, <1>5, <1>6 DEF Rewinding

LEMMA SoundStep ==
    ASSUME TypeOK, Threads, Sound, SafeRewinds, [Next]_vars
    PROVE  Sound'
<1>1. CASE UNCHANGED vars
  <2>1. UNCHANGED <<chain, head, rewinds, faults, last, stored, fixupDone, mem, quit, ctl,
                    catchup, post, query, supplyCache, torn>>
    BY <1>1 DEF vars, db, blockchain
  <2>2. Phases' /\ TornAbove' /\ CleanAnswers'
    BY <2>1 DEF Sound, Phases, TornAbove, CleanAnswers, Locked, Working
  <2>3. SumsCorrect'
    BY <2>1 DEF Sound, SumsCorrect, Unfixed, Locked, Working
  <2> QED  BY <2>2, <2>3 DEF Sound
<1>2. CASE Next
  BY <1>2, StartingSound, CatchupSound, PostSound, QuerySound, RewindSound DEF Next
<1> QED  BY <1>1, <1>2

LEMMA SoundInit ==
    ASSUME Init
    PROVE  Sound
<1>0. TypeOK
  BY TypeInit
<1>1. /\ chain = [i \in 1 .. InitHead |-> 0] /\ head = InitHead /\ fixupDone = FALSE
      /\ ctl.pc = "down" /\ catchup.pc = "off" /\ post.pc = "none" /\ torn = {}
  BY DEF Init, Down, Off, NoPost
<1>2. PICK acc \in 0 .. InitHead :
         /\ last = nearestCheckpointNumber(acc)
         /\ stored = [n \in Numbers |-> IF IsCheckpoint(n) /\ n <= acc THEN ShortSum(n) ELSE None]
  BY DEF Init
<1>3. InitHead \in Nat /\ acc \in Nat /\ acc <= InitHead /\ InitHead \in Numbers
  BY BoundsAssumption DEF Numbers
<1>4. ASSUME NEW n \in Numbers, stored[n] # None PROVE IsSum(chain, stored[n], n) \/ Unfixed(n)
  <2>1. IsCheckpoint(n) /\ n <= acc /\ stored[n] = ShortSum(n) /\ n \in Nat
    BY <1>2, <1>4, NumbersType
  <2>2. CASE n >= firstBadCheckpoint
    <3>1. last \in 0 .. acc /\ IsCheckpoint(last) /\ acc < last + Interval
      BY <1>2, <1>3, NearestCheckpoint
    <3>2. n <= last
      <4>1. CASE last < n
        <5>1. last + Interval <= n
          BY <2>1, <3>1, <4>1, CheckpointGap
        <5> QED  BY <1>3, <2>1, <3>1, <5>1, IntervalType
      <4> QED  BY <2>1, <3>1, <4>1
    <3> QED  BY <1>1, <2>2, <3>2, FirstBad DEF Unfixed
  <2>3. CASE ~ (n >= firstBadCheckpoint)
    <3>1. n < Osaka
      BY <2>1, <2>3, FirstBad
    <3>2. stored[n] = [i \in 1 .. n |-> 0]
      <4>1. \A i \in 1 .. n : ~ (i >= Osaka)
        BY <2>1, <3>1, BoundsAssumption
      <4> QED  BY <2>1, <4>1 DEF ShortSum
    <3>3. chain \in Seq(Rewards) /\ Len(chain) = InitHead
      BY <1>1, <1>3, BoundsAssumption DEF Rewards
    <3>4. n <= InitHead
      BY <1>3, <2>1
    <3>5. SubSeq(chain, 1, n) = [i \in 1 .. n |-> 0]
      BY <1>1, <1>3, <2>1, <3>3, <3>4
    <3> QED  BY <3>2, <3>3, <3>4, <3>5 DEF IsSum
  <2> QED  BY <2>2, <2>3
<1>5. Phases
  BY <1>1 DEF Phases, Locked
<1>6. SumsCorrect
  BY <1>1, <1>4 DEF SumsCorrect, Working, Locked
<1>7. TornAbove /\ CleanAnswers
  BY <1>1 DEF TornAbove, CleanAnswers
<1> QED  BY <1>5, <1>6, <1>7 DEF Sound

\* The inductive invariant holds whenever SetHead does not start inside a
\* PostInsertBlock, for one rewind with any number of crashes and read failures, or
\* any number of rewinds without them.
THEOREM Invariance ==
    ASSUME SafeRewinds
    PROVE  Spec => []IInv
<1>1. Init => TypeOK /\ Threads /\ Sound
  BY TypeInit, SoundInit
<1>2. TypeOK /\ Threads /\ Sound /\ [Next]_vars => (TypeOK /\ Threads /\ Sound)'
  BY TypeStep, SoundStep
<1>3. TypeOK /\ Threads /\ Sound => IInv
  BY DEF Sound, IInv
<1> QED  BY <1>1, <1>2, <1>3, PTL DEF Spec

\* While the module is up, every stored checkpoint but the torn ones is the sum of the
\* canonical blocks: neither the fix-up nor RewindTo and RewindDelete, wherever a crash
\* interrupts them, leaves another one, and the last number is below every torn one.
THEOREM CheckpointsAreSums ==
    ASSUME SafeRewinds
    PROVE  Spec => []CheckpointsCorrect
<1>1. IInv => CheckpointsCorrect
  BY DEF IInv, SumsCorrect, TornAbove, CheckpointsCorrect, Unfixed, IsSum, Sum
<1> QED  BY <1>1, Invariance, PTL

\* While the module is up, lastAccReward is the sum of the canonical blocks up to
\* lastAccNum, whatever the interleaving of Start, catchup and PostInsertBlock.
THEOREM LastAccRewardIsSum ==
    ASSUME SafeRewinds
    PROVE  Spec => []LastAccRewardCorrect
<1>1. IInv => LastAccRewardCorrect
  BY DEF IInv, SumsCorrect, LastAccRewardCorrect, IsSum, Sum
<1> QED  BY <1>1, Invariance, PTL

\* While the module is up, an answer in the cache is about the canonical blocks, unless
\* its query was under way while Start purged the cache or read a torn checkpoint.
THEOREM CachedAnswersAreSums ==
    ASSUME SafeRewinds
    PROVE  Spec => []CacheCorrect
<1>1. IInv => CacheCorrect
  BY DEF IInv, CleanAnswers, CacheCorrect, IsSum, Sum
<1> QED  BY <1>1, Invariance, PTL
=============================================================================
