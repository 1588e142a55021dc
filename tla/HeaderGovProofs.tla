-------------------------- MODULE HeaderGovProofs --------------------------
(***************************************************************************)
(* Proofs about header governance: the records in memory and database      *)
(* agree with the headers through scans, restarts and rewinds, so the      *)
(* parameters and the headers that a node accepts are those of the chain,  *)
(* for every length of an epoch, set of votes and bound.                   *)
(***************************************************************************)
EXTENDS HeaderGov, WellFoundedInduction, TLAPS

-----------------------------------------------------------------------------
(* Least and greatest numbers *)

LEMMA LeastNatural ==
    ASSUME NEW T, T \subseteq Nat, T # {}
    PROVE  \E x \in T : \A y \in T : x <= y
<1> DEFINE R == {ss \in Nat \X Nat : ss[1] < ss[2]}
<1>1. IsWellFoundedOn(R, Nat)
  BY NatLessThanWellFounded DEF OpToRel
<1> HIDE DEF R
<1>2. PICK x \in T : \A y \in T : ~ (<<y, x>> \in R)
  BY <1>1, WFMin
<1>3. ASSUME NEW y \in T PROVE x <= y
  <2>1. ~ (<<y, x>> \in R) /\ <<y, x>> \in Nat \X Nat /\ x \in Nat /\ y \in Nat
    BY <1>2
  <2>2. ~ (y < x)
    BY <2>1 DEF R
  <2> QED  BY <2>1, <2>2
<1> QED  BY <1>2, <1>3

LEMMA MinIs ==
    ASSUME NEW S, S \subseteq Nat, S # {}
    PROVE  Min(S) \in S /\ \A y \in S : Min(S) <= y
<1>1. \E x \in S : \A y \in S : x <= y
  BY LeastNatural
<1> QED  BY <1>1 DEF Min

LEMMA MaxIs ==
    ASSUME NEW S, NEW b \in Nat, S \subseteq 0 .. b, S # {}
    PROVE  Max(S) \in S /\ \A y \in S : Max(S) >= y
<1> DEFINE T == {n \in 0 .. b : b - n \in S}
<1>1. PICK s \in S : TRUE
  OBVIOUS
<1>2. s \in 0 .. b /\ b - s \in 0 .. b /\ b - (b - s) = s
  BY <1>1
<1>3. PICK x \in T : \A y \in T : x <= y
  <2>1. b - s \in T
    BY <1>1, <1>2
  <2>2. T \subseteq Nat
    OBVIOUS
  <2> HIDE DEF T
  <2> QED  BY <2>1, <2>2, LeastNatural
<1>4. ASSUME NEW y \in S PROVE b - x >= y
  <2>1. y \in 0 .. b /\ b - y \in 0 .. b /\ b - (b - y) = y
    OBVIOUS
  <2>2. b - y \in T
    BY <2>1
  <2>3. x <= b - y /\ x \in 0 .. b
    BY <1>3, <2>2
  <2> QED  BY <2>1, <2>3
<1>5. b - x \in S
  BY <1>3
<1> QED  BY <1>4, <1>5 DEF Max

-----------------------------------------------------------------------------
(* Epochs *)

LEMMA EpochType == Epoch \in Nat /\ Epoch >= 1 /\ MaxBlock \in Nat /\ KoreBlock \in Nat
  BY BoundsAssumption

\* The last epoch block at or below n.
LEMMA EpochStart ==
    ASSUME NEW n \in Nat
    PROVE  /\ calcEpochIdx(n) \in Nat /\ calcEpochIdx(n) <= n
           /\ n % Epoch \in 0 .. Epoch - 1
           /\ n = calcEpochIdx(n) * Epoch + (n % Epoch)
<1>1. Epoch \in Nat /\ Epoch > 0
  BY EpochType
<1>2. n \div Epoch \in Nat /\ n = Epoch * (n \div Epoch) + (n % Epoch) /\ n % Epoch \in 0 .. Epoch - 1
  BY <1>1
<1>3. PICK q \in Nat : q = calcEpochIdx(n)
  BY <1>2 DEF calcEpochIdx
<1>4. PICK r \in 0 .. Epoch - 1 : r = n % Epoch
  BY <1>2
<1>5. n = Epoch * q + r
  BY <1>2, <1>3, <1>4 DEF calcEpochIdx
<1>6. Epoch * q = q * Epoch /\ q <= Epoch * q
  BY <1>1
<1>7. q <= n /\ n = q * Epoch + r
  BY <1>1, <1>5, <1>6
<1> QED  BY <1>3, <1>4, <1>7

LEMMA Multiples ==
    ASSUME NEW a \in Int, NEW b \in Int, a < b
    PROVE  a * Epoch + Epoch <= b * Epoch
<1>1. a + 1 <= b
  OBVIOUS
<1>2. (a + 1) * Epoch <= b * Epoch
  BY <1>1, EpochType
<1>3. (a + 1) * Epoch = a * Epoch + Epoch
  BY EpochType
<1> QED  BY <1>2, <1>3

LEMMA InEpoch ==
    ASSUME NEW n \in Nat, NEW idx \in Nat
    PROVE  n \in EpochBlocks(idx) <=> calcEpochIdx(n) = idx
<1>1. PICK q \in Nat, r \in 0 .. Epoch - 1 : q = calcEpochIdx(n) /\ n = q * Epoch + r
  BY EpochStart
<1>2. PICK first \in Nat : first = idx * Epoch
  BY EpochType
<1>3. EpochBlocks(idx) = first .. (first + Epoch - 1)
  <2>1. PICK next \in Nat : next = (idx + 1) * Epoch
    BY EpochType
  <2>2. EpochBlocks(idx) = first .. (next - 1)
    BY <1>2, <2>1 DEF EpochBlocks
  <2>3. next = first + Epoch
    BY <1>2, <2>1, EpochType
  <2>4. next - 1 = first + Epoch - 1
    BY <2>3, EpochType
  <2> QED  BY <2>2, <2>4
<1>4. CASE q = idx
  <2>1. n = first + r
    BY <1>1, <1>2, <1>4
  <2>2. n \in first .. (first + Epoch - 1)
    BY <2>1, EpochType
  <2> QED  BY <1>1, <1>3, <1>4, <2>2
<1>5. CASE q < idx
  <2>1. q * Epoch + Epoch <= first
    BY <1>2, <1>5, Multiples
  <2>2. n < first
    BY <1>1, <2>1, EpochType
  <2> QED  BY <1>1, <1>3, <1>5, <2>2, EpochType
<1>6. CASE q > idx
  <2>1. first + Epoch <= q * Epoch
    BY <1>2, <1>6, Multiples
  <2>2. n > first + Epoch - 1
    BY <1>1, <2>1, EpochType
  <2> QED  BY <1>1, <1>3, <1>6, <2>2, EpochType
<1> QED  BY <1>4, <1>5, <1>6

\* For an epoch block k, InEffect and PrevEpochStart say the same.
LEMMA EffectIsPrevEpoch ==
    ASSUME NEW k \in Nat, k > 0, k % Epoch = 0, NEW num \in Nat
    PROVE  k <= PrevEpochStart(num) <=> InEffect(k, num)
<1>1. PICK a \in Nat : k = a * Epoch /\ a >= 1
  <2>1. calcEpochIdx(k) \in Nat /\ k = calcEpochIdx(k) * Epoch
    BY EpochStart, EpochType
  <2>2. calcEpochIdx(k) # 0
    BY <2>1, EpochType
  <2> QED  BY <2>1, <2>2
<1>2. k >= Epoch
  BY <1>1, EpochType
<1>3. CASE num <= Epoch
  BY <1>2, <1>3, EpochType DEF PrevEpochStart, InEffect
<1>4. CASE num > Epoch
  <2>1. PICK m \in Nat : m = IF num >= KoreBlock THEN num ELSE num - 1
    BY <1>4, EpochType
  <2>2. PICK q \in Nat, r \in 0 .. Epoch - 1 : r = m % Epoch /\ m = q * Epoch + r
    BY EpochStart
  <2>3. PrevEpochStart(num) = m - r - Epoch
    BY <1>4, <2>1, <2>2, EpochType DEF PrevEpochStart
  <2>4. InEffect(k, num) <=> k + Epoch <= m
    BY <2>1, EpochType DEF InEffect
  <2>5. CASE a < q
    <3>1. k + Epoch <= q * Epoch
      BY <1>1, <2>5, Multiples
    <3> QED  BY <2>2, <2>3, <2>4, <3>1, EpochType
  <2>6. CASE a >= q
    <3>1. q * Epoch <= k
      BY <1>1, <2>6, EpochType
    <3> QED  BY <2>2, <2>3, <2>4, <3>1, EpochType
  <2> QED  BY <2>5, <2>6
<1> QED  BY <1>3, <1>4, EpochType

-----------------------------------------------------------------------------
(* Types *)

Header == [vote : Votes \cup {None}, gov : PartialParamSet]

ChainType == headers \in Seq(Header) /\ head \in 0 .. Len(headers) /\ Len(headers) <= MaxBlock
MemoryType == /\ groupedVotes \in [Numbers -> Votes \cup {None}] /\ groupedVotes[0] = None
              /\ governances \in [Numbers -> PartialParamSet \cup {None}]
              /\ myVotes \in Seq(Votes)
DbType == /\ voteNums \subseteq Numbers \ {0} /\ (govNums = None \/ govNums \subseteq Numbers)
          /\ border \in Numbers \cup {None}
ThreadType ==
    /\ ctl \in [pc : {"down", "scan", "border", "load", "up", "stopping", "rewind", "delete"},
               num : Numbers]
    /\ migrate \in [pc : {"check", "scan", "border", "off"}, idx : Numbers]
    /\ post \in [pc : {"none", "vote", "gov"}, num : Numbers] /\ missed \subseteq Numbers

LEMMA TypeParts ==
    TypeOK <=> /\ ChainType /\ MemoryType /\ DbType /\ ThreadType
               /\ (ctl.pc = "up" => border # None)
  BY DEF TypeOK, ChainType, MemoryType, DbType, ThreadType, Header

LEMMA AssembleType ==
    ASSUME ChainType', MemoryType', DbType', ThreadType', Control'
    PROVE  (TypeOK /\ Control)'
<1>1. (ctl.pc = "up" => border # None)'
  BY DEF Control, Loaded
<1> QED  BY <1>1 DEF TypeOK, ChainType, MemoryType, DbType, ThreadType, Header

LEMMA ChainFacts ==
    ASSUME ChainType
    PROVE  /\ Len(headers) \in Nat /\ head \in Nat /\ head <= Len(headers) /\ Len(headers) \in Numbers
           /\ head \in Numbers
           /\ \A n \in 1 .. Len(headers) :
                 n \in Numbers /\ headers[n].vote \in Votes \cup {None} /\ headers[n].gov \in PartialParamSet
<1>1. Len(headers) \in Nat /\ head \in Nat /\ head <= Len(headers) /\ Len(headers) <= MaxBlock
  BY EpochType DEF ChainType
<1>2. ASSUME NEW n \in 1 .. Len(headers)
      PROVE  headers[n].vote \in Votes \cup {None} /\ headers[n].gov \in PartialParamSet
  <2>1. headers[n] \in Header
    BY DEF ChainType
  <2> QED  BY <2>1 DEF Header
<1>3. \A n \in 1 .. Len(headers) : n \in Numbers
  BY <1>1, EpochType DEF Numbers
<1> QED  BY <1>1, <1>2, <1>3, EpochType DEF Numbers

LEMMA Prefix ==
    ASSUME ChainType, NEW k \in 0 .. Len(headers)
    PROVE  /\ SubSeq(headers, 1, k) \in Seq(Header) /\ Len(SubSeq(headers, 1, k)) = k
           /\ \A n \in 1 .. k : SubSeq(headers, 1, k)[n] = headers[n]
<1>1. k \in Int /\ 1 \in Int /\ Len(headers) \in Nat
  BY ChainFacts
<1>2. \A i \in 1 .. k : headers[i] \in Header
  BY <1>1 DEF ChainType
<1>3. /\ SubSeq(headers, 1, k) \in Seq(Header)
      /\ Len(SubSeq(headers, 1, k)) = IF 1 <= k THEN k - 1 + 1 ELSE 0
      /\ \A i \in 1 .. k - 1 + 1 : SubSeq(headers, 1, k)[i] = headers[1 + i - 1]
  BY <1>1, <1>2 DEF ChainType
<1>4. ASSUME NEW n \in 1 .. k PROVE SubSeq(headers, 1, k)[n] = headers[n]
  <2>1. n \in 1 .. k - 1 + 1 /\ 1 + n - 1 = n
    BY <1>1
  <2> QED  BY <1>3, <2>1
<1> QED  BY <1>1, <1>3, <1>4

LEMMA ScanType ==
    ASSUME ChainType, NEW idx
    PROVE  /\ scanAllVotesInEpoch(idx) \in [Numbers -> Votes \cup {None}]
           /\ scanAllVotesInEpoch(idx)[0] = None
<1>1. ASSUME NEW n \in 1 .. head PROVE HeaderVote(n) \in Votes \cup {None}
  BY ChainFacts DEF HeaderVote
<1>2. 0 \in Numbers
  BY EpochType DEF Numbers
<1> QED  BY <1>1, <1>2 DEF scanAllVotesInEpoch

LEMMA RatifiedType ==
    ASSUME NEW voteOf, NEW b \in Nat, NEW blocks, blocks \subseteq 0 .. b,
           \A n \in blocks : voteOf[n] \in Votes \cup {None}
    PROVE  Ratified(voteOf, blocks) \in PartialParamSet
<1> SUFFICES ASSUME NEW p \in Names
             PROVE  Ratified(voteOf, blocks)[p] \in Values \cup {None}
  BY DEF Ratified, PartialParamSet
<1> DEFINE nums == {n \in blocks : voteOf[n] # None /\ voteOf[n].name = p}
<1>1. Ratified(voteOf, blocks)[p] = IF nums = {} THEN None ELSE voteOf[Max(nums)].value
  BY DEF Ratified
<1>2. CASE nums = {}
  BY <1>1, <1>2
<1>3. CASE nums # {}
  <2>1. nums \subseteq 0 .. b
    OBVIOUS
  <2>2. Max(nums) \in nums
    <3> HIDE DEF nums
    <3> QED  BY <1>3, <2>1, MaxIs
  <2>3. voteOf[Max(nums)] \in Votes
    BY <2>2
  <2>4. voteOf[Max(nums)].value \in Values
    BY <2>3 DEF Values
  <2> QED  BY <1>1, <1>3, <2>4
<1> QED  BY <1>2, <1>3

\* The blocks that an epoch block ratifies are those of the epoch right before it.
LEMMA EpochBefore ==
    ASSUME NEW num \in Nat, num > 0, num % Epoch = 0
    PROVE  /\ calcEpochIdx(num) - 1 \in Nat
           /\ EpochBlocks(calcEpochIdx(num) - 1) \subseteq 0 .. num - 1
<1>1. PICK q \in Nat : q = calcEpochIdx(num) /\ num = q * Epoch
  <2>1. PICK q \in Nat : q = calcEpochIdx(num) /\ num = q * Epoch + 0
    BY EpochStart
  <2> QED  BY <2>1, EpochType
<1>2. q # 0
  BY <1>1, EpochType
<1>3. q - 1 \in Nat
  BY <1>2
<1>4. ((q - 1) + 1) * Epoch - 1 = num - 1 /\ (q - 1) * Epoch \in Nat
  <2>1. (q - 1) + 1 = q
    BY <1>3
  <2> QED  BY <1>1, <1>3, <2>1, EpochType
<1>5. EpochBlocks(q - 1) = ((q - 1) * Epoch) .. num - 1
  BY <1>4 DEF EpochBlocks
<1> QED  BY <1>1, <1>3, <1>4, <1>5

LEMMA RefGovType ==
    ASSUME NEW hdrs \in Seq(Header)
    PROVE  /\ RefGov(hdrs, Len(hdrs) + 1) \in PartialParamSet
           /\ RefGov(hdrs, Len(hdrs) + 1) # Empty => (Len(hdrs) + 1) % Epoch = 0
<1>1. PICK num \in Nat : num = Len(hdrs) + 1 /\ num > 0
  OBVIOUS
<1>2. CASE num % Epoch # 0
  <2>1. RefGov(hdrs, num) = Empty
    BY <1>2 DEF RefGov
  <2> QED  BY <1>1, <2>1 DEF Empty, PartialParamSet
<1>3. CASE num % Epoch = 0
  <2> DEFINE voteOf == [n \in 1 .. Len(hdrs) |-> hdrs[n].vote]
             blocks == EpochBlocks(calcEpochIdx(num) - 1) \ {0}
  <2>1. RefGov(hdrs, num) = Ratified(voteOf, blocks)
    BY <1>3 DEF RefGov
  <2>2. blocks \subseteq 1 .. Len(hdrs)
    BY <1>1, <1>3, EpochBefore
  <2>3. ASSUME NEW n \in 1 .. Len(hdrs) PROVE voteOf[n] \in Votes \cup {None}
    <3>1. hdrs[n] \in Header
      OBVIOUS
    <3> QED  BY <3>1 DEF Header
  <2>4. blocks \subseteq 0 .. Len(hdrs) /\ \A n \in blocks : voteOf[n] \in Votes \cup {None}
    BY <2>2, <2>3
  <2>5. Len(hdrs) \in Nat
    OBVIOUS
  <2> HIDE DEF voteOf, blocks
  <2>6. Ratified(voteOf, blocks) \in PartialParamSet
    BY <2>4, <2>5, RatifiedType
  <2> QED  BY <1>1, <1>3, <2>1, <2>6
<1> QED  BY <1>2, <1>3

LEMMA removeMyVoteType ==
    ASSUME MemoryType, NEW vote
    PROVE  removeMyVote(vote) \in Seq(Votes)
<1> DEFINE nums == {i \in 1 .. Len(myVotes) : myVotes[i] = vote}
<1>1. CASE nums = {}
  BY <1>1 DEF removeMyVote, MemoryType
<1>2. CASE nums # {}
  <2>1. nums \subseteq Nat /\ nums \subseteq 1 .. Len(myVotes)
    OBVIOUS
  <2>2. PICK m \in 1 .. Len(myVotes) : m = Min(nums)
    <3> HIDE DEF nums
    <3> QED  BY <1>2, <2>1, MinIs
  <2>3. removeMyVote(vote) = SubSeq(myVotes, 1, m - 1) \o SubSeq(myVotes, m + 1, Len(myVotes))
    BY <1>2, <2>2 DEF removeMyVote
  <2>4. SubSeq(myVotes, 1, m - 1) \in Seq(Votes) /\ SubSeq(myVotes, m + 1, Len(myVotes)) \in Seq(Votes)
    BY DEF MemoryType
  <2> QED  BY <2>3, <2>4
<1> QED  BY <1>1, <1>2

-----------------------------------------------------------------------------
(* Every step keeps the types and the control *)

\* What a step of ImportBlock, ImportAgain or ProposeBlock has in common.
Growth ==
    /\ Ready /\ head' = head + 1 /\ post' = [pc |-> "vote", num |-> head + 1]
    /\ UNCHANGED <<db, memory, ctl, migrate, missed, rewinds, crashes>>
    /\ \/ head < Len(headers) /\ headers' = headers
       \/ /\ head = Len(headers)
          /\ \E header \in Header : /\ headers' = Append(headers, header)
                                    /\ header.gov # Empty => (head + 1) % Epoch = 0

LEMMA BlocksGrow ==
    ASSUME TypeOK,
           \/ \E vote \in Votes \cup {None} : ImportBlock(vote)
           \/ ImportAgain \/ ProposeBlock
    PROVE  Growth
<1>0. ChainType /\ MemoryType /\ headers \in Seq(Header)
  BY TypeParts DEF ChainType
<1>1. /\ RefGov(headers, Len(headers) + 1) \in PartialParamSet
      /\ RefGov(headers, Len(headers) + 1) # Empty => (Len(headers) + 1) % Epoch = 0
  BY <1>0, RefGovType
<1>2. CASE ImportAgain
  BY <1>2 DEF ImportAgain, Written, Growth
<1>3. ASSUME NEW vote \in Votes \cup {None}, ImportBlock(vote) PROVE Growth
  <2>1. PICK header : /\ header = [vote |-> vote, gov |-> RefGov(headers, head + 1)]
                      /\ Ready /\ head = Len(headers) /\ Written(Append(headers, header))
    BY <1>3 DEF ImportBlock
  <2>2. header \in Header /\ (header.gov # Empty => (head + 1) % Epoch = 0)
    BY <1>1, <2>1 DEF Header
  <2> QED  BY <2>1, <2>2 DEF Growth, Written
<1>4. CASE ProposeBlock
  <2>1. PICK header : /\ header.vote = IF myVotes = <<>> THEN None ELSE myVotes[1]
                      /\ \E gov : header = [vote |-> header.vote, gov |-> gov]
                      /\ header.gov = RefGov(headers, head + 1)
                      /\ Ready /\ head = Len(headers) /\ Written(Append(headers, header))
    BY <1>4 DEF ProposeBlock
  <2>2. header.vote \in Votes \cup {None}
    BY <1>0, <2>1 DEF MemoryType
  <2>3. header \in Header /\ (header.gov # Empty => (head + 1) % Epoch = 0)
    BY <1>1, <2>1, <2>2 DEF Header
  <2> QED  BY <2>1, <2>3 DEF Growth, Written
<1> QED  BY <1>2, <1>3, <1>4

LEMMA GrowthType ==
    ASSUME TypeOK, Control, Growth
    PROVE  (TypeOK /\ Control)'
<1>0. ChainType /\ MemoryType /\ DbType /\ ThreadType
  BY TypeParts
<1>1. /\ Len(headers) \in Nat /\ head \in Nat /\ head <= Len(headers) /\ head < MaxBlock
      /\ Len(headers) <= MaxBlock /\ ctl.pc = "up"
  BY <1>0, ChainFacts DEF Growth, Ready, ChainType
<1>2. ChainType'
  <2>1. CASE headers' = headers /\ head < Len(headers)
    BY <1>0, <1>1, <2>1 DEF ChainType, Growth
  <2>2. ASSUME NEW header \in Header, headers' = Append(headers, header), head = Len(headers)
        PROVE  ChainType'
    <3>1. headers' \in Seq(Header) /\ Len(headers') = Len(headers) + 1
      BY <1>0, <2>2 DEF ChainType
    <3> QED  BY <1>1, <2>2, <3>1, EpochType DEF ChainType, Growth
  <2> QED  BY <2>1, <2>2 DEF Growth
<1>3. MemoryType' /\ DbType'
  BY <1>0 DEF MemoryType, DbType, Growth, memory, db
<1>4. ThreadType'
  <2>1. head + 1 \in Numbers
    BY <1>1, EpochType DEF Numbers
  <2> QED  BY <1>0, <2>1 DEF ThreadType, Growth
<1>5. Control'
  <2>1. ctl' = ctl /\ migrate' = migrate /\ border' = border /\ govNums' = govNums
        /\ post'.num = head' /\ head' > 0
    BY <1>1 DEF Growth, db
  <2> QED  BY <1>1, <2>1 DEF Control, Loaded
<1> QED  BY <1>2, <1>3, <1>4, <1>5, AssembleType

LEMMA VoteType ==
    ASSUME TypeOK, Control, NEW vote \in Votes, Vote(vote)
    PROVE  (TypeOK /\ Control)'
<1>0. ChainType /\ MemoryType /\ DbType /\ ThreadType
  BY TypeParts
<1>1. /\ UNCHANGED <<blockchain, db, groupedVotes, governances, ctl, migrate, post, missed>>
      /\ myVotes' = Append(myVotes, vote)
  BY DEF Vote
<1>2. MemoryType'
  BY <1>0, <1>1 DEF MemoryType
<1>3. ChainType' /\ DbType' /\ ThreadType' /\ Control'
  BY <1>0, <1>1 DEF ChainType, DbType, ThreadType, Control, Loaded, blockchain, db
<1> QED  BY <1>2, <1>3, AssembleType

LEMMA HookType ==
    ASSUME TypeOK, Control, PostVote \/ PostGov
    PROVE  (TypeOK /\ Control)'
<1>0. ChainType /\ MemoryType /\ DbType /\ ThreadType
  BY TypeParts
<1>1. /\ post.num \in 1 .. Len(headers) /\ post.num = head /\ ctl.pc = "up" /\ post.num \in Numbers
      /\ headers[post.num].vote \in Votes \cup {None} /\ headers[post.num].gov \in PartialParamSet
  BY <1>0, ChainFacts DEF Control, PostVote, PostGov
<1>2. CASE PostVote
  <2>1. MemoryType' /\ voteNums' \subseteq Numbers \ {0}
    <3>1. myVotes' \in Seq(Votes)
      BY <1>0, <1>2, removeMyVoteType DEF PostVote, HandleVote
    <3>2. /\ groupedVotes' \in [Numbers -> Votes \cup {None}] /\ groupedVotes'[0] = None
          /\ voteNums' \subseteq Numbers \ {0}
      <4>1. PICK vote \in Votes \cup {None} : vote = headers[post.num].vote
        BY <1>1
      <4>2. CASE vote # None /\ vote.name \in Names
        <5>1. /\ groupedVotes' = [groupedVotes EXCEPT ![post.num] = vote]
              /\ voteNums' = voteNums \cup {post.num}
          BY <1>2, <4>1, <4>2 DEF PostVote, HandleVote
        <5>2. post.num # 0 /\ post.num \in Numbers /\ 0 \in Numbers
          BY <1>1, EpochType DEF Numbers
        <5>3. groupedVotes' \in [Numbers -> Votes \cup {None}] /\ groupedVotes'[0] = None
          BY <1>0, <5>1, <5>2 DEF MemoryType
        <5> QED  BY <1>0, <5>1, <5>2, <5>3 DEF DbType
      <4>3. CASE ~ (vote # None /\ vote.name \in Names)
        <5>1. groupedVotes' = groupedVotes /\ voteNums' = voteNums
          BY <1>2, <4>1, <4>3 DEF PostVote, HandleVote
        <5> QED  BY <1>0, <5>1 DEF MemoryType, DbType
      <4> QED  BY <4>2, <4>3
    <3> QED  BY <1>0, <1>2, <3>1, <3>2 DEF PostVote, MemoryType
  <2>2. ChainType' /\ DbType'
    BY <1>0, <1>2, <2>1 DEF PostVote, ChainType, DbType, blockchain
  <2>3. ThreadType'
    BY <1>0, <1>2 DEF PostVote, ThreadType
  <2>4. Control'
    BY <1>0, <1>1, <1>2 DEF PostVote, Control, Loaded, blockchain, ThreadType
  <2> QED  BY <2>1, <2>2, <2>3, <2>4, AssembleType
<1>3. CASE PostGov
  <2>1. governances' \in [Numbers -> PartialParamSet \cup {None}]
    BY <1>0, <1>1, <1>3 DEF PostGov, HandleGov, MemoryType
  <2>2. \/ govNums' = govNums \/ govNums' \subseteq Numbers
    BY <1>1, <1>3, EpochType DEF PostGov, HandleGov, Govs, Numbers
  <2>3. govNums' # None
    BY <1>1, <2>2, NoneAssumption DEF Control
  <2>4. MemoryType' /\ ChainType' /\ DbType'
    BY <1>0, <1>3, <2>1, <2>2 DEF PostGov, ChainType, DbType, MemoryType, blockchain
  <2>5. ThreadType'
    <3>1. 0 \in Numbers
      BY EpochType DEF Numbers
    <3> QED  BY <1>0, <1>3, <3>1 DEF PostGov, ThreadType
  <2>6. Control'
    BY <1>0, <1>1, <1>3, <2>3 DEF PostGov, Control, Loaded, blockchain
  <2> QED  BY <2>4, <2>5, <2>6, AssembleType
<1> QED  BY <1>2, <1>3

LEMMA StartingType ==
    ASSUME TypeOK, Control, Starting
    PROVE  (TypeOK /\ Control)'
<1>0. ChainType /\ MemoryType /\ DbType /\ ThreadType
  BY TypeParts
<1>1. /\ ctl.pc \in {"down", "scan", "border", "load"} /\ UNCHANGED <<blockchain, post, missed>>
      /\ post.pc = "none" /\ migrate.pc = "off" /\ ChainType'
  BY <1>0 DEF Starting, initSchema, ScanLatest, ScanBorder, Load, Control, ThreadType, ChainType, blockchain
<1>2. head \in Numbers /\ head \in Nat /\ 0 \in Numbers
  BY <1>0, ChainFacts, EpochType DEF Numbers
<1>3. CASE initSchema
  <2>1. govNums' # None /\ (govNums' = None \/ govNums' \subseteq Numbers)
    <3>1. CASE govNums = None
      <4>1. govNums' \subseteq Numbers
        <5>1. 1 .. head \subseteq Numbers
          BY <1>2, EpochType DEF Numbers
        <5> QED  BY <1>2, <1>3, <3>1, <5>1 DEF initSchema
      <4> QED  BY <4>1, NoneAssumption
    <3>2. CASE govNums # None
      BY <1>0, <1>3, <3>2 DEF initSchema, DbType
    <3> QED  BY <3>1, <3>2
  <2>2. MemoryType' /\ DbType'
    BY <1>0, <1>3, <2>1 DEF initSchema, MemoryType, DbType, memory
  <2>3. ThreadType'
    BY <1>0, <1>3 DEF initSchema, ThreadType
  <2>4. Control'
    BY <1>0, <1>1, <1>3, <2>1 DEF initSchema, Control, Loaded, ThreadType
  <2> QED  BY <1>1, <2>2, <2>3, <2>4, AssembleType
<1>4. CASE ScanLatest
  <2> DEFINE votes == scanAllVotesInEpoch(calcEpochIdx(head))
  <2>1. votes \in [Numbers -> Votes \cup {None}] /\ votes[0] = None
    BY <1>0, ScanType
  <2>2. MemoryType' /\ DbType'
    <3> HIDE DEF votes
    <3>1. groupedVotes' = AddVotes(votes) /\ voteNums' = voteNums \cup Recorded(votes)
      BY <1>4 DEF ScanLatest, votes
    <3>2. UNCHANGED <<governances, myVotes, govNums, border>>
      BY <1>4 DEF ScanLatest
    <3> QED  BY <1>0, <1>2, <2>1, <3>1, <3>2 DEF MemoryType, DbType, AddVotes, Recorded
  <2>3. ThreadType'
    BY <1>0, <1>1, <1>4 DEF ScanLatest, ThreadType
  <2>4. Control'
    BY <1>0, <1>1, <1>4 DEF ScanLatest, Control, Loaded, ThreadType
  <2> QED  BY <1>1, <2>2, <2>3, <2>4, AssembleType
<1>5. CASE ScanBorder
  <2>1. border' \in Numbers
    <3>1. calcEpochIdx(head) \in Nat /\ calcEpochIdx(head) <= head
      BY <1>2, EpochStart
    <3> QED  BY <1>2, <1>5, <3>1, EpochType DEF ScanBorder, Numbers
  <2>2. MemoryType' /\ DbType'
    BY <1>0, <1>5, <2>1 DEF ScanBorder, MemoryType, DbType, memory
  <2>3. ThreadType'
    BY <1>0, <1>1, <1>5 DEF ScanBorder, ThreadType
  <2>4. border' # None
    BY <2>1, NoneAssumption
  <2>5. Control'
    BY <1>0, <1>1, <1>5, <2>4 DEF ScanBorder, Control, Loaded, ThreadType
  <2> QED  BY <1>1, <2>2, <2>3, <2>5, AssembleType
<1>6. CASE Load
  <2>1. governances' \in [Numbers -> PartialParamSet \cup {None}]
    <3>1. ASSUME NEW n \in Numbers, n \in govNums \ {0} PROVE headers[n].gov \in PartialParamSet
      <4>1. n \in 1 .. Len(headers)
        BY <1>0, <1>6, <3>1, ChainFacts, EpochType DEF Load, CanLoad, Numbers
      <4> QED  BY <1>0, <4>1, ChainFacts
    <3> QED  BY <1>6, <3>1 DEF Load
  <2>2. groupedVotes' \in [Numbers -> Votes \cup {None}] /\ groupedVotes'[0] = None
    <3>1. ASSUME NEW n \in voteNums PROVE headers[n].vote \in Votes \cup {None}
      <4>1. n \in 1 .. Len(headers)
        BY <1>0, <1>6, ChainFacts, EpochType DEF Load, CanLoad, Numbers, DbType
      <4> QED  BY <1>0, <4>1, ChainFacts
    <3>2. 0 \notin voteNums
      BY <1>0 DEF DbType
    <3> QED  BY <1>0, <1>2, <1>6, <3>1, <3>2 DEF Load, MemoryType
  <2>3. MemoryType' /\ DbType'
    BY <1>0, <1>6, <2>1, <2>2 DEF Load, MemoryType, DbType, db
  <2>4. border # None
    BY <1>6 DEF Load, Control
  <2>5. ThreadType'
    BY <1>0, <1>1, <1>6, <2>4 DEF Load, ThreadType, DbType
  <2>6. Control'
    BY <1>0, <1>1, <1>6, <2>4 DEF Load, Control, Loaded, ThreadType, db
  <2> QED  BY <1>1, <2>3, <2>5, <2>6, AssembleType
<1> QED  BY <1>3, <1>4, <1>5, <1>6 DEF Starting

LEMMA MigratingType ==
    ASSUME TypeOK, Control, Migrating
    PROVE  (TypeOK /\ Control)'
<1>0. ChainType /\ MemoryType /\ DbType /\ ThreadType
  BY TypeParts
<1>1. /\ ctl.pc \in {"up", "stopping"} /\ UNCHANGED <<blockchain, govNums, ctl, post, missed>>
      /\ ChainType' /\ migrate.idx \in Nat /\ migrate.idx \in Numbers /\ border # None
  BY <1>0, EpochType DEF Migrating, MigrateCheck, MigrateScan, MigrateBorder, Control, Loaded, ThreadType,
         ChainType, Numbers, blockchain, db
<1>2. CASE MigrateCheck
  <2>1. MemoryType' /\ DbType' /\ border' = border
    BY <1>0, <1>2 DEF MigrateCheck, MemoryType, DbType, memory, db
  <2>2. migrate' \in [pc : {"scan", "off"}, idx : Numbers]
    BY <1>0, <1>1, <1>2, EpochType DEF MigrateCheck, ThreadType, Numbers
  <2>3. ThreadType' /\ Control'
    BY <1>0, <1>1, <2>1, <2>2 DEF ThreadType, Control, Loaded, blockchain
  <2> QED  BY <1>1, <2>1, <2>3, AssembleType
<1>3. CASE MigrateScan
  <2> DEFINE votes == scanAllVotesInEpoch(migrate.idx)
  <2>1. votes \in [Numbers -> Votes \cup {None}] /\ votes[0] = None
    BY <1>0, ScanType
  <2>2. /\ groupedVotes' = AddVotes(votes) /\ voteNums' = voteNums \cup Recorded(votes)
        /\ UNCHANGED <<governances, myVotes, govNums, border>> /\ border = migrate.idx + 1
        /\ migrate' = [migrate EXCEPT !.pc = "border"]
    BY <1>3 DEF MigrateScan
  <2> HIDE DEF votes
  <2>3. 0 \in Numbers
    BY EpochType DEF Numbers
  <2>4. MemoryType' /\ DbType'
    BY <1>0, <2>1, <2>2, <2>3 DEF MemoryType, DbType, AddVotes, Recorded
  <2>5. ThreadType' /\ Control'
    BY <1>0, <1>1, <2>2 DEF ThreadType, Control, Loaded, blockchain
  <2> QED  BY <1>1, <2>4, <2>5, AssembleType
<1>4. CASE MigrateBorder
  <2>1. MemoryType' /\ DbType' /\ border' # None
    BY <1>0, <1>1, <1>4, NoneAssumption DEF MigrateBorder, MemoryType, DbType, memory
  <2>2. migrate' = [migrate EXCEPT !.pc = "check"]
    BY <1>4 DEF MigrateBorder
  <2>3. ThreadType' /\ Control'
    BY <1>0, <1>1, <2>1, <2>2 DEF ThreadType, Control, Loaded, blockchain
  <2> QED  BY <1>1, <2>1, <2>3, AssembleType
<1> QED  BY <1>2, <1>3, <1>4 DEF Migrating

LEMMA SetHeadType ==
    ASSUME TypeOK, Control, NEW target \in Numbers, SetHead(target)
    PROVE  (TypeOK /\ Control)'
<1>0. ChainType /\ MemoryType /\ DbType /\ ThreadType
  BY TypeParts
<1>1. /\ UNCHANGED <<blockchain, db, memory, migrate, post, missed>> /\ target < Len(headers)
      /\ ctl.pc = "up" /\ post.pc = "none" /\ ctl' = [pc |-> "stopping", num |-> target]
  BY DEF SetHead
<1>2. ChainType' /\ MemoryType' /\ DbType' /\ ThreadType'
  BY <1>0, <1>1 DEF ChainType, MemoryType, DbType, ThreadType, blockchain, memory, db
<1>3. Len(headers) \in Nat /\ target \in 0 .. Len(headers)
  BY <1>0, <1>1, ChainFacts, EpochType DEF Numbers
<1>4. Control'
  BY <1>1, <1>3 DEF Control, Loaded, blockchain, db
<1> QED  BY <1>2, <1>4, AssembleType

LEMMA CrashType ==
    ASSUME TypeOK, Control, Crash
    PROVE  (TypeOK /\ Control)'
<1>0. ChainType /\ MemoryType /\ DbType /\ ThreadType
  BY TypeParts
<1>1. /\ head' \in 0 .. head /\ UNCHANGED <<headers, db>> /\ myVotes' = <<>>
      /\ groupedVotes' = [n \in Numbers |-> None] /\ governances' = [n \in Numbers |-> None]
      /\ ctl' = [pc |-> "down", num |-> 0] /\ migrate' = [pc |-> "off", idx |-> 0]
      /\ post' = [pc |-> "none", num |-> 0] /\ missed' \subseteq missed \cup {post.num}
  BY DEF Crash
<1>2. 0 \in Numbers
  BY EpochType DEF Numbers
<1>3. ChainType'
  BY <1>0, <1>1, ChainFacts DEF ChainType
<1>4. MemoryType' /\ DbType'
  BY <1>0, <1>1, <1>2 DEF MemoryType, DbType, db
<1>5. ThreadType'
  BY <1>0, <1>1, <1>2 DEF ThreadType
<1>6. Control'
  BY <1>1 DEF Control, Loaded
<1> QED  BY <1>3, <1>4, <1>5, <1>6, AssembleType

LEMMA RewindingType ==
    ASSUME TypeOK, Control, Rewinding
    PROVE  (TypeOK /\ Control)'
<1>0. ChainType /\ MemoryType /\ DbType /\ ThreadType
  BY TypeParts
<1>1. /\ ctl.pc \in {"stopping", "rewind", "delete"} /\ post.pc = "none" /\ migrate.pc = "off"
      /\ post' = post /\ border' = border /\ border # None /\ ctl.num \in 0 .. Len(headers)
      /\ ctl.num \in Numbers /\ ctl.num \in Nat
  BY <1>0, EpochType DEF Rewinding, Stopped, RewindHead, DeleteBlock, Rewound, Control, Loaded, ThreadType,
                         Numbers, db
<1>2. Len(headers) \in Nat /\ head \in Nat /\ head <= Len(headers)
  BY <1>0, ChainFacts
<1>3. CASE Stopped
  <2>1. /\ UNCHANGED <<headers, head, db, memory, migrate, missed>> /\ ctl.pc = "stopping"
        /\ ctl' = [ctl EXCEPT !.pc = "rewind"]
    BY <1>3 DEF Stopped, blockchain
  <2>2. ChainType' /\ MemoryType' /\ DbType' /\ ThreadType'
    BY <1>0, <1>1, <2>1 DEF ChainType, MemoryType, DbType, ThreadType, memory, db
  <2>3. Control'
    BY <1>0, <1>1, <1>2, <2>1 DEF Control, Loaded, ThreadType, db
  <2> QED  BY <2>2, <2>3, AssembleType
<1>4. CASE RewindHead
  <2>1. /\ UNCHANGED <<headers, db, memory, migrate, missed>> /\ ctl.pc = "rewind"
        /\ ctl' = [pc |-> "delete", num |-> IF head' < ctl.num THEN head' ELSE ctl.num]
        /\ head' \in 0 .. Len(headers) - 1
    BY <1>2, <1>4 DEF RewindHead
  <2>2. ctl'.num \in Numbers /\ ctl'.num <= head' /\ ctl'.num \in 0 .. Len(headers)
    BY <1>0, <1>1, <1>2, <2>1, EpochType DEF Numbers, ChainType
  <2>3. ChainType'
    BY <1>0, <1>2, <2>1 DEF ChainType
  <2>4. MemoryType' /\ DbType' /\ ThreadType'
    BY <1>0, <1>1, <2>1, <2>2 DEF MemoryType, DbType, ThreadType, memory, db
  <2>5. Control'
    BY <1>1, <1>2, <2>1, <2>2 DEF Control, Loaded, db
  <2> QED  BY <2>3, <2>4, <2>5, AssembleType
<1>5. CASE DeleteBlock
  <2>1. /\ headers' = SubSeq(headers, 1, Len(headers) - 1) /\ RemoveAfter(Len(headers))
        /\ UNCHANGED <<head, myVotes, migrate>> /\ ctl.pc = "delete" /\ missed' \subseteq missed
        /\ ctl' = [ctl EXCEPT !.pc = "rewind"]
    BY <1>5 DEF DeleteBlock
  <2>2. ctl.num <= head /\ head < Len(headers)
    BY <2>1 DEF Control
  <2>3. ChainType' /\ Len(headers') = Len(headers) - 1
    <3>1. Len(headers) - 1 \in 0 .. Len(headers)
      BY <1>2, <2>2
    <3>2. headers' \in Seq(Header) /\ Len(headers') = Len(headers) - 1
      BY <1>0, <2>1, <3>1, Prefix
    <3> QED  BY <1>0, <1>2, <2>1, <2>2, <3>2, EpochType DEF ChainType
  <2>4. MemoryType'
    <3>1. 0 \in Numbers
      BY EpochType DEF Numbers
    <3> QED  BY <1>0, <2>1, <3>1 DEF MemoryType, RemoveAfter
  <2>5. voteNums' \subseteq Numbers \ {0}
    <3>1. Recorded(groupedVotes) \subseteq Numbers \ {0}
      BY <1>0 DEF MemoryType, Recorded
    <3> QED  BY <1>0, <2>1, <3>1 DEF DbType, RemoveAfter
  <2>6. (govNums' = govNums \/ govNums' \subseteq Numbers) /\ govNums' # None
    <3>1. govNums # None /\ 0 \in Numbers /\ Govs \subseteq Numbers
      BY <1>1, EpochType DEF Control, Govs, Numbers
    <3>2. govNums' = govNums \/ govNums' \subseteq Numbers
      BY <2>1, <3>1 DEF RemoveAfter
    <3> QED  BY <3>1, <3>2, NoneAssumption
  <2>7. DbType' /\ ThreadType'
    BY <1>0, <1>1, <2>1, <2>5, <2>6 DEF DbType, ThreadType
  <2>8. Control'
    <3>1. ctl'.pc = "rewind" /\ ctl'.num = ctl.num
      BY <1>0, <2>1 DEF ThreadType
    <3> QED  BY <1>1, <1>2, <2>1, <2>2, <2>3, <2>6, <3>1 DEF Control, Loaded
  <2> QED  BY <2>3, <2>4, <2>7, <2>8, AssembleType
<1>6. CASE Rewound
  <2>1. /\ UNCHANGED <<headers, head, db, memory, missed>> /\ ctl.pc = "rewind"
        /\ ctl' = [pc |-> "up", num |-> 0] /\ migrate' = [pc |-> "check", idx |-> border]
    BY <1>6 DEF Rewound, blockchain
  <2>2. 0 \in Numbers /\ border \in Numbers
    BY <1>0, <1>1, EpochType DEF Numbers, DbType
  <2>3. ChainType' /\ MemoryType' /\ DbType' /\ ThreadType'
    BY <1>0, <1>1, <2>1, <2>2 DEF ChainType, MemoryType, DbType, ThreadType, memory, db
  <2>4. Control'
    BY <1>1, <2>1 DEF Control, Loaded, db
  <2> QED  BY <2>3, <2>4, AssembleType
<1> QED  BY <1>3, <1>4, <1>5, <1>6 DEF Rewinding

LEMMA TypeInit == Init => TypeOK /\ Control
<1> SUFFICES ASSUME Init PROVE TypeOK /\ Control
  OBVIOUS
<1>1. /\ headers \in [1 .. InitHead -> Header] /\ head = InitHead /\ InitHead \in Numbers
      /\ groupedVotes = [n \in Numbers |-> None] /\ governances = [n \in Numbers |-> None]
      /\ myVotes = <<>> /\ voteNums = {} /\ govNums = None /\ border = None
      /\ ctl = [pc |-> "down", num |-> 0] /\ migrate = [pc |-> "off", idx |-> 0]
      /\ post = [pc |-> "none", num |-> 0] /\ missed = {}
  BY BoundsAssumption DEF Init, Header
<1>2. 0 \in Numbers /\ InitHead \in Nat /\ InitHead <= MaxBlock
  BY <1>1, EpochType DEF Numbers
<1>3. ChainType
  <2>1. headers \in Seq(Header) /\ Len(headers) = InitHead
    BY <1>1, <1>2
  <2> QED  BY <1>1, <1>2, <2>1 DEF ChainType
<1>4. MemoryType
  BY <1>1, <1>2 DEF MemoryType
<1>5. DbType /\ ThreadType
  BY <1>1, <1>2 DEF DbType, ThreadType
<1>6. Control /\ ctl.pc # "up"
  BY <1>1 DEF Control, Loaded
<1> QED  BY <1>3, <1>4, <1>5, <1>6, TypeParts

LEMMA TypeStep == TypeOK /\ Control /\ [Next]_vars => (TypeOK /\ Control)'
<1> SUFFICES ASSUME TypeOK, Control, [Next]_vars PROVE (TypeOK /\ Control)'
  OBVIOUS
<1>1. CASE Starting
  BY <1>1, StartingType
<1>2. CASE Migrating
  BY <1>2, MigratingType
<1>3. CASE Rewinding
  BY <1>3, RewindingType
<1>4. CASE (\E vote \in Votes \cup {None} : ImportBlock(vote)) \/ ImportAgain \/ ProposeBlock
  BY <1>4, BlocksGrow, GrowthType
<1>5. CASE \E vote \in Votes : Vote(vote)
  BY <1>5, VoteType
<1>6. CASE PostVote \/ PostGov
  BY <1>6, HookType
<1>7. CASE \E num \in Numbers : SetHead(num)
  BY <1>7, SetHeadType
<1>8. CASE Crash
  BY <1>8, CrashType
<1>9. CASE UNCHANGED vars
  BY <1>9 DEF vars, blockchain, db, memory, TypeOK, Control, Loaded
<1> QED  BY <1>1, <1>2, <1>3, <1>4, <1>5, <1>6, <1>7, <1>8, <1>9 DEF Next

\* For every length of an epoch, set of votes and bound, and wherever SetHead goes and
\* the node crashes: no step reads a header that is not there, no vote is recorded
\* for genesis, and a module that is up has its border in the database.
THEOREM TypeCorrect == Spec => []TypeOK
  BY TypeInit, TypeStep, PTL DEF Spec

-----------------------------------------------------------------------------
(* The records are sound *)

OnlyEpochsRatify == \A n \in 1 .. Len(headers) : headers[n].gov # Empty => n % Epoch = 0

VotesSound ==
    /\ \A n \in voteNums : Sound(n, HeaderVote(n) # None)
    /\ Recorded(groupedVotes) \subseteq voteNums
    /\ Loaded => voteNums \subseteq Recorded(groupedVotes)
    /\ \A n \in 1 .. Len(headers) : groupedVotes[n] # None => groupedVotes[n] = headers[n].vote

GovsSound ==
    /\ govNums # None => \A n \in govNums \ {0} : Sound(n, headers[n].gov # Empty)
    /\ Loaded => Govs = govNums \ {0}
    /\ \A n \in 1 .. Len(headers) : Loaded /\ governances[n] # None => governances[n] = headers[n].gov

TargetClean ==
    /\ ctl.pc = "stopping" => Clean(Target)
    /\ Deleting => Target + 1 \notin voteNums \cup govNums

LEMMA SoundParts == RecordsSound <=> OnlyEpochsRatify /\ VotesSound /\ GovsSound /\ TargetClean
<1>1. (Recorded(groupedVotes) \subseteq voteNums /\ (Loaded => voteNums \subseteq Recorded(groupedVotes)))
         <=> IF Loaded THEN Recorded(groupedVotes) = voteNums ELSE Recorded(groupedVotes) \subseteq voteNums
  OBVIOUS
<1> QED  BY <1>1 DEF RecordsSound, OnlyEpochsRatify, VotesSound, GovsSound, TargetClean

LEMMA AssembleSound ==
    ASSUME OnlyEpochsRatify', VotesSound', GovsSound', TargetClean'
    PROVE  RecordsSound'
<1>1. (Recorded(groupedVotes) \subseteq voteNums /\ (Loaded => voteNums \subseteq Recorded(groupedVotes)))'
         <=> (IF Loaded THEN Recorded(groupedVotes) = voteNums ELSE Recorded(groupedVotes) \subseteq voteNums)'
  OBVIOUS
<1> QED  BY <1>1 DEF RecordsSound, OnlyEpochsRatify, VotesSound, GovsSound, TargetClean

\* In a module that is up, nothing is recorded above the headers.
LEMMA NothingAbove ==
    ASSUME ChainType, DbType, RecordsSound, ~ Deleting
    PROVE  /\ \A n \in voteNums : n \in 1 .. Len(headers) /\ HeaderVote(n) # None
           /\ govNums # None => \A n \in govNums \ {0} : n \in 1 .. Len(headers) /\ headers[n].gov # Empty
<1>1. VotesSound /\ GovsSound /\ Len(headers) \in Nat
  BY SoundParts, ChainFacts
<1>2. ASSUME NEW n \in voteNums PROVE n \in 1 .. Len(headers) /\ HeaderVote(n) # None
  BY <1>1, EpochType DEF VotesSound, Sound, DbType, Numbers
<1>3. ASSUME govNums # None, NEW n \in govNums \ {0}
      PROVE  n \in 1 .. Len(headers) /\ headers[n].gov # Empty
  BY <1>1, <1>3, EpochType DEF GovsSound, Sound, DbType, Numbers
<1> QED  BY <1>2, <1>3

LEMMA NextFacts ==
    ASSUME TypeOK'
    PROVE  /\ Len(headers') \in Nat /\ head' \in Nat /\ head' <= Len(headers')
           /\ \A n \in 1 .. Len(headers') : n \in Numbers
<1>1. Len(headers') \in Nat /\ Len(headers') <= MaxBlock /\ head' \in 0 .. Len(headers')
  BY DEF TypeOK
<1> QED  BY <1>1, EpochType DEF Numbers

HeadersGrow ==
    /\ Len(headers') \in Len(headers) .. Len(headers) + 1
    /\ head + 1 \in 1 .. Len(headers')
    /\ \A n \in 1 .. Len(headers) : headers'[n] = headers[n]
    /\ \A n \in 1 .. Len(headers') : n > Len(headers) /\ headers'[n].gov # Empty => n % Epoch = 0

LEMMA GrowthExtends ==
    ASSUME ChainType, Growth
    PROVE  HeadersGrow
<1>0. headers \in Seq(Header) /\ Len(headers) \in Nat /\ head \in Nat /\ head <= Len(headers)
  BY ChainFacts DEF ChainType
<1>1. CASE head < Len(headers) /\ headers' = headers
  BY <1>0, <1>1 DEF HeadersGrow
<1>2. ASSUME NEW header \in Header, headers' = Append(headers, header), head = Len(headers),
             header.gov # Empty => (head + 1) % Epoch = 0
      PROVE  HeadersGrow
  <2>1. /\ Len(headers') = Len(headers) + 1 /\ headers'[Len(headers) + 1] = header
        /\ \A n \in 1 .. Len(headers) : headers'[n] = headers[n]
    BY <1>0, <1>2
  <2>2. ASSUME NEW n \in 1 .. Len(headers'), n > Len(headers), headers'[n].gov # Empty
        PROVE  n % Epoch = 0
    <3>1. n = Len(headers) + 1
      BY <1>0, <2>1, <2>2
    <3> QED  BY <1>2, <2>1, <2>2, <3>1
  <2> QED  BY <1>0, <1>2, <2>1, <2>2 DEF HeadersGrow
<1> QED  BY <1>1, <1>2 DEF Growth

LEMMA GrowthSound ==
    ASSUME TypeOK, Control, RecordsSound, Growth, TypeOK'
    PROVE  RecordsSound'
<1>0. /\ ChainType /\ MemoryType /\ DbType /\ OnlyEpochsRatify /\ VotesSound /\ GovsSound
      /\ Len(headers) \in Nat
  BY TypeParts, SoundParts, ChainFacts
<1>1. /\ ctl.pc = "up" /\ ctl' = ctl /\ voteNums' = voteNums /\ govNums' = govNums
      /\ groupedVotes' = groupedVotes /\ governances' = governances /\ govNums # None
  BY DEF Growth, Ready, db, memory, Control
<1>2. ~ Deleting /\ ~ Deleting' /\ Loaded /\ Loaded' /\ ctl'.pc # "stopping"
  BY <1>1 DEF Deleting, Loaded
<1>3. HeadersGrow
  BY <1>0, GrowthExtends
<1>4. /\ Len(headers') \in Nat /\ Len(headers) <= Len(headers')
      /\ \A n \in 1 .. Len(headers) : n \in 1 .. Len(headers') /\ headers'[n] = headers[n]
  BY <1>0, <1>3 DEF HeadersGrow
<1>5. /\ \A n \in voteNums : n \in 1 .. Len(headers) /\ HeaderVote(n) # None
      /\ \A n \in govNums \ {0} : n \in 1 .. Len(headers) /\ headers[n].gov # Empty
  BY <1>0, <1>1, <1>2, NothingAbove
<1>6. OnlyEpochsRatify'
  BY <1>0, <1>3, <1>4 DEF OnlyEpochsRatify, HeadersGrow
<1>7. VotesSound'
  <2>1. ASSUME NEW n \in voteNums PROVE n <= Len(headers') /\ HeaderVote(n)' # None
    BY <1>4, <1>5 DEF HeaderVote
  <2>2. Recorded(groupedVotes)' = Recorded(groupedVotes)
    BY <1>1 DEF Recorded
  <2>3. ASSUME NEW n \in 1 .. Len(headers'), groupedVotes[n] # None
        PROVE  groupedVotes[n] = headers'[n].vote
    <3>1. n \in voteNums
      BY <1>0, <2>3, NextFacts DEF VotesSound, Recorded
    <3> QED  BY <1>0, <1>4, <1>5, <2>3, <3>1 DEF VotesSound
  <2>4. ASSUME NEW n \in voteNums PROVE Sound(n, HeaderVote(n) # None)'
    BY <1>4, <1>5, <2>1 DEF Sound
  <2> QED  BY <1>0, <1>1, <1>2, <2>2, <2>3, <2>4 DEF VotesSound
<1>8. GovsSound'
  <2>1. ASSUME NEW n \in govNums \ {0} PROVE n <= Len(headers') /\ headers'[n].gov # Empty
    BY <1>4, <1>5
  <2>2. Govs' = Govs /\ Govs = govNums \ {0}
    BY <1>0, <1>1, <1>2 DEF Govs, GovsSound
  <2>3. ASSUME NEW n \in 1 .. Len(headers'), governances[n] # None
        PROVE  governances[n] = headers'[n].gov
    <3>1. n \in govNums \ {0}
      BY <2>2, <2>3, NextFacts DEF Govs
    <3> QED  BY <1>0, <1>2, <1>4, <1>5, <2>3, <3>1 DEF GovsSound
  <2>4. ASSUME NEW n \in govNums \ {0} PROVE Sound(n, headers[n].gov # Empty)'
    BY <1>4, <1>5, <2>1 DEF Sound
  <2> QED  BY <1>1, <1>2, <2>2, <2>3, <2>4 DEF GovsSound
<1>9. TargetClean'
  BY <1>2 DEF TargetClean
<1> QED  BY <1>6, <1>7, <1>8, <1>9, AssembleSound

\* A step that leaves chain and records alone, and neither loads nor deletes.
LEMMA SoundStays ==
    ASSUME TypeOK, RecordsSound,
           UNCHANGED <<headers, head, voteNums, govNums, groupedVotes, governances>>,
           Loaded' => Loaded, Deleting => Deleting', TargetClean'
    PROVE  RecordsSound'
<1>0. OnlyEpochsRatify /\ VotesSound /\ GovsSound
  BY SoundParts
<1>1. OnlyEpochsRatify'
  BY <1>0 DEF OnlyEpochsRatify
<1>2. VotesSound'
  BY <1>0 DEF VotesSound, Sound, HeaderVote, Recorded
<1>3. GovsSound'
  BY <1>0 DEF GovsSound, Sound, Govs
<1> QED  BY <1>1, <1>2, <1>3, AssembleSound

LEMMA HookSound ==
    ASSUME TypeOK, Control, RecordsSound, PostVote \/ PostGov
    PROVE  RecordsSound'
<1>0. /\ ChainType /\ MemoryType /\ DbType /\ OnlyEpochsRatify /\ VotesSound /\ GovsSound
      /\ Len(headers) \in Nat
  BY TypeParts, SoundParts, ChainFacts
<1>1. /\ post.num \in 1 .. Len(headers) /\ post.num \in Numbers /\ ctl.pc = "up" /\ ctl' = ctl
      /\ UNCHANGED <<headers, head>> /\ headers[post.num].gov \in PartialParamSet
      /\ headers[post.num].vote \in Votes \cup {None}
  BY <1>0, ChainFacts DEF Control, PostVote, PostGov, blockchain
<1>2. ~ Deleting /\ ~ Deleting' /\ Loaded /\ Loaded' /\ govNums # None
  BY <1>1 DEF Deleting, Loaded, Control
<1>3. OnlyEpochsRatify' /\ TargetClean'
  BY <1>0, <1>1, <1>2 DEF OnlyEpochsRatify, TargetClean
<1>4. CASE PostVote
  <2>1. govNums' = govNums /\ governances' = governances
    BY <1>4 DEF PostVote
  <2>2. GovsSound'
    BY <1>0, <1>1, <1>2, <2>1 DEF GovsSound, Sound, Govs
  <2>3. PICK vote : vote = headers[post.num].vote
    OBVIOUS
  <2>4. CASE vote # None /\ vote.name \in Names
    <3>1. /\ groupedVotes' = [groupedVotes EXCEPT ![post.num] = vote]
          /\ voteNums' = voteNums \cup {post.num}
      BY <1>4, <2>3, <2>4 DEF PostVote, HandleVote
    <3>2. HeaderVote(post.num) # None
      BY <2>3, <2>4 DEF HeaderVote
    <3>3. Recorded(groupedVotes)' = Recorded(groupedVotes) \cup {post.num}
      BY <1>0, <1>1, <2>4, <3>1 DEF Recorded, MemoryType
    <3>4. \A n \in Numbers : groupedVotes'[n] = IF n = post.num THEN vote ELSE groupedVotes[n]
      BY <1>0, <1>1, <3>1 DEF MemoryType
    <3>5. ASSUME NEW n \in 1 .. Len(headers), groupedVotes'[n] # None
          PROVE  groupedVotes'[n] = headers[n].vote
      <4>1. n \in Numbers
        BY <1>0, ChainFacts
      <4> QED  BY <1>0, <2>3, <3>4, <3>5, <4>1 DEF VotesSound
    <3>6. ASSUME NEW n \in voteNums' PROVE Sound(n, HeaderVote(n) # None)'
      <4>1. HeaderVote(n)' = HeaderVote(n) /\ headers' = headers
        BY <1>1 DEF HeaderVote
      <4>2. CASE n = post.num
        BY <1>0, <1>1, <3>2, <4>1, <4>2 DEF Sound
      <4>3. CASE n \in voteNums
        BY <1>0, <1>2, <4>1, <4>3 DEF VotesSound, Sound
      <4> QED  BY <3>1, <3>6, <4>2, <4>3
    <3>7. VotesSound'
      BY <1>0, <1>1, <1>2, <3>1, <3>3, <3>5, <3>6 DEF VotesSound
    <3> QED  BY <1>3, <2>2, <3>7, AssembleSound
  <2>5. CASE ~ (vote # None /\ vote.name \in Names)
    <3>1. groupedVotes' = groupedVotes /\ voteNums' = voteNums
      BY <1>4, <2>3, <2>5 DEF PostVote, HandleVote
    <3> QED  BY <1>1, <1>2, <1>3, <2>1, <3>1, SoundStays
  <2> QED  BY <2>4, <2>5
<1>5. CASE PostGov
  <2>1. voteNums' = voteNums /\ groupedVotes' = groupedVotes
    BY <1>5 DEF PostGov
  <2>2. VotesSound'
    BY <1>0, <1>1, <1>2, <2>1 DEF VotesSound, Sound, HeaderVote, Recorded
  <2>3. PICK gov \in PartialParamSet : gov = headers[post.num].gov
    BY <1>1
  <2>4. CASE gov # Empty
    <3>1. /\ governances' = [governances EXCEPT ![post.num] = gov]
          /\ govNums' = {0, post.num} \cup Govs
      BY <1>5, <2>3, <2>4 DEF PostGov, HandleGov
    <3>2. \A n \in Numbers : governances'[n] = IF n = post.num THEN gov ELSE governances[n]
      BY <1>0, <1>1, <3>1 DEF MemoryType
    <3>3. gov # None /\ post.num # 0
      <4>1. gov # None
        BY NoneAssumption
      <4>2. post.num # 0
        BY <1>1
      <4> QED  BY <4>1, <4>2
    <3>4. Govs' = Govs \cup {post.num} /\ Govs = govNums \ {0}
      <4>1. Govs' = Govs \cup {post.num}
        BY <1>1, <3>2, <3>3 DEF Govs
      <4> QED  BY <1>0, <1>2, <4>1 DEF GovsSound
    <3>5. govNums' \ {0} = Govs'
      BY <3>1, <3>3, <3>4
    <3>6. ASSUME NEW n \in govNums' \ {0} PROVE Sound(n, headers[n].gov # Empty)'
      <4>1. n \in govNums \ {0} \/ n = post.num
        BY <3>4, <3>5, <3>6
      <4> QED  BY <1>0, <1>1, <1>2, <2>3, <2>4, <4>1 DEF GovsSound, Sound
    <3>7. ASSUME NEW n \in 1 .. Len(headers), governances'[n] # None
          PROVE  governances'[n] = headers[n].gov
      <4>1. n \in Numbers
        BY <1>0, ChainFacts
      <4> QED  BY <1>0, <1>2, <2>3, <3>2, <3>7, <4>1 DEF GovsSound
    <3>8. GovsSound'
      BY <1>1, <3>5, <3>6, <3>7 DEF GovsSound
    <3> QED  BY <1>3, <2>2, <3>8, AssembleSound
  <2>5. CASE gov = Empty
    <3>1. governances' = governances /\ govNums' = govNums
      BY <1>5, <2>3, <2>5 DEF PostGov, HandleGov
    <3> QED  BY <1>1, <1>2, <1>3, <2>1, <3>1, SoundStays
  <2> QED  BY <2>4, <2>5
<1> QED  BY <1>4, <1>5

\* What ScanLatest and MigrateScan do to the records.
LEMMA ScanSound ==
    ASSUME TypeOK, RecordsSound, NEW idx, NEW votes, votes = scanAllVotesInEpoch(idx),
           groupedVotes' = AddVotes(votes), voteNums' = voteNums \cup Recorded(votes),
           UNCHANGED <<headers, head, govNums, governances>>,
           ~ Deleting, ~ Deleting', Loaded' => Loaded, TargetClean'
    PROVE  RecordsSound'
<1>0. ChainType /\ MemoryType /\ OnlyEpochsRatify /\ VotesSound /\ GovsSound
  BY TypeParts, SoundParts
<1>1. \A n \in Recorded(votes) : n \in 1 .. head /\ HeaderVote(n) # None /\ votes[n] = headers[n].vote
  BY DEF Recorded, scanAllVotesInEpoch, HeaderVote
<1>2. \A n \in Numbers : groupedVotes'[n] = IF n \in Recorded(votes) THEN votes[n] ELSE groupedVotes[n]
  BY DEF AddVotes, Recorded
<1>3. Recorded(groupedVotes)' = Recorded(groupedVotes) \cup Recorded(votes)
  <2>1. Recorded(groupedVotes)' = {n \in Numbers : groupedVotes'[n] # None}
    BY DEF Recorded
  <2>2. Recorded(votes) = {n \in Numbers : votes[n] # None}
    BY DEF Recorded
  <2>3. Recorded(groupedVotes) = {n \in Numbers : groupedVotes[n] # None}
    BY DEF Recorded
  <2> QED  BY <1>2, <2>1, <2>2, <2>3
<1>4. ASSUME NEW n \in voteNums' PROVE Sound(n, HeaderVote(n) # None)'
  <2>1. HeaderVote(n)' = HeaderVote(n)
    BY DEF HeaderVote
  <2>2. CASE n \in voteNums
    BY <1>0, <2>1, <2>2 DEF VotesSound, Sound
  <2>3. CASE n \in Recorded(votes)
    <3>1. n \in Nat /\ n <= Len(headers) /\ Len(headers) \in Nat /\ HeaderVote(n) # None
      BY <1>0, <1>1, <2>3, ChainFacts
    <3> QED  BY <2>1, <3>1 DEF Sound
  <2> QED  BY <2>2, <2>3
<1>5. ASSUME NEW n \in 1 .. Len(headers), groupedVotes'[n] # None
      PROVE  groupedVotes'[n] = headers[n].vote
  <2>1. n \in Numbers
    BY <1>0, ChainFacts
  <2> QED  BY <1>0, <1>1, <1>2, <1>5, <2>1 DEF VotesSound
<1>6. VotesSound'
  BY <1>0, <1>3, <1>4, <1>5 DEF VotesSound
<1>7. OnlyEpochsRatify' /\ GovsSound'
  BY <1>0 DEF OnlyEpochsRatify, GovsSound, Sound, Govs
<1> QED  BY <1>6, <1>7, AssembleSound

LEMMA StartingSound ==
    ASSUME TypeOK, Control, RecordsSound, Starting
    PROVE  RecordsSound'
<1>0. /\ ChainType /\ MemoryType /\ DbType /\ ThreadType /\ OnlyEpochsRatify /\ VotesSound /\ GovsSound
      /\ Len(headers) \in Nat
  BY TypeParts, SoundParts, ChainFacts
<1>1. /\ ctl.pc \in {"down", "scan", "border", "load"} /\ UNCHANGED <<headers, head>>
      /\ ctl'.pc \in {"scan", "border", "load", "up"} /\ (ctl'.pc = "up" => Load)
  BY <1>0 DEF Starting, initSchema, ScanLatest, ScanBorder, Load, ThreadType, blockchain
<1>2. ~ Deleting /\ ~ Deleting' /\ ~ Loaded /\ TargetClean' /\ (Loaded' => Load)
  BY <1>1 DEF Deleting, Loaded, TargetClean
<1>3. CASE initSchema
  <2>1. /\ UNCHANGED <<voteNums, groupedVotes, governances>> /\ ~ Loaded'
        /\ govNums' = IF govNums = None
                      THEN {0} \cup {n \in 1 .. head : headers[n].gov # Empty} ELSE govNums
    BY <1>0, <1>3 DEF initSchema, memory, Loaded, ThreadType
  <2>2. ASSUME govNums = None, NEW n \in govNums' \ {0} PROVE Sound(n, headers[n].gov # Empty)'
    <3>1. n \in 1 .. head /\ headers[n].gov # Empty
      BY <2>1, <2>2
    <3>2. n <= Len(headers) /\ n \in Nat
      BY <1>0, <3>1, ChainFacts
    <3> QED  BY <1>0, <1>1, <3>1, <3>2 DEF Sound
  <2>3. ASSUME govNums # None, NEW n \in govNums' \ {0} PROVE Sound(n, headers[n].gov # Empty)'
    BY <1>0, <1>1, <1>2, <2>1, <2>3 DEF Sound, GovsSound
  <2>4. GovsSound'
    BY <2>1, <2>2, <2>3 DEF GovsSound
  <2>5. OnlyEpochsRatify' /\ VotesSound'
    BY <1>0, <1>1, <1>2, <2>1 DEF OnlyEpochsRatify, VotesSound, Sound, HeaderVote, Recorded
  <2> QED  BY <1>2, <2>4, <2>5, AssembleSound
<1>4. CASE ScanLatest
  <2>1. /\ UNCHANGED <<govNums, governances>> /\ ~ Loaded'
        /\ \E votes : /\ votes = scanAllVotesInEpoch(calcEpochIdx(head))
                      /\ groupedVotes' = AddVotes(votes) /\ voteNums' = voteNums \cup Recorded(votes)
    BY <1>0, <1>4 DEF ScanLatest, Loaded, ThreadType
  <2> QED  BY <1>1, <1>2, <2>1, ScanSound
<1>5. CASE ScanBorder
  <2>1. UNCHANGED <<voteNums, govNums, groupedVotes, governances>> /\ ~ Loaded'
    BY <1>0, <1>5 DEF ScanBorder, memory, Loaded, ThreadType
  <2> QED  BY <1>1, <1>2, <2>1, SoundStays
<1>6. CASE Load
  <2>1. /\ UNCHANGED <<voteNums, govNums>> /\ CanLoad /\ ctl.pc = "load" /\ govNums # None
        /\ governances' = [n \in Numbers |-> IF n \in govNums \ {0} THEN headers[n].gov ELSE None]
        /\ groupedVotes' = [n \in Numbers |-> IF n \in voteNums THEN headers[n].vote ELSE groupedVotes[n]]
    BY <1>6 DEF Load, db, Control
  <2>2. voteNums \subseteq Numbers /\ govNums \subseteq Numbers
    BY <1>0, <2>1 DEF DbType
  <2>3. ASSUME NEW n \in govNums \ {0} PROVE headers[n].gov # None
    <3>1. n \in 1 .. Len(headers)
      BY <1>0, <2>1, <2>2, EpochType DEF CanLoad, Numbers
    <3> QED  BY <1>0, <3>1, ChainFacts, NoneAssumption
  <2>4. Govs' = govNums \ {0}
    BY <2>1, <2>2, <2>3 DEF Govs
  <2>5. ASSUME NEW n \in 1 .. Len(headers), governances'[n] # None PROVE governances'[n] = headers[n].gov
    BY <1>0, <2>1, <2>5, ChainFacts
  <2>6. Recorded(groupedVotes)' = voteNums
    BY <1>0, <2>1, <2>2 DEF CanLoad, Recorded, VotesSound
  <2>7. ASSUME NEW n \in 1 .. Len(headers), groupedVotes'[n] # None PROVE groupedVotes'[n] = headers[n].vote
    BY <1>0, <2>1, <2>7, ChainFacts DEF VotesSound
  <2>8. GovsSound'
    BY <1>0, <1>1, <1>2, <2>1, <2>4, <2>5 DEF GovsSound, Sound
  <2>9. VotesSound'
    BY <1>0, <1>1, <1>2, <2>1, <2>6, <2>7 DEF VotesSound, Sound, HeaderVote
  <2>10. OnlyEpochsRatify'
    BY <1>0, <1>1 DEF OnlyEpochsRatify
  <2> QED  BY <1>2, <2>8, <2>9, <2>10, AssembleSound
<1> QED  BY <1>3, <1>4, <1>5, <1>6 DEF Starting

LEMMA MigratingSound ==
    ASSUME TypeOK, Control, RecordsSound, Migrating
    PROVE  RecordsSound'
<1>0. TargetClean /\ UNCHANGED <<headers, head, govNums, governances, ctl>> /\ ctl.pc \in {"up", "stopping"}
  BY SoundParts DEF Migrating, MigrateCheck, MigrateScan, MigrateBorder, Control, blockchain, db, memory
<1>1. ~ Deleting /\ ~ Deleting' /\ (Loaded' => Loaded)
  BY <1>0 DEF Deleting, Loaded
<1>2. TargetClean'
  BY <1>0, <1>1 DEF TargetClean, Clean, Target, HeaderVote
<1>3. CASE MigrateScan
  <2>1. PICK votes : votes = scanAllVotesInEpoch(migrate.idx)
    OBVIOUS
  <2>2. groupedVotes' = AddVotes(votes) /\ voteNums' = voteNums \cup Recorded(votes)
    BY <1>3, <2>1 DEF MigrateScan
  <2> QED  BY <1>0, <1>1, <1>2, <2>1, <2>2, ScanSound
<1>4. CASE MigrateCheck \/ MigrateBorder
  <2>1. UNCHANGED <<voteNums, groupedVotes>>
    BY <1>4 DEF MigrateCheck, MigrateBorder, db, memory
  <2> QED  BY <1>0, <1>1, <1>2, <2>1, SoundStays
<1> QED  BY <1>3, <1>4 DEF Migrating

LEMMA SetHeadSound ==
    ASSUME TypeOK, RecordsSound, NEW target \in Numbers, SetHead(target), ~ RewindAnywhere
    PROVE  RecordsSound'
<1>1. /\ UNCHANGED <<headers, head, voteNums, govNums, groupedVotes, governances>>
      /\ ctl.pc = "up" /\ ctl'.pc = "stopping" /\ ctl'.num = target
      /\ Clean(IF head < target THEN head ELSE target)
  BY DEF SetHead, blockchain, db, memory
<1>2. Loaded /\ ~ Deleting /\ ~ Deleting'
  BY <1>1 DEF Loaded, Deleting
<1>3. TargetClean'
  BY <1>1, <1>2 DEF TargetClean, Target, Clean, HeaderVote
<1> QED  BY <1>1, <1>2, <1>3, SoundStays

\* A clean block below the highest header has nothing of the block above it recorded.
LEMMA CleanIsClean ==
    ASSUME TypeOK, RecordsSound, NEW num \in Nat, num < Len(headers), Clean(num), govNums # None
    PROVE  num + 1 \notin voteNums \cup govNums
<1>1. VotesSound /\ GovsSound /\ Len(headers) \in Nat
  BY SoundParts, TypeParts, ChainFacts
<1>2. num + 1 <= Len(headers) /\ num + 1 # 0 /\ HeaderVote(num + 1) = None /\ headers[num + 1].gov = Empty
  BY <1>1 DEF Clean
<1> QED  BY <1>1, <1>2 DEF VotesSound, GovsSound, Sound

\* SetHead cuts the records with the headers.
LEMMA DeleteSound ==
    ASSUME TypeOK, Control, RecordsSound, DeleteBlock
    PROVE  RecordsSound'
<1>0. /\ ChainType /\ MemoryType /\ DbType /\ ThreadType /\ Len(headers) \in Nat
      /\ OnlyEpochsRatify /\ VotesSound /\ GovsSound /\ TargetClean
  BY TypeParts, SoundParts, ChainFacts
<1>1. /\ ctl.pc = "delete" /\ ctl'.pc = "rewind" /\ ctl'.num = ctl.num /\ head' = head
      /\ RemoveAfter(Len(headers)) /\ headers' = SubSeq(headers, 1, Len(headers) - 1)
      /\ Len(headers) > 0 /\ govNums # None
  <2>1. /\ ctl.pc = "delete" /\ ctl' = [ctl EXCEPT !.pc = "rewind"] /\ head' = head
        /\ RemoveAfter(Len(headers)) /\ headers' = SubSeq(headers, 1, Len(headers) - 1)
    BY DEF DeleteBlock
  <2>2. ctl'.pc = "rewind" /\ ctl'.num = ctl.num
    BY <1>0, <2>1 DEF ThreadType
  <2>3. Len(headers) > 0 /\ govNums # None
    BY <1>0, <2>1, ChainFacts DEF Control
  <2> QED  BY <2>1, <2>2, <2>3
<1>2. Loaded /\ Loaded' /\ Deleting /\ Deleting' /\ ctl'.pc # "stopping"
  BY <1>1 DEF Loaded, Deleting
<1>3. PICK top \in Nat : top = Len(headers) - 1
  <2>1. Len(headers) \in Nat /\ Len(headers) > 0
    BY <1>0, <1>1
  <2>2. Len(headers) - 1 \in Nat
    BY <2>1
  <2> QED  BY <2>2
<1>4. /\ Len(headers') = top /\ Len(headers) = top + 1
      /\ \A n \in 1 .. top : n \in 1 .. Len(headers) /\ headers'[n] = headers[n]
  <2>1. top \in 0 .. Len(headers) /\ Len(headers) = top + 1
    BY <1>0, <1>3
  <2> QED  BY <1>0, <1>1, <1>3, <2>1, Prefix
<1>5. Recorded(groupedVotes) = voteNums /\ Govs = govNums \ {0}
  BY <1>0, <1>2 DEF VotesSound, GovsSound
<1>6. voteNums' = {n \in voteNums : n <= top + 1} /\ Recorded(groupedVotes)' = voteNums'
  <2>1. voteNums' = {n \in voteNums : n <= top + 1}
    <3>1. \A n \in voteNums : n \in Nat
      BY <1>0, EpochType DEF DbType, Numbers
    <3> QED  BY <1>1, <1>4, <1>5, <3>1 DEF RemoveAfter
  <2>2. Recorded(groupedVotes)' = {n \in Recorded(groupedVotes) : n <= top + 1}
    <3>1. \A n \in Numbers : n \in Nat
      BY EpochType DEF Numbers
    <3>2. ASSUME NEW n \in Numbers
          PROVE  groupedVotes'[n] # None <=> groupedVotes[n] # None /\ n <= top + 1
      <4>1. groupedVotes'[n] = IF n > top + 1 THEN None ELSE groupedVotes[n]
        BY <1>1, <1>4 DEF RemoveAfter
      <4> QED  BY <3>1, <4>1
    <3> QED  BY <3>2 DEF Recorded
  <2> QED  BY <1>5, <2>1, <2>2
<1>7. govNums' \ {0} = {n \in govNums \ {0} : n <= top + 1} /\ Govs' = govNums' \ {0}
  <2>1. govNums' \ {0} = {n \in govNums \ {0} : n <= top + 1}
    <3>1. \A n \in govNums : n \in Nat
      BY <1>0, <1>1, EpochType DEF DbType, Numbers
    <3> QED  BY <1>1, <1>4, <1>5, <3>1 DEF RemoveAfter
  <2>2. Govs' = {n \in Govs : n <= top + 1}
    <3>1. \A n \in Numbers : n \in Nat
      BY EpochType DEF Numbers
    <3>2. ASSUME NEW n \in Numbers
          PROVE  governances'[n] # None <=> governances[n] # None /\ n <= top + 1
      <4>1. governances'[n] = IF n > top + 1 THEN None ELSE governances[n]
        BY <1>1, <1>4 DEF RemoveAfter
      <4> QED  BY <3>1, <4>1
    <3> QED  BY <3>2 DEF Govs
  <2> QED  BY <1>5, <2>1, <2>2
<1>8. VotesSound'
  <2>1. ASSUME NEW n \in voteNums' PROVE Sound(n, HeaderVote(n) # None)'
    <3>1. n \in voteNums /\ n \in Nat /\ n # 0 /\ n <= top + 1
      BY <1>0, <1>6, <2>1, EpochType DEF DbType, Numbers
    <3>2. HeaderVote(n) # None
      BY <1>0, <1>4, <3>1 DEF VotesSound, Sound
    <3>3. n <= top => HeaderVote(n)' = HeaderVote(n)
      BY <1>4, <3>1 DEF HeaderVote
    <3> QED  BY <1>2, <1>4, <3>1, <3>2, <3>3 DEF Sound
  <2>2. ASSUME NEW n \in 1 .. top, groupedVotes'[n] # None PROVE groupedVotes'[n] = headers'[n].vote
    <3>1. n \in Numbers /\ n \in 1 .. Len(headers) /\ headers'[n] = headers[n]
      BY <1>0, <1>4, ChainFacts
    <3>2. groupedVotes'[n] = groupedVotes[n]
      BY <1>1, <2>2, <3>1 DEF RemoveAfter
    <3> QED  BY <1>0, <2>2, <3>1, <3>2 DEF VotesSound
  <2> QED  BY <1>4, <1>6, <2>1, <2>2 DEF VotesSound
<1>9. GovsSound'
  <2>1. ASSUME NEW n \in govNums' \ {0} PROVE Sound(n, headers[n].gov # Empty)'
    <3>1. n \in govNums \ {0} /\ n \in Nat /\ n # 0 /\ n <= top + 1
      BY <1>0, <1>1, <1>7, <2>1, EpochType DEF DbType, Numbers
    <3>2. headers[n].gov # Empty
      BY <1>0, <1>1, <1>4, <3>1 DEF GovsSound, Sound
    <3>3. n <= top => headers'[n] = headers[n]
      BY <1>4, <3>1
    <3> QED  BY <1>2, <1>4, <3>1, <3>2, <3>3 DEF Sound
  <2>2. ASSUME NEW n \in 1 .. top, governances'[n] # None PROVE governances'[n] = headers'[n].gov
    <3>1. n \in Numbers /\ n \in 1 .. Len(headers) /\ headers'[n] = headers[n]
      BY <1>0, <1>4, ChainFacts
    <3>2. governances'[n] = governances[n]
      BY <1>1, <2>2, <3>1 DEF RemoveAfter
    <3> QED  BY <1>0, <1>2, <2>2, <3>1, <3>2 DEF GovsSound
  <2> QED  BY <1>4, <1>7, <2>1, <2>2 DEF GovsSound
<1>10. OnlyEpochsRatify'
  BY <1>0, <1>4 DEF OnlyEpochsRatify
<1>11. TargetClean'
  <2>1. Target' = Target /\ Target \in Nat
    BY <1>0, <1>1, ChainFacts, EpochType DEF Target, ThreadType, Numbers
  <2>2. Target + 1 \notin voteNums /\ Target + 1 \notin govNums \ {0} /\ Target + 1 # 0
    BY <1>0, <1>2, <2>1 DEF TargetClean
  <2>3. Target + 1 \notin voteNums' /\ Target + 1 \notin govNums'
    BY <1>6, <1>7, <2>2
  <2> QED  BY <1>2, <2>1, <2>3 DEF TargetClean
<1> QED  BY <1>8, <1>9, <1>10, <1>11, AssembleSound

LEMMA RewindingSound ==
    ASSUME TypeOK, Control, RecordsSound, Rewinding, ~ RewindAnywhere
    PROVE  RecordsSound'
<1>0. /\ ChainType /\ DbType /\ ThreadType /\ Len(headers) \in Nat /\ head \in Nat /\ head <= Len(headers)
      /\ OnlyEpochsRatify /\ VotesSound /\ GovsSound /\ TargetClean /\ ctl.num \in Nat
  BY TypeParts, SoundParts, ChainFacts, EpochType DEF ThreadType, Numbers
<1>1. CASE Stopped
  <2>1. /\ UNCHANGED <<headers, head, voteNums, govNums, groupedVotes, governances>>
        /\ ctl.pc = "stopping" /\ ctl'.pc = "rewind" /\ ctl'.num = ctl.num
        /\ ctl.num < Len(headers) /\ govNums # None
    BY <1>0, <1>1 DEF Stopped, blockchain, db, memory, ThreadType, Control
  <2>2. Loaded /\ ~ Deleting /\ Deleting'
    BY <2>1 DEF Loaded, Deleting
  <2>3. Target \in Nat /\ Target < Len(headers) /\ Clean(Target)
    BY <1>0, <2>1 DEF Target, TargetClean
  <2>4. Target + 1 \notin voteNums \cup govNums
    BY <2>1, <2>3, CleanIsClean
  <2>5. Target' = Target
    BY <2>1 DEF Target
  <2>6. TargetClean'
    BY <2>1, <2>4, <2>5 DEF TargetClean
  <2> QED  BY <2>1, <2>2, <2>6, SoundStays
<1>2. CASE RewindHead
  <2>1. /\ UNCHANGED <<headers, voteNums, govNums, groupedVotes, governances>>
        /\ ctl.pc = "rewind" /\ ctl'.pc = "delete" /\ Len(headers) > ctl.num
        /\ ctl'.num = IF head' < ctl.num THEN head' ELSE ctl.num
        /\ govNums # None
    BY <1>2 DEF RewindHead, db, memory, Control
  <2>2. \/ /\ Len(headers) - 1 <= head /\ head' \in 0 .. (Len(headers) - 1)
           /\ head' > ctl.num \/ Clean(head')
        \/ head' = head
    BY <1>2 DEF RewindHead
  <2>3. Loaded /\ Loaded' /\ Deleting /\ Deleting'
    BY <2>1 DEF Loaded, Deleting
  <2>4. Target + 1 \notin voteNums \cup govNums
    BY <1>0, <2>3 DEF TargetClean
  <2>5. (Target + 1)' \notin voteNums \cup govNums
    <3>1. CASE head' = head
      <4>1. Target' = Target
        BY <1>0, <2>1, <3>1 DEF Target
      <4> QED  BY <2>4, <4>1
    <3>2. CASE Len(headers) - 1 <= head /\ head' \in 0 .. (Len(headers) - 1) /\ head' > ctl.num
      <4>1. Target' = Target
        BY <1>0, <2>1, <3>2 DEF Target
      <4> QED  BY <2>4, <4>1
    <3>3. CASE /\ Len(headers) - 1 <= head /\ head' \in 0 .. (Len(headers) - 1)
               /\ Clean(head') /\ head' <= ctl.num
      <4>1. Target' = head' /\ head' \in Nat /\ head' < Len(headers)
        BY <1>0, <2>1, <3>3 DEF Target
      <4>2. head' + 1 \notin voteNums \cup govNums
        BY <2>1, <3>3, <4>1, CleanIsClean
      <4> QED  BY <4>1, <4>2
    <3> QED  BY <1>0, <2>2, <3>1, <3>2, <3>3
  <2>6. TargetClean'
    BY <2>1, <2>5 DEF TargetClean
  <2>7. OnlyEpochsRatify'
    BY <1>0, <2>1 DEF OnlyEpochsRatify
  <2>8. VotesSound'
    BY <1>0, <2>1, <2>3 DEF VotesSound, Sound, HeaderVote, Recorded
  <2>9. GovsSound'
    BY <1>0, <2>1, <2>3 DEF GovsSound, Sound, Govs
  <2> QED  BY <2>6, <2>7, <2>8, <2>9, AssembleSound
<1>3. CASE DeleteBlock
  BY <1>3, DeleteSound
<1>4. CASE Rewound
  <2>1. /\ UNCHANGED <<headers, head, voteNums, govNums, groupedVotes, governances>>
        /\ ctl.pc = "rewind" /\ ctl'.pc = "up" /\ govNums # None /\ Len(headers) <= ctl.num
    BY <1>4 DEF Rewound, blockchain, db, memory, Control
  <2>2. Loaded /\ Loaded' /\ Deleting /\ ~ Deleting'
    BY <2>1 DEF Loaded, Deleting
  <2>3. ctl.num = Len(headers) /\ head = Len(headers)
    BY <1>0, <2>1 DEF Control
  <2>4. Len(headers) + 1 \notin voteNums /\ Len(headers) + 1 \notin govNums
    BY <1>0, <2>2, <2>3 DEF Target, TargetClean
  <2>5. ASSUME NEW n \in voteNums PROVE Sound(n, HeaderVote(n) # None)'
    <3>1. n \in Nat
      BY <1>0, EpochType DEF DbType, Numbers
    <3>2. Sound(n, HeaderVote(n) # None)
      BY <1>0 DEF VotesSound
    <3>3. n <= Len(headers) /\ HeaderVote(n) # None
      BY <1>0, <2>4, <3>1, <3>2 DEF Sound
    <3> QED  BY <1>0, <2>1, <3>1, <3>3 DEF Sound, HeaderVote
  <2>6. ASSUME NEW n \in govNums \ {0} PROVE Sound(n, headers[n].gov # Empty)'
    <3>1. n \in Nat
      BY <1>0, <2>1, EpochType DEF DbType, Numbers
    <3>2. Sound(n, headers[n].gov # Empty)
      BY <1>0, <2>1 DEF GovsSound
    <3>3. n <= Len(headers) /\ headers[n].gov # Empty
      BY <1>0, <2>4, <3>1, <3>2 DEF Sound
    <3> QED  BY <1>0, <2>1, <3>1, <3>3 DEF Sound
  <2>7. VotesSound'
    BY <1>0, <2>1, <2>2, <2>5 DEF VotesSound, Recorded
  <2>8. GovsSound'
    BY <1>0, <2>1, <2>2, <2>6 DEF GovsSound, Govs
  <2>9. OnlyEpochsRatify' /\ TargetClean'
    BY <1>0, <2>1, <2>2 DEF OnlyEpochsRatify, TargetClean
  <2> QED  BY <2>7, <2>8, <2>9, AssembleSound
<1> QED  BY <1>1, <1>2, <1>3, <1>4 DEF Rewinding

LEMMA CrashSound ==
    ASSUME TypeOK, RecordsSound, Crash, ~ RewindAnywhere
    PROVE  RecordsSound'
<1>0. OnlyEpochsRatify /\ VotesSound /\ GovsSound
  BY SoundParts
<1>1. /\ UNCHANGED <<headers, voteNums, govNums>> /\ ctl'.pc = "down"
      /\ groupedVotes' = [n \in Numbers |-> None]
      /\ ctl.pc \notin {"rewind", "delete"}
  BY DEF Crash, db
<1>2. ~ Loaded' /\ ~ Deleting /\ ~ Deleting'
  BY <1>1 DEF Loaded, Deleting
<1>3. Recorded(groupedVotes)' = {} /\ \A n \in 1 .. Len(headers) : n \in Numbers
  <2>1. ChainType
    BY TypeParts
  <2> QED  BY <1>1, <2>1, ChainFacts DEF Recorded
<1>4. VotesSound'
  BY <1>0, <1>1, <1>2, <1>3 DEF VotesSound, Sound, HeaderVote
<1>5. GovsSound'
  BY <1>0, <1>1, <1>2 DEF GovsSound, Sound
<1>6. OnlyEpochsRatify' /\ TargetClean'
  BY <1>0, <1>1, <1>2 DEF OnlyEpochsRatify, TargetClean
<1> QED  BY <1>4, <1>5, <1>6, AssembleSound

LEMMA VoteSound ==
    ASSUME TypeOK, RecordsSound, UNCHANGED vars \/ \E vote \in Votes : Vote(vote)
    PROVE  RecordsSound'
<1>1. UNCHANGED <<headers, head, voteNums, govNums, groupedVotes, governances, ctl>>
  BY DEF Vote, vars, blockchain, db, memory
<1>2. TargetClean /\ (Loaded' => Loaded) /\ (Deleting => Deleting')
  BY <1>1, SoundParts DEF Loaded, Deleting
<1>3. TargetClean'
  BY <1>1, <1>2 DEF TargetClean, Clean, Target, HeaderVote, Deleting
<1> QED  BY <1>1, <1>2, <1>3, SoundStays

LEMMA SoundInit == Init => RecordsSound
<1> SUFFICES ASSUME Init PROVE RecordsSound
  OBVIOUS
<1>1. /\ voteNums = {} /\ govNums = None /\ groupedVotes = [n \in Numbers |-> None]
      /\ ctl.pc = "down" /\ HonestChain(headers)
  BY DEF Init
<1>2. OnlyEpochsRatify
  BY <1>1 DEF OnlyEpochsRatify, HonestChain, RefGov
<1>3. ~ Loaded /\ ~ Deleting /\ ctl.pc # "stopping" /\ Recorded(groupedVotes) = {}
  BY <1>1 DEF Loaded, Deleting, Recorded
<1>4. \A n \in 1 .. Len(headers) : n \in Numbers
  BY TypeInit, TypeParts, ChainFacts
<1> QED  BY <1>1, <1>2, <1>3, <1>4, SoundParts DEF VotesSound, GovsSound, TargetClean

-----------------------------------------------------------------------------
(* The records are complete *)

LEMMA EpochOrder ==
    ASSUME NEW n \in Nat, NEW m \in Nat, n <= m
    PROVE  calcEpochIdx(n) <= calcEpochIdx(m)
<1>1. PICK q \in Nat, r \in 0 .. Epoch - 1 : q = calcEpochIdx(n) /\ n = q * Epoch + r
  BY EpochStart
<1>2. PICK k \in Nat, s \in 0 .. Epoch - 1 : k = calcEpochIdx(m) /\ m = k * Epoch + s
  BY EpochStart
<1>3. ASSUME k < q PROVE FALSE
  <2>1. k * Epoch + Epoch <= q * Epoch
    BY <1>3, Multiples
  <2>2. PICK a \in Nat, b \in Nat : a = k * Epoch /\ b = q * Epoch
    BY EpochType
  <2> QED  BY <1>1, <1>2, <2>1, <2>2, EpochType
<1> QED  BY <1>1, <1>2, <1>3

\* A scan of an epoch finds its votes up to the head.
LEMMA ScanFinds ==
    ASSUME ChainType, NEW n \in 1 .. head, NEW idx \in Nat, calcEpochIdx(n) = idx, HeaderVote(n) # None
    PROVE  n \in Recorded(scanAllVotesInEpoch(idx)) /\ scanAllVotesInEpoch(idx)[n] = HeaderVote(n)
<1>1. n \in Nat /\ n \in Numbers
  BY ChainFacts
<1>2. n \in EpochBlocks(idx)
  BY <1>1, InEpoch
<1> QED  BY <1>1, <1>2 DEF Recorded, scanAllVotesInEpoch

HookRecorded == post.pc = "gov" /\ HeaderVote(head) # None => head \in voteNums

\* What a step keeps of the blocks up to the next head.
Keeps(n) ==
    /\ headers'[n] = headers[n]
    /\ n \in voteNums => n \in voteNums'
    /\ n \in govNums => n \in govNums'
    /\ Unhooked(n, {"vote"}) => Unhooked(n, {"vote"})'
    /\ Unhooked(n, {"vote", "gov"}) => Unhooked(n, {"vote", "gov"})'

LEMMA CompleteStays ==
    ASSUME RecordsComplete, head \in Nat, head' \in 0 .. head, \A n \in 1 .. head' : Keeps(n),
           \A n \in 1 .. head' : Scanned(n)' => Scanned(n) \/ VoteRecorded(n)',
           govNums' # None => govNums # None, HookRecorded'
    PROVE  RecordsComplete'
<1>1. ASSUME NEW n \in 1 .. head', (govNums # None /\ headers[n].gov # Empty)'
      PROVE  (n \in govNums \/ Unhooked(n, {"vote", "gov"}))'
  <2>1. n \in 1 .. head /\ Keeps(n) /\ govNums # None
    BY <1>1
  <2>2. n \in govNums \/ Unhooked(n, {"vote", "gov"})
    BY <1>1, <2>1 DEF RecordsComplete, Keeps
  <2> QED  BY <2>1, <2>2 DEF Keeps
<1>2. ASSUME NEW n \in 1 .. head', Scanned(n)' PROVE VoteRecorded(n)'
  <2>1. n \in 1 .. head /\ Keeps(n)
    OBVIOUS
  <2>2. CASE Scanned(n)
    <3>1. VoteRecorded(n) /\ HeaderVote(n)' = HeaderVote(n)
      BY <2>1, <2>2 DEF RecordsComplete, HeaderVote, Keeps
    <3> QED  BY <2>1, <3>1 DEF VoteRecorded, Keeps
  <2> QED  BY <1>2, <2>2
<1> QED  BY <1>1, <1>2 DEF RecordsComplete, HookRecorded

LEMMA GrowthComplete ==
    ASSUME TypeOK, Control, RecordsComplete, Growth
    PROVE  RecordsComplete'
<1>0. ChainType /\ Len(headers) \in Nat /\ head \in Nat /\ head <= Len(headers) /\ HeadersGrow
  BY TypeParts, ChainFacts, GrowthExtends
<1>1. /\ ctl.pc = "up" /\ post.pc = "none" /\ head' = head + 1 /\ post'.pc = "vote" /\ post'.num = head + 1
      /\ UNCHANGED <<voteNums, govNums, border, ctl, migrate, missed>>
  BY DEF Growth, Ready, db
<1>2. ASSUME NEW n \in 1 .. head', n # head + 1
      PROVE  n \in 1 .. head /\ headers'[n] = headers[n]
  <2>1. n \in 1 .. head /\ n \in 1 .. Len(headers)
    BY <1>0, <1>1, <1>2
  <2>2. \A k \in 1 .. Len(headers) : headers'[k] = headers[k]
    BY <1>0 DEF HeadersGrow
  <2> QED  BY <2>1, <2>2
<1>3. ASSUME NEW n \in 1 .. head', (govNums # None /\ headers[n].gov # Empty)'
      PROVE  (n \in govNums \/ Unhooked(n, {"vote", "gov"}))'
  <2>1. CASE n = head + 1
    BY <1>1, <2>1 DEF Unhooked
  <2>2. CASE n # head + 1
    <3>1. n \in govNums \/ Unhooked(n, {"vote", "gov"})
      BY <1>1, <1>2, <1>3, <2>2 DEF RecordsComplete
    <3> QED  BY <1>1, <3>1 DEF Unhooked
  <2> QED  BY <2>1, <2>2
<1>4. ASSUME NEW n \in 1 .. head', Scanned(n)' PROVE VoteRecorded(n)'
  <2>1. CASE n = head + 1
    BY <1>1, <2>1 DEF Unhooked, VoteRecorded
  <2>2. CASE n # head + 1
    <3>1. Scanned(n)
      BY <1>1, <1>4 DEF Scanned, calcEpochIdx
    <3>2. VoteRecorded(n) /\ HeaderVote(n)' = HeaderVote(n)
      BY <1>2, <2>2, <3>1 DEF RecordsComplete, HeaderVote
    <3> QED  BY <1>1, <3>2 DEF VoteRecorded, Unhooked
  <2> QED  BY <2>1, <2>2
<1> QED  BY <1>1, <1>3, <1>4 DEF RecordsComplete

LEMMA HookComplete ==
    ASSUME TypeOK, Control, RecordsSound, RecordsComplete, PostVote \/ PostGov
    PROVE  RecordsComplete'
<1>0. ChainType /\ ThreadType /\ GovsSound
  BY TypeParts, SoundParts
<1>1. /\ post.num = head /\ ctl.pc = "up" /\ head \in 1 .. Len(headers) /\ Loaded /\ govNums # None
      /\ UNCHANGED <<headers, head, border, ctl, migrate>>
  BY <1>0, ChainFacts DEF Control, Loaded, PostVote, PostGov, blockchain
<1>2. \A n \in 1 .. head : Scanned(n)' => Scanned(n)
  BY <1>1 DEF Scanned, calcEpochIdx
<1>3. CASE PostVote
  <2>1. /\ govNums' = govNums /\ missed' = missed /\ post.pc = "vote" /\ post'.pc = "gov" /\ post'.num = head
        /\ voteNums' = IF HeaderVote(head) # None THEN voteNums \cup {head} ELSE voteNums
    <3>1. /\ govNums' = govNums /\ missed' = missed /\ post.pc = "vote"
          /\ post' = [post EXCEPT !.pc = "gov"]
          /\ HandleVote(head, headers[head].vote)
      BY <1>1, <1>3 DEF PostVote
    <3>2. voteNums' = IF headers[head].vote # None /\ headers[head].vote.name \in Names
                      THEN voteNums \cup {head} ELSE voteNums
      BY <3>1 DEF HandleVote
    <3>3. HeaderVote(head) # None <=> headers[head].vote # None /\ headers[head].vote.name \in Names
      BY DEF HeaderVote
    <3> QED  BY <1>0, <1>1, <3>1, <3>2, <3>3 DEF ThreadType
  <2>2. ASSUME NEW n \in 1 .. head, (govNums # None /\ headers[n].gov # Empty)'
        PROVE  (n \in govNums \/ Unhooked(n, {"vote", "gov"}))'
    <3>1. n \in govNums \/ Unhooked(n, {"vote", "gov"})
      BY <1>1, <2>1, <2>2 DEF RecordsComplete
    <3> QED  BY <1>1, <2>1, <3>1 DEF Unhooked
  <2>3. ASSUME NEW n \in 1 .. head, Scanned(n)' PROVE VoteRecorded(n)'
    <3>1. VoteRecorded(n) /\ HeaderVote(n)' = HeaderVote(n)
      BY <1>1, <1>2, <2>3 DEF RecordsComplete, HeaderVote
    <3> QED  BY <1>1, <2>1, <3>1 DEF VoteRecorded, Unhooked
  <2>4. HookRecorded'
    <3>1. HeaderVote(head)' = HeaderVote(head)
      BY <1>1 DEF HeaderVote
    <3> QED  BY <1>1, <2>1, <3>1 DEF HookRecorded
  <2> QED  BY <1>1, <2>2, <2>3, <2>4 DEF RecordsComplete, HookRecorded
<1>4. CASE PostGov
  <2>1. /\ voteNums' = voteNums /\ missed' = missed \ {head} /\ post.pc = "gov" /\ post'.pc = "none"
        /\ HandleGov(head, headers[head].gov)
    BY <1>1, <1>4 DEF PostGov
  <2>2. ASSUME NEW n \in 1 .. head, (govNums # None /\ headers[n].gov # Empty)'
        PROVE  (n \in govNums \/ Unhooked(n, {"vote", "gov"}))'
    <3>1. n \in govNums \/ Unhooked(n, {"vote", "gov"})
      BY <1>1, <2>2 DEF RecordsComplete
    <3>2. n # 0 /\ (n \in govNums => n \in govNums')
      <4>1. Govs = govNums \ {0}
        BY <1>0, <1>1 DEF GovsSound
      <4>2. govNums' = govNums \/ govNums' = {0, head} \cup Govs
        BY <2>1 DEF HandleGov
      <4>3. n # 0
        BY <1>1
      <4> QED  BY <4>1, <4>2, <4>3
    <3>3. CASE n = head
      BY <1>1, <2>1, <2>2, <3>3 DEF HandleGov
    <3>4. CASE n # head
      BY <1>1, <2>1, <3>1, <3>2, <3>4 DEF Unhooked
    <3> QED  BY <3>3, <3>4
  <2>3. ASSUME NEW n \in 1 .. head, Scanned(n)' PROVE VoteRecorded(n)'
    <3>1. VoteRecorded(n) /\ HeaderVote(n)' = HeaderVote(n)
      BY <1>1, <1>2, <2>3 DEF RecordsComplete, HeaderVote
    <3>2. n = head => (HeaderVote(n) # None => n \in voteNums)
      BY <2>1 DEF RecordsComplete
    <3> QED  BY <1>1, <2>1, <3>1, <3>2 DEF VoteRecorded, Unhooked
  <2> QED  BY <1>1, <2>1, <2>2, <2>3 DEF RecordsComplete
<1> QED  BY <1>3, <1>4

LEMMA StartingComplete ==
    ASSUME TypeOK, Control, RecordsComplete, Starting
    PROVE  RecordsComplete'
<1>0. ChainType /\ DbType /\ ThreadType /\ head \in Nat /\ head \in Numbers /\ head' \in 0 .. head
  BY TypeParts, ChainFacts DEF Starting, initSchema, ScanLatest, ScanBorder, Load, blockchain
<1>1. /\ ctl.pc \in {"down", "scan", "border", "load"} /\ UNCHANGED <<headers, head, post, missed>>
      /\ post.pc = "none" /\ migrate.pc = "off" /\ migrate'.pc # "border"
  BY DEF Starting, initSchema, ScanLatest, ScanBorder, Load, Control, blockchain
<1>2. HookRecorded' /\ \A n : headers'[n] = headers[n] /\ Unhooked(n, {"vote"})' = Unhooked(n, {"vote"})
                              /\ Unhooked(n, {"vote", "gov"})' = Unhooked(n, {"vote", "gov"})
  BY <1>1 DEF HookRecorded, Unhooked
<1>3. CASE initSchema
  <2>1. /\ UNCHANGED <<voteNums, border>> /\ ctl'.pc # "border"
        /\ govNums' = IF govNums = None
                      THEN {0} \cup {n \in 1 .. head : headers[n].gov # Empty} ELSE govNums
    BY <1>0, <1>3 DEF initSchema, ThreadType
  <2>2. ASSUME NEW n \in 1 .. head, Scanned(n)' PROVE Scanned(n)
    BY <1>1, <2>1, <2>2 DEF Scanned, calcEpochIdx
  <2>3. CASE govNums # None
    <3>1. \A n \in 1 .. head' : Keeps(n)
      BY <1>2, <2>1, <2>3 DEF Keeps
    <3> QED  BY <1>0, <1>1, <1>2, <2>2, <2>3, <3>1, CompleteStays
  <2>4. CASE govNums = None
    <3>1. ASSUME NEW n \in 1 .. head, headers[n].gov # Empty PROVE n \in govNums'
      BY <2>1, <2>4, <3>1
    <3>2. ASSUME NEW n \in 1 .. head, Scanned(n)' PROVE VoteRecorded(n)'
      <4>1. VoteRecorded(n) /\ HeaderVote(n)' = HeaderVote(n)
        BY <1>1, <2>2, <3>2 DEF RecordsComplete, HeaderVote
      <4> QED  BY <1>1, <2>1, <4>1 DEF VoteRecorded, Unhooked
    <3> QED  BY <1>1, <1>2, <3>1, <3>2 DEF RecordsComplete, HookRecorded
  <2> QED  BY <2>3, <2>4
<1>4. CASE ScanLatest
  <2>1. /\ UNCHANGED <<govNums, border>>
        /\ voteNums' = voteNums \cup Recorded(scanAllVotesInEpoch(calcEpochIdx(head)))
    BY <1>4 DEF ScanLatest
  <2>2. \A n \in 1 .. head' : Keeps(n)
    BY <1>2, <2>1 DEF Keeps
  <2>3. ASSUME NEW n \in 1 .. head', Scanned(n)', ~ Scanned(n) PROVE VoteRecorded(n)'
    <3>1. calcEpochIdx(n) = calcEpochIdx(head) /\ n \in 1 .. head
      BY <1>1, <2>1, <2>3 DEF Scanned, calcEpochIdx
    <3>2. HeaderVote(n) # None => n \in voteNums'
      BY <1>0, <2>1, <3>1, ScanFinds, EpochStart
    <3> QED  BY <1>1, <3>2 DEF VoteRecorded, HeaderVote
  <2> QED  BY <1>0, <1>2, <2>1, <2>2, <2>3, CompleteStays
<1>5. CASE ScanBorder
  <2>1. UNCHANGED <<voteNums, govNums>> /\ border' = calcEpochIdx(head) /\ ctl.pc = "border" /\ ctl'.pc # "border"
    BY <1>0, <1>5 DEF ScanBorder, ThreadType
  <2>2. \A n \in 1 .. head' : Keeps(n)
    BY <1>2, <2>1 DEF Keeps
  <2>3. ASSUME NEW n \in 1 .. head', Scanned(n)' PROVE Scanned(n)
    <3>1. calcEpochIdx(n) >= calcEpochIdx(head) /\ n \in Nat /\ n <= head
      BY <1>1, <2>1, <2>3 DEF Scanned, calcEpochIdx
    <3>2. calcEpochIdx(n) \in Nat /\ calcEpochIdx(head) \in Nat /\ calcEpochIdx(n) <= calcEpochIdx(head)
      BY <1>0, <3>1, EpochStart, EpochOrder
    <3>3. calcEpochIdx(n) = calcEpochIdx(head)
      BY <3>1, <3>2
    <3> QED  BY <2>1, <3>3 DEF Scanned
  <2> QED  BY <1>0, <1>2, <2>1, <2>2, <2>3, CompleteStays
<1>6. CASE Load
  <2>1. UNCHANGED <<voteNums, govNums, border>> /\ ctl'.pc # "border"
    BY <1>0, <1>6 DEF Load, db, ThreadType
  <2>2. \A n \in 1 .. head' : Keeps(n)
    BY <1>2, <2>1 DEF Keeps
  <2>3. ASSUME NEW n \in 1 .. head', Scanned(n)' PROVE Scanned(n)
    BY <1>1, <2>1, <2>3 DEF Scanned, calcEpochIdx
  <2> QED  BY <1>0, <1>2, <2>1, <2>2, <2>3, CompleteStays
<1> QED  BY <1>3, <1>4, <1>5, <1>6 DEF Starting

LEMMA MigratingComplete ==
    ASSUME TypeOK, Control, RecordsComplete, Migrating
    PROVE  RecordsComplete'
<1>0. ChainType /\ DbType /\ ThreadType /\ head \in Nat /\ head' \in 0 .. head /\ migrate.idx \in Nat
  BY TypeParts, ChainFacts, EpochType
     DEF Migrating, MigrateCheck, MigrateScan, MigrateBorder, blockchain, ThreadType, Numbers
<1>1. /\ UNCHANGED <<headers, head, govNums, ctl, post, missed>> /\ ctl.pc \in {"up", "stopping"}
      /\ voteNums \subseteq voteNums'
  BY DEF Migrating, MigrateCheck, MigrateScan, MigrateBorder, Control, blockchain, db
<1>2. \A n \in 1 .. head' : Keeps(n)
  BY <1>1 DEF Keeps, Unhooked
<1>3. HookRecorded'
  BY <1>1 DEF HookRecorded, RecordsComplete, HeaderVote
<1>4. ASSUME NEW n \in 1 .. head', Scanned(n)' PROVE Scanned(n) \/ VoteRecorded(n)'
  <2>0. n \in Nat /\ n \in 1 .. head /\ calcEpochIdx(n) \in Nat
    BY <1>1, EpochStart
  <2>1. CASE MigrateCheck
    <3>1. migrate'.pc # "border" /\ border' = border
      BY <1>0, <2>1 DEF MigrateCheck, ThreadType, db
    <3> QED  BY <1>1, <1>4, <3>1 DEF Scanned, calcEpochIdx
  <2>2. CASE MigrateScan
    <3>1. /\ border' = border /\ migrate'.idx = migrate.idx
          /\ voteNums' = voteNums \cup Recorded(scanAllVotesInEpoch(migrate.idx))
      BY <1>0, <2>2 DEF MigrateScan, ThreadType
    <3>2. Scanned(n) \/ calcEpochIdx(n) = migrate.idx
      BY <1>1, <1>4, <3>1 DEF Scanned, calcEpochIdx
    <3>3. calcEpochIdx(n) = migrate.idx => (HeaderVote(n) # None => n \in voteNums')
      BY <1>0, <2>0, <3>1, ScanFinds
    <3> QED  BY <1>1, <3>2, <3>3 DEF VoteRecorded, HeaderVote
  <2>3. CASE MigrateBorder
    <3>1. border' = migrate.idx /\ migrate'.pc # "border" /\ border = migrate.idx + 1 /\ migrate.pc = "border"
      BY <1>0, <2>3 DEF MigrateBorder, ThreadType, Control
    <3>2. calcEpochIdx(n) >= migrate.idx /\ border # None
      BY <1>0, <1>1, <1>4, <3>1, NoneAssumption DEF Scanned, calcEpochIdx, Control, Loaded
    <3>3. calcEpochIdx(n) = migrate.idx \/ calcEpochIdx(n) >= border
      BY <1>0, <2>0, <3>1, <3>2
    <3> QED  BY <3>1, <3>2, <3>3 DEF Scanned
  <2> QED  BY <2>1, <2>2, <2>3 DEF Migrating
<1> QED  BY <1>0, <1>1, <1>2, <1>3, <1>4, CompleteStays

LEMMA RewindingComplete ==
    ASSUME TypeOK, Control, RecordsSound, RecordsComplete,
           Rewinding \/ \E num \in Numbers : SetHead(num)
    PROVE  RecordsComplete'
<1>0. /\ ChainType /\ DbType /\ ThreadType /\ VotesSound /\ GovsSound
      /\ Len(headers) \in Nat /\ head \in Nat /\ head <= Len(headers)
  BY TypeParts, SoundParts, ChainFacts
<1>1. /\ ctl.pc \in {"up", "stopping", "rewind", "delete"} /\ post.pc = "none" /\ post' = post
      /\ border' = border /\ ctl'.pc # "border" /\ govNums # None /\ (migrate' = migrate \/ migrate'.pc = "check")
  BY <1>0 DEF Rewinding, Stopped, RewindHead, DeleteBlock, Rewound, SetHead, Control, ThreadType, db
<1>2. HookRecorded' /\ \A n : Scanned(n)' => Scanned(n)
  BY <1>1 DEF HookRecorded, Scanned, calcEpochIdx
<1>3. head' \in 0 .. head
  BY <1>0 DEF Rewinding, Stopped, RewindHead, DeleteBlock, Rewound, SetHead, blockchain
<1>4. ASSUME NEW n \in 1 .. head' PROVE Keeps(n)
  <2>1. CASE DeleteBlock
    <3>1. /\ ctl.pc = "delete" /\ headers' = SubSeq(headers, 1, Len(headers) - 1) /\ head' = head
          /\ missed' = missed \ {Len(headers)} /\ RemoveAfter(Len(headers)) /\ Loaded
      BY <2>1 DEF DeleteBlock, Loaded
    <3>2. /\ head < Len(headers) /\ n < Len(headers) /\ n \in 1 .. Len(headers) - 1
          /\ Len(headers) - 1 \in 0 .. Len(headers)
      BY <1>0, <3>1 DEF Control
    <3>3. headers'[n] = headers[n]
      BY <1>0, <3>1, <3>2, Prefix
    <3>4. (n \in voteNums => n \in voteNums') /\ (n \in govNums => n \in govNums')
      <4>1. n <= Len(headers) /\ n # 0
        BY <1>0, <3>2
      <4>2. voteNums \subseteq Recorded(groupedVotes) /\ Govs = govNums \ {0}
        BY <1>0, <3>1 DEF VotesSound, GovsSound
      <4>3. n \in voteNums => n \in voteNums'
        BY <3>1, <4>1, <4>2 DEF RemoveAfter
      <4>4. n \in govNums => n \in govNums'
        BY <3>1, <4>1, <4>2 DEF RemoveAfter
      <4> QED  BY <4>3, <4>4
    <3>5. n \in missed => n \in missed'
      BY <3>1, <3>2
    <3> QED  BY <1>1, <3>3, <3>4, <3>5 DEF Keeps, Unhooked
  <2>2. CASE Stopped \/ RewindHead \/ Rewound \/ \E num \in Numbers : SetHead(num)
    <3>1. UNCHANGED <<headers, voteNums, govNums, post, missed>>
      BY <2>2 DEF Stopped, RewindHead, Rewound, SetHead, blockchain, db
    <3> QED  BY <3>1 DEF Keeps, Unhooked
  <2> QED  BY <2>1, <2>2 DEF Rewinding
<1> QED  BY <1>0, <1>1, <1>2, <1>3, <1>4, CompleteStays

LEMMA CrashComplete ==
    ASSUME TypeOK, RecordsComplete, Crash
    PROVE  RecordsComplete'
<1>1. ChainType /\ head \in Nat /\ head' \in 0 .. head
  BY TypeParts, ChainFacts DEF Crash
<1>2. /\ UNCHANGED <<headers, voteNums, govNums, border>> /\ post'.pc = "none"
      /\ ctl'.pc = "down" /\ migrate'.pc = "off"
      /\ missed' = missed \cup (IF post.pc # "none" /\ post.num <= head' THEN {post.num} ELSE {})
  BY DEF Crash, db
<1>3. ASSUME NEW n \in 1 .. head' PROVE Keeps(n)
  BY <1>1, <1>2 DEF Keeps, Unhooked
<1>4. HookRecorded' /\ \A n : Scanned(n)' => Scanned(n)
  BY <1>2 DEF HookRecorded, Scanned, calcEpochIdx
<1> QED  BY <1>1, <1>2, <1>3, <1>4, CompleteStays

LEMMA VoteComplete ==
    ASSUME TypeOK, RecordsComplete, UNCHANGED vars \/ \E vote \in Votes : Vote(vote)
    PROVE  RecordsComplete'
<1>1. UNCHANGED <<headers, head, voteNums, govNums, border, ctl, migrate, post, missed>>
  BY DEF Vote, vars, blockchain, db
<1> QED  BY <1>1 DEF RecordsComplete, Scanned, VoteRecorded, Unhooked, HeaderVote, calcEpochIdx

-----------------------------------------------------------------------------
(* The invariant *)

LEMMA GovInit == Init => GovInv
<1> SUFFICES ASSUME Init PROVE RecordsComplete
  BY TypeInit, SoundInit DEF GovInv
<1>1. govNums = None /\ border = None /\ ctl.pc = "down" /\ migrate.pc = "off" /\ post.pc = "none"
  BY DEF Init
<1> QED  BY <1>1 DEF RecordsComplete, Scanned

LEMMA GovStep ==
    ASSUME ~ RewindAnywhere
    PROVE  GovInv /\ [Next]_vars => GovInv'
<1> SUFFICES ASSUME TypeOK, Control, RecordsSound, RecordsComplete, [Next]_vars
             PROVE  GovInv'
  BY DEF GovInv
<1>0. TypeOK' /\ Control'
  BY TypeStep
<1> SUFFICES RecordsSound' /\ RecordsComplete'
  BY <1>0 DEF GovInv
<1>1. CASE Starting
  BY <1>1, StartingSound, StartingComplete
<1>2. CASE Migrating
  BY <1>2, MigratingSound, MigratingComplete
<1>3. CASE Rewinding
  BY <1>3, RewindingSound, RewindingComplete
<1>4. CASE (\E vote \in Votes \cup {None} : ImportBlock(vote)) \/ ImportAgain \/ ProposeBlock
  <2>1. Growth
    BY <1>4, BlocksGrow
  <2> QED  BY <1>0, <2>1, GrowthSound, GrowthComplete
<1>5. CASE UNCHANGED vars \/ \E vote \in Votes : Vote(vote)
  BY <1>5, VoteSound, VoteComplete
<1>6. CASE PostVote \/ PostGov
  BY <1>6, HookSound, HookComplete
<1>7. CASE \E num \in Numbers : SetHead(num)
  BY <1>7, SetHeadSound, RewindingComplete
<1>8. CASE Crash
  BY <1>8, CrashSound, CrashComplete
<1> QED  BY <1>1, <1>2, <1>3, <1>4, <1>5, <1>6, <1>7, <1>8 DEF Next

\* Wherever the start, the background scan, PostInsertBlock, SetHead and a crash
\* interleave: the database and the memory of the module agree with the headers, and
\* lack nothing of what the border says is recorded.
THEOREM GovInvariance ==
    ASSUME ~ RewindAnywhere
    PROVE  Spec => []GovInv
<1>1. GovInv /\ [Next]_vars => GovInv'
  BY GovStep
<1> QED  BY <1>1, GovInit, PTL DEF Spec

-----------------------------------------------------------------------------
(* The parameters are those of the headers *)

\* What a module that is up and has missed nothing knows of the ratifications.
LEMMA KnownRatifications ==
    ASSUME GovInv, ctl.pc = "up", missed = {}
    PROVE  /\ \A n \in Govs : /\ n \in 1 .. Len(headers) /\ n % Epoch = 0 /\ n \in Numbers
                              /\ governances[n] = headers[n].gov
           /\ \A n \in 1 .. head : headers[n].gov # Empty =>
                 n % Epoch = 0 /\ (n \in Govs \/ (post.pc # "none" /\ n = head))
<1>0. /\ ChainType /\ DbType /\ RecordsSound /\ OnlyEpochsRatify /\ GovsSound /\ RecordsComplete
      /\ Len(headers) \in Nat /\ head \in Nat /\ head <= Len(headers) /\ Loaded /\ ~ Deleting
      /\ govNums # None /\ (post.pc # "none" => post.num = head)
  BY TypeParts, SoundParts, ChainFacts DEF GovInv, Loaded, Deleting, Control
<1>1. Govs = govNums \ {0}
  BY <1>0 DEF GovsSound
<1>2. ASSUME NEW n \in Govs
      PROVE  /\ n \in 1 .. Len(headers) /\ n % Epoch = 0 /\ n \in Numbers
             /\ governances[n] = headers[n].gov
  <2>1. n \in 1 .. Len(headers) /\ headers[n].gov # Empty
    BY <1>0, <1>1, NothingAbove
  <2>2. governances[n] # None /\ n \in Numbers
    BY DEF Govs
  <2> QED  BY <1>0, <2>1, <2>2 DEF GovsSound, OnlyEpochsRatify
<1>3. ASSUME NEW n \in 1 .. head, headers[n].gov # Empty
      PROVE  n % Epoch = 0 /\ (n \in Govs \/ (post.pc # "none" /\ n = head))
  <2>1. n \in 1 .. Len(headers) /\ n # 0
    BY <1>0
  <2>2. n \in govNums \/ Unhooked(n, {"vote", "gov"})
    BY <1>0, <1>3 DEF RecordsComplete
  <2> QED  BY <1>0, <1>1, <1>3, <2>1, <2>2 DEF OnlyEpochsRatify, Unhooked
<1> QED  BY <1>2, <1>3

LEMMA PrevEpochStartType ==
    ASSUME NEW num \in Nat
    PROVE  PrevEpochStart(num) \in Nat
<1>1. CASE num <= Epoch
  BY <1>1 DEF PrevEpochStart
<1>2. CASE num > Epoch
  <2>1. PICK m \in Nat : m = (IF num >= KoreBlock THEN num ELSE num - 1) /\ m >= Epoch
    BY <1>2, EpochType
  <2>2. PICK q \in Nat, r \in 0 .. Epoch - 1 : r = m % Epoch /\ m = q * Epoch + r
    BY EpochStart
  <2>3. PrevEpochStart(num) = m - r - Epoch
    BY <1>2, <2>1, <2>2, EpochType DEF PrevEpochStart
  <2>4. ASSUME q = 0 PROVE FALSE
    <3>1. m = 0 + r
      BY <2>2, <2>4, EpochType
    <3>2. m >= Epoch
      BY <2>1
    <3> QED  BY <3>1, <3>2, EpochType
  <2>5. q * Epoch >= Epoch
    BY <2>4, EpochType
  <2>6. PICK a \in Nat : a = q * Epoch
    BY EpochType
  <2> QED  BY <2>2, <2>3, <2>5, <2>6, EpochType
<1> QED  BY <1>1, <1>2, EpochType

LEMMA Parameters ==
    ASSUME GovInv, ctl.pc = "up", missed = {}, NEW num \in 0 .. head + 1, Epoch > 1 \/ post.pc = "none"
    PROVE  GetParamSet(num) = RefParams(SubSeq(headers, 1, head), num)
<1>0. ChainType /\ head \in Nat /\ head \in 0 .. Len(headers) /\ num \in Nat /\ Len(headers) \in Nat
  <2>1. ChainType
    BY TypeParts DEF GovInv
  <2>2. head \in Nat /\ head <= Len(headers) /\ Len(headers) \in Nat
    BY <2>1, ChainFacts
  <2> QED  BY <2>1, <2>2
<1>1. PICK start \in Nat : start = PrevEpochStart(num)
  BY <1>0, PrevEpochStartType
<1>2. PICK last \in Numbers : /\ GetParamSet(num) = HistoryAt(last) /\ last <= start
                              /\ \A n \in Govs : n <= start => n <= last
  <2> DEFINE nums == {n \in Govs \cup {0} : n <= start}
  <2>1. nums \subseteq 0 .. MaxBlock /\ 0 \in nums
    BY EpochType DEF Govs, Numbers
  <2>2. GetParamSet(num) = HistoryAt(Max(nums))
    BY <1>1 DEF GetParamSet
  <2>3. Max(nums) \in nums /\ \A n \in nums : Max(nums) >= n
    <3> HIDE DEF nums
    <3> QED  BY <2>1, MaxIs, EpochType
  <2>4. Max(nums) \in Numbers /\ Max(nums) <= start
    BY <2>1, <2>3 DEF Numbers
  <2>5. ASSUME NEW n \in Govs, n <= start PROVE n <= Max(nums)
    <3>1. n \in nums /\ n \in Numbers
      BY <2>5 DEF Govs
    <3>2. Max(nums) >= n
      BY <2>3, <3>1
    <3>3. n \in Nat /\ Max(nums) \in Nat
      BY <2>4, <3>1, EpochType DEF Numbers
    <3> HIDE DEF nums
    <3> QED  BY <3>2, <3>3
  <2> HIDE DEF nums
  <2> QED  BY <2>2, <2>4, <2>5
<1>3. PICK hdrs : hdrs = SubSeq(headers, 1, head)
  OBVIOUS
<1>4. Len(hdrs) = head /\ \A n \in 1 .. head : hdrs[n] = headers[n]
  BY <1>0, <1>3, Prefix
<1>5. ASSUME NEW p \in Names PROVE HistoryAt(last)[p] = RefParams(hdrs, num)[p]
  <2> DEFINE known == {n \in Govs : n <= last /\ governances[n][p] # None}
             ref == {k \in 1 .. Len(hdrs) : InEffect(k, num) /\ hdrs[k].gov[p] # None}
  <2>1. ASSUME NEW n \in known PROVE n \in ref
    <3>1. /\ n \in Govs /\ n \in 1 .. Len(headers) /\ n % Epoch = 0 /\ governances[n] = headers[n].gov
          /\ n <= last /\ governances[n][p] # None
      BY KnownRatifications
    <3>2. n <= start /\ n \in Nat /\ n > 0
      BY <1>2, <3>1, EpochType DEF Numbers
    <3>3. InEffect(n, num)
      BY <1>0, <1>1, <3>1, <3>2, EffectIsPrevEpoch
    <3>4. n <= head
      BY <1>0, <3>2, <3>3, EpochType DEF InEffect
    <3>5. n \in 1 .. head
      BY <1>0, <3>2, <3>4
    <3> QED  BY <1>4, <3>1, <3>3, <3>5
  <2>2. ASSUME NEW k \in ref PROVE k \in known
    <3>1. k \in 1 .. head /\ InEffect(k, num) /\ headers[k].gov[p] # None
      BY <1>4
    <3>2. headers[k].gov # Empty
      BY <3>1 DEF Empty
    <3>3. k % Epoch = 0 /\ (k \in Govs \/ (post.pc # "none" /\ k = head))
      BY <3>1, <3>2, KnownRatifications
    <3>4. ~ (post.pc # "none" /\ k = head)
      <4>1. k + Epoch <= num
        BY <1>0, <3>1, EpochType DEF InEffect
      <4> QED  BY <1>0, <4>1, EpochType
    <3>5. k \in Nat /\ k > 0
      BY <1>0, <3>1
    <3>6. k <= start
      BY <1>0, <1>1, <3>1, <3>3, <3>5, EffectIsPrevEpoch
    <3>7. k \in Govs /\ k <= last /\ governances[k] = headers[k].gov
      BY <1>2, <3>3, <3>4, <3>6, KnownRatifications
    <3> QED  BY <3>1, <3>7
  <2>3. known = ref
    BY <2>1, <2>2
  <2>4. HistoryAt(last)[p] = IF known = {} THEN Default[p] ELSE governances[Max(known)][p]
    BY DEF HistoryAt
  <2>5. RefParams(hdrs, num)[p] = IF ref = {} THEN Default[p] ELSE hdrs[Max(ref)].gov[p]
    BY DEF RefParams
  <2>6. CASE known # {}
    <3>1. known \subseteq 0 .. MaxBlock
      BY DEF Govs, Numbers
    <3>2. Max(known) \in known
      <4> HIDE DEF known
      <4> QED  BY <2>6, <3>1, MaxIs, EpochType
    <3>3. Max(known) \in Govs /\ Max(known) \in 1 .. head
      BY <1>4, <2>1, <3>2
    <3>4. governances[Max(known)] = hdrs[Max(known)].gov
      <4> HIDE DEF known
      <4> QED  BY <1>4, <3>3, KnownRatifications
    <3> HIDE DEF known, ref
    <3> QED  BY <2>3, <2>4, <2>5, <2>6, <3>4
  <2>7. CASE known = {}
    <3> HIDE DEF known, ref
    <3> QED  BY <2>3, <2>4, <2>5, <2>7
  <2> QED  BY <2>6, <2>7
<1>6. HistoryAt(last) = RefParams(hdrs, num)
  BY <1>5 DEF HistoryAt, RefParams
<1> QED  BY <1>2, <1>3, <1>6

\* In every epoch longer than a block, the parameters of each block up to the next are
\* those that the headers determine, whatever the start, the scan, SetHead and crashes
\* have done to the records, and though the hook of the newest block may not have run.
THEOREM ParametersFollowHeaders ==
    ASSUME ~ RewindAnywhere, Epoch > 1
    PROVE  Spec => []ParamsFollowHeaders
<1>1. GovInv => ParamsFollowHeaders
  BY Parameters DEF ParamsFollowHeaders
<1> QED  BY <1>1, GovInvariance, PTL

-----------------------------------------------------------------------------
(* The headers that a node accepts *)

\* Two records with the same governance votes have the same ratification.
LEMMA SameRatified ==
    ASSUME NEW b \in Nat, NEW blocks, blocks \subseteq 0 .. b, NEW voteOf, NEW ref,
           0 \in blocks => voteOf[0] = None,
           \A n \in blocks \ {0} : \A p \in Names :
              /\ (voteOf[n] # None /\ voteOf[n].name = p) <=> (ref[n] # None /\ ref[n].name = p)
              /\ (voteOf[n] # None /\ voteOf[n].name = p) => voteOf[n] = ref[n]
    PROVE  Ratified(voteOf, blocks) = Ratified(ref, blocks \ {0})
<1>1. ASSUME NEW p \in Names PROVE Ratified(voteOf, blocks)[p] = Ratified(ref, blocks \ {0})[p]
  <2> DEFINE nums == {n \in blocks : voteOf[n] # None /\ voteOf[n].name = p}
             refs == {n \in blocks \ {0} : ref[n] # None /\ ref[n].name = p}
  <2>1. nums = refs
    OBVIOUS
  <2>2. Ratified(voteOf, blocks)[p] = IF nums = {} THEN None ELSE voteOf[Max(nums)].value
    BY DEF Ratified
  <2>3. Ratified(ref, blocks \ {0})[p] = IF refs = {} THEN None ELSE ref[Max(refs)].value
    BY DEF Ratified
  <2>4. nums \subseteq 0 .. b
    OBVIOUS
  <2>5. CASE nums # {}
    <3>1. Max(nums) \in nums
      <4> HIDE DEF nums
      <4> QED  BY <2>4, <2>5, MaxIs
    <3>2. \A n \in nums : voteOf[n] = ref[n]
      BY <2>1
    <3> HIDE DEF nums, refs
    <3> QED  BY <2>1, <2>2, <2>3, <2>5, <3>1, <3>2
  <2>6. CASE nums = {}
    <3> HIDE DEF nums, refs
    <3> QED  BY <2>1, <2>2, <2>3, <2>6
  <2> QED  BY <2>5, <2>6
<1> QED  BY <1>1 DEF Ratified

\* The votes of an epoch that getVotesInEpoch returns are those of the headers.
LEMMA KnownVotes ==
    ASSUME GovInv, Settled, NEW idx \in Nat
    PROVE  /\ getVotesInEpoch(idx)[0] = None
           /\ \A n \in 1 .. head : n \in EpochBlocks(idx) => getVotesInEpoch(idx)[n] = HeaderVote(n)
<1>0. /\ ChainType /\ MemoryType /\ DbType /\ RecordsSound /\ VotesSound /\ RecordsComplete
      /\ ctl.pc = "up" /\ post.pc = "none" /\ missed = {}
  BY TypeParts, SoundParts DEF GovInv, Settled
<1>1. /\ Loaded /\ ~ Deleting /\ border \in Nat /\ border # None
      /\ head \in Nat /\ head <= Len(headers) /\ Len(headers) \in Nat
  <2>1. Loaded /\ ~ Deleting
    BY <1>0 DEF Loaded, Deleting
  <2>2. border # None
    BY <2>1 DEF GovInv, Control
  <2>3. border \in Nat
    <3>1. border \in Numbers
      BY <1>0, <2>2 DEF DbType
    <3> QED  BY <3>1, EpochType DEF Numbers
  <2>4. head \in Nat /\ head <= Len(headers) /\ Len(headers) \in Nat
    BY <1>0, ChainFacts
  <2> QED  BY <2>1, <2>2, <2>3, <2>4
<1>2. CASE ~ (border <= idx)
  <2>1. getVotesInEpoch(idx) = scanAllVotesInEpoch(idx)
    BY <1>2 DEF getVotesInEpoch
  <2>2. ASSUME NEW n \in 1 .. head, n \in EpochBlocks(idx)
        PROVE  scanAllVotesInEpoch(idx)[n] = HeaderVote(n)
    <3>1. n \in 1 .. Len(headers)
      BY <1>1
    <3>2. n \in Numbers
      BY <1>0, <3>1, ChainFacts
    <3> QED  BY <2>2, <3>2 DEF scanAllVotesInEpoch
  <2> QED  BY <1>0, <2>1, <2>2, ScanType
<1>3. CASE border <= idx
  <2>1. getVotesInEpoch(idx) = groupedVotes
    BY <1>3 DEF getVotesInEpoch
  <2>2. ASSUME NEW n \in 1 .. head, n \in EpochBlocks(idx)
        PROVE  groupedVotes[n] = HeaderVote(n)
    <3>1. n \in Numbers /\ n \in Nat /\ n \in 1 .. Len(headers)
      <4>1. n \in Nat /\ n \in 1 .. Len(headers)
        BY <1>1
      <4> QED  BY <1>0, <4>1, ChainFacts
    <3>2. CASE n \in voteNums
      <4>1. HeaderVote(n) # None /\ groupedVotes[n] # None
        BY <1>0, <1>1, <3>2, NothingAbove DEF VotesSound, Recorded
      <4>2. groupedVotes[n] = headers[n].vote
        BY <1>0, <3>1, <4>1 DEF VotesSound
      <4> QED  BY <4>1, <4>2 DEF HeaderVote
    <3>3. CASE n \notin voteNums
      <4>1. groupedVotes[n] = None
        BY <1>0, <3>1, <3>3 DEF VotesSound, Recorded
      <4>2. calcEpochIdx(n) = idx
        BY <2>2, <3>1, InEpoch
      <4>3. Scanned(n)
        BY <1>1, <1>3, <4>2 DEF Scanned
      <4>4. HeaderVote(n) = None
        BY <1>0, <3>3, <4>3 DEF RecordsComplete, VoteRecorded, Unhooked
      <4> QED  BY <4>1, <4>4
    <3> QED  BY <3>2, <3>3
  <2> QED  BY <1>0, <2>1, <2>2 DEF MemoryType
<1> QED  BY <1>2, <1>3

LEMMA ExpectedGovernance ==
    ASSUME GovInv, Settled, (head + 1) % Epoch = 0
    PROVE  getExpectedGovernance(head + 1) = RefGov(SubSeq(headers, 1, head), head + 1)
<1>0. ChainType /\ head \in Nat /\ head \in 0 .. Len(headers) /\ Len(headers) \in Nat
  <2>1. ChainType
    BY TypeParts DEF GovInv
  <2>2. head \in Nat /\ head <= Len(headers) /\ Len(headers) \in Nat
    BY <2>1, ChainFacts
  <2> QED  BY <2>1, <2>2
<1>1. PICK num \in Nat : num = head + 1 /\ num > 0 /\ num - 1 = head
  BY <1>0
<1>2. PICK idx \in Nat : idx = calcEpochIdx(num) - 1 /\ EpochBlocks(idx) \subseteq 0 .. head
  BY <1>1, EpochBefore
<1>3. PICK hdrs : hdrs = SubSeq(headers, 1, head)
  OBVIOUS
<1>4. Len(hdrs) = head /\ \A n \in 1 .. head : hdrs[n] = headers[n]
  BY <1>0, <1>3, Prefix
<1>5. PICK ref : ref = [n \in 1 .. head |-> headers[n].vote]
  OBVIOUS
<1>6. PICK blocks : blocks = EpochBlocks(idx)
  OBVIOUS
<1>7. PICK voteOf : voteOf = getVotesInEpoch(idx)
  OBVIOUS
<1>8. RefGov(hdrs, num) = Ratified(ref, blocks \ {0})
  <2>1. ref = [n \in 1 .. Len(hdrs) |-> hdrs[n].vote]
    BY <1>4, <1>5
  <2> QED  BY <1>1, <1>2, <1>6, <2>1 DEF RefGov
<1>9. getExpectedGovernance(num) = Ratified(voteOf, blocks)
  BY <1>2, <1>6, <1>7 DEF getExpectedGovernance
<1>10. voteOf[0] = None
  BY <1>7, KnownVotes
<1>11. ASSUME NEW n \in blocks \ {0}, NEW p \in Names
       PROVE  /\ (voteOf[n] # None /\ voteOf[n].name = p) <=> (ref[n] # None /\ ref[n].name = p)
              /\ (voteOf[n] # None /\ voteOf[n].name = p) => voteOf[n] = ref[n]
  <2>1. n \in 1 .. head /\ n \in EpochBlocks(idx)
    BY <1>0, <1>2, <1>6
  <2>2. voteOf[n] = HeaderVote(n) /\ ref[n] = headers[n].vote
    BY <1>5, <1>7, <2>1, KnownVotes
  <2> QED  BY <2>2 DEF HeaderVote
<1>12. Ratified(voteOf, blocks) = Ratified(ref, blocks \ {0})
  <2>1. head \in Nat /\ blocks \subseteq 0 .. head
    BY <1>0, <1>2, <1>6
  <2> QED  BY <1>10, <1>11, <2>1, SameRatified
<1> QED  BY <1>1, <1>3, <1>8, <1>9, <1>12

\* A node that has lost no hook accepts exactly the headers that the chain allows for
\* the next block: the vote that is consistent with the parameters in effect, and at
\* an epoch block the ratification of the votes of the epoch before, whether the
\* background scan has reached that epoch or not.
THEOREM HonestHeadersAccepted ==
    ASSUME ~ RewindAnywhere
    PROVE  Spec => []AcceptsHonestHeader
<1>1. GovInv => AcceptsHonestHeader
  <2> SUFFICES ASSUME GovInv, Settled, NEW vote \in Votes \cup {None}, NEW hdrs, hdrs = SubSeq(headers, 1, head)
               PROVE  Honest(hdrs, head + 1, vote)
                         <=> VerifyHeader(head + 1, [vote |-> vote, gov |-> RefGov(hdrs, head + 1)])
    BY DEF AcceptsHonestHeader
  <2>1. ctl.pc = "up" /\ post.pc = "none" /\ missed = {}
    BY DEF Settled
  <2>2. GetParamSet(head + 1) = RefParams(hdrs, head + 1)
    <3>1. ChainType
      BY TypeParts DEF GovInv
    <3>2. head + 1 \in 0 .. head + 1
      BY <3>1, ChainFacts
    <3> QED  BY <2>1, <3>2, Parameters
  <2>3. VerifyVote(head + 1, vote) <=> Honest(hdrs, head + 1, vote)
    BY <2>2 DEF VerifyVote, checkConsistency, Honest
  <2>4. VerifyGov(head + 1, RefGov(hdrs, head + 1))
    <3>1. CASE (head + 1) % Epoch = 0
      BY <3>1, ExpectedGovernance DEF VerifyGov
    <3>2. CASE (head + 1) % Epoch # 0
      BY <3>2 DEF VerifyGov, RefGov
    <3> QED  BY <3>1, <3>2
  <2> QED  BY <2>3, <2>4 DEF VerifyHeader
<1> QED  BY <1>1, GovInvariance, PTL

=============================================================================
