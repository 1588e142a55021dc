------------------------ MODULE ValsetCouncilLemmas -------------------------
(***************************************************************************)
(* Lemmas about the operators of ValsetCouncil: the council as a function  *)
(* of the votes, checkpoints, what regenerating a council returns and      *)
(* leaves behind; the inductive invariant and what it says about the       *)
(* answers of the database and the snapshots; and that starting, crashing  *)
(* and migrating keep it.                                                  *)
(***************************************************************************)
EXTENDS ValsetCouncil, FiniteSetTheorems, WellFoundedInduction, TLAPS

-----------------------------------------------------------------------------
(* Numbers *)

LEMMA LeastNatural ==
    ASSUME NEW T, T \subseteq Nat, T # {}
    PROVE  \E x \in T : \A y \in T : x <= y
<1> DEFINE R == {ss \in Nat \X Nat : ss[1] < ss[2]}
<1>1. IsWellFoundedOn(R, Nat)
  BY NatLessThanWellFounded DEF OpToRel
<1> HIDE DEF R
<1>2. PICK x \in T : \A y \in T : ~ (<<y, x>> \in R)
  BY <1>1, WFMin, Zenon
<1>3. ASSUME NEW y \in T PROVE x <= y
  <2>1. ~ (<<y, x>> \in R) /\ <<y, x>> \in Nat \X Nat /\ x \in Nat /\ y \in Nat
    BY <1>2
  <2>2. ~ (y < x)
    BY <2>1 DEF R
  <2> QED  BY <2>1, <2>2
<1> QED  BY <1>2, <1>3

LEMMA MinIs ==
    ASSUME NEW S, S \subseteq Nat, S # {}
    PROVE  Min(S) \in S /\ \A y \in S : Min(S) <= y
<1>1. \E x \in S : \A y \in S : x <= y
  BY LeastNatural, Zenon
<1> QED  BY <1>1, Zenon DEF Min

LEMMA MaxIs ==
    ASSUME NEW S, NEW b \in Nat, S \subseteq 0 .. b, S # {}
    PROVE  Max(S) \in S /\ \A y \in S : Max(S) >= y
<1> DEFINE T == {n \in 0 .. b : b - n \in S}
<1>1. PICK s \in S : TRUE
  BY Zenon
<1>2. s \in 0 .. b /\ b - s \in 0 .. b /\ b - (b - s) = s
  BY <1>1
<1>3. PICK x \in T : \A y \in T : x <= y
  <2>1. b - s \in T
    BY <1>1, <1>2
  <2>2. T \subseteq Nat
    OBVIOUS
  <2> HIDE DEF T
  <2> QED  BY <2>1, <2>2, LeastNatural, Zenon
<1>4. ASSUME NEW y \in S PROVE b - x >= y
  <2>1. y \in 0 .. b /\ b - y \in 0 .. b /\ b - (b - y) = y
    OBVIOUS
  <2>2. b - y \in T
    BY <2>1
  <2>3. x <= b - y /\ x \in 0 .. b
    BY <1>3, <2>2
  <2> QED  BY <2>1, <2>3
<1>5. b - x \in S
  BY <1>3
<1> QED  BY <1>4, <1>5, Zenon DEF Max


\* Induction from a to b, for a property given as a set of numbers.
LEMMA RangeInduction ==
    ASSUME NEW S, NEW a \in Nat, NEW b \in Nat, a \in S,
           \A n \in a .. b : n \in S /\ n < b => n + 1 \in S
    PROVE  \A n \in a .. b : n \in S
<1> DEFINE T == {n \in a .. b : n \notin S}
<1>1. SUFFICES ASSUME T # {} PROVE FALSE
  OBVIOUS
<1>2. T \subseteq Nat
  OBVIOUS
<1>3. PICK x \in T : \A y \in T : x <= y
  <2> HIDE DEF T
  <2> QED  BY <1>1, <1>2, LeastNatural, Zenon
<1>4. x \in a .. b /\ x \notin S /\ x # a
  OBVIOUS
<1>5. x - 1 \in a .. b /\ x - 1 < b /\ (x - 1) + 1 = x
  BY <1>4
<1>6. x - 1 \notin T
  BY <1>3, <1>4, <1>5
<1> QED  BY <1>4, <1>5, <1>6

-----------------------------------------------------------------------------
(* Votes and councils *)

LEMMA Bounds ==
    /\ MaxBlock \in Nat /\ QueryDepth \in Nat /\ MaxLoss \in Nat /\ MaxCrashes \in Nat
    /\ Interval \in Nat /\ Interval >= 1
  BY NumbersAssumption

LEMMA VoteType ==
    ASSUME NEW vote \in Votes, NEW council \in SUBSET Validators
    PROVE  /\ applyVote(vote, council) \in SUBSET Validators
           /\ applyVote(vote, applyVote(vote, council)) = applyVote(vote, council)
           /\ GoverningNode \in council => GoverningNode \in applyVote(vote, council)
<1>1. vote.addresses \subseteq Validators
  BY DEF Votes, NoVote
<1> QED  BY <1>1 DEF applyVote

LEMMA NoVoteApplied ==
    ASSUME NEW council
    PROVE  applyVote(NoVote, council) = council
  BY DEF applyVote, NoVote

\* Scan and CouncilOf for the votes f.
ScanOf(f, base, from, to) ==
    LET c[n \in from - 1 .. to] ==
            IF n = from - 1 THEN base ELSE applyVote(f[n], c[n - 1])
    IN  c

CouncilAt(f, n) == IF n = 0 THEN Genesis ELSE ScanOf(f, Genesis, 1, n - 1)[n - 1]

LEMMA ScanIs ==
    ASSUME NEW base, NEW from, NEW to
    PROVE  Scan(base, from, to) = ScanOf(votes, base, from, to)
  BY DEF Scan, ScanOf

LEMMA CouncilIs ==
    ASSUME NEW n
    PROVE  /\ CouncilOf(n) = CouncilAt(votes, n)
           /\ CouncilOf(n)' = CouncilAt(votes', n)
  BY DEF CouncilOf, CouncilAt, Scan, ScanOf

\* What a function that solves the recursion is.
Solves(c, f, base, a, b) ==
    c = [n \in a .. b |-> IF n = a THEN base ELSE applyVote(f[n], c[n - 1])]

LEMMA ScanExists ==
    ASSUME NEW f, NEW base, NEW a \in Nat, NEW b \in Nat, a <= b
    PROVE  \E c : Solves(c, f, base, a, b)
<1> DEFINE S == {n \in a .. b : \E c : Solves(c, f, base, a, n)}
<1>1. a \in S
  <2>1. Solves([n \in a .. a |-> base], f, base, a, a)
    BY DEF Solves
  <2> QED  BY <2>1
<1>2. ASSUME NEW m \in a .. b, m \in S, m < b
      PROVE  m + 1 \in S
  <2>1. PICK c : Solves(c, f, base, a, m)
    BY <1>2
  <2> DEFINE d == [n \in a .. m + 1 |-> IF n = m + 1 THEN applyVote(f[n], c[m]) ELSE c[n]]
  <2>2. \A n \in a .. m : c[n] = IF n = a THEN base ELSE applyVote(f[n], c[n - 1])
    BY <2>1 DEF Solves
  <2>3. ASSUME NEW n \in a .. m + 1
        PROVE  d[n] = IF n = a THEN base ELSE applyVote(f[n], d[n - 1])
    <3>1. CASE n = m + 1
      <4>1. n # a /\ n - 1 = m /\ m \in a .. m + 1 /\ m # m + 1
        BY <1>2, <3>1
      <4>2. d[n - 1] = c[m] /\ d[n] = applyVote(f[n], c[m])
        BY <3>1, <4>1
      <4> QED  BY <4>1, <4>2
    <3>2. CASE n # m + 1
      <4>1. n \in a .. m /\ d[n] = c[n]
        BY <3>2
      <4>2. CASE n = a
        BY <2>2, <4>1, <4>2
      <4>3. CASE n # a
        <5>1. n - 1 \in a .. m + 1 /\ n - 1 # m + 1 /\ d[n - 1] = c[n - 1]
          BY <4>1, <4>3
        <5> QED  BY <2>2, <4>1, <4>3, <5>1
      <4> QED  BY <4>2, <4>3
    <3> QED  BY <3>1, <3>2
  <2>4. Solves(d, f, base, a, m + 1)
    <3>1. d = [n \in a .. m + 1 |-> d[n]]
      OBVIOUS
    <3> HIDE DEF d
    <3> QED  BY <2>3, <3>1, Zenon DEF Solves
  <2>5. m + 1 \in a .. b
    BY <1>2
  <2> QED  BY <2>4, <2>5
<1>3. \A n \in a .. b : n \in S
  <2> HIDE DEF S
  <2> QED  BY <1>1, <1>2, RangeInduction
<1>4. b \in a .. b
  OBVIOUS
<1> QED  BY <1>3, <1>4

LEMMA ScanSolves ==
    ASSUME NEW f, NEW base, NEW from \in Nat \ {0}, NEW to \in Nat, from - 1 <= to
    PROVE  Solves(ScanOf(f, base, from, to), f, base, from - 1, to)
<1>1. \E c : Solves(c, f, base, from - 1, to)
  BY ScanExists
<1>2. ScanOf(f, base, from, to) = CHOOSE c : Solves(c, f, base, from - 1, to)
  BY DEF ScanOf, Solves
<1> QED  BY <1>1, <1>2

LEMMA ScanStep ==
    ASSUME NEW f, NEW base, NEW from \in Nat \ {0}, NEW to \in Nat, from - 1 <= to
    PROVE  /\ ScanOf(f, base, from, to)[from - 1] = base
           /\ \A n \in from .. to :
                ScanOf(f, base, from, to)[n] = applyVote(f[n], ScanOf(f, base, from, to)[n - 1])
<1> DEFINE c == ScanOf(f, base, from, to)
<1>1. c = [n \in from - 1 .. to |-> IF n = from - 1 THEN base ELSE applyVote(f[n], c[n - 1])]
  BY ScanSolves DEF Solves
<1> HIDE DEF c
<1>2. c[from - 1] = base
  BY <1>1
<1>3. ASSUME NEW n \in from .. to PROVE c[n] = applyVote(f[n], c[n - 1])
  <2>1. n \in from - 1 .. to /\ n # from - 1
    OBVIOUS
  <2> QED  BY <1>1, <2>1
<1> QED  BY <1>2, <1>3 DEF c

\* A scan does not depend on how far it goes.
LEMMA ScanPrefix ==
    ASSUME NEW f, NEW base, NEW from \in Nat \ {0},
           NEW b \in Nat, NEW t \in Nat, NEW u \in Nat, from - 1 <= b, b <= t, b <= u
    PROVE  ScanOf(f, base, from, t)[b] = ScanOf(f, base, from, u)[b]
<1> DEFINE c == ScanOf(f, base, from, t)
           d == ScanOf(f, base, from, u)
           S == {n \in from - 1 .. b : c[n] = d[n]}
<1>1. /\ c[from - 1] = base /\ d[from - 1] = base
      /\ \A n \in from .. t : c[n] = applyVote(f[n], c[n - 1])
      /\ \A n \in from .. u : d[n] = applyVote(f[n], d[n - 1])
  <2>1. from - 1 <= t /\ from - 1 <= u
    OBVIOUS
  <2> QED  BY <2>1, ScanStep
<1> HIDE DEF c, d
<1>2. from - 1 \in S
  BY <1>1
<1>3. ASSUME NEW n \in from - 1 .. b, n \in S, n < b PROVE n + 1 \in S
  <2>1. n + 1 \in from .. b /\ n + 1 \in from .. t /\ n + 1 \in from .. u /\ n + 1 \in from - 1 .. b
        /\ (n + 1) - 1 = n
    BY <1>3
  <2>2. c[n + 1] = applyVote(f[n + 1], c[n]) /\ d[n + 1] = applyVote(f[n + 1], d[n])
    BY <1>1, <2>1
  <2>3. c[n] = d[n]
    BY <1>3, <2>1
  <2> QED  BY <2>1, <2>2, <2>3
<1>4. \A n \in from - 1 .. b : n \in S
  <2> HIDE DEF S
  <2>1. from - 1 \in Nat
    OBVIOUS
  <2> QED  BY <1>2, <1>3, <2>1, RangeInduction
<1> QED  BY <1>4 DEF c, d

LEMMA CouncilFirst ==
    ASSUME NEW f
    PROVE  CouncilAt(f, 0) = Genesis /\ CouncilAt(f, 1) = Genesis
<1>1. ScanOf(f, Genesis, 1, 0)[0] = Genesis
  BY ScanStep
<1> QED  BY <1>1 DEF CouncilAt

\* The council of a block is the one of its parent with the parent's vote applied.
LEMMA CouncilStep ==
    ASSUME NEW f, NEW n \in Nat \ {0}
    PROVE  CouncilAt(f, n + 1) = applyVote(f[n], CouncilAt(f, n))
<1>1. ScanOf(f, Genesis, 1, n)[n] = applyVote(f[n], ScanOf(f, Genesis, 1, n)[n - 1])
  BY ScanStep
<1>2. ScanOf(f, Genesis, 1, n)[n - 1] = ScanOf(f, Genesis, 1, n - 1)[n - 1]
  <2>1. PICK from \in Nat \ {0}, b \in Nat : from = 1 /\ b = n - 1
    OBVIOUS
  <2>2. from - 1 <= b /\ b <= n /\ b <= b /\ b \in from - 1 .. b
    BY <2>1
  <2>3. ScanOf(f, Genesis, from, n)[b] = ScanOf(f, Genesis, from, b)[b]
    BY <2>2, ScanPrefix
  <2> QED  BY <2>1, <2>3
<1>3. CouncilAt(f, n + 1) = ScanOf(f, Genesis, 1, n)[n]
  <2>1. n + 1 # 0 /\ (n + 1) - 1 = n
    OBVIOUS
  <2> QED  BY <2>1 DEF CouncilAt
<1>4. CouncilAt(f, n) = ScanOf(f, Genesis, 1, n - 1)[n - 1]
  BY DEF CouncilAt
<1> QED  BY <1>1, <1>2, <1>3, <1>4

\* The council of a block depends on the votes below it only.
LEMMA CouncilAgrees ==
    ASSUME NEW f, NEW g, NEW b \in Nat, \A m \in 1 .. b : f[m] = g[m]
    PROVE  \A n \in 0 .. b + 1 : CouncilAt(f, n) = CouncilAt(g, n)
<1> DEFINE S == {n \in 0 .. b + 1 : CouncilAt(f, n) = CouncilAt(g, n)}
<1>1. 0 \in S /\ 1 \in S
  BY CouncilFirst
<1>2. ASSUME NEW n \in 0 .. b + 1, n \in S, n < b + 1 PROVE n + 1 \in S
  <2>1. CASE n = 0
    BY <1>1, <2>1
  <2>2. CASE n # 0
    <3>1. n \in Nat \ {0} /\ n \in 1 .. b /\ n + 1 \in 0 .. b + 1
      BY <1>2, <2>2
    <3>2. f[n] = g[n] /\ CouncilAt(f, n) = CouncilAt(g, n)
      BY <1>2, <3>1
    <3>3. CouncilAt(f, n + 1) = CouncilAt(g, n + 1)
      BY <3>1, <3>2, CouncilStep
    <3> QED  BY <3>1, <3>3
  <2> QED  BY <2>1, <2>2
<1>3. \A n \in 0 .. b + 1 : n \in S
  <2> HIDE DEF S
  <2>1. b + 1 \in Nat /\ 0 \in Nat
    OBVIOUS
  <2> QED  BY <1>1, <1>2, <2>1, RangeInduction
<1> QED  BY <1>3

LEMMA CouncilType ==
    ASSUME NEW f \in [Blocks -> Votes]
    PROVE  \A n \in Numbers : /\ CouncilAt(f, n) \in SUBSET Validators
                              /\ GoverningNode \in Genesis => GoverningNode \in CouncilAt(f, n)
<1> DEFINE S == {n \in Numbers : /\ CouncilAt(f, n) \in SUBSET Validators
                                 /\ GoverningNode \in Genesis => GoverningNode \in CouncilAt(f, n)}
<1>1. 0 \in S /\ 1 \in S
  BY CouncilFirst, GenesisAssumption, Bounds DEF Numbers
<1>2. ASSUME NEW n \in 0 .. MaxBlock + 1, n \in S, n < MaxBlock + 1 PROVE n + 1 \in S
  <2>1. CASE n = 0
    BY <1>1, <2>1
  <2>2. CASE n # 0
    <3>1. n \in Nat \ {0} /\ n \in Blocks /\ n + 1 \in Numbers
      BY <1>2, <2>2, Bounds DEF Blocks, Numbers
    <3>2. f[n] \in Votes
      BY <3>1
    <3>3. CouncilAt(f, n + 1) = applyVote(f[n], CouncilAt(f, n))
      BY <3>1, CouncilStep
    <3>4. /\ CouncilAt(f, n) \in SUBSET Validators
          /\ GoverningNode \in Genesis => GoverningNode \in CouncilAt(f, n)
      BY <1>2
    <3>5. /\ CouncilAt(f, n + 1) \in SUBSET Validators
          /\ GoverningNode \in Genesis => GoverningNode \in CouncilAt(f, n + 1)
      BY <3>2, <3>3, <3>4, VoteType
    <3> QED  BY <3>1, <3>5
  <2> QED  BY <2>1, <2>2
<1>3. \A n \in 0 .. MaxBlock + 1 : n \in S
  <2> HIDE DEF S
  <2>1. MaxBlock + 1 \in Nat
    BY Bounds
  <2> QED  BY <1>1, <1>2, <2>1, RangeInduction
<1> QED  BY <1>3 DEF Numbers

\* A scan that starts from the right council goes through the right councils.
LEMMA ScanCouncil ==
    ASSUME NEW f, NEW base, NEW from \in Nat \ {0}, NEW to \in Nat, from - 1 <= to,
           base = CouncilAt(f, from)
    PROVE  \A n \in from - 1 .. to : ScanOf(f, base, from, to)[n] = CouncilAt(f, n + 1)
<1> DEFINE c == ScanOf(f, base, from, to)
           S == {n \in from - 1 .. to : c[n] = CouncilAt(f, n + 1)}
<1>1. /\ c[from - 1] = base
      /\ \A n \in from .. to : c[n] = applyVote(f[n], c[n - 1])
  BY ScanStep
<1> HIDE DEF c
<1>2. from - 1 \in S
  <2>1. (from - 1) + 1 = from /\ from - 1 \in from - 1 .. to
    OBVIOUS
  <2> QED  BY <1>1, <2>1
<1>3. ASSUME NEW n \in from - 1 .. to, n \in S, n < to PROVE n + 1 \in S
  <2>1. n + 1 \in from .. to /\ n + 1 \in from - 1 .. to /\ (n + 1) - 1 = n /\ n + 1 \in Nat \ {0}
    BY <1>3
  <2>2. c[n + 1] = applyVote(f[n + 1], c[n]) /\ c[n] = CouncilAt(f, n + 1)
    BY <1>1, <1>3, <2>1
  <2>3. CouncilAt(f, (n + 1) + 1) = applyVote(f[n + 1], CouncilAt(f, n + 1))
    BY <2>1, CouncilStep
  <2> QED  BY <2>1, <2>2, <2>3
<1>4. \A n \in from - 1 .. to : n \in S
  <2> HIDE DEF S
  <2>1. from - 1 \in Nat
    OBVIOUS
  <2> QED  BY <1>2, <1>3, <2>1, RangeInduction
<1> QED  BY <1>4 DEF c

\* A council stays the same where no vote changes it.
LEMMA CouncilConstant ==
    ASSUME NEW f, NEW a \in Nat, NEW b \in Nat, a <= b,
           \A n \in a .. b : n < b => CouncilAt(f, n + 1) = CouncilAt(f, n)
    PROVE  CouncilAt(f, b) = CouncilAt(f, a)
<1> DEFINE S == {n \in a .. b : CouncilAt(f, n) = CouncilAt(f, a)}
<1>1. a \in S
  OBVIOUS
<1>2. ASSUME NEW n \in a .. b, n \in S, n < b PROVE n + 1 \in S
  <2>1. CouncilAt(f, n + 1) = CouncilAt(f, n) /\ n + 1 \in a .. b
    BY <1>2
  <2> QED  BY <1>2, <2>1
<1>3. \A n \in a .. b : n \in S
  <2> HIDE DEF S
  <2> QED  BY <1>1, <1>2, RangeInduction
<1> QED  BY <1>3

-----------------------------------------------------------------------------
(* Checkpoints *)

LEMMA Max2 ==
    ASSUME NEW a \in Nat, NEW b \in Nat
    PROVE  Max({a, b}) = IF a < b THEN b ELSE a
<1>1. Max({a, b}) \in {a, b} /\ \A y \in {a, b} : Max({a, b}) >= y
  <2>1. a + b \in Nat /\ {a, b} \subseteq 0 .. a + b /\ {a, b} # {}
    OBVIOUS
  <2> QED  BY <2>1, MaxIs, Zenon
<1> QED  BY <1>1

LEMMA Min2 ==
    ASSUME NEW a \in Nat, NEW b \in Nat
    PROVE  Min({a, b}) = IF a < b THEN a ELSE b
<1>1. Min({a, b}) \in {a, b} /\ \A y \in {a, b} : Min({a, b}) <= y
  <2>1. {a, b} \subseteq Nat /\ {a, b} # {}
    OBVIOUS
  <2> QED  BY <2>1, MinIs
<1> QED  BY <1>1

LEMMA DivMod ==
    ASSUME NEW n \in Nat
    PROVE  \E q \in Nat : /\ n = Interval * q + (n % Interval)
                          /\ n % Interval \in 0 .. Interval - 1
<1>1. Interval \in Nat /\ Interval > 0
  BY Bounds
<1>2. n \div Interval \in Nat /\ n = Interval * (n \div Interval) + (n % Interval)
      /\ n % Interval \in 0 .. Interval - 1
  BY <1>1
<1> QED  BY <1>2

LEMMA MultiplesGrow ==
    ASSUME NEW p \in Nat, NEW q \in Nat, p < q
    PROVE  Interval * p + Interval <= Interval * q
<1>1. p + 1 <= q /\ Interval \in Nat
  BY Bounds
<1>2. Interval * (p + 1) <= Interval * q
  BY <1>1
<1>3. Interval * (p + 1) = Interval * p + Interval
  BY <1>1
<1> QED  BY <1>2, <1>3

LEMMA MultipleMod ==
    ASSUME NEW q \in Nat
    PROVE  Interval * q \in Nat /\ (Interval * q) % Interval = 0
<1>1. PICK z \in Nat : z = Interval * q
  BY Bounds
<1>2. PICK p \in Nat, r \in 0 .. Interval - 1 : z = Interval * p + r /\ r = z % Interval
  BY DivMod
<1>3. Interval * p \in Nat /\ Interval \in Nat
  BY Bounds
<1>4. ~ (p < q)
  <2>1. SUFFICES ASSUME p < q PROVE FALSE
    OBVIOUS
  <2>2. Interval * p + Interval <= z
    BY <1>1, <2>1, MultiplesGrow
  <2> QED  BY <1>2, <1>3, <2>2
<1>5. ~ (q < p)
  <2>1. SUFFICES ASSUME q < p PROVE FALSE
    OBVIOUS
  <2>2. z + Interval <= Interval * p
    BY <1>1, <2>1, MultiplesGrow
  <2> QED  BY <1>2, <1>3, <2>2, Bounds
<1>6. p = q
  BY <1>4, <1>5
<1>7. r = 0
  BY <1>1, <1>2, <1>3, <1>6
<1> QED  BY <1>1, <1>2, <1>7

\* roundDown goes to the last checkpoint.
LEMMA RoundDown ==
    ASSUME NEW n \in Nat
    PROVE  /\ roundDown(n, Interval) \in 0 .. n
           /\ roundDown(n, Interval) % Interval = 0
           /\ \A a \in 0 .. n : a % Interval = 0 => a <= roundDown(n, Interval)
<1>1. PICK q \in Nat, r \in 0 .. Interval - 1 : n = Interval * q + r /\ r = n % Interval
  BY DivMod
<1>2. PICK z \in Nat : z = Interval * q /\ z % Interval = 0
  BY MultipleMod
<1>3. roundDown(n, Interval) = z /\ z <= n
  BY <1>1, <1>2 DEF roundDown
<1>4. ASSUME NEW a \in 0 .. n, a % Interval = 0 PROVE a <= z
  <2>1. PICK p \in Nat : a = Interval * p
    <3>1. PICK p \in Nat : a = Interval * p + (a % Interval)
      BY DivMod
    <3>2. Interval * p \in Nat
      BY Bounds
    <3> QED  BY <1>4, <3>1, <3>2
  <2>2. SUFFICES ASSUME q < p PROVE FALSE
    <3>1. CASE p = q
      BY <1>2, <2>1, <3>1
    <3>2. CASE p < q
      <4>1. a + Interval <= z
        BY <1>2, <2>1, <3>2, MultiplesGrow
      <4> QED  BY <4>1, Bounds
    <3> QED  BY <3>1, <3>2
  <2>3. z + Interval <= a
    BY <1>2, <2>1, <2>2, MultiplesGrow
  <2>4. n = z + r
    BY <1>1, <1>2
  <2> QED  BY <2>3, <2>4, Bounds
<1> QED  BY <1>2, <1>3, <1>4

LEMMA SnapshotNum ==
    ASSUME NEW t \in Nat \ {0}
    PROVE  snapshotNum(t) \in 0 .. t - 1 /\ snapshotNum(t) % Interval = 0
<1>1. t - 1 \in Nat
  OBVIOUS
<1> QED  BY <1>1, RoundDown DEF snapshotNum

\* There is always an object that the cache does not refer to.
LEMMA FreeRefIsFree ==
    ASSUME cache \in [Numbers -> Numbers \cup {None}], cache[0] = None
    PROVE  FreeRef \in Numbers /\ \A n \in Numbers : cache[n] # FreeRef
<1> DEFINE Free == {r \in Numbers : \A n \in Numbers : cache[n] # r}
           T    == 1 .. MaxBlock + 1
<1>1. Free # {}
  <2>1. SUFFICES ASSUME Free = {} PROVE FALSE
    OBVIOUS
  <2> DEFINE f == [r \in Numbers |-> CHOOSE n \in T : cache[n] = r]
  <2>2. ASSUME NEW r \in Numbers PROVE f[r] \in T /\ cache[f[r]] = r
    <3>1. PICK n \in Numbers : cache[n] = r
      BY <2>1
    <3>2. n # 0
      <4>1. r \in Nat
        BY Bounds DEF Numbers
      <4> QED  BY <3>1, <4>1, NoneAssumption
    <3>3. n \in T
      BY <3>2, Bounds DEF Numbers
    <3> QED  BY <3>1, <3>3
  <2>3. f \in [Numbers -> T]
    BY <2>2
  <2>4. /\ IsFiniteSet(Numbers) /\ Cardinality(Numbers) = MaxBlock + 2
        /\ IsFiniteSet(T) /\ Cardinality(T) = MaxBlock + 1
    <3>1. 0 \in Int /\ 1 \in Int /\ MaxBlock + 1 \in Int /\ ~ (0 > MaxBlock + 1)
          /\ ~ (1 > MaxBlock + 1) /\ MaxBlock + 1 - 0 + 1 = MaxBlock + 2
          /\ MaxBlock + 1 - 1 + 1 = MaxBlock + 1
      BY Bounds
    <3> QED  BY <3>1, FS_Interval DEF Numbers
  <2>5. Cardinality(T) < Cardinality(Numbers)
    BY <2>4, Bounds
  <2> HIDE DEF f, T
  <2>6. PICK x \in Numbers, y \in Numbers : x # y /\ f[x] = f[y]
    BY <2>3, <2>4, <2>5, FS_PigeonHole
  <2> QED  BY <2>2, <2>6
<1>2. Free \subseteq Nat
  BY Bounds DEF Numbers
<1>3. FreeRef = Min(Free)
  BY DEF FreeRef
<1> HIDE DEF Free
<1>4. FreeRef \in Free
  BY <1>1, <1>2, <1>3, MinIs, Zenon
<1> QED  BY <1>4 DEF Free

-----------------------------------------------------------------------------
(* What regenerating a council does *)

\* The vote in block n changes the council.
Changed(n) == CouncilOf(n + 1) # CouncilOf(n)

\* getCouncilFromIstanbulSnapshot for a reader, and for the migration.
ReadCouncil(t)  == Regenerate(t, FALSE)
ScanInterval(t) == Regenerate(t, TRUE)

\* From a cached council of the parent: one vote is applied to the shared object.
LEMMA RegenerateHit ==
    ASSUME NEW t \in Nat, t >= 2, headers \in Nat, t - 1 <= headers,
           cache[t - 1] # None, heap[cache[t - 1]] # None,
           NEW d, d = applyVote(votes[t - 1], heap[cache[t - 1]])
    PROVE  /\ ReadCouncil(t).ok
           /\ ReadCouncil(t).council = d
           /\ ReadCouncil(t).cache = [cache EXCEPT ![t] = cache[t - 1]]
           /\ ReadCouncil(t).heap = [heap EXCEPT ![cache[t - 1]] = d]
<1>1. PICK k \in Nat : k = t - 1 /\ k >= 1
  OBVIOUS
<1>2. k - 1 \in Nat /\ k - 1 <= k /\ k \in k .. k /\ k \in Nat \ {0}
  BY <1>1
<1> DEFINE base == heap[cache[k]]
           c    == Scan(base, k, k)
<1>3. Min({k, headers}) = k
  BY <1>1, Min2
<1>4. Max({k - 1, k}) = k
  BY <1>2, Max2
<1>5. Min({k, k}) = k
  BY <1>1, Min2
<1>6. c[k] = d
  <2>1. \A n \in k .. k : ScanOf(votes, base, k, k)[n]
                          = applyVote(votes[n], ScanOf(votes, base, k, k)[n - 1])
        /\ ScanOf(votes, base, k, k)[k - 1] = base
    BY <1>2, ScanStep
  <2> QED  BY <1>1, <1>2, <2>1, ScanIs
<1>7. cache[k] # None /\ base # None /\ k <= headers
  BY <1>1
<1> DEFINE cs == [n \in Numbers |-> IF n \in {} THEN c[n] ELSE councils[n]]
           ca == [cache EXCEPT ![t] = cache[k]]
           he == [heap EXCEPT ![cache[k]] = c[k]]
           nu == nums \cup {}
<1>8. ReadCouncil(t) = [ok |-> TRUE, council |-> c[k], nums |-> nu, councils |-> cs,
                              cache |-> ca, heap |-> he]
  BY <1>1, <1>3, <1>4, <1>5, <1>7, Zenon DEF Regenerate, ReadCouncil
<1>9. ReadCouncil(t).ok /\ ReadCouncil(t).council = c[k]
      /\ ReadCouncil(t).cache = ca /\ ReadCouncil(t).heap = he
  <2> HIDE DEF c, cs, ca, he, nu
  <2> QED  BY <1>8
<1> HIDE DEF c, base
<1> QED  BY <1>1, <1>6, <1>9

\* From a snapshot, without writing.
LEMMA RegenerateRead ==
    ASSUME NEW t \in Nat \ {0}, headers \in Nat, t - 1 <= headers,
           cache[t - 1] = None, NEW s, s = snapshotNum(t),
           getValidIstanbulSnapshotBefore(s) = CouncilOf(s + 1), CouncilOf(s + 1) # None
    PROVE  /\ ReadCouncil(t).ok
           /\ ReadCouncil(t).council = CouncilOf(t)
           /\ ReadCouncil(t).cache = [cache EXCEPT ![t] = FreeRef]
           /\ ReadCouncil(t).heap = [heap EXCEPT ![FreeRef] = CouncilOf(t)]
<1>1. PICK k \in Nat : k = t - 1 /\ k + 1 = t
  OBVIOUS
<1>2. s \in Nat /\ s <= k /\ s + 1 \in Nat \ {0} /\ (s + 1) - 1 = s
  BY <1>1, SnapshotNum
<1> DEFINE base == CouncilOf(s + 1)
           c    == Scan(base, s + 1, k)
<1>3. Min({k, headers}) = k /\ Min({k, k}) = k
  BY <1>1, Min2
<1>4. Max({s, k}) = k
  BY <1>2, Max2
<1>5. c[k] = CouncilOf(t)
  <2>1. base = CouncilAt(votes, s + 1)
    BY CouncilIs
  <2>2. (s + 1) - 1 <= k /\ k \in (s + 1) - 1 .. k
    BY <1>2
  <2>3. ScanOf(votes, base, s + 1, k)[k] = CouncilAt(votes, k + 1)
    <3> HIDE DEF base
    <3> QED  BY <1>2, <2>1, <2>2, ScanCouncil
  <2> QED  BY <1>1, <2>3, ScanIs, CouncilIs
<1>6. base # None /\ k <= headers /\ cache[k] = None
  BY <1>1
<1> DEFINE cs == [n \in Numbers |-> IF n \in {} THEN c[n] ELSE councils[n]]
           ca == [cache EXCEPT ![t] = FreeRef]
           he == [heap EXCEPT ![FreeRef] = c[k]]
           nu == nums \cup {}
<1>7. ReadCouncil(t) = [ok |-> TRUE, council |-> c[k], nums |-> nu, councils |-> cs,
                              cache |-> ca, heap |-> he]
  BY <1>1, <1>2, <1>3, <1>4, <1>6, Zenon DEF Regenerate, ReadCouncil
<1>8. ReadCouncil(t).ok /\ ReadCouncil(t).council = c[k]
      /\ ReadCouncil(t).cache = ca /\ ReadCouncil(t).heap = he
  <2> HIDE DEF c, cs, ca, he, nu
  <2> QED  BY <1>7
<1> HIDE DEF c, base
<1> QED  BY <1>5, <1>8

\* The votes that a scan of the blocks after s up to t writes.
Scanned(s, t) == {n \in s + 1 .. t : Changed(n)}
WithScanned(s, t) == [n \in Numbers |-> IF n \in Scanned(s, t) THEN CouncilOf(n + 1) ELSE councils[n]]

\* From a snapshot, with the votes of the interval written.
LEMMA RegenerateWrite ==
    ASSUME NEW t \in Nat \ {0}, headers \in Nat, t <= headers,
           cache[t - 1] = None, NEW s, s = snapshotNum(t),
           getValidIstanbulSnapshotBefore(s) = CouncilOf(s + 1), CouncilOf(s + 1) # None
    PROVE  /\ ScanInterval(t).ok
           /\ ScanInterval(t).nums = nums \cup Scanned(s, t)
           /\ ScanInterval(t).councils = WithScanned(s, t)
           /\ ScanInterval(t).cache = [cache EXCEPT ![t] = FreeRef]
           /\ ScanInterval(t).heap = [heap EXCEPT ![FreeRef] = CouncilOf(t)]
<1>1. PICK k \in Nat : k = t - 1 /\ k + 1 = t
  OBVIOUS
<1>2. s \in Nat /\ s <= k /\ s + 1 \in Nat \ {0} /\ (s + 1) - 1 = s /\ t \in Nat
  BY <1>1, SnapshotNum
<1> DEFINE base  == CouncilOf(s + 1)
           c     == Scan(base, s + 1, t)
           wrote == {n \in s + 1 .. t : c[n] # c[n - 1]}
<1>3. Min({t, headers}) = t /\ Min({k, t}) = k
  BY <1>1, Min2
<1>4. Max({s, t}) = t
  BY <1>1, <1>2, Max2
<1>5. \A n \in s .. t : c[n] = CouncilOf(n + 1)
  <2>1. base = CouncilAt(votes, s + 1)
    BY CouncilIs
  <2>2. (s + 1) - 1 <= t /\ (s + 1) - 1 = s
    BY <1>1, <1>2
  <2>3. \A n \in s .. t : ScanOf(votes, base, s + 1, t)[n] = CouncilAt(votes, n + 1)
    <3> HIDE DEF base
    <3>1. \A n \in (s + 1) - 1 .. t : ScanOf(votes, base, s + 1, t)[n] = CouncilAt(votes, n + 1)
      BY <1>2, <2>1, <2>2, ScanCouncil
    <3> QED  BY <2>2, <3>1
  <2> QED  BY <2>3, ScanIs, CouncilIs
<1>6. base # None /\ t <= headers /\ cache[k] = None
  BY <1>1
<1> DEFINE cs == [n \in Numbers |-> IF n \in wrote THEN c[n] ELSE councils[n]]
           ca == [cache EXCEPT ![t] = FreeRef]
           he == [heap EXCEPT ![FreeRef] = c[k]]
           nu == nums \cup wrote
<1>7. ScanInterval(t) = [ok |-> TRUE, council |-> c[k], nums |-> nu, councils |-> cs,
                             cache |-> ca, heap |-> he]
  BY <1>1, <1>2, <1>3, <1>4, <1>6, ZenonT(30) DEF Regenerate, ScanInterval
<1>8. wrote = Scanned(s, t)
  <2>1. ASSUME NEW n \in s + 1 .. t PROVE c[n] = CouncilOf(n + 1) /\ c[n - 1] = CouncilOf(n)
    <3>1. n \in s .. t /\ n - 1 \in s .. t /\ (n - 1) + 1 = n
      BY <1>2
    <3> HIDE DEF c
    <3> QED  BY <1>5, <3>1
  <2> HIDE DEF c
  <2> QED  BY <2>1 DEF Changed, Scanned
<1>9. \A n \in wrote : c[n] = CouncilOf(n + 1)
  BY <1>2, <1>5
<1>10. c[k] = CouncilOf(t)
  BY <1>1, <1>2, <1>5
<1> HIDE DEF c, wrote, base
<1>11. /\ ScanInterval(t).ok /\ ScanInterval(t).nums = nu
       /\ ScanInterval(t).councils = cs
       /\ ScanInterval(t).cache = ca /\ ScanInterval(t).heap = he
  <2> HIDE DEF cs, ca, he, nu
  <2> QED  BY <1>7
<1>12. [n \in Numbers |-> IF n \in wrote THEN c[n] ELSE councils[n]]
         = WithScanned(s, t)
  BY <1>8, <1>9 DEF WithScanned
<1> QED  BY <1>8, <1>10, <1>11, <1>12

-----------------------------------------------------------------------------
(* The inductive invariant *)

\* The last block whose vote the schema should know.
Settled == IF inserting THEN head - 1 ELSE head

\* No rewind ended at a vote that is still in the chain, up to block m.
Sound(m) == \A h \in rewinds : h <= m => ~ Changed(h)

TypeInv ==
    /\ votes \in [Blocks -> Votes]
    /\ headers \in 0 .. MaxBlock /\ head \in 0 .. headers
    /\ inserting \in BOOLEAN /\ up \in BOOLEAN
    /\ inserting => up /\ head > 0
    /\ up => lowest # None
    /\ nums \subseteq 0 .. headers
    /\ councils \in [Numbers -> (SUBSET Validators) \cup {None}]
    /\ lowest \in Nat \cup {None} /\ target \in Nat \cup {None}
    /\ cache \in [Numbers -> Numbers \cup {None}] /\ cache[0] = None
    /\ heap \in [Numbers -> SUBSET Validators]
    /\ rewinds \subseteq 0 .. MaxBlock

\* Block 0 is stored first, then the last interval is scanned.  Until the migration
\* is over, the scanned range begins above a checkpoint and no further than one block
\* above the last settled one, and the snapshots up to there are left.
LowestInv ==
    /\ lowest = None => /\ head = headers /\ ~ up
                        /\ \A n \in Numbers : cache[n] = None
                        /\ nums = IF councils[0] = None THEN {} ELSE {0}
    /\ councils[0] \in {None, Genesis}
    /\ lowest # None => councils[0] = Genesis
    /\ lowest # 0 =>
         /\ rewinds = {}
         /\ \A n \in 0 .. headers : n % Interval = 0 /\ (lowest # None => n <= lowest)
                                      => n \in snapshots
    /\ lowest \notin {None, 0} => /\ (lowest - 1) % Interval = 0
                                  /\ lowest <= headers /\ lowest <= Settled + 1

\* The migration continues where the scanned range begins.
TargetInv ==
    up => IF lowest = 0 THEN target \in {None, 0} ELSE target \in {lowest, lowest - 1}

\* What NoVoteMissed and StoredVotesCorrect say, block by block.
VotesInv ==
    /\ \A m \in Blocks : (lowest # None /\ lowest <= m /\ m <= Settled /\ Changed(m) /\ Sound(m))
                           => m \in nums
    /\ \A m \in nums : Sound(m) => councils[m] = CouncilOf(m + 1)

\* Until the migration is over, the cache holds nothing below its target nor above the
\* next block.  The council cached for the last settled block gives the next one,
\* whether the vote of that block was already applied to it or not.
CacheInv ==
    lowest # 0 =>
        /\ \A n \in Numbers : cache[n] # None =>
             n <= Settled + 1 /\ n >= IF up THEN target ELSE lowest
        /\ (Settled > 0 /\ cache[Settled] # None)
             => applyVote(votes[Settled], heap[cache[Settled]]) = CouncilOf(Settled + 1)
        /\ cache[Settled + 1] # None => heap[cache[Settled + 1]] = CouncilOf(Settled + 1)

AnswerInv == AnswersCorrect /\ AlwaysAnswered

IInv == TypeInv /\ LowestInv /\ TargetInv /\ VotesInv /\ CacheInv /\ AnswerInv

LEMMA NumberTypes ==
    ASSUME TypeInv
    PROVE  /\ headers \in 0 .. MaxBlock /\ head \in 0 .. headers
           /\ inserting => up /\ head > 0
           /\ up => lowest # None
           /\ nums \subseteq 0 .. headers /\ rewinds \subseteq 0 .. MaxBlock
           /\ lowest \in Nat \cup {None} /\ target \in Nat \cup {None}
  BY DEF TypeInv

LEMMA FunctionTypes ==
    ASSUME TypeInv
    PROVE  /\ votes \in [Blocks -> Votes]
           /\ councils \in [Numbers -> (SUBSET Validators) \cup {None}]
           /\ cache \in [Numbers -> Numbers \cup {None}] /\ cache[0] = None
           /\ heap \in [Numbers -> SUBSET Validators]
  BY DEF TypeInv

-----------------------------------------------------------------------------
(* Reading the database and the snapshots *)

LEMMA CouncilOfType ==
    ASSUME votes \in [Blocks -> Votes], NEW n \in Numbers
    PROVE  /\ CouncilOf(n) \in SUBSET Validators /\ CouncilOf(n) # None
           /\ CouncilOf(0) = Genesis /\ CouncilOf(1) = Genesis
<1>1. CouncilAt(votes, n) \in SUBSET Validators
  BY CouncilType
<1>2. CouncilOf(n) = CouncilAt(votes, n)
      /\ CouncilOf(0) = CouncilAt(votes, 0) /\ CouncilOf(1) = CouncilAt(votes, 1)
  BY CouncilIs
<1> QED  BY <1>1, <1>2, CouncilFirst, NoneAssumption

LEMMA NothingChanges ==
    ASSUME NEW a \in Nat, NEW b \in Nat, a <= b, \A n \in a .. b : n < b => ~ Changed(n)
    PROVE  CouncilOf(b) = CouncilOf(a)
<1>1. \A n \in a .. b : n < b => CouncilAt(votes, n + 1) = CouncilAt(votes, n)
  BY CouncilIs DEF Changed
<1>2. CouncilAt(votes, b) = CouncilAt(votes, a)
  BY <1>1, CouncilConstant
<1> QED  BY <1>2, CouncilIs

LEMMA LastNum ==
    ASSUME nums \subseteq 0 .. MaxBlock, NEW num \in Nat \ {0}
    PROVE  /\ lastNumLessThan(num) \in 0 .. MaxBlock /\ lastNumLessThan(num) < num
           /\ lastNumLessThan(num) = 0 \/ lastNumLessThan(num) \in nums
           /\ \A m \in nums : m < num => m <= lastNumLessThan(num)
<1> DEFINE S == {n \in nums : n < num} \cup {0}
<1>1. S \subseteq 0 .. MaxBlock /\ S # {} /\ MaxBlock \in Nat
  <2>1. 0 \in 0 .. MaxBlock /\ 0 \in S
    BY Bounds
  <2>2. {n \in nums : n < num} \subseteq 0 .. MaxBlock
    BY Zenon
  <2> QED  BY <2>1, <2>2, Bounds, Zenon
<1>2. lastNumLessThan(num) = Max(S)
  BY DEF lastNumLessThan
<1>3. Max(S) \in S /\ \A y \in S : Max(S) >= y
  <2> HIDE DEF S
  <2> QED  BY <1>1, MaxIs, Zenon
<1>4. \A m \in nums : m < num => m \in S
  OBVIOUS
<1>5. \A n \in S : n < num /\ (n = 0 \/ n \in nums) /\ n \in 0 .. MaxBlock
  <2>1. TAKE n \in S
  <2>2. CASE n = 0
    BY <2>2, Bounds
  <2>3. CASE n # 0
    BY <2>3
  <2> QED  BY <2>2, <2>3
<1>6. PICK x : x = Max(S) /\ x \in S /\ \A y \in S : x >= y
  BY <1>3
<1>7. \A m \in nums : m < num => m <= x
  <2> HIDE DEF S
  <2> QED  BY <1>1, <1>4, <1>6
<1> HIDE DEF S
<1> QED  BY <1>2, <1>5, <1>6, <1>7

LEMMA SoundBelow ==
    ASSUME rewinds \subseteq 0 .. MaxBlock, NEW m \in Int, NEW k \in Int, k <= m, Sound(m)
    PROVE  Sound(k)
<1>1. \A h \in rewinds : h \in Int /\ (h <= k => h <= m)
  BY Bounds
<1> QED  BY <1>1 DEF Sound

\* The database answers right for the settled blocks and the next one.
LEMMA DatabaseAnswer ==
    ASSUME TypeInv, LowestInv, VotesInv, lowest # None,
           NEW num \in 1 .. Settled + 1, InDB(num), Sound(num - 1)
    PROVE  CouncilDB(num) = CouncilOf(num)
<1>1. /\ headers \in 0 .. MaxBlock /\ head \in 0 .. headers /\ lowest \in Nat
      /\ Settled \in Nat /\ Settled <= MaxBlock /\ MaxBlock \in Nat /\ num \in Nat \ {0}
  BY Bounds DEF TypeInv, Settled
<1>2. nums \subseteq 0 .. MaxBlock
  BY <1>1 DEF TypeInv
<1>3. PICK L \in 0 .. MaxBlock : /\ L = lastNumLessThan(num) /\ L < num
                                 /\ L = 0 \/ L \in nums
                                 /\ \A m \in nums : m < num => m <= L
  BY <1>1, <1>2, LastNum
<1>4. lowest <= L
  BY <1>1, <1>3 DEF InDB
<1>5. L + 1 \in Numbers /\ L \in Numbers /\ L + 1 <= num /\ L <= num - 1
  BY <1>1, <1>3 DEF Numbers
<1>6. councils[L] = CouncilOf(L + 1)
  <2>1. CASE L = 0
    <3>1. councils[0] = Genesis /\ CouncilOf(1) = Genesis
      BY <1>5, CouncilOfType DEF LowestInv, TypeInv
    <3> QED  BY <2>1, <3>1
  <2>2. CASE L \in nums
    <3>1. Sound(L)
      <4>1. num - 1 \in Int /\ L \in Int /\ L <= num - 1 /\ rewinds \subseteq 0 .. MaxBlock
        BY <1>1, <1>5, NumberTypes DEF Numbers
      <4> QED  BY <4>1, SoundBelow
    <3> QED  BY <2>2, <3>1 DEF VotesInv
  <2> QED  BY <1>3, <2>1, <2>2
<1>7. CouncilOf(L + 1) # None
  BY <1>5, CouncilOfType DEF TypeInv
<1>8. CouncilOf(num) = CouncilOf(L + 1)
  <2>1. ASSUME NEW n \in L + 1 .. num, n < num PROVE ~ Changed(n)
    <3>1. n \in Blocks /\ lowest <= n /\ n <= Settled /\ n > L /\ n <= num - 1
      BY <1>1, <1>3, <1>4, <2>1 DEF Blocks
    <3>2. Sound(n)
      BY <1>1, <3>1, SoundBelow DEF TypeInv, Blocks
    <3>3. Changed(n) => n \in nums
      BY <3>1, <3>2 DEF VotesInv
    <3>4. ~ (n <= L)
      BY <1>3, <3>1 DEF Blocks
    <3> QED  BY <1>3, <2>1, <3>3, <3>4
  <2>2. L + 1 \in Nat /\ num \in Nat
    BY <1>1, <1>3
  <2> QED  BY <1>5, <2>1, <2>2, NothingChanges
<1> QED  BY <1>3, <1>6, <1>7, <1>8 DEF CouncilDB

\* Where the migration is, and what it needs: no council that the votes define is empty.
NeverEmpty == \A n \in 0 .. headers : CouncilOf(n + 1) # {}

LEMMA StoredSnapshot ==
    ASSUME TypeInv, LowestInv, NeverEmpty, lowest # 0,
           NEW n \in 0 .. headers, n % Interval = 0, lowest # None => n <= lowest
    PROVE  IstanbulSnapshot(n) = CouncilOf(n + 1)
<1>1. n \in snapshots
  BY DEF LowestInv
<1>2. CouncilOf(n + 1) # {}
  BY DEF NeverEmpty
<1> QED  BY <1>1, <1>2 DEF IstanbulSnapshot

\* The migration, and the scan at the start, find the snapshot where they look for it.
LEMMA SnapshotForScan ==
    ASSUME TypeInv, LowestInv, NeverEmpty, lowest # 0,
           NEW t \in Nat \ {0}, t <= headers, lowest # None => t <= lowest,
           NEW s, s = snapshotNum(t)
    PROVE  /\ getValidIstanbulSnapshotBefore(s) = CouncilOf(s + 1)
           /\ CouncilOf(s + 1) # None
<1>1. s \in 0 .. t - 1 /\ s % Interval = 0
  BY SnapshotNum
<1>2. headers \in 0 .. MaxBlock /\ MaxBlock \in Nat /\ lowest \in Nat \cup {None}
  BY Bounds DEF TypeInv
<1>3. s \in 0 .. headers /\ s + 1 \in Numbers /\ s <= headers
  BY <1>1, <1>2 DEF Numbers
<1>4. lowest # None => s <= lowest /\ ~ (lowest < s)
  BY <1>1, <1>2
<1>5. IstanbulSnapshot(s) = CouncilOf(s + 1)
  BY <1>1, <1>3, <1>4, StoredSnapshot
<1>6. CouncilOf(s + 1) # None /\ CouncilOf(1) = Genesis
  BY <1>3, CouncilOfType DEF TypeInv
<1>7. CASE s = 0
  BY <1>6, <1>7 DEF getValidIstanbulSnapshotBefore
<1>8. CASE s # 0
  BY <1>3, <1>4, <1>5, <1>6, <1>8 DEF getValidIstanbulSnapshotBefore
<1> QED  BY <1>7, <1>8

\* A reader that the database cannot answer finds the snapshot of its interval, or the
\* one where the scanned range begins, with no vote in between.
LEMMA SnapshotForReader ==
    ASSUME TypeInv, LowestInv, VotesInv, NeverEmpty, lowest \notin {None, 0},
           NEW t \in 1 .. Settled + 1, ~ InDB(t), NEW s, s = snapshotNum(t)
    PROVE  /\ getValidIstanbulSnapshotBefore(s) = CouncilOf(s + 1)
           /\ CouncilOf(s + 1) # None
<1>1. /\ headers \in 0 .. MaxBlock /\ head \in 0 .. headers /\ lowest \in Nat /\ lowest > 0
      /\ Settled \in Nat /\ Settled <= headers /\ MaxBlock \in Nat /\ t \in Nat \ {0}
      /\ lowest <= headers /\ rewinds = {}
  BY Bounds DEF TypeInv, Settled, LowestInv
<1>2. s \in 0 .. t - 1 /\ s % Interval = 0
  BY <1>1, SnapshotNum
<1>3. s \in 0 .. headers /\ s + 1 \in Numbers /\ s <= headers /\ s <= Settled /\ s < t
  BY <1>1, <1>2 DEF Numbers
<1>4. CouncilOf(s + 1) # None /\ CouncilOf(1) = Genesis
  BY <1>3, CouncilOfType DEF TypeInv
<1>5. nums \subseteq 0 .. MaxBlock
  BY <1>1 DEF TypeInv
<1>6. /\ lastNumLessThan(t) \in Nat /\ lastNumLessThan(t) < lowest
      /\ \A m \in nums : m < t => m <= lastNumLessThan(t)
  BY <1>1, <1>5, LastNum DEF InDB
<1>7. \A m \in nums : m < t => m < lowest
  BY <1>1, <1>5, <1>6
<1>8. CASE s = 0
  BY <1>4, <1>8 DEF getValidIstanbulSnapshotBefore
<1>9. CASE s # 0 /\ s <= lowest
  <2>1. IstanbulSnapshot(s) = CouncilOf(s + 1)
    BY <1>1, <1>2, <1>3, <1>9, StoredSnapshot
  <2>2. ~ (lowest < s)
    BY <1>1, <1>2, <1>9
  <2> QED  BY <1>3, <1>4, <1>9, <2>1, <2>2 DEF getValidIstanbulSnapshotBefore
<1>10. CASE s # 0 /\ lowest < s
  <2>1. PICK n \in 0 .. lowest : /\ n = roundDown(lowest, Interval) /\ n % Interval = 0
                                 /\ lowest - 1 <= n
    <3>1. (lowest - 1) % Interval = 0 /\ lowest - 1 \in 0 .. lowest
      BY <1>1 DEF LowestInv
    <3> QED  BY <1>1, <3>1, RoundDown
  <2>2. n \in 0 .. headers /\ n <= headers /\ n <= lowest
    BY <1>1, <2>1
  <2>3. IstanbulSnapshot(n) = CouncilOf(n + 1)
    BY <1>1, <2>1, <2>2, StoredSnapshot
  <2>4. lastNumLessThan(s) < lowest
    <3>1. /\ lastNumLessThan(s) \in 0 .. MaxBlock /\ lastNumLessThan(s) < s
          /\ lastNumLessThan(s) = 0 \/ lastNumLessThan(s) \in nums
      BY <1>2, <1>5, <1>10, LastNum
    <3> QED  BY <1>1, <1>3, <1>7, <3>1
  <2>5. CouncilOf(s + 1) = CouncilOf(n + 1)
    <3>1. ASSUME NEW m \in n + 1 .. s + 1, m < s + 1 PROVE ~ Changed(m)
      <4>1. m \in Blocks /\ lowest <= m /\ m <= Settled /\ m < t
        BY <1>1, <1>2, <1>3, <2>1, <3>1 DEF Blocks
      <4>2. Sound(m)
        BY <1>1 DEF Sound
      <4>3. Changed(m) => m \in nums
        BY <4>1, <4>2, <1>1, NoneAssumption DEF VotesInv
      <4>4. ~ (m < lowest)
        BY <1>1, <4>1 DEF Blocks
      <4> QED  BY <1>7, <4>1, <4>3, <4>4
    <3>2. n + 1 \in Nat /\ s + 1 \in Nat /\ n + 1 <= s + 1
      BY <1>1, <1>2, <1>10, <2>1
    <3> QED  BY <3>1, <3>2, NothingChanges
  <2>6. getValidIstanbulSnapshotBefore(s) = IstanbulSnapshot(n)
    BY <1>10, <2>1, <2>2, <2>4, <1>1, NoneAssumption DEF getValidIstanbulSnapshotBefore
  <2> QED  BY <1>4, <2>3, <2>5, <2>6
<1>11. s <= lowest \/ lowest < s
  BY <1>1, <1>2
<1> QED  BY <1>8, <1>9, <1>10, <1>11

-----------------------------------------------------------------------------
(* Frames *)

LEMMA AgreeingVotes ==
    ASSUME NEW b \in Nat, \A m \in 1 .. b : votes'[m] = votes[m]
    PROVE  /\ \A n \in 0 .. b + 1 : CouncilOf(n)' = CouncilOf(n)
           /\ \A m \in 0 .. b : Changed(m)' <=> Changed(m)
<1>1. \A n \in 0 .. b + 1 : CouncilOf(n)' = CouncilOf(n)
  <2>1. \A n \in 0 .. b + 1 : CouncilAt(votes', n) = CouncilAt(votes, n)
    BY CouncilAgrees
  <2> QED  BY <2>1, CouncilIs
<1>2. ASSUME NEW m \in 0 .. b PROVE Changed(m)' <=> Changed(m)
  <2>1. m \in 0 .. b + 1 /\ m + 1 \in 0 .. b + 1
    OBVIOUS
  <2>2. CouncilOf(m)' = CouncilOf(m) /\ CouncilOf(m + 1)' = CouncilOf(m + 1)
    BY <1>1, <2>1
  <2> QED  BY <2>2 DEF Changed
<1> QED  BY <1>1, <1>2

LEMMA AgreeingSound ==
    ASSUME NEW b \in Nat, \A m \in 1 .. b : votes'[m] = votes[m],
           rewinds' = rewinds, rewinds \subseteq 0 .. MaxBlock, NEW m \in 0 .. b
    PROVE  Sound(m)' <=> Sound(m)
<1>1. \A h \in rewinds : h <= m => (Changed(h)' <=> Changed(h))
  <2>1. \A h \in rewinds : h <= m => h \in 0 .. b
    BY Bounds
  <2> QED  BY <2>1, AgreeingVotes, Zenon
<1> QED  BY <1>1 DEF Sound

LEMMA SameVotes ==
    ASSUME votes' = votes, NEW n
    PROVE  CouncilOf(n)' = CouncilOf(n) /\ (Changed(n)' <=> Changed(n))
<1>1. \A k : CouncilOf(k)' = CouncilOf(k)
  BY CouncilIs
<1> QED  BY <1>1 DEF Changed

LEMMA SameSound ==
    ASSUME votes' = votes, rewinds' = rewinds, NEW m
    PROVE  Sound(m)' <=> Sound(m)
<1>1. \A h : Changed(h)' <=> Changed(h)
  BY SameVotes
<1> QED  BY <1>1 DEF Sound

LEMMA SameAnswer ==
    ASSUME answer' = answer, AnswerInv
    PROVE  AnswerInv'
  BY DEF AnswerInv, AnswersCorrect, AlwaysAnswered

LEMMA SettledType ==
    ASSUME TypeInv
    PROVE  /\ Settled \in 0 .. MaxBlock /\ Settled <= head /\ head <= headers /\ headers <= MaxBlock
           /\ MaxBlock \in Nat /\ Settled \in Numbers /\ Settled + 1 \in Numbers
           /\ head \in 0 .. MaxBlock /\ headers \in 0 .. MaxBlock
           /\ Settled > 0 => Settled \in Blocks
  BY Bounds DEF TypeInv, Settled, Numbers, Blocks

\* The schema below the settled block is left alone, and so are the votes.
LEMMA SameRecords ==
    ASSUME TypeInv, VotesInv, votes' = votes, rewinds' = rewinds, nums' = nums,
           councils' = councils, Settled' \in Nat, Settled' <= Settled,
           lowest' # None => lowest # None /\ lowest' \in Nat /\ lowest \in Nat
                               /\ \A m \in Blocks : lowest' <= m => lowest <= m
    PROVE  VotesInv'
<1>1. \A m : (Changed(m)' <=> Changed(m)) /\ (Sound(m)' <=> Sound(m))
             /\ CouncilOf(m + 1)' = CouncilOf(m + 1)
  BY SameVotes, SameSound
<1>2. ASSUME NEW m \in Blocks,
             (lowest # None /\ lowest <= m /\ m <= Settled /\ Changed(m) /\ Sound(m))'
      PROVE  m \in nums'
  <2>1. lowest # None /\ lowest <= m /\ m <= Settled
    BY <1>2, SettledType DEF Blocks
  <2> QED  BY <1>1, <1>2, <2>1 DEF VotesInv
<1>3. ASSUME NEW m \in nums', Sound(m)' PROVE (councils[m] = CouncilOf(m + 1))'
  BY <1>1, <1>3 DEF VotesInv
<1> QED  BY <1>2, <1>3 DEF VotesInv

-----------------------------------------------------------------------------
(* Starting, the end of the migration, and crashes *)

LEMMA InitEstablishes ==
    ASSUME Init
    PROVE  IInv
<1>1. /\ head \in 0 .. MaxBlock /\ headers = head /\ inserting = FALSE /\ votes \in [Blocks -> Votes]
      /\ snapshots = {n \in 0 .. head : n % Interval = 0}
      /\ nums = {} /\ councils = [n \in Numbers |-> None] /\ lowest = None
      /\ cache = [n \in Numbers |-> None] /\ heap = [n \in Numbers |-> {}]
      /\ target = None /\ up = FALSE /\ rewinds = {}
      /\ answer = [num |-> 0, council |-> Genesis, settled |-> TRUE, correct |-> TRUE]
  BY NumbersAssumption DEF Init
<1>2. 0 \in Numbers /\ head \in Numbers /\ head + 1 \in Numbers
  BY <1>1, Bounds DEF Numbers
<1>3. TypeInv
  <2>1. councils \in [Numbers -> (SUBSET Validators) \cup {None}]
    BY <1>1
  <2>2. cache \in [Numbers -> Numbers \cup {None}] /\ heap \in [Numbers -> SUBSET Validators]
        /\ cache[0] = None
    BY <1>1, <1>2
  <2>3. headers \in 0 .. MaxBlock /\ head \in 0 .. headers
    BY <1>1, Bounds
  <2> QED  BY <1>1, <2>1, <2>2, <2>3, Zenon DEF TypeInv
<1>4. LowestInv
  BY <1>1, <1>2, NoneAssumption DEF LowestInv
<1>5. TargetInv /\ VotesInv
  BY <1>1 DEF TargetInv, VotesInv
<1>6. CacheInv
  BY <1>1, <1>2 DEF CacheInv, Settled
<1>7. AnswerInv
  BY <1>1, NoneAssumption, GenesisAssumption DEF AnswerInv, AnswersCorrect, AlwaysAnswered
<1> QED  BY <1>3, <1>4, <1>5, <1>6, <1>7 DEF IInv

LEMMA InitSchemaKeeps ==
    ASSUME IInv, initSchema
    PROVE  IInv'
<1>1. /\ ~ up /\ councils[0] = None /\ nums' = {0} /\ councils' = [councils EXCEPT ![0] = Genesis]
      /\ votes' = votes /\ head' = head /\ headers' = headers /\ inserting' = inserting
      /\ snapshots' = snapshots /\ lowest' = lowest /\ cache' = cache /\ heap' = heap
      /\ target' = target /\ up' = up /\ answer' = answer /\ rewinds' = rewinds
  BY DEF initSchema, chain, mem
<1>2. Genesis \in SUBSET Validators /\ Genesis # None
  BY GenesisAssumption, NoneAssumption
<1>3. lowest = None
  BY <1>1, <1>2 DEF IInv, LowestInv
<1>4. TypeInv
  BY DEF IInv
<1>5. 0 \in Numbers /\ councils' \in [Numbers -> (SUBSET Validators) \cup {None}]
      /\ councils'[0] = Genesis /\ 0 \in 0 .. headers
  BY <1>1, <1>2, <1>4, Bounds DEF TypeInv, Numbers
<1>6. TypeInv'
  BY <1>1, <1>4, <1>5 DEF TypeInv
<1>7. Settled' = Settled
  BY <1>1 DEF Settled
<1>8. LowestInv'
  BY <1>1, <1>2, <1>3, <1>5, <1>7, Zenon DEF IInv, LowestInv
<1>9. TargetInv' /\ AnswerInv'
  BY <1>1, SameAnswer DEF IInv, TargetInv
<1>10. VotesInv'
  <2>1. CouncilOf(1) = Genesis /\ CouncilOf(1)' = CouncilOf(1)
    BY <1>1, <1>4, <1>5, CouncilOfType, SameVotes, Zenon DEF TypeInv
  <2>2. nums' = {0} /\ councils'[0] = CouncilOf(0 + 1)'
    BY <1>1, <1>5, <2>1
  <2>3. lowest' = None
    BY <1>1, <1>3
  <2>4. \A m \in nums' : (councils[m] = CouncilOf(m + 1))'
    BY <2>2
  <2> QED  BY <2>2, <2>3, <2>4 DEF VotesInv
<1>11. CacheInv'
  <2>1. \A n \in Numbers : cache'[n] = None
    BY <1>1, <1>3 DEF IInv, LowestInv
  <2> QED  BY <1>4, <1>7, <2>1, SettledType, SMTT(20) DEF CacheInv
<1> QED  BY <1>6, <1>8, <1>9, <1>10, <1>11 DEF IInv

LEMMA StartKeeps ==
    ASSUME IInv, Start
    PROVE  IInv'
<1>1. /\ ~ up /\ lowest # None /\ up' = TRUE /\ target' = lowest
      /\ votes' = votes /\ head' = head /\ headers' = headers /\ inserting' = inserting
      /\ snapshots' = snapshots /\ nums' = nums /\ councils' = councils /\ lowest' = lowest
      /\ cache' = cache /\ heap' = heap /\ answer' = answer /\ rewinds' = rewinds
  BY DEF Start, chain, db, mem
<1>2. TypeInv /\ Settled' = Settled
  BY <1>1 DEF IInv, Settled
<1>3. TypeInv'
  BY <1>1, <1>2 DEF TypeInv
<1>4. LowestInv'
  BY <1>1, <1>2 DEF IInv, LowestInv
<1>5. TargetInv' /\ AnswerInv'
  BY <1>1, SameAnswer DEF IInv, TargetInv
<1>6. VotesInv'
  BY <1>1, <1>2, NumberTypes, SettledType, SameRecords DEF IInv
<1>7. CacheInv'
  <2>1. CouncilOf(Settled + 1)' = CouncilOf(Settled + 1)
    BY <1>1, <1>2, SameVotes
  <2> QED  BY <1>1, <1>2, <2>1 DEF IInv, CacheInv
<1> QED  BY <1>3, <1>4, <1>5, <1>6, <1>7 DEF IInv

LEMMA MigrationCompleteKeeps ==
    ASSUME IInv, migrationComplete
    PROVE  IInv'
<1>1. /\ up /\ target = 0 /\ lowest' = 0 /\ target' = None /\ up' = up
      /\ votes' = votes /\ head' = head /\ headers' = headers /\ inserting' = inserting
      /\ snapshots' = snapshots /\ nums' = nums /\ councils' = councils
      /\ cache' = cache /\ heap' = heap /\ answer' = answer /\ rewinds' = rewinds
  BY DEF migrationComplete, chain, mem
<1>2. TypeInv /\ Settled' = Settled /\ LowestInv /\ 0 # None
  BY <1>1, NoneAssumption DEF IInv, Settled
<1>3. lowest \in {0, 1}
  BY <1>1, <1>2, NumberTypes DEF IInv, TargetInv
<1>4. TypeInv'
  BY <1>1, <1>2 DEF TypeInv
<1>5. LowestInv'
  BY <1>1, <1>2, <1>3, NoneAssumption DEF LowestInv
<1>6. TargetInv' /\ AnswerInv' /\ CacheInv'
  BY <1>1, SameAnswer DEF IInv, TargetInv, CacheInv
<1>7. VotesInv'
  <2>1. \A m \in Blocks : lowest' <= m => lowest <= m
    BY <1>3 DEF Blocks
  <2>2. lowest # None /\ lowest \in Nat /\ lowest' \in Nat
    BY <1>1, <1>3, NoneAssumption
  <2> QED  BY <1>1, <1>2, <2>1, <2>2, SettledType, SameRecords DEF IInv
<1> QED  BY <1>4, <1>5, <1>6, <1>7 DEF IInv

\* Until the migration is over, a crash does not go back behind the scanned range.
LEMMA CrashKeeps ==
    ASSUME IInv, ~ HeadStateOnDisk, NEW h \in 0 .. head, Crash(h), lowest # 0 => lowest <= h + 1
    PROVE  IInv'
<1>1. /\ up /\ head' = h /\ inserting' = FALSE /\ (inserting => h < head)
      /\ cache' = [n \in Numbers |-> None] /\ heap' = [n \in Numbers |-> {}]
      /\ target' = None /\ up' = FALSE
      /\ votes' = votes /\ headers' = headers
      /\ snapshots' = snapshots /\ nums' = nums /\ councils' = councils /\ lowest' = lowest
      /\ answer' = answer /\ rewinds' = rewinds
  BY DEF Crash, db
<1>2. TypeInv /\ LowestInv /\ lowest # None
  BY <1>1 DEF IInv, TypeInv
<1>3. Settled' = h /\ h <= Settled /\ h \in Nat /\ h \in 0 .. headers /\ h + 1 \in Numbers
      /\ h \in Numbers /\ 0 \in Numbers
  BY <1>1, <1>2, NumberTypes, SettledType DEF Settled, Numbers
<1>4. TypeInv'
  <2>1. /\ cache' \in [Numbers -> Numbers \cup {None}] /\ heap' \in [Numbers -> SUBSET Validators]
        /\ cache'[0] = None
    BY <1>1, <1>3
  <2> QED  BY <1>1, <1>2, <1>3, <2>1, Zenon DEF TypeInv
<1>5. LowestInv'
  BY <1>1, <1>2, <1>3 DEF LowestInv
<1>6. TargetInv' /\ AnswerInv'
  BY <1>1, SameAnswer DEF IInv, TargetInv
<1>7. VotesInv'
  BY <1>1, <1>2, <1>3, SameRecords, Zenon DEF IInv, TypeInv
<1>8. CacheInv'
  BY <1>1, <1>3 DEF CacheInv
<1> QED  BY <1>4, <1>5, <1>6, <1>7, <1>8 DEF IInv

-----------------------------------------------------------------------------
(* The scan at the start and the migration *)

LEMMA CouncilNext ==
    ASSUME NEW n \in Nat \ {0}
    PROVE  CouncilOf(n + 1) = applyVote(votes[n], CouncilOf(n))
  BY CouncilIs, CouncilStep

\* An interval is scanned from the snapshot below it and the scanned range grows down
\* to there.  Nothing is cached below the block where the scan begins.
LEMMA ScanKeeps ==
    ASSUME IInv, NeverEmpty, lowest # 0,
           NEW t \in Nat \ {0}, t <= headers, NEW s, s = snapshotNum(t),
           lowest # None => t <= lowest /\ lowest <= t + 1,
           lowest = None => t = head /\ councils[0] # None,
           \A n \in Numbers : cache[n] # None => n >= t,
           nums' = ScanInterval(t).nums, councils' = ScanInterval(t).councils,
           cache' = ScanInterval(t).cache, heap' = ScanInterval(t).heap,
           lowest' = s + 1, up' = up, target' \in Nat \cup {None}, up' => target' = s,
           votes' = votes, head' = head, headers' = headers, inserting' = inserting,
           snapshots' = snapshots, answer' = answer, rewinds' = rewinds
    PROVE  TypeInv' /\ LowestInv' /\ VotesInv' /\ CacheInv' /\ AnswerInv'
<1>1. TypeInv /\ LowestInv /\ VotesInv /\ CacheInv /\ AnswerInv /\ Settled' = Settled
  BY DEF IInv, Settled
<1>2. /\ headers \in 0 .. MaxBlock /\ head \in 0 .. headers /\ MaxBlock \in Nat
      /\ Settled \in 0 .. headers /\ Settled + 1 \in Numbers /\ Settled \in Numbers
      /\ t \in Blocks /\ t \in Numbers /\ t - 1 \in Numbers
      /\ lowest \in Nat \cup {None}
  BY <1>1, NumberTypes, SettledType DEF Numbers, Blocks
<1>3. s \in 0 .. t - 1 /\ s % Interval = 0 /\ s + 1 \in Nat /\ s + 1 <= t /\ s \in Nat
  BY SnapshotNum
<1>4. t <= Settled + 1 /\ (lowest = None => Settled = t)
  <2>1. CASE lowest = None
    BY <1>1, <1>2, <2>1, NumberTypes DEF LowestInv, Settled
  <2>2. CASE lowest # None
    BY <1>1, <1>2, <2>2 DEF LowestInv
  <2> QED  BY <2>1, <2>2
<1>5. cache[t - 1] = None
  BY <1>2
<1>6. getValidIstanbulSnapshotBefore(s) = CouncilOf(s + 1) /\ CouncilOf(s + 1) # None
  BY <1>1, SnapshotForScan
<1> DEFINE wrote == Scanned(s, t)
<1>7. /\ nums' = nums \cup wrote /\ councils' = WithScanned(s, t)
      /\ cache' = [cache EXCEPT ![t] = FreeRef]
      /\ heap' = [heap EXCEPT ![FreeRef] = CouncilOf(t)]
  <2>1. headers \in Nat
    BY <1>2
  <2> QED  BY <1>5, <1>6, <2>1, RegenerateWrite, Zenon
<1>8. \A n \in Numbers : councils'[n] = IF n \in wrote THEN CouncilOf(n + 1) ELSE councils[n]
  BY <1>7 DEF WithScanned
<1>9. wrote \subseteq 1 .. headers /\ wrote \subseteq Numbers /\ 0 \notin wrote
      /\ \A n \in wrote : n \in s + 1 .. t /\ n + 1 \in Numbers
  BY <1>2, <1>3 DEF Numbers, Scanned
<1>10. \A m \in Blocks : (s + 1 <= m /\ m <= t /\ Changed(m)) => m \in wrote
  BY <1>3 DEF Blocks, Scanned
<1> HIDE DEF wrote
<1>11. PICK ref \in Numbers : ref = FreeRef /\ \A n \in Numbers : cache[n] # ref
  BY <1>1, FreeRefIsFree, Zenon DEF TypeInv
<1>12. cache' = [cache EXCEPT ![t] = ref] /\ heap' = [heap EXCEPT ![ref] = CouncilOf(t)]
  BY <1>7, <1>11, Zenon
<1>13. CouncilOf(t) \in SUBSET Validators
  BY <1>1, <1>2, CouncilOfType, Zenon DEF TypeInv
<1>14. \A n : CouncilOf(n)' = CouncilOf(n) /\ (Changed(n)' <=> Changed(n)) /\ (Sound(n)' <=> Sound(n))
  BY SameVotes, SameSound
<1>15. councils'[0] = Genesis /\ nums' \subseteq 0 .. headers
  <2>1. councils[0] = Genesis
    BY <1>1, Zenon DEF LowestInv
  <2>2. 0 \in Numbers
    BY <1>2 DEF Numbers
  <2>3. nums \subseteq 0 .. headers
    BY <1>1, NumberTypes
  <2>4. wrote \subseteq 0 .. headers
    BY <1>2, <1>9
  <2>5. nums' \subseteq 0 .. headers
    BY <1>7, <2>3, <2>4, Zenon
  <2> QED  BY <1>8, <1>9, <2>1, <2>2, <2>5
<1>16. TypeInv'
  <2>1. cache' \in [Numbers -> Numbers \cup {None}] /\ cache'[0] = None
    BY <1>1, <1>2, <1>12 DEF TypeInv
  <2>2. heap' \in [Numbers -> SUBSET Validators]
    BY <1>1, <1>12, <1>13, Zenon DEF TypeInv
  <2>3. councils' \in [Numbers -> (SUBSET Validators) \cup {None}]
    <3>1. \A n \in wrote : CouncilOf(n + 1) \in SUBSET Validators
      BY <1>1, <1>9, CouncilOfType, Zenon DEF TypeInv
    <3>2. \A n \in Numbers : councils'[n] \in (SUBSET Validators) \cup {None}
      BY <1>1, <1>8, <3>1, FunctionTypes, ZenonT(30)
    <3>3. councils' = [n \in Numbers |-> councils'[n]]
      BY <1>7, Zenon DEF WithScanned
    <3> QED  BY <3>2, <3>3, Zenon
  <2>4. nums' \subseteq 0 .. headers'
    BY <1>15
  <2>5. lowest' \in Nat \cup {None} /\ lowest' # None
    BY <1>3, NoneAssumption
  <2> QED  BY <1>1, <2>1, <2>2, <2>3, <2>4, <2>5, Zenon DEF TypeInv
<1>17. LowestInv'
  <2>1. lowest' # None /\ lowest' # 0 /\ lowest' <= headers /\ lowest' <= Settled + 1
        /\ (lowest' - 1) % Interval = 0
    <3>1. (s + 1) - 1 = s
      BY <1>3
    <3>2. lowest' # None /\ lowest' # 0
      BY <1>3, NoneAssumption
    <3>3. lowest' <= headers /\ lowest' <= Settled + 1
      BY <1>2, <1>3, <1>4
    <3> QED  BY <1>3, <3>1, <3>2, <3>3
  <2>2. rewinds = {}
    BY <1>1 DEF LowestInv
  <2>3. ASSUME NEW n \in 0 .. headers, n % Interval = 0, n <= lowest' PROVE n \in snapshots
    <3>1. lowest # None => n <= lowest
      BY <1>2, <1>3, <2>3
    <3> QED  BY <1>1, <2>3, <3>1, Zenon DEF LowestInv
  <2> QED  BY <1>1, <1>15, <2>1, <2>2, <2>3, Zenon DEF LowestInv
<1>18. VotesInv'
  <2>1. ASSUME NEW m \in Blocks, s + 1 <= m, m <= Settled, Changed(m), Sound(m)
        PROVE  m \in nums'
    <3>1. CASE m <= t
      BY <1>7, <1>10, <2>1, <3>1, Zenon
    <3>2. CASE ~ (m <= t)
      <4>1. lowest # None
        BY <1>4, <2>1, <3>2
      <4>2. lowest <= m
        BY <1>2, <3>2, <4>1 DEF Blocks
      <4> QED  BY <1>1, <1>7, <2>1, <4>1, <4>2, Zenon DEF VotesInv
    <3> QED  BY <3>1, <3>2, Zenon
  <2>2. ASSUME NEW m \in nums', Sound(m) PROVE councils'[m] = CouncilOf(m + 1)
    <3>1. m \in Numbers
      BY <1>2, <1>15 DEF Numbers
    <3>2. CASE m \in wrote
      BY <1>8, <3>1, <3>2, Zenon
    <3>3. CASE m \notin wrote
      BY <1>1, <1>7, <1>8, <2>2, <3>1, <3>3, Zenon DEF VotesInv
    <3> QED  BY <3>2, <3>3, Zenon
  <2> QED  BY <1>1, <1>14, <2>1, <2>2, Zenon DEF VotesInv
<1>19. CacheInv'
  <2>1. \A n \in Numbers : cache'[n] = IF n = t THEN ref ELSE cache[n]
    BY <1>1, <1>12, Zenon DEF TypeInv
  <2>2. heap'[ref] = CouncilOf(t) /\ \A n \in Numbers : cache[n] # None => heap'[cache[n]] = heap[cache[n]]
    BY <1>1, <1>11, <1>12, FunctionTypes
  <2>3. ASSUME NEW n \in Numbers, cache'[n] # None
        PROVE  n <= Settled + 1 /\ n >= IF up' THEN target' ELSE lowest'
    <3>1. n = t \/ cache[n] # None
      BY <2>1, <2>3
    <3>2. n >= t /\ n <= Settled + 1
      BY <1>1, <1>2, <1>4, <3>1 DEF CacheInv
    <3>3. n >= s /\ n >= s + 1
      BY <1>2, <1>3, <3>2 DEF Numbers
    <3> QED  BY <3>2, <3>3
  <2>4. ASSUME Settled > 0, cache'[Settled] # None
        PROVE  applyVote(votes[Settled], heap'[cache'[Settled]]) = CouncilOf(Settled + 1)
    <3>1. CASE Settled = t
      <4>1. cache'[Settled] = ref /\ heap'[ref] = CouncilOf(Settled)
        BY <1>2, <2>1, <2>2, <3>1, Zenon
      <4> QED  BY <3>1, <4>1, CouncilNext, Zenon
    <3>2. CASE Settled # t
      BY <1>1, <1>2, <2>1, <2>2, <2>4, <3>2, Zenon DEF CacheInv
    <3> QED  BY <3>1, <3>2, Zenon
  <2>5. ASSUME cache'[Settled + 1] # None
        PROVE  heap'[cache'[Settled + 1]] = CouncilOf(Settled + 1)
    <3>1. CASE Settled + 1 = t
      BY <1>2, <2>1, <2>2, <3>1, Zenon
    <3>2. CASE Settled + 1 # t
      BY <1>1, <1>2, <2>1, <2>2, <2>5, <3>2, Zenon DEF CacheInv
    <3> QED  BY <3>1, <3>2, Zenon
  <2> QED  BY <1>1, <1>14, <2>3, <2>4, <2>5, Zenon DEF CacheInv
<1> QED  BY <1>1, <1>16, <1>17, <1>18, <1>19, SameAnswer

LEMMA ScanLastIntervalKeeps ==
    ASSUME IInv, scanLastInterval, NeverEmpty
    PROVE  IInv'
<1>1. /\ ~ up /\ councils[0] # None /\ lowest = None
      /\ votes' = votes /\ head' = head /\ headers' = headers /\ inserting' = inserting
      /\ snapshots' = snapshots /\ target' = target /\ up' = up /\ answer' = answer
      /\ rewinds' = rewinds
  BY Zenon DEF scanLastInterval, chain
<1>2. TypeInv /\ LowestInv /\ head = headers /\ Settled' = Settled /\ Settled = head
  BY <1>1, Zenon DEF IInv, TypeInv, LowestInv, Settled
<1>3. CASE head = 0
  <2>1. lowest' = 0 /\ nums' = nums /\ councils' = councils /\ cache' = cache /\ heap' = heap
    BY <1>3, Zenon DEF scanLastInterval, mem
  <2>2. TypeInv'
    BY <1>1, <1>2, <2>1 DEF TypeInv
  <2>3. LowestInv' /\ TargetInv' /\ CacheInv' /\ AnswerInv'
    BY <1>1, <1>2, <2>1, NoneAssumption, SameAnswer, Zenon DEF IInv, LowestInv, TargetInv, CacheInv
  <2>4. VotesInv'
    <3>1. \A m \in Blocks : ~ (m <= Settled)
      BY <1>2, <1>3 DEF Blocks
    <3>2. \A m : CouncilOf(m + 1)' = CouncilOf(m + 1) /\ (Sound(m)' <=> Sound(m))
      BY <1>1, SameVotes, SameSound
    <3> QED  BY <1>2, <2>1, <3>1, <3>2 DEF IInv, VotesInv
  <2> QED  BY <2>2, <2>3, <2>4 DEF IInv
<1>4. CASE head # 0
  <2>1. /\ nums' = ScanInterval(head).nums /\ councils' = ScanInterval(head).councils
        /\ cache' = ScanInterval(head).cache /\ heap' = ScanInterval(head).heap
        /\ lowest' = snapshotNum(head) + 1
    BY <1>4, Zenon DEF scanLastInterval, ScanInterval
  <2>2. PICK s : s = snapshotNum(head)
    OBVIOUS
  <2>3. head \in Nat \ {0} /\ head <= headers /\ target' \in Nat \cup {None}
    BY <1>1, <1>2, <1>4 DEF TypeInv
  <2>4. \A n \in Numbers : cache[n] # None => n >= head
    BY <1>1, <1>2 DEF LowestInv
  <2>5. lowest # 0
    BY <1>1, NoneAssumption
  <2>6. TypeInv' /\ LowestInv' /\ VotesInv' /\ CacheInv' /\ AnswerInv'
    BY <1>1, <2>1, <2>2, <2>3, <2>4, <2>5, ScanKeeps
  <2> QED  BY <1>1, <2>6 DEF IInv, TargetInv
<1> QED  BY <1>3, <1>4

LEMMA MigrateKeeps ==
    ASSUME IInv, migrate, lowest # 0 => NeverEmpty
    PROVE  IInv'
<1>1. /\ up /\ target \notin {None, 0}
      /\ nums' = ScanInterval(target).nums /\ councils' = ScanInterval(target).councils
      /\ cache' = ScanInterval(target).cache /\ heap' = ScanInterval(target).heap
      /\ votes' = votes /\ head' = head /\ headers' = headers /\ inserting' = inserting
      /\ snapshots' = snapshots /\ up' = up /\ answer' = answer /\ rewinds' = rewinds
  BY DEF migrate, chain, ScanInterval
<1>2. IF ScanInterval(target).ok
      THEN lowest' = snapshotNum(target) + 1 /\ target' = snapshotNum(target)
      ELSE target' = None /\ lowest' = lowest
  BY Zenon DEF migrate, ScanInterval
<1>3. TypeInv /\ LowestInv /\ lowest # 0 /\ lowest # None /\ lowest \in Nat /\ target \in Nat \ {0}
      /\ target \in {lowest, lowest - 1}
  BY <1>1 DEF IInv, TargetInv, TypeInv
<1>4. target <= headers /\ target <= lowest /\ lowest <= target + 1 /\ headers \in Nat
  BY <1>3 DEF LowestInv, TypeInv
<1>5. \A n \in Numbers : cache[n] # None => n >= target
  BY <1>1, <1>3 DEF IInv, CacheInv
<1>6. PICK s : s = snapshotNum(target)
  OBVIOUS
<1>7. s \in Nat
  BY <1>3, <1>6, SnapshotNum
<1>8. ScanInterval(target).ok
  <2>1. getValidIstanbulSnapshotBefore(s) = CouncilOf(s + 1) /\ CouncilOf(s + 1) # None
    BY <1>3, <1>4, <1>6, SnapshotForScan
  <2>2. cache[target - 1] = None
    <3>1. target - 1 \in Numbers /\ ~ (target - 1 >= target)
      BY <1>3, <1>4, Bounds DEF TypeInv, Numbers
    <3> QED  BY <1>5, <3>1
  <2> QED  BY <1>3, <1>4, <1>6, <2>1, <2>2, RegenerateWrite, Zenon
<1>9. lowest' = s + 1 /\ target' = s
  BY <1>2, <1>6, <1>8
<1>10. TypeInv' /\ LowestInv' /\ VotesInv' /\ CacheInv' /\ AnswerInv'
  BY <1>1, <1>3, <1>4, <1>5, <1>6, <1>7, <1>9, ScanKeeps, Zenon
<1>11. TargetInv'
  BY <1>7, <1>9 DEF TargetInv
<1> QED  BY <1>10, <1>11 DEF IInv
=============================================================================
