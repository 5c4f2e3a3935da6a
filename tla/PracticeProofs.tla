--------------------------- MODULE PracticeProofs ---------------------------
(***************************************************************************)
(* What a run becomes, for any texts, players, logs, boards and clock: its *)
(* log tells it, its verdict is about its timing, the page shows what was  *)
(* measured, it leaves rows of the right shape that count for what they    *)
(* are, a ghost that keeps its time and leads the board, lists that lose   *)
(* nothing and boards whose last line fits.                                *)
(***************************************************************************)
EXTENDS ScoringProofs

LEMMA FiniteImage ==
    ASSUME NEW S, IsFiniteSet(S), NEW f, DOMAIN f = S
    PROVE  IsFiniteSet({f[x] : x \in S})
<1> DEFINE T == {f[x] : x \in S}
           g == [x \in S |-> f[x]]
<1>1. g \in Surjection(S, T)
  BY DEF Surjection
<1> QED
  BY <1>1, FS_Surjection

LEMMA MinOfTwo ==
    ASSUME NEW a \in Nat, NEW b \in Nat
    PROVE  Min({a, b}) = IF a <= b THEN a ELSE b
<1>1. Min({a, b}) \in {a, b} /\ Min({a, b}) <= a /\ Min({a, b}) <= b
  <2>1. \E x \in {a, b} : \A y \in {a, b} : x <= y
    OBVIOUS
  <2> QED
    BY <2>1 DEF Min
<1> QED
  BY <1>1

-----------------------------------------------------------------------------
(* A strict order of a set, as the pairs of which the first is ahead.      *)
StrictOrder(S, ahead) ==
    \A x, y, z \in S :
        /\ <<x, x>> \notin ahead
        /\ <<x, y>> \in ahead /\ <<y, z>> \in ahead => <<x, z>> \in ahead
        /\ x # y => <<x, y>> \in ahead \/ <<y, x>> \in ahead

(* A list of all of a set, the ones ahead before the others.               *)
Lists(s, S, ahead) ==
    /\ s \in Seq(S) /\ Len(s) = Cardinality(S)
    /\ \A i, j \in 1..Len(s) : i < j => <<s[i], s[j]>> \in ahead
    /\ \A x \in S : \E i \in 1..Len(s) : s[i] = x

(* Numbers of predecessors differ from element to element, so they are all *)
(* the numbers there are, and each place of the order is taken.            *)
LEMMA OrderLists ==
    ASSUME NEW S, IsFiniteSet(S), NEW ahead, StrictOrder(S, ahead)
    PROVE  Lists(InOrder(S, ahead), S, ahead)
<1> DEFINE N == Cardinality(S)
           P(x) == {y \in S : <<y, x>> \in ahead}
           rank == [x \in S |-> Cardinality(P(x))]
           s == InOrder(S, ahead)
<1>1. N \in Nat
  BY FS_CardinalityType
<1>2. \A x \in S : /\ IsFiniteSet(P(x)) /\ rank[x] = Cardinality(P(x))
                   /\ rank[x] \in Nat /\ rank[x] < N
  <2> TAKE x \in S
  <2>1. P(x) \subseteq S /\ P(x) # S
    BY DEF StrictOrder
  <2> HIDE DEF P
  <2>2. IsFiniteSet(P(x)) /\ Cardinality(P(x)) <= N /\ Cardinality(P(x)) # N
    BY <2>1, FS_Subset
  <2>3. Cardinality(P(x)) \in Nat
    BY <2>2, FS_CardinalityType
  <2> HIDE DEF N
  <2> QED
    BY <1>1, <2>2, <2>3
<1> DEFINE Numbered(x) == rank[x] \in Nat /\ rank[x] < N /\ rank[x] \in 0..(N - 1)
<1>3. \A x \in S : Numbered(x)
  <2> TAKE x \in S
  <2>1. rank[x] \in Nat /\ rank[x] < N
    BY <1>2
  <2> HIDE DEF rank, N
  <2> QED
    BY <1>1, <2>1
<1>4. ASSUME NEW x \in S, NEW y \in S, <<x, y>> \in ahead PROVE rank[x] < rank[y]
  <2>1. P(x) \subseteq P(y)
    BY <1>4 DEF StrictOrder
  <2>2. P(x) # P(y)
    BY <1>4 DEF StrictOrder
  <2> HIDE DEF P, rank
  <2>3. Cardinality(P(x)) <= Cardinality(P(y)) /\ Cardinality(P(x)) # Cardinality(P(y))
    BY <1>2, <2>1, <2>2, FS_Subset
  <2> QED
    BY <1>2, <2>3
<1>5. rank \in Injection(S, 0..(N - 1))
  <2>1. rank \in [S -> 0..(N - 1)]
    <3>1. \A x \in S : rank[x] \in 0..(N - 1)
      <4> HIDE DEF rank, N
      <4> QED
        BY <1>3
    <3> QED
      BY <3>1
  <2>2. \A x, y \in S : rank[x] = rank[y] => x = y
    <3> SUFFICES ASSUME NEW x \in S, NEW y \in S, x # y PROVE rank[x] # rank[y]
      OBVIOUS
    <3>1. <<x, y>> \in ahead \/ <<y, x>> \in ahead
      BY DEF StrictOrder
    <3>2. rank[x] < rank[y] \/ rank[y] < rank[x]
      BY <1>4, <3>1
    <3>3. rank[x] \in Nat /\ rank[y] \in Nat
      BY <1>3
    <3> HIDE DEF rank
    <3> QED
      BY <3>2, <3>3
  <2> HIDE DEF rank
  <2> QED
    BY <2>1, <2>2 DEF Injection, IsInjective
<1>6. \A k \in 1..N : \E x \in S : rank[x] = k - 1
  <2>1. IsFiniteSet(0..(N - 1)) /\ Cardinality(0..(N - 1)) = N
    <3>1. 0 \in Int /\ N - 1 \in Int
      BY <1>1
    <3>2. IsFiniteSet(0..(N - 1))
          /\ Cardinality(0..(N - 1)) = IF 0 > N - 1 THEN 0 ELSE (N - 1) - 0 + 1
      BY <3>1, FS_Interval
    <3> HIDE DEF N
    <3> QED
      BY <1>1, <3>2
  <2>2. rank \in Surjection(S, 0..(N - 1))
    <3> HIDE DEF rank
    <3> QED
      BY <1>5, <2>1, FS_Injection
  <2>3. \A k \in 0..(N - 1) : \E x \in S : rank[x] = k
    <3> HIDE DEF rank
    <3> QED
      BY <2>2 DEF Surjection
  <2> HIDE DEF rank, N
  <2> TAKE k \in 1..N
  <2>4. k - 1 \in 0..(N - 1)
    BY <1>1
  <2> QED
    BY <2>3, <2>4
<1>7. \A k \in 1..N : s[k] \in S /\ rank[s[k]] = k - 1
  <2> TAKE k \in 1..N
  <2>1. s[k] = CHOOSE x \in S : Cardinality(P(x)) = k - 1
    BY DEF InOrder
  <2>2. \E x \in S : Cardinality(P(x)) = k - 1
    BY <1>2, <1>6
  <2> HIDE DEF P, s, N
  <2>3. s[k] \in S /\ Cardinality(P(s[k])) = k - 1
    BY <2>1, <2>2
  <2> HIDE DEF rank
  <2> QED
    BY <1>2, <2>3
<1>8. s \in Seq(S) /\ Len(s) = N
  <2> DEFINE c(k) == CHOOSE x \in S : Cardinality({y \in S : <<y, x>> \in ahead}) = k - 1
  <2>1. s = [k \in 1..N |-> s[k]]
    <3>1. s = [k \in 1..N |-> c(k)]
      BY DEF InOrder
    <3> HIDE DEF c, s, N
    <3> QED
      BY <3>1
  <2> HIDE DEF s, N, rank
  <2> QED
    BY <1>1, <1>7, <2>1
<1> HIDE DEF rank, s, N, P
<1>9. \A i, j \in 1..N : i < j => <<s[i], s[j]>> \in ahead
  <2> SUFFICES ASSUME NEW i \in 1..N, NEW j \in 1..N, i < j PROVE <<s[i], s[j]>> \in ahead
    OBVIOUS
  <2>0. rank[s[i]] = i - 1 /\ rank[s[j]] = j - 1
    BY <1>7, Zenon
  <2>1. s[i] # s[j] /\ ~ (rank[s[j]] < rank[s[i]])
    BY <1>1, <2>0
  <2> QED
    BY <1>4, <1>7, <2>1, Zenon DEF StrictOrder
<1>10. \A x \in S : \E i \in 1..N : s[i] = x
  <2> TAKE x \in S
  <2> DEFINE k == rank[x] + 1
  <2>1. k \in 1..N /\ k - 1 = rank[x]
    BY <1>1, <1>3
  <2> HIDE DEF k
  <2>2. rank[s[k]] = rank[x] /\ s[k] \in S
    BY <1>7, <2>1
  <2>3. s[k] = x
    BY <1>5, <2>2 DEF Injection, IsInjective
  <2> QED
    BY <2>1, <2>3
<1> QED
  BY <1>8, <1>9, <1>10 DEF Lists, N, s

LEMMA ListsApart ==
    ASSUME NEW S, NEW ahead, StrictOrder(S, ahead), NEW s, Lists(s, S, ahead)
    PROVE  \A i, j \in 1..Len(s) : s[i] = s[j] => i = j
<1> SUFFICES ASSUME NEW i \in 1..Len(s), NEW j \in 1..Len(s), i # j PROVE s[i] # s[j]
  OBVIOUS
<1>1. s \in Seq(S) /\ Len(s) \in Nat /\ s[i] \in S /\ s[j] \in S
  BY DEF Lists
<1>2. i < j \/ j < i
  BY <1>1
<1>3. <<s[i], s[j]>> \in ahead \/ <<s[j], s[i]>> \in ahead
  BY <1>2 DEF Lists
<1> QED
  BY <1>1, <1>3 DEF StrictOrder

-----------------------------------------------------------------------------
(* Rows by speed, then by start: what the boards compare.                  *)
Ordered(rs) == \A r \in rs : r.wpm \in Nat /\ r.started \in Int

LEMMA LeaderExists ==
    ASSUME NEW S, IsFiniteSet(S), S # {}, Ordered(S)
    PROVE  Leading(S) # {}
<1> DEFINE Sizes == {n \in Nat : \E T \in SUBSET S :
                        T # {} /\ Leading(T) = {} /\ Cardinality(T) = n}
<1> SUFFICES ASSUME Leading(S) = {} PROVE FALSE
  OBVIOUS
<1>1. \A T \in SUBSET S : IsFiniteSet(T) /\ Cardinality(T) \in Nat
  BY FS_Subset, FS_CardinalityType
<1>2. Cardinality(S) \in Sizes
  BY <1>1
<1>3. PICK n \in Sizes : \A m \in Sizes : n <= m
  <2>1. Sizes \in SUBSET Nat /\ Sizes # {}
    BY <1>2
  <2> QED
    BY <2>1, LeastOfNaturals
<1>4. PICK T \in SUBSET S : T # {} /\ Leading(T) = {} /\ Cardinality(T) = n
  BY <1>3
<1>5. PICK x \in T : TRUE
  BY <1>4
<1>6. Cardinality(T \ {x}) = n - 1 /\ T \ {x} \in SUBSET S
  BY <1>1, <1>4, <1>5, FS_RemoveElement
<1>7. T \ {x} = {} \/ Leading(T \ {x}) # {}
  <2> SUFFICES ASSUME T \ {x} # {}, Leading(T \ {x}) = {} PROVE FALSE
    OBVIOUS
  <2>1. n - 1 \in Sizes
    BY <1>1, <1>6
  <2> QED
    BY <1>3, <2>1
<1>8. CASE T \ {x} = {}
  <2>1. \A q \in T : q = x
    BY <1>8
  <2>2. x.wpm \in Nat /\ x.started \in Int
    BY <1>5 DEF Ordered
  <2>3. ~Faster(x, x)
    BY <2>2 DEF Faster
  <2> QED
    BY <1>4, <1>5, <2>1, <2>3 DEF Leading
<1>9. ASSUME NEW y \in Leading(T \ {x}) PROVE FALSE
  <2>1. y \in T /\ \A q \in T \ {x} : ~Faster(q, y)
    BY <1>9 DEF Leading
  <2>2. CASE Faster(x, y)
    <3>1. \A q \in T : ~Faster(q, x)
      BY <1>5, <2>1, <2>2 DEF Faster, Ordered
    <3> QED
      BY <1>4, <1>5, <3>1 DEF Leading
  <2>3. CASE ~Faster(x, y)
    BY <1>4, <2>1, <2>3 DEF Leading
  <2> QED
    BY <2>2, <2>3
<1> QED
  BY <1>7, <1>8, <1>9

-----------------------------------------------------------------------------
(* The ghost.  A row no other row is faster than is as good as its user's   *)
(* best row, and whoever beats somebody's best row has a best row as well.  *)
Mine(rs, u) == {q \in rs : q.user = u}

LEMMA BestRows ==
    ASSUME NEW S, IsFiniteSet(S), Ordered(S)
    PROVE  /\ Best(S) \subseteq S
           /\ \A q \in S : \E b \in Best(S) : b.user = q.user /\ ~Faster(q, b)
           /\ \A b \in Best(S), q \in S : q.user = b.user => ~Faster(q, b)
           /\ \A b, c \in Best(S) : b.user = c.user => b = c
<1> DEFINE Pick(u) == CHOOSE r \in Leading(Mine(S, u)) : TRUE
           Players == {q.user : q \in S}
<1>1. ASSUME NEW u \in Players
      PROVE  Pick(u) \in S /\ Pick(u).user = u /\ \A q \in S : q.user = u => ~Faster(q, Pick(u))
  <2>1. Mine(S, u) # {} /\ Mine(S, u) \in SUBSET S
    BY DEF Mine
  <2>2. IsFiniteSet(Mine(S, u)) /\ Ordered(Mine(S, u))
    BY <2>1, FS_Subset DEF Ordered
  <2>3. Leading(Mine(S, u)) # {}
    BY <2>1, <2>2, LeaderExists
  <2>4. Pick(u) \in Leading(Mine(S, u))
    BY <2>3
  <2> QED
    BY <2>4 DEF Leading, Mine
<1>2. Best(S) = {Pick(u) : u \in Players}
  BY DEF Best, Mine
<1> HIDE DEF Pick
<1> QED
  BY <1>1, <1>2

LEMMA FasterIsAnOrder ==
    ASSUME NEW S, Ordered(S), NEW a \in S, NEW b \in S, NEW c \in S
    PROVE  /\ Faster(a, b) /\ ~Faster(a, c) => Faster(c, b)
           /\ ~Faster(a, b) /\ ~Faster(b, a) => a.wpm = b.wpm /\ a.started = b.started
BY DEF Ordered, Faster

LEMMA GhostLeads ==
    ASSUME NEW S, IsFiniteSet(S), Ordered(S)
    PROVE  {<<r.user, r.wpm, r.started>> : r \in Leading(S)}
              = {<<r.user, r.wpm, r.started>> : r \in Leading(Best(S))}
<1>1. /\ Best(S) \subseteq S
      /\ \A q \in S : \E b \in Best(S) : b.user = q.user /\ ~Faster(q, b)
      /\ \A b \in Best(S), q \in S : q.user = b.user => ~Faster(q, b)
  BY BestRows
<1>2. Leading(Best(S)) \subseteq Leading(S)
  <2> SUFFICES ASSUME NEW b \in Best(S), \A c \in Best(S) : ~Faster(c, b),
                      NEW q \in S, Faster(q, b)
               PROVE  FALSE
    BY <1>1 DEF Leading
  <2>1. PICK c \in Best(S) : c.user = q.user /\ ~Faster(q, c)
    BY <1>1
  <2>2. Faster(c, b)
    BY <1>1, <2>1, FasterIsAnOrder
  <2> QED
    BY <2>2
<1>3. ASSUME NEW r \in Leading(S)
      PROVE  \E b \in Leading(Best(S)) :
                b.user = r.user /\ b.wpm = r.wpm /\ b.started = r.started
  <2>1. r \in S /\ \A q \in S : ~Faster(q, r)
    BY DEF Leading
  <2>2. PICK b \in Best(S) : b.user = r.user /\ ~Faster(r, b)
    BY <1>1, <2>1
  <2>3. b \in S /\ ~Faster(b, r)
    BY <1>1, <2>1, <2>2
  <2>4. b.wpm = r.wpm /\ b.started = r.started
    BY <2>1, <2>2, <2>3, FasterIsAnOrder
  <2>5. \A q \in Best(S) : ~Faster(q, b)
    <3> SUFFICES ASSUME NEW q \in Best(S), Faster(q, b) PROVE FALSE
      OBVIOUS
    <3>1. Faster(r, b)
      BY <1>1, <2>1, <2>3, FasterIsAnOrder
    <3> QED
      BY <2>2, <3>1
  <2> QED
    BY <2>2, <2>4, <2>5 DEF Leading
<1> QED
  BY <1>2, <1>3

-----------------------------------------------------------------------------
(* The order of the board.                                                 *)
Rated(S) ==
    /\ \A r \in S : r.wpm \in Nat /\ r.started \in Int /\ r.id \in Nat
    /\ \A r, q \in S : r.id = q.id => r = q
ByRank(S) == {p \in S \X S : AheadOnBoard(p[1], p[2])}

LEMMA RankOrders ==
    ASSUME NEW S, Rated(S) PROVE StrictOrder(S, ByRank(S))
<1> SUFFICES ASSUME NEW x \in S, NEW y \in S, NEW z \in S
             PROVE  /\ <<x, x>> \notin ByRank(S)
                    /\ <<x, y>> \in ByRank(S) /\ <<y, z>> \in ByRank(S) => <<x, z>> \in ByRank(S)
                    /\ x # y => <<x, y>> \in ByRank(S) \/ <<y, x>> \in ByRank(S)
  BY DEF StrictOrder
<1>1. \A p, q \in S : <<p, q>> \in ByRank(S) <=> AheadOnBoard(p, q)
  BY DEF ByRank
<1>2. /\ x.wpm \in Nat /\ x.started \in Int /\ x.id \in Nat
      /\ y.wpm \in Nat /\ y.started \in Int /\ y.id \in Nat
      /\ z.wpm \in Nat /\ z.started \in Int /\ z.id \in Nat
      /\ x.id = y.id => x = y
  BY DEF Rated
<1>3. /\ ~ AheadOnBoard(x, x)
      /\ AheadOnBoard(x, y) /\ AheadOnBoard(y, z) => AheadOnBoard(x, z)
      /\ x # y => AheadOnBoard(x, y) \/ AheadOnBoard(y, x)
  BY <1>2 DEF AheadOnBoard, Faster
<1> QED
  BY <1>1, <1>3

(* Who has a row faster than that, and how many they are. *)
FasterUsers(S, w) == {q.user : q \in {p \in S : p.wpm > w}}

LEMMA FasterUsersGrow ==
    ASSUME NEW S, NEW T, IsFiniteSet(T), S \subseteq T, NEW w
    PROVE  /\ FasterUsers(S, w) \subseteq FasterUsers(T, w)
           /\ IsFiniteSet(FasterUsers(T, w))
           /\ Cardinality(FasterUsers(S, w)) \in Nat /\ Cardinality(FasterUsers(T, w)) \in Nat
           /\ Cardinality(FasterUsers(S, w)) <= Cardinality(FasterUsers(T, w))
<1> DEFINE R == {p \in T : p.wpm > w}
           f == [q \in R |-> q.user]
<1>1. IsFiniteSet(R)
  BY FS_Subset
<1>2. IsFiniteSet({f[q] : q \in R})
  <2>1. DOMAIN f = R
    OBVIOUS
  <2> HIDE DEF f, R
  <2> QED
    BY <1>1, <2>1, FiniteImage
<1>3. {f[q] : q \in R} = FasterUsers(T, w)
  BY DEF FasterUsers
<1>4. FasterUsers(S, w) \subseteq FasterUsers(T, w)
  BY DEF FasterUsers
<1> HIDE DEF f, R
<1> QED
  BY <1>2, <1>3, <1>4, FS_Subset, FS_CardinalityType

(* One best row each: as many best rows are faster as users are. *)
LEMMA BestCount ==
    ASSUME NEW S, IsFiniteSet(S), Ordered(S), NEW w \in Nat
    PROVE  Cardinality({q \in Best(S) : q.wpm > w}) = Cardinality(FasterUsers(S, w))
<1> DEFINE B == {q \in Best(S) : q.wpm > w}
           F == FasterUsers(S, w)
           f == [q \in B |-> q.user]
<1>1. /\ Best(S) \subseteq S
      /\ \A q \in S : \E b \in Best(S) : b.user = q.user /\ ~Faster(q, b)
  BY BestRows
<1>2. \A b, c \in Best(S) : b.user = c.user => b = c
  BY BestRows
<1>3. \A u \in F : \E b \in B : b.user = u
  <2> TAKE u \in F
  <2>1. PICK q \in S : q.wpm > w /\ q.user = u
    BY DEF FasterUsers
  <2>2. PICK b \in Best(S) : b.user = u /\ ~Faster(q, b)
    BY <1>1, <2>1
  <2>3. b.wpm \in Nat /\ q.wpm \in Nat
    BY <1>1 DEF Ordered
  <2>4. b.wpm > w
    BY <2>1, <2>2, <2>3 DEF Faster
  <2> QED
    BY <2>2, <2>4
<1>4. \A b \in B : b.user \in F
  BY <1>1 DEF FasterUsers
<1>5. IsFiniteSet(B)
  <2>1. B \subseteq S
    BY <1>1
  <2> HIDE DEF B
  <2> QED
    BY <2>1, FS_Subset
<1>6. f \in Bijection(B, F)
  <2>1. f \in [B -> F]
    BY <1>4
  <2>2. \A b, c \in B : f[b] = f[c] => b = c
    BY <1>2
  <2>3. \A u \in F : \E b \in B : f[b] = u
    BY <1>3
  <2> HIDE DEF f, B, F
  <2> QED
    BY <2>1, <2>2, <2>3 DEF Bijection, Injection, Surjection, IsInjective
<1>7. ExistsBijection(B, F)
  BY <1>6 DEF ExistsBijection
<1> HIDE DEF B, F, f
<1>8. Cardinality(F) = Cardinality(B)
  BY <1>5, <1>7, FS_Bijection
<1> QED
  BY <1>8 DEF B, F

(* The speeds above a speed, each counted once. *)
Speeds(S, w) == {q.wpm : q \in {p \in Best(S) : p.wpm > w}}

LEMMA SpeedsFinite ==
    ASSUME NEW S, IsFiniteSet(S), Ordered(S), NEW w
    PROVE  IsFiniteSet(Speeds(S, w)) /\ Cardinality(Speeds(S, w)) \in Nat
<1> DEFINE R == {p \in Best(S) : p.wpm > w}
           f == [q \in R |-> q.wpm]
<1>1. R \subseteq S
  BY BestRows
<1>2. DOMAIN f = R /\ {f[q] : q \in R} = Speeds(S, w)
  BY DEF Speeds
<1> HIDE DEF f, R
<1>3. IsFiniteSet(R)
  BY <1>1, FS_Subset
<1> QED
  BY <1>2, <1>3, FiniteImage, FS_CardinalityType

(* One more run takes away one speed at most: what its user was best at.   *)
LEMMA OneSpeedLost ==
    ASSUME NEW S, IsFiniteSet(S), NEW x, Ordered(S \cup {x}), NEW w
    PROVE  Cardinality(Speeds(S, w)) <= 1 + Cardinality(Speeds(S \cup {x}, w))
<1> DEFINE T == S \cup {x}
<1>1. Ordered(S) /\ IsFiniteSet(T)
  BY FS_AddElement DEF Ordered
<1>2. /\ Best(S) \subseteq S
      /\ \A b \in Best(S), q \in S : q.user = b.user => ~Faster(q, b)
      /\ \A b, c \in Best(S) : b.user = c.user => b = c
  BY <1>1, BestRows
<1>3. /\ Best(T) \subseteq T
      /\ \A q \in T : \E b \in Best(T) : b.user = q.user /\ ~Faster(q, b)
  <2> HIDE DEF T
  <2> QED
    BY <1>1, BestRows DEF T
<1>4. \A b \in Best(S) : b.user # x.user => \E c \in Best(T) : c.wpm = b.wpm
  <2> TAKE b \in Best(S)
  <2> HAVE b.user # x.user
  <2>1. b \in S
    BY <1>2
  <2>2. PICK c \in Best(T) : c.user = b.user /\ ~Faster(b, c)
    BY <1>3, <2>1
  <2>3. c \in S
    BY <1>3, <2>2
  <2>4. ~Faster(c, b)
    BY <1>2, <2>2, <2>3
  <2> QED
    BY <1>1, <2>1, <2>2, <2>3, <2>4, FasterIsAnOrder
<1>5. PICK v : \A b \in Best(S) : b.user = x.user => b.wpm = v
  <2>1. CASE \E c \in Best(S) : c.user = x.user
    BY <1>2, <2>1
  <2>2. CASE ~ \E c \in Best(S) : c.user = x.user
    BY <2>2
  <2> QED
    BY <2>1, <2>2
<1>6. Speeds(S, w) \subseteq Speeds(T, w) \cup {v}
  BY <1>4, <1>5 DEF Speeds
<1> HIDE DEF T
<1>7. IsFiniteSet(Speeds(T, w)) /\ Cardinality(Speeds(T, w)) \in Nat
  BY <1>1, SpeedsFinite DEF T
<1> DEFINE more == Speeds(T, w) \cup {v}
<1>8. IsFiniteSet(more) /\ Cardinality(more) <= 1 + Cardinality(Speeds(T, w))
  BY <1>7, FS_AddElement
<1>9. Cardinality(Speeds(S, w)) <= Cardinality(more) /\ Cardinality(more) \in Nat
  <2> HIDE DEF more
  <2> QED
    BY <1>6, <1>8, FS_Subset, FS_CardinalityType DEF more
<1>10. Cardinality(Speeds(S, w)) \in Nat
  BY <1>1, SpeedsFinite
<1> QED
  BY <1>7, <1>8, <1>9, <1>10 DEF T

(* A page of the board begins it.                                          *)
LEMMA BoardPage ==
    ASSUME NEW S, IsFiniteSet(S), Rated(S), NEW limit \in Nat,
           NEW top, top = Leaderboard(S, limit), top # <<>>
    PROVE  \E board, m : /\ Lists(board, Best(S), ByRank(Best(S))) /\ m \in 1..Len(board)
                         /\ DOMAIN top = 1..m /\ \A i \in 1..m : top[i] = board[i]
                         /\ Last(top) = board[m]
<1> DEFINE best  == Best(S)
           board == InOrder(best, ByRank(best))
           n     == Len(board)
           m     == IF limit <= n THEN limit ELSE n
<1>1. Ordered(S)
  BY DEF Ordered, Rated
<1>2. /\ best \subseteq S
      /\ \A q \in S : \E b \in best : b.user = q.user /\ ~Faster(q, b)
  BY <1>1, BestRows
<1>3. IsFiniteSet(best) /\ Rated(best)
  <2> HIDE DEF best
  <2> QED
    BY <1>2, FS_Subset DEF Rated
<1>4. Lists(board, best, ByRank(best))
  <2> HIDE DEF best
  <2> QED
    BY <1>3, RankOrders, OrderLists
<1>5. top = SubSeq(board, 1, Min({limit, n}))
  BY DEF Leaderboard, ByRank
<1> HIDE DEF board, best
<1>6. board \in Seq(best) /\ n \in Nat
  BY <1>4 DEF Lists
<1>7. top = SubSeq(board, 1, m) /\ m \in 0..n
  <2> HIDE DEF n
  <2>1. Min({limit, n}) = m
    BY <1>6, MinOfTwo
  <2> HIDE DEF m
  <2>2. top = SubSeq(board, 1, m)
    BY <1>5, <2>1
  <2>3. m \in 0..n
    BY <1>6 DEF m
  <2> QED
    BY <2>2, <2>3
<1>8. Len(top) = m /\ DOMAIN top = 1..m /\ \A i \in 1..m : top[i] = board[i]
  BY <1>6, <1>7
<1>9. m # 0
  BY <1>6, <1>7, <1>8
<1>10. m \in 1..n /\ Last(top) = board[m] /\ board[m] \in best
  BY <1>6, <1>7, <1>8, <1>9 DEF Last
<1> QED
  BY <1>4, <1>8, <1>10 DEF best, n

LEMMA LastOfBoard ==
    ASSUME NEW S, IsFiniteSet(S), Rated(S), NEW limit \in Nat,
           NEW top, top = Leaderboard(S, limit), top # <<>>
    PROVE  Last(top) \in Best(S)
<1>1. PICK board, m : /\ Lists(board, Best(S), ByRank(Best(S))) /\ m \in 1..Len(board)
                      /\ Last(top) = board[m]
  BY BoardPage
<1> QED
  BY <1>1 DEF Lists

(* Whoever has a row but is not on the page is no faster than its last row. *)
LEMMA BelowThePage ==
    ASSUME NEW S, IsFiniteSet(S), Rated(S), NEW limit \in Nat, NEW user,
           NEW top, top = Leaderboard(S, limit), top # <<>>,
           \A i \in DOMAIN top : top[i].user # user
    PROVE  \A r \in S : r.user = user => r.wpm <= Last(top).wpm
<1> DEFINE best == Best(S)
<1>1. PICK board, m : /\ Lists(board, best, ByRank(best)) /\ m \in 1..Len(board)
                      /\ DOMAIN top = 1..m /\ \A i \in 1..m : top[i] = board[i]
                      /\ Last(top) = board[m]
  BY BoardPage
<1>2. /\ best \subseteq S
      /\ \A q \in S : \E b \in best : b.user = q.user /\ ~Faster(q, b)
  BY BestRows DEF Ordered, Rated
<1>3. Rated(best)
  BY <1>2 DEF Rated
<1> HIDE DEF best
<1>4. board \in Seq(best) /\ Len(board) \in Nat /\ board[m] \in best
  BY <1>1 DEF Lists
<1>5. ASSUME NEW b \in best, b.user = user PROVE b.wpm <= board[m].wpm
  <2>1. PICK i \in 1..Len(board) : board[i] = b
    BY <1>1 DEF Lists
  <2>2. i \notin 1..m
    BY <1>1, <1>5, <2>1
  <2>3. m < i
    BY <1>1, <1>4, <2>1, <2>2
  <2>4. <<board[m], b>> \in ByRank(best)
    BY <1>1, <2>1, <2>3 DEF Lists
  <2>5. AheadOnBoard(board[m], b)
    BY <2>4 DEF ByRank
  <2>6. b.wpm \in Nat /\ board[m].wpm \in Nat
    BY <1>3, <1>4 DEF Rated
  <2> QED
    BY <2>5, <2>6 DEF AheadOnBoard, Faster
<1>6. ASSUME NEW r \in S, r.user = user PROVE r.wpm <= board[m].wpm
  <2>1. PICK b \in best : b.user = user /\ ~Faster(r, b)
    BY <1>2, <1>6
  <2>2. r.wpm \in Nat /\ b.wpm \in Nat /\ board[m].wpm \in Nat
    BY <1>2, <1>4 DEF Rated
  <2>3. b.wpm <= board[m].wpm
    BY <1>5, <2>1
  <2> QED
    BY <2>1, <2>2, <2>3 DEF Faster
<1> QED
  BY <1>1, <1>6

LEMMA GhostOfRows ==
    ASSUME IsFiniteSet(rows), \A r \in rows : r.wpm \in Nat /\ r.started \in Int
    PROVE  GhostIsFirst
<1> SUFFICES ASSUME NEW t \in DOMAIN texts
             PROVE  {<<r.user, r.wpm, r.started>> : r \in Ghosts(rows, t, now)}
                       = {<<r.user, r.wpm, r.started>> :
                             r \in Leading(Best(OnDailyBoard(rows, t, now)))}
  BY DEF GhostIsFirst
<1> DEFINE S == OnDailyBoard(rows, t, now)
<1>1. S \in SUBSET rows
  BY DEF OnDailyBoard
<1>2. IsFiniteSet(S) /\ Ordered(S)
  BY <1>1, FS_Subset DEF Ordered
<1>3. Ghosts(rows, t, now) = Leading(S)
  BY DEF Ghosts, GhostRows
<1> HIDE DEF S
<1>4. {<<r.user, r.wpm, r.started>> : r \in Leading(S)}
         = {<<r.user, r.wpm, r.started>> : r \in Leading(Best(S))}
  BY <1>2, GhostLeads
<1> QED
  BY <1>3, <1>4 DEF S

-----------------------------------------------------------------------------
(* The operators: what they are given and what they give.                  *)

LEMMA UnusedIds == \A id \in Unused : id \in Ids /\ \A r \in rows : r.id # id
<1> DEFINE left == Ids \ {r.id : r \in rows}
<1>1. left \in SUBSET Nat /\ \A m \in left : m <= MaxRows
  BY BoundsAssumption DEF Ids
<1>2. left # {} => Min(left) \in left /\ Max(left) \in left
  BY <1>1, MinMember, MaxMember, BoundsAssumption
<1>3. \A id \in Unused : id \in left
  BY <1>2 DEF Unused
<1> QED
  BY <1>3

(* The order of ids.                                                       *)
Smaller(S) == {p \in S \X S : p[1] < p[2]}

LEMMA LessOrders ==
    ASSUME NEW S \in SUBSET Nat PROVE StrictOrder(S, Smaller(S))
<1>1. \A x, y : <<x, y>> \in Smaller(S) <=> x \in S /\ y \in S /\ x < y
  BY DEF Smaller
<1> SUFFICES ASSUME NEW x \in S, NEW y \in S, NEW z \in S
             PROVE  /\ <<x, x>> \notin Smaller(S)
                    /\ <<x, y>> \in Smaller(S) /\ <<y, z>> \in Smaller(S) => <<x, z>> \in Smaller(S)
                    /\ x # y => <<x, y>> \in Smaller(S) \/ <<y, x>> \in Smaller(S)
  BY DEF StrictOrder
<1>2. x \in Nat /\ y \in Nat /\ z \in Nat
  OBVIOUS
<1> QED
  BY <1>1, <1>2

(* daily_text(): if there are any texts, one of them.                       *)
LEMMA DailyIsActive ==
    ASSUME active \subseteq TextIds, active # {}, now \in 0..MaxNow
    PROVE  DailyText(active, DayOf(now)) \in active
<1> DEFINE below == {p \in active \X active : p[1] < p[2]}
           s     == InOrder(active, below)
           c     == Cardinality(active)
           h     == DayHash[DayOf(now)]
<1>1. active \in SUBSET Nat /\ IsFiniteSet(active)
  BY TextsAssumption, FS_Subset
<1>2. c \in Nat /\ c # 0 /\ h \in Nat
  BY <1>1, FS_EmptySet, FS_CardinalityType, BoundsAssumption
<1>3. StrictOrder(active, below)
  BY <1>1, LessOrders DEF Smaller
<1> HIDE DEF below
<1>4. Lists(s, active, below)
  BY <1>1, <1>3, OrderLists
<1>5. DailyText(active, DayOf(now)) = s[(h % c) + 1]
  BY DEF DailyText, below
<1> HIDE DEF s, h, c
<1>6. (h % c) + 1 \in 1..c
  BY <1>2
<1>7. s \in Seq(active) /\ Len(s) = c
  BY <1>4 DEF Lists, c
<1> QED
  BY <1>5, <1>6, <1>7

-----------------------------------------------------------------------------
(* The order of a list, newest first.                                      *)
Items == [created: Nat, id: Nat]
ByAge(pool) == {p \in pool \X pool : Newer(p[1], p[2])}

LEMMA ByAgeIs ==
    ASSUME NEW pool, NEW x, NEW y
    PROVE  <<x, y>> \in ByAge(pool) <=> x \in pool /\ y \in pool /\ Newer(x, y)
BY DEF ByAge

LEMMA NewerIsAnOrder ==
    ASSUME NEW x \in Items, NEW y \in Items, NEW z \in Items
    PROVE  /\ ~ Newer(x, x) /\ (Newer(x, y) /\ Newer(y, z) => Newer(x, z))
           /\ (x # y => Newer(x, y) \/ Newer(y, x))
           /\ Before(y, x) <=> Newer(x, y)
<1>1. /\ x.created \in Nat /\ x.id \in Nat /\ y.created \in Nat /\ y.id \in Nat
      /\ z.created \in Nat /\ z.id \in Nat
  BY DEF Items
<1>2. x.created = y.created /\ x.id = y.id => x = y
  BY DEF Items
<1> QED
  BY <1>1, <1>2 DEF Newer, Before

LEMMA AgeOrders ==
    ASSUME NEW pool \in SUBSET Items PROVE StrictOrder(pool, ByAge(pool))
BY ByAgeIs, NewerIsAnOrder DEF StrictOrder

LEMMA SubOfSub ==
    ASSUME NEW A, NEW s \in Seq(A), NEW k \in 0..Len(s), NEW m \in 0..k
    PROVE  SubSeq(SubSeq(s, 1, k), 1, m) = SubSeq(s, 1, m)
<1> DEFINE p == SubSeq(s, 1, k)
           q == SubSeq(p, 1, m)
           r == SubSeq(s, 1, m)
<1>1. p \in Seq(A) /\ Len(p) = k /\ \A i \in 1..k : p[i] = s[i]
  OBVIOUS
<1> HIDE DEF p
<1>2. q \in Seq(A) /\ Len(q) = m /\ \A i \in 1..m : q[i] = p[i]
  BY <1>1
<1>3. r \in Seq(A) /\ Len(r) = m /\ \A i \in 1..m : r[i] = s[i]
  OBVIOUS
<1> HIDE DEF q, r
<1>4. \A i \in 1..m : q[i] = r[i]
  <2> TAKE i \in 1..m
  <2>1. i \in 1..k
    OBVIOUS
  <2> QED
    BY <1>1, <1>2, <1>3, <2>1
<1>5. q = r
  BY <1>2, <1>3, <1>4
<1> QED
  BY <1>5 DEF p, q, r

(* What a list may be asked for, in order.                                 *)
Pool(kind, cursor) ==
    IF cursor = Start THEN Listed(kind) ELSE {i \in Listed(kind) : Before(i, cursor)}

(* One part is the beginning of what is left, all of it or up to the cursor *)
(* for the next.                                                           *)
Turnable(got, s) ==
    \E m \in 0..Len(s) :
        /\ got.items = SubSeq(s, 1, m)
        /\ \/ got.next = Start /\ m = Len(s)
           \/ m >= 1 /\ got.next = s[m]

LEMMA OnePageIs ==
    ASSUME NEW kind \in {"history", "texts"}, NEW cursor, Listed(kind) \subseteq Items,
           IsFiniteSet(Listed(kind)), cast.limit \in Nat \ {0}
    PROVE  \E s : /\ Lists(s, Pool(kind, cursor), ByAge(Pool(kind, cursor)))
                  /\ Turnable(OnePage(kind, cursor), s)
<1> DEFINE pool == Pool(kind, cursor)
           s    == InOrder(pool, ByAge(pool))
           n    == Len(s)
           l    == cast.limit
<1>1. pool \subseteq Items /\ IsFiniteSet(pool)
  <2>1. pool \subseteq Listed(kind)
    BY DEF Pool
  <2> HIDE DEF pool
  <2> QED
    BY <2>1, FS_Subset
<1>2. Lists(s, pool, ByAge(pool))
  <2> HIDE DEF pool
  <2> QED
    BY <1>1, AgeOrders, OrderLists
<1>3. Rest(Listed(kind), cursor) = s
  BY DEF Rest, Pool, ByAge
<1> HIDE DEF s, pool
<1>4. s \in Seq(Items) /\ n \in Nat /\ l \in Nat /\ l >= 1
      /\ \A i \in 1..n : s[i] \in Items /\ CursorOf(s[i]) = s[i]
  <2>1. s \in Seq(Items)
    BY <1>1, <1>2 DEF Lists
  <2>2. \A x \in Items : CursorOf(x) = x
    BY DEF Items, CursorOf
  <2> QED
    BY <2>1, <2>2
<1>5. \A m \in 0..n : /\ SubSeq(s, 1, m) \in Seq(Items) /\ Len(SubSeq(s, 1, m)) = m
                      /\ m >= 1 => CursorOf(Last(SubSeq(s, 1, m))) = s[m]
  <2> TAKE m \in 0..n
  <2>1. Len(SubSeq(s, 1, m)) = m /\ SubSeq(s, 1, m) \in Seq(Items)
        /\ \A i \in 1..m : SubSeq(s, 1, m)[i] = s[i]
    BY <1>4
  <2> QED
    BY <1>4, <2>1 DEF Last
<1>6. \A k \in Nat : Page(Listed(kind), cursor, k) = SubSeq(s, 1, IF k <= n THEN k ELSE n)
  BY <1>3, <1>4, MinOfTwo DEF Page
<1>7. CASE kind = "history"
  <2> DEFINE m    == IF l <= n THEN l ELSE n
             part == SubSeq(s, 1, m)
  <2>1. m \in 0..n
    BY <1>4
  <2>2. OnePage(kind, cursor) = [items |-> part,
                                 next  |-> IF Len(part) = l THEN CursorOf(Last(part)) ELSE Start]
    BY <1>4, <1>6, <1>7 DEF OnePage, HistoryPage
  <2>3. Len(part) = m /\ (m >= 1 => CursorOf(Last(part)) = s[m])
    BY <1>5, <2>1
  <2>4. m = l \/ m = n
    OBVIOUS
  <2> HIDE DEF m
  <2>5. Turnable(OnePage(kind, cursor), s)
    BY <1>4, <2>1, <2>2, <2>3, <2>4 DEF Turnable
  <2> QED
    BY <1>2, <2>5 DEF pool
<1>8. CASE kind = "texts"
  <2> DEFINE k     == IF l + 1 <= n THEN l + 1 ELSE n
             more == SubSeq(s, 1, k)
             m     == IF l <= n THEN l ELSE n
             part  == SubSeq(s, 1, m)
  <2>1. m \in 0..n /\ k \in 0..n /\ Min({l, k}) = m /\ m <= k
    BY <1>4, MinOfTwo
  <2>2. Len(more) = k
    BY <1>5, <2>1
  <2>3. SubSeq(more, 1, m) = part
    <3> HIDE DEF k, m
    <3> QED
      BY <1>4, <2>1, SubOfSub
  <2>4. OnePage(kind, cursor) = [items |-> part,
                                 next  |-> IF k > l THEN CursorOf(Last(part)) ELSE Start]
    <3>1. Page(Listed(kind), cursor, l + 1) = more
      <4>1. l + 1 \in Nat
        BY <1>4
      <4>2. Page(Listed(kind), cursor, l + 1) = SubSeq(s, 1, IF l + 1 <= n THEN l + 1 ELSE n)
        <5> DEFINE x == l + 1
        <5> HIDE DEF x
        <5>1. x \in Nat => Page(Listed(kind), cursor, x) = SubSeq(s, 1, IF x <= n THEN x ELSE n)
          BY <1>6
        <5> QED
          BY <4>1, <5>1 DEF x
      <4> QED
        BY <4>2
    <3> HIDE DEF more, part, m, k
    <3> QED
      BY <1>8, <2>1, <2>2, <2>3, <3>1 DEF OnePage, TextsPage
  <2>5. m >= 1 => CursorOf(Last(part)) = s[m]
    BY <1>5, <2>1
  <2>6. (k > l => m >= 1) /\ (~ (k > l) => m = n)
    BY <1>4
  <2> HIDE DEF m, k
  <2>7. Turnable(OnePage(kind, cursor), s)
    BY <2>1, <2>4, <2>5, <2>6 DEF Turnable
  <2> QED
    BY <1>2, <2>7 DEF pool
<1> QED
  BY <1>7, <1>8

(* What a reader has of a list: no item twice, nothing that comes after    *)
(* the cursor, and of what there was at first all that does not.           *)
Followed(kind, seen, cursor, first) ==
    /\ seen \in Seq(Items) /\ first \subseteq Listed(kind)
    /\ \A i, j \in DOMAIN seen : seen[i] = seen[j] => i = j
    /\ cursor # Start =>
          cursor \in Items /\ \A i \in DOMAIN seen : ~ Before(seen[i], cursor)
    /\ \A x \in first : \/ cursor # Start /\ Before(x, cursor)
                        \/ \E i \in DOMAIN seen : seen[i] = x

LEMMA PageTurned ==
    ASSUME NEW pool \in SUBSET Items, NEW s, Lists(s, pool, ByAge(pool)),
           NEW got, Turnable(got, s), NEW seen \in Seq(Items),
           \A i, j \in DOMAIN seen : seen[i] = seen[j] => i = j,
           \A i \in DOMAIN seen : \A x \in pool : seen[i] # x /\ ~ Before(seen[i], x),
           NEW kind, NEW first \in SUBSET Listed(kind),
           \A x \in first : x \in pool \/ \E i \in DOMAIN seen : seen[i] = x
    PROVE  Followed(kind, seen \o got.items, got.next, first)
<1> DEFINE n   == Len(s)
           k   == Len(seen)
<1>1. PICK m \in 0..n : /\ got.items = SubSeq(s, 1, m)
                        /\ \/ got.next = Start /\ m = n
                           \/ m >= 1 /\ got.next = s[m]
  BY DEF Turnable
<1>2. /\ s \in Seq(pool) /\ s \in Seq(Items) /\ n \in Nat /\ k \in Nat /\ DOMAIN seen = 1..k
      /\ \A i \in 1..n : s[i] \in pool
  BY DEF Lists
<1>3. /\ \A i, j \in 1..n : i < j => Newer(s[i], s[j])
      /\ \A i, j \in 1..n : s[i] = s[j] => i = j
      /\ \A x \in pool : \E i \in 1..n : s[i] = x
  <2>1. \A i, j \in 1..n : s[i] = s[j] => i = j
    BY AgeOrders, ListsApart
  <2> QED
    BY <2>1, ByAgeIs DEF Lists
<1> DEFINE part == SubSeq(s, 1, m)
           all  == seen \o part
<1> HIDE DEF n, k
<1>4. part \in Seq(Items) /\ Len(part) = m /\ m \in Nat /\ \A i \in 1..m : part[i] = s[i] /\ i \in 1..n
  BY <1>1, <1>2 DEF n
<1> HIDE DEF part
<1>5. /\ all \in Seq(Items) /\ Len(all) = k + m /\ DOMAIN all = 1..(k + m)
      /\ \A i \in 1..k : all[i] = seen[i]
      /\ \A i \in 1..m : all[k + i] = s[i]
  <2>1. /\ all \in Seq(Items) /\ Len(all) = k + m
        /\ \A i \in 1..k : all[i] = seen[i]
        /\ \A i \in 1..m : all[k + i] = part[i]
    <3>1. /\ seen \o part \in Seq(Items) /\ Len(seen \o part) = Len(seen) + Len(part)
          /\ \A i \in 1..Len(seen) : (seen \o part)[i] = seen[i]
          /\ \A i \in 1..Len(part) : (seen \o part)[Len(seen) + i] = part[i]
      <4>1. part \in Seq(Items) /\ seen \in Seq(Items)
        BY <1>4
      <4> HIDE DEF all
      <4> DEFINE both == seen \o part
      <4>2. /\ both \in Seq(Items) /\ Len(both) = Len(seen) + Len(part)
            /\ \A i \in 1..Len(seen) : both[i] = seen[i]
            /\ \A i \in 1..Len(part) : both[Len(seen) + i] = part[i]
        BY <4>1, Joined
      <4> QED
        BY <4>2
    <3>2. Len(seen) = k /\ Len(part) = m
      BY <1>4 DEF k
    <3> QED
      BY <3>1, <3>2
  <2> HIDE DEF all
  <2>2. \A i \in 1..m : all[k + i] = s[i]
    BY <1>4, <2>1
  <2> QED
    BY <1>2, <1>4, <2>1, <2>2
<1> HIDE DEF all
<1>6. \A i \in 1..(k + m) : \/ i \in 1..k /\ all[i] = seen[i]
                            \/ \E j \in 1..m : i = k + j /\ all[i] = s[j] /\ all[i] \in pool
  <2> TAKE i \in 1..(k + m)
  <2>1. CASE i \in 1..k
    BY <1>5, <2>1
  <2>2. CASE i \notin 1..k
    <3> DEFINE j == i - k
    <3>1. j \in 1..m /\ i = k + j
      BY <1>2, <1>4, <2>2
    <3> HIDE DEF j
    <3>2. all[i] = s[j] /\ s[j] \in pool
      BY <1>2, <1>4, <1>5, <3>1
    <3> QED
      BY <3>1, <3>2
  <2> QED
    BY <2>1, <2>2
<1>7. \A i, j \in 1..(k + m) : all[i] = all[j] => i = j
  <2> SUFFICES ASSUME NEW i \in 1..(k + m), NEW j \in 1..(k + m), all[i] = all[j] PROVE i = j
    OBVIOUS
  <2>1. CASE i \in 1..k /\ all[i] = seen[i] /\ j \in 1..k /\ all[j] = seen[j]
    BY <1>2, <2>1
  <2>2. CASE i \in 1..k /\ all[i] = seen[i] /\ \E p \in 1..m : j = k + p /\ all[j] = s[p] /\ all[j] \in pool
    BY <1>2, <2>2
  <2>3. CASE j \in 1..k /\ all[j] = seen[j] /\ \E p \in 1..m : i = k + p /\ all[i] = s[p] /\ all[i] \in pool
    BY <1>2, <2>3
  <2>4. CASE /\ \E p \in 1..m : i = k + p /\ all[i] = s[p]
             /\ \E p \in 1..m : j = k + p /\ all[j] = s[p]
    <3>1. PICK p \in 1..m, q \in 1..m : i = k + p /\ all[i] = s[p] /\ j = k + q /\ all[j] = s[q]
      BY <2>4
    <3>2. p \in 1..n /\ q \in 1..n /\ s[p] = s[q]
      BY <1>4, <3>1
    <3>3. p = q
      BY <1>3, <3>2
    <3> QED
      BY <3>1, <3>3
  <2> QED
    BY <1>6, <2>1, <2>2, <2>3, <2>4
<1>8. \A x \in first : (\E i \in 1..(k + m) : all[i] = x) \/ \E i \in (m + 1)..n : s[i] = x
  <2> TAKE x \in first
  <2>1. CASE \E i \in DOMAIN seen : seen[i] = x
    <3>1. PICK i \in 1..k : seen[i] = x
      BY <1>2, <2>1
    <3>2. i \in 1..(k + m) /\ all[i] = x
      BY <1>2, <1>4, <1>5, <3>1
    <3> QED
      BY <3>2
  <2>2. CASE x \in pool
    <3>1. PICK i \in 1..n : s[i] = x
      BY <1>3, <2>2
    <3>2. CASE i \in 1..m
      <4>1. k + i \in 1..(k + m) /\ all[k + i] = x
        BY <1>2, <1>4, <1>5, <3>1, <3>2
      <4> QED
        BY <4>1
    <3>3. CASE i \notin 1..m
      <4>1. i \in (m + 1)..n
        BY <1>2, <1>4, <3>3
      <4> QED
        BY <3>1, <4>1
    <3> QED
      BY <3>2, <3>3
  <2> QED
    BY <2>1, <2>2
<1>9. CASE got.next = Start /\ m = n
  <2>1. (m + 1)..n = {}
    BY <1>2, <1>9
  <2>2. \A x \in first : \E i \in DOMAIN all : all[i] = x
    BY <1>5, <1>8, <2>1
  <2>3. got.items = part
    BY <1>1 DEF part
  <2>4. DOMAIN all = 1..(k + m) /\ all \in Seq(Items)
    BY <1>5
  <2> QED
    BY <1>7, <1>9, <2>2, <2>3, <2>4 DEF Followed, all
<1>10. CASE m >= 1 /\ got.next = s[m]
  <2>1. m \in 1..n /\ s[m] \in pool /\ s[m] \in Items
    BY <1>1, <1>2, <1>10
  <2>2. \A i \in 1..(k + m) : ~ Before(all[i], s[m])
    <3> TAKE i \in 1..(k + m)
    <3>1. CASE i \in 1..k /\ all[i] = seen[i]
      BY <1>2, <2>1, <3>1
    <3>2. CASE \E j \in 1..m : i = k + j /\ all[i] = s[j] /\ all[i] \in pool
      <4>1. PICK j \in 1..m : all[i] = s[j]
        BY <3>2
      <4>2. j \in 1..n /\ s[j] \in Items /\ (j = m \/ j < m)
        BY <1>2, <1>4, <4>1
      <4>3. j = m \/ Newer(s[j], s[m])
        BY <1>3, <2>1, <4>2
      <4>4. ~ Newer(s[m], s[j])
        BY <2>1, <4>2, <4>3, NewerIsAnOrder
      <4> QED
        BY <2>1, <4>1, <4>2, <4>4, NewerIsAnOrder
    <3> QED
      BY <1>6, <3>1, <3>2
  <2>3. \A i \in (m + 1)..n : Before(s[i], s[m])
    <3> TAKE i \in (m + 1)..n
    <3>1. i \in 1..n /\ m < i /\ s[i] \in Items
      BY <1>2, <1>4, <2>1
    <3>2. Newer(s[m], s[i])
      BY <1>3, <2>1, <3>1
    <3> QED
      BY <2>1, <3>1, <3>2, NewerIsAnOrder
  <2>4. \A x \in first : Before(x, s[m]) \/ \E i \in DOMAIN all : all[i] = x
    BY <1>5, <1>8, <2>3
  <2>5. s[m] # Start
    <3>1. s[m].created \in Nat
      BY <2>1 DEF Items
    <3> QED
      BY <3>1 DEF Start
  <2>6. DOMAIN all = 1..(k + m) /\ got.items = part
    BY <1>1, <1>5 DEF part
  <2> QED
    BY <1>5, <1>7, <1>10, <2>1, <2>2, <2>4, <2>5, <2>6 DEF Followed, all
<1> QED
  BY <1>1, <1>9, <1>10

-----------------------------------------------------------------------------
(* The types alone are not inductive: what becomes a row was in the page's  *)
(* submission before, and in the engine before that.                       *)
WorldTyped ==
    /\ cast \in Casts /\ now \in 0..cast.until /\ edits \in 0..cast.edits
    /\ DOMAIN texts \subseteq TextIds /\ active \subseteq DOMAIN texts
    /\ contents \in [DOMAIN texts -> Seq(Alphabet)]

RowsTyped ==
    /\ IsFiniteSet(rows)
    /\ \A r \in rows : r \in Sessions /\ Scored(r.log) /\ Judged(r)
    /\ \A r, q \in rows : r.id = q.id => r = q

EngineTyped == GoodEngine(engine)

Submitted == page.stage \in {"limit", "text", "daily", "record"}
PageTyped ==
    /\ DOMAIN page = DOMAIN NoPage
    /\ page.mode \in Modes \cup {"none"} /\ page.stage \in Stages
    /\ page.stage # "none" => page.mode \in Modes
    /\ page.stage # "none" => page.text \in TextIds
    /\ page.against \in Seq(Alphabet)
    /\ Submitted => /\ page.log \in Seq(Keystroke)
                    /\ page.started \in Int /\ page.began \in 0..MaxNow

RunInv == WorldTyped /\ RowsTyped /\ EngineTyped /\ PageTyped

LEMMA RunInvTypes == RunInv => TypeOK
BY BoundsAssumption, CastsAssumption
   DEF RunInv, WorldTyped, RowsTyped, PageTyped, TypeOK

(* A row of a scored run, from the page or from elsewhere. *)
LEMMA OneMoreRow ==
    ASSUME RowsTyped, NEW id \in Unused, NEW user \in Users, NEW text \in TextIds,
           NEW mode \in {"practice", "daily"}, NEW log, Scored(log),
           NEW started \in Int, NEW created \in 0..MaxNow, NEW against \in Seq(Alphabet),
           rows' = rows \cup {Row(id, user, text, mode, log, started, created, against)}
    PROVE  RowsTyped'
<1> DEFINE row == Row(id, user, text, mode, log, started, created, against)
<1>1. row \in Sessions /\ row.id = id /\ row.log = log /\ Judged(row)
  <2>1. Metrics(log).wpm \in Nat /\ log \in Seq(Keystroke)
    BY SpeedIsNatural DEF Scored
  <2> QED
    BY <2>1, UnusedIds DEF Row, Sessions, Judged
<1> HIDE DEF row
<1>2. \A r \in rows : r.id # row.id
  BY <1>1, UnusedIds
<1>3. IsFiniteSet(rows \cup {row})
  BY FS_AddElement DEF RowsTyped
<1> QED
  BY <1>1, <1>2, <1>3 DEF RowsTyped, row

-----------------------------------------------------------------------------
(* The steps, each with the parts of the invariant it can disturb.         *)

LEMMA NowBounded == WorldTyped => now \in 0..MaxNow /\ now \in Nat /\ cast.until \in 0..MaxNow
BY CastsAssumption, BoundsAssumption DEF WorldTyped

(* What is there of a text. *)
LEMMA TextKept ==
    ASSUME RunInv, NEW t \in active
    PROVE  t \in TextIds /\ contents[t] \in Seq(Alphabet)
BY DEF RunInv, WorldTyped

(* A text that is opened on the page. *)
LEMMA OpenedPage ==
    ASSUME NEW mode \in Modes, NEW t \in TextIds,
           \/ page' = Opened(mode, t)
           \/ \E idle : page' = [Opened(mode, t) EXCEPT !.idle = idle]
    PROVE  PageTyped' /\ page'.stage = "typing"
<1>1. /\ DOMAIN page' = DOMAIN NoPage /\ page'.mode = mode /\ page'.text = t
      /\ page'.stage = "typing" /\ page'.against = <<>>
  BY DEF Opened, NoPage
<1>2. <<>> \in Seq(Alphabet)
  OBVIOUS
<1> QED
  BY ONLY <1>1, <1>2, mode \in Modes, t \in TextIds DEF PageTyped, Submitted, Stages

LEMMA LoadRun ==
    ASSUME RunInv, NEW mode \in {"practice", "daily", "guest"}, Load(mode) PROVE RunInv'
<1>1. WorldTyped' /\ RowsTyped'
  BY DEF Load, RunInv, WorldTyped, RowsTyped
<1>2. PICK t \in active : page' = Opened(mode, t) /\ engine' = InitialState(contents[t])
  BY DailyIsActive, NowBounded DEF Load, RunInv, WorldTyped
<1>3. t \in TextIds /\ contents[t] \in Seq(Alphabet) /\ mode \in Modes
  BY TextKept DEF Modes
<1>4. EngineTyped'
  BY <1>2, <1>3, NowBounded, FirstEngine DEF RunInv, EngineTyped, GoodEngine, Load
<1>5. PageTyped'
  BY <1>2, <1>3, OpenedPage
<1> QED
  BY <1>1, <1>4, <1>5 DEF RunInv

LEMMA ValuesAreTexts == ASSUME RunInv, NEW value \in Values PROVE value \in Seq(Alphabet)
<1>1. Len(engine.target) \in Nat
  BY DEF RunInv, EngineTyped, GoodEngine, Engines
<1>2. PICK m \in 0..Len(engine.target) : value \in [1..m -> Alphabet]
  BY DEF Values, BoundedSeq, SeqOf
<1>3. m \in Nat
  BY <1>1
<1> QED
  BY <1>2, <1>3

LEMMA InputRun == ASSUME RunInv, NEW value \in Values, Input(value) PROVE RunInv'
<1>1. WorldTyped' /\ RowsTyped'
  BY DEF Input, RunInv, WorldTyped, RowsTyped
<1>2. value \in Seq(Alphabet)
  BY ValuesAreTexts
<1>3. UNCHANGED <<page, now>> /\ engine' = Reduce(engine, value, now)
  BY DEF Input
<1>4. EngineTyped'
  BY <1>2, <1>3, ReducedEngine, NowBounded DEF RunInv, EngineTyped, GoodEngine
<1>5. PageTyped'
  BY <1>3 DEF RunInv, PageTyped, Submitted
<1> QED
  BY <1>1, <1>4, <1>5 DEF RunInv

(* On the page, a text is open. *)
LEMMA OnThePage ==
    ASSUME RunInv, Clickable
    PROVE  page.mode \in Modes /\ page.text \in TextIds /\ engine.target \in Seq(Alphabet)
BY DEF Clickable, RunInv, PageTyped, EngineTyped, GoodEngine, Engines

LEMMA EditsCount == ASSUME RunInv, Edit PROVE edits' \in 0..cast.edits
<1>1. cast.edits \in Nat /\ edits \in 0..cast.edits
  BY CastsAssumption DEF RunInv, WorldTyped
<1> QED
  BY <1>1 DEF Edit

LEMMA RestartRun == ASSUME RunInv, Restart PROVE RunInv'
<1>1. WorldTyped' /\ RowsTyped'
  <2>1. edits' \in 0..cast.edits
    BY EditsCount DEF Restart, RunInv, WorldTyped
  <2> QED
    BY <2>1 DEF Restart, RunInv, WorldTyped, RowsTyped
<1>2. /\ page' = Opened(page.mode, page.text) /\ engine' = InitialState(engine.target)
      /\ Clickable /\ now' = now
  BY DEF Restart
<1>3. EngineTyped'
  <2>1. GoodEngine(InitialState(engine.target))
    BY <1>2, OnThePage, NowBounded, FirstEngine DEF RunInv
  <2> QED
    BY <1>2, <2>1 DEF EngineTyped, GoodEngine
<1>4. PageTyped'
  <2>1. page.mode \in Modes /\ page.text \in TextIds
    BY <1>2, OnThePage
  <2> QED
    BY <1>2, <2>1, OpenedPage
<1> QED
  BY <1>1, <1>3, <1>4 DEF RunInv

LEMMA NextTextRun == ASSUME RunInv, NextText PROVE RunInv'
<1>1. WorldTyped' /\ RowsTyped'
  <2>1. edits' \in 0..cast.edits
    BY EditsCount DEF NextText
  <2> QED
    BY <2>1 DEF NextText, RunInv, WorldTyped, RowsTyped
<1>2. PICK t \in active : /\ page' = [Opened(page.mode, t) EXCEPT !.idle = ~engine.finished]
                          /\ engine' = InitialState(contents[t]) /\ Clickable /\ now' = now
  BY DEF NextText
<1>3. t \in TextIds /\ contents[t] \in Seq(Alphabet)
  BY TextKept
<1>4. EngineTyped'
  BY <1>2, <1>3, NowBounded, FirstEngine DEF RunInv, EngineTyped, GoodEngine
<1>5. PageTyped'
  <2>1. page.mode \in Modes
    BY <1>2, OnThePage
  <2> QED
    BY <1>2, <1>3, <2>1, OpenedPage
<1> QED
  BY <1>1, <1>4, <1>5 DEF RunInv

(* What is sent is what the engine's log is by now. *)
LEMMA SentPage ==
    ASSUME RunInv, NEW skew \in cast.skews, page.stage # "none", Send(skew)
    PROVE  /\ PageTyped' /\ page'.stage = "limit" /\ page'.mode = page.mode
           /\ page'.log = engine.log /\ page'.whole = engine.finished
<1>1. engine.log \in Seq(Keystroke) /\ engine.startedAt \in Int /\ now \in 0..MaxNow
  BY NowBounded DEF RunInv, EngineTyped, GoodEngine, Engines
<1>2. skew \in Int
  BY CastsAssumption DEF RunInv, WorldTyped
<1>3. StartOf(engine.startedAt, skew) \in Int
  <2> DEFINE instant == engine.startedAt + skew
  <2>1. instant \in Int
    BY <1>1, <1>2
  <2> HIDE DEF instant
  <2>2. instant % Resolution \in Int
    BY <2>1, ResolutionAssumption
  <2>3. StartOf(engine.startedAt, skew) = instant - (instant % Resolution)
    BY DEF StartOf, instant
  <2> QED
    BY <2>1, <2>2, <2>3
<1> DEFINE start == StartOf(engine.startedAt, skew)
<1>4. /\ page' = [page EXCEPT !.stage = "limit", !.idle = FALSE, !.whole = engine.finished,
                              !.log = engine.log, !.started = start, !.began = now]
      /\ DOMAIN page = DOMAIN NoPage
  BY DEF Send, RunInv, PageTyped
<1> HIDE DEF start
<1>5. /\ DOMAIN page' = DOMAIN NoPage /\ page'.mode = page.mode /\ page'.text = page.text
      /\ page'.stage = "limit" /\ page'.against = page.against /\ page'.log = engine.log
      /\ page'.started = start /\ page'.began = now /\ page'.whole = engine.finished
  BY <1>4 DEF NoPage
<1> QED
  BY <1>1, <1>3, <1>5 DEF RunInv, PageTyped, Submitted, Stages, start

LEMMA SubmitRun == ASSUME RunInv, Submit PROVE RunInv'
<1>1. WorldTyped' /\ RowsTyped' /\ EngineTyped'
  BY DEF Submit, RunInv, WorldTyped, RowsTyped, EngineTyped, GoodEngine
<1>2. PageTyped'
  BY SentPage DEF Submit
<1> QED
  BY <1>1, <1>2 DEF RunInv

LEMMA RetryRun == ASSUME RunInv, Retry PROVE RunInv'
<1>1. WorldTyped' /\ RowsTyped' /\ EngineTyped'
  <2>1. edits' \in 0..cast.edits
    BY EditsCount DEF Retry
  <2> QED
    BY <2>1 DEF Retry, RunInv, WorldTyped, RowsTyped, EngineTyped, GoodEngine
<1>2. PageTyped'
  <2>1. page.stage # "none"
    BY DEF Retry, Clickable
  <2> QED
    BY <2>1, SentPage DEF Retry
<1> QED
  BY <1>1, <1>2 DEF RunInv

LEMMA PostRun == ASSUME RunInv, NEW log \in cast.logs, Post(log) PROVE RunInv'
<1>1. WorldTyped' /\ RowsTyped' /\ EngineTyped'
  BY DEF Post, RunInv, WorldTyped, RowsTyped, EngineTyped, GoodEngine
<1>2. PICK t \in active, skew \in cast.skews :
         page' = [page EXCEPT !.mode = "api", !.text = t, !.stage = "limit", !.idle = FALSE,
                              !.log = log, !.started = now + skew, !.began = now]
  BY DEF Post
<1>3. log \in Seq(Keystroke) /\ now \in 0..MaxNow /\ now + skew \in Int
  <2>1. log \in Seq(Keystroke) /\ skew \in Int
    BY CastsAssumption DEF RunInv, WorldTyped
  <2>2. now \in 0..MaxNow /\ now \in Int
    BY NowBounded DEF RunInv
  <2> QED
    BY <2>1, <2>2
<1>4. /\ DOMAIN page' = DOMAIN NoPage /\ page'.mode = "api" /\ page'.text = t
      /\ page'.stage = "limit" /\ page'.against = page.against /\ page'.log = log
      /\ page'.started = now + skew /\ page'.began = now
  BY <1>2 DEF NoPage, RunInv, PageTyped
<1>5. PageTyped'
  <2>1. t \in TextIds
    BY TextKept
  <2> QED
    BY <1>3, <1>4, <2>1 DEF RunInv, PageTyped, Submitted, Modes, Stages
<1> QED
  BY <1>1, <1>5 DEF RunInv

LEMMA ChecksRun == ASSUME RunInv, Enforce \/ GetText \/ CheckDaily PROVE RunInv'
<1>1. WorldTyped' /\ RowsTyped' /\ EngineTyped'
  BY DEF Enforce, GetText, CheckDaily, RunInv, WorldTyped, RowsTyped, EngineTyped, GoodEngine
<1>2. Submitted /\ DOMAIN page = DOMAIN NoPage
  BY DEF Enforce, GetText, CheckDaily, Submitted, RunInv, PageTyped
<1>3. \/ \E stage \in {"text", "daily", "record"}, against \in Seq(Alphabet) :
             page' = [page EXCEPT !.stage = stage, !.against = against]
      \/ \E outcome : page' = [page EXCEPT !.stage = "done", !.outcome = outcome]
  <2>1. CASE Enforce \/ CheckDaily
    <3>1. page.against \in Seq(Alphabet)
      BY DEF RunInv, PageTyped
    <3>2. \A stage : [page EXCEPT !.stage = stage]
                        = [page EXCEPT !.stage = stage, !.against = page.against]
      BY <1>2 DEF NoPage
    <3> QED
      BY <2>1, <3>1, <3>2 DEF Enforce, CheckDaily, Finish
  <2>2. CASE GetText
    <3>1. page.text \in active => contents[page.text] \in Seq(Alphabet)
      BY TextKept
    <3> QED
      BY <2>2, <3>1 DEF GetText, Finish
  <2> QED
    BY <2>1, <2>2
<1>4. PageTyped'
  <2>1. ASSUME NEW stage \in {"text", "daily", "record"}, NEW against \in Seq(Alphabet),
               page' = [page EXCEPT !.stage = stage, !.against = against]
        PROVE  PageTyped'
    <3>1. /\ DOMAIN page' = DOMAIN NoPage /\ page'.mode = page.mode /\ page'.text = page.text
          /\ page'.stage = stage /\ page'.against = against /\ page'.log = page.log
          /\ page'.started = page.started /\ page'.began = page.began
      BY <1>2, <2>1 DEF NoPage
    <3> QED
      BY <1>2, <3>1 DEF RunInv, PageTyped, Submitted, Modes, Stages
  <2>2. ASSUME NEW outcome, page' = [page EXCEPT !.stage = "done", !.outcome = outcome]
        PROVE  PageTyped'
    <3>1. /\ DOMAIN page' = DOMAIN NoPage /\ page'.mode = page.mode /\ page'.text = page.text
          /\ page'.stage = "done" /\ page'.against = page.against
      BY <1>2, <2>2 DEF NoPage
    <3> QED
      BY <1>2, <3>1 DEF RunInv, PageTyped, Submitted, Modes, Stages
  <2> QED
    BY <1>3, <2>1, <2>2
<1> QED
  BY <1>1, <1>4 DEF RunInv

LEMMA RecordRun == ASSUME RunInv, Record PROVE RunInv'
<1> DEFINE outcome == Score(page.log, page.against, now - page.started)
<1>1. WorldTyped' /\ EngineTyped'
  BY DEF Record, RunInv, WorldTyped, EngineTyped, GoodEngine
<1>2. page.stage = "record" /\ Finish(outcome) /\ UNCHANGED engine
  BY DEF Record
<1>3. PageTyped'
  BY <1>2 DEF Finish, RunInv, PageTyped, Submitted, NoPage, Modes, Stages
<1>4. RowsTyped'
  <2>1. CASE UNCHANGED rows
    BY <2>1 DEF RunInv, RowsTyped
  <2>2. CASE outcome \notin Refusals /\ Stores(page.mode)
    <3> DEFINE mode == IF page.mode = "api" THEN "practice" ELSE page.mode
    <3>1. PICK id \in Unused :
             rows' = rows \cup {Row(id, Me, page.text, mode, page.log, page.started, page.began,
                                    page.against)}
      BY <2>2 DEF Record
    <3>2. /\ page.text \in TextIds /\ page.log \in Seq(Keystroke) /\ page.mode \in Modes
          /\ page.started \in Int /\ page.began \in 0..MaxNow /\ page.against \in Seq(Alphabet)
      BY <1>2 DEF RunInv, PageTyped, Submitted
    <3>3. mode \in {"practice", "daily"}
      BY <2>2, <3>2 DEF Stores, Modes
    <3>4. WellFormed(page.log) /\ page.log # <<>> /\ ~(Duration(page.log) <= 0)
      BY <2>2 DEF Score, Refusals
    <3>5. Duration(page.log) \in Int
      <4>1. page.log[Len(page.log)] \in Keystroke
        BY <3>2, <3>4
      <4> QED
        BY <4>1 DEF Keystroke, Duration, Last
    <3>6. Scored(page.log)
      BY <3>2, <3>4, <3>5 DEF Scored
    <3> HIDE DEF mode
    <3> QED
      BY <3>1, <3>2, <3>3, <3>6, OneMoreRow, TextsAssumption DEF RunInv
  <2> QED
    BY <2>1, <2>2 DEF Record
<1> QED
  BY <1>1, <1>3, <1>4 DEF RunInv

LEMMA ArriveRun == ASSUME RunInv, NEW sample \in cast.samples, Arrive(sample) PROVE RunInv'
<1>1. sample.text \in active /\ UNCHANGED <<now, texts, contents, active, page, engine, cast>>
  BY DEF Arrive
<1>2. WorldTyped' /\ EngineTyped' /\ PageTyped'
  <2>1. edits' \in 0..cast.edits
    BY EditsCount DEF Arrive
  <2> QED
    BY <1>1, <2>1 DEF RunInv, WorldTyped, EngineTyped, GoodEngine, PageTyped, Submitted
<1>3. RowsTyped'
  <2>1. PICK id \in Unused, skew \in cast.skews :
           rows' = rows \cup {Row(id, sample.user, sample.text, sample.mode, sample.log,
                                  now + skew, now, contents[sample.text])}
    BY DEF Arrive
  <2>2. /\ sample.user \in Users /\ sample.mode \in {"practice", "daily"} /\ Scored(sample.log)
        /\ skew \in Int
    BY CastsAssumption DEF RunInv, WorldTyped
  <2>3. sample.text \in TextIds /\ contents[sample.text] \in Seq(Alphabet) /\ now \in 0..MaxNow
    BY <1>1, TextKept, NowBounded DEF RunInv
  <2>4. now + skew \in Int
    BY <2>2, NowBounded DEF RunInv
  <2> QED
    BY <2>1, <2>2, <2>3, <2>4, OneMoreRow DEF RunInv
<1> QED
  BY <1>2, <1>3 DEF RunInv

LEMMA AdminRun ==
    ASSUME RunInv, NEW t \in TextIds, CreateText(t) \/ UpdateText(t)
    PROVE  RunInv'
<1>1. /\ UNCHANGED <<now, rows, page, engine, cast>> /\ edits' \in 0..cast.edits
      /\ DOMAIN texts' \subseteq DOMAIN texts \cup {t} /\ DOMAIN texts \subseteq DOMAIN texts'
      /\ active' \subseteq active \cup {t} /\ t \in DOMAIN texts'
  BY EditsCount DEF CreateText, UpdateText
<1>2. contents' \in [DOMAIN texts' -> Seq(Alphabet)]
  <2>1. contents \in [DOMAIN texts -> Seq(Alphabet)]
    BY DEF RunInv, WorldTyped
  <2>2. CASE CreateText(t)
    BY <2>1, <2>2, TextsAssumption DEF CreateText
  <2>3. CASE UpdateText(t)
    <3>1. t \in DOMAIN texts /\ texts' = texts
      BY <2>3 DEF UpdateText
    <3>2. PICK content \in cast.drafts \cup {contents[t]} :
             contents' = [contents EXCEPT ![t] = content]
      BY <2>3 DEF UpdateText
    <3>3. content \in Seq(Alphabet)
      BY <2>1, <3>1, CastsAssumption DEF RunInv, WorldTyped
    <3> QED
      BY <2>1, <3>1, <3>2, <3>3
  <2> QED
    BY <2>2, <2>3
<1>3. WorldTyped'
  BY <1>1, <1>2 DEF RunInv, WorldTyped
<1> QED
  BY <1>1, <1>3 DEF RunInv, RowsTyped, EngineTyped, GoodEngine, PageTyped, Submitted

LEMMA TickRun == ASSUME RunInv, Tick PROVE RunInv'
<1>1. /\ now < cast.until /\ now' = now + 1
      /\ UNCHANGED <<texts, contents, active, rows, page, engine, cast, edits>>
  BY DEF Tick
<1>2. now \in Nat /\ cast.until \in Nat
  BY NowBounded, BoundsAssumption DEF RunInv
<1>3. WorldTyped' /\ EngineTyped'
  BY <1>1, <1>2 DEF RunInv, WorldTyped, EngineTyped, GoodEngine, Engines
<1> QED
  BY <1>1, <1>3 DEF RunInv, RowsTyped, PageTyped, Submitted

(* Readers read, and some steps do nothing. *)
LEMMA ReaderRun ==
    ASSUME RunInv, UNCHANGED <<now, texts, contents, active, rows, page, engine, cast, edits>>
    PROVE  RunInv'
BY DEF RunInv, WorldTyped, RowsTyped, EngineTyped, GoodEngine, PageTyped, Submitted

LEMMA InitRun == Init => RunInv
<1> SUFFICES ASSUME Init PROVE RunInv
  OBVIOUS
<1>1. WorldTyped /\ RowsTyped
  <2>1. cast.until \in Nat /\ cast.edits \in Nat
    BY CastsAssumption, BoundsAssumption DEF Init
  <2>2. contents \in [DOMAIN texts -> Seq(Alphabet)] /\ DOMAIN texts = active
    BY TextsAssumption DEF Init
  <2>3. WorldTyped
    BY <2>1, <2>2 DEF Init, WorldTyped
  <2> QED
    BY <2>3, CastsAssumption DEF Init, RowsTyped
<1>2. EngineTyped
  <2>1. <<>> \in Seq(Alphabet) /\ now \in Nat
    BY DEF Init
  <2> QED
    BY <2>1, FirstEngine DEF Init, EngineTyped
<1>3. PageTyped
  BY DEF Init, PageTyped, Submitted, NoPage, Modes, Stages
<1> QED
  BY <1>1, <1>2, <1>3 DEF RunInv

LEMMA StepRun == RunInv /\ [Next]_vars => RunInv'
<1> SUFFICES ASSUME RunInv, [Next]_vars PROVE RunInv'
  OBVIOUS
<1>1. CASE \E kind \in {"history", "texts"} : OpenList(kind)
  BY <1>1, ReaderRun DEF OpenList
<1>2. CASE NextPage \/ OpenBoard \/ AskDaily \/ OpenDaily \/ LookUpMe \/ UNCHANGED vars
  BY <1>2, ReaderRun DEF NextPage, OpenBoard, AskDaily, OpenDaily, LookUpMe, vars
<1>3. CASE \E mode \in {"practice", "daily", "guest"} : Load(mode)
  BY <1>3, LoadRun
<1> QED
  BY <1>1, <1>2, <1>3, InputRun, PostRun, RestartRun, NextTextRun, SubmitRun, RetryRun, ChecksRun,
     RecordRun, ArriveRun, AdminRun, TickRun DEF Next

LEMMA AlwaysRun == Spec => []RunInv
BY InitRun, StepRun, PTL DEF Spec

-----------------------------------------------------------------------------
(* What the page sends is a log the engine wrote, the whole of the run if  *)
(* it was finished; it may have been started over since.                   *)
Sent      == page.stage \in {"limit", "text", "daily", "record", "done"} /\ page.mode # "api"
Unjudged  == {"rate_limited", "not_found", "not_daily_text"}
SentLog   ==
    /\ page.log \in Seq(Keystroke) /\ WellFormed(page.log)
    /\ \A i, j \in DOMAIN page.log : i <= j => page.log[i].t <= page.log[j].t
    /\ page.whole => engine.finished /\ page.log = engine.log
Answered  ==
    /\ page.outcome \in Unjudged \cup ClockRefusals \cup TimingVerdicts \cup OtherTexts
    /\ page.whole /\ page.against = engine.target => page.outcome \notin OtherTexts
    /\ page.outcome \notin Unjudged \cup ClockRefusals => page.log # <<>> /\ Duration(page.log) > 0
HonestPage == Sent => SentLog /\ (page.stage = "done" => Answered)

LogInv == RunInv /\ Truthful(engine) /\ Clocked(engine, now) /\ HonestPage

LEMMA EngineKept ==
    ASSUME LogInv, UNCHANGED <<engine, now>>
    PROVE  Truthful(engine') /\ Clocked(engine', now')
BY DEF LogInv

(* A text is opened. *)
LEMMA OpenedLog ==
    ASSUME NEW target \in Seq(Alphabet), engine' = InitialState(target), now' = now,
           page'.stage = "typing"
    PROVE  Truthful(engine') /\ Clocked(engine', now') /\ HonestPage'
BY FirstTells DEF HonestPage, Sent

LEMMA LoadLog ==
    ASSUME LogInv, NEW mode \in {"practice", "daily", "guest"}, Load(mode)
    PROVE  Truthful(engine') /\ Clocked(engine', now') /\ HonestPage'
<1>1. PICK t \in active : page' = Opened(mode, t) /\ engine' = InitialState(contents[t])
  BY DailyIsActive, NowBounded DEF Load, LogInv, RunInv, WorldTyped
<1>2. t \in TextIds /\ contents[t] \in Seq(Alphabet) /\ mode \in Modes /\ now' = now
  BY TextKept DEF LogInv, Modes, Load
<1> QED
  BY <1>1, <1>2, OpenedPage, OpenedLog

LEMMA RestartLog ==
    ASSUME LogInv, Restart
    PROVE  Truthful(engine') /\ Clocked(engine', now') /\ HonestPage'
<1>1. /\ page' = Opened(page.mode, page.text) /\ engine' = InitialState(engine.target)
      /\ now' = now /\ Clickable
  BY DEF Restart
<1>2. page.mode \in Modes /\ page.text \in TextIds /\ engine.target \in Seq(Alphabet)
  BY <1>1, OnThePage DEF LogInv
<1>3. page'.stage = "typing"
  BY <1>1, <1>2, OpenedPage
<1> QED
  BY <1>1, <1>2, <1>3, OpenedLog

LEMMA NextTextLog ==
    ASSUME LogInv, NextText
    PROVE  Truthful(engine') /\ Clocked(engine', now') /\ HonestPage'
<1>1. PICK t \in active : /\ page' = [Opened(page.mode, t) EXCEPT !.idle = ~engine.finished]
                          /\ engine' = InitialState(contents[t]) /\ Clickable /\ now' = now
  BY DEF NextText
<1>2. t \in TextIds /\ contents[t] \in Seq(Alphabet) /\ page.mode \in Modes
  BY <1>1, TextKept, OnThePage DEF LogInv
<1>3. page'.stage = "typing"
  BY <1>1, <1>2, OpenedPage
<1> QED
  BY <1>1, <1>2, <1>3, OpenedLog

(* A run that is finished is not typed on, so what was sent of it stands. *)
LEMMA InputLog ==
    ASSUME LogInv, NEW value \in Values, Input(value)
    PROVE  Truthful(engine') /\ Clocked(engine', now') /\ HonestPage'
<1>1. now \in Nat /\ value \in Seq(Alphabet)
  BY NowBounded, ValuesAreTexts DEF LogInv, RunInv
<1>2. engine' = Reduce(engine, value, now) /\ engine' # engine /\ now' = now /\ page' = page
  BY DEF Input
<1>3. Truthful(engine') /\ Clocked(engine', now')
  BY <1>1, <1>2, ReducedTells, ReducedClocked DEF LogInv, RunInv, EngineTyped
<1>4. ~ engine.finished
  BY <1>2 DEF Reduce
<1>5. HonestPage'
  <2>1. Sent => SentLog /\ ~ page.whole /\ (page.stage = "done" => Answered)
    BY <1>4 DEF LogInv, HonestPage, SentLog
  <2>2. Sent' <=> Sent
    BY <1>2 DEF Sent
  <2>3. SentLog /\ ~ page.whole => SentLog'
    BY <1>2 DEF SentLog
  <2>4. Answered /\ ~ page.whole => Answered'
    BY <1>2 DEF Answered
  <2> QED
    BY <1>2, <2>1, <2>2, <2>3, <2>4 DEF HonestPage
<1> QED
  BY <1>3, <1>5

LEMMA SendLog ==
    ASSUME LogInv, Submit \/ Retry
    PROVE  Truthful(engine') /\ Clocked(engine', now') /\ HonestPage'
<1>1. PICK skew \in cast.skews : Send(skew)
  BY DEF Submit, Retry
<1>2. engine' = engine /\ now' = now /\ page.stage # "none"
  BY DEF Submit, Retry, Clickable
<1>3. page'.stage = "limit" /\ page'.log = engine.log /\ page'.whole = engine.finished
  BY <1>1, <1>2, SentPage DEF LogInv
<1>4. /\ engine.log \in Seq(Keystroke) /\ WellFormed(engine.log)
      /\ \A i, j \in DOMAIN engine.log : i <= j => engine.log[i].t <= engine.log[j].t
  BY DEF LogInv, Truthful, Clocked, RunInv, EngineTyped, GoodEngine, Engines
<1>5. SentLog'
  BY <1>2, <1>3, <1>4 DEF SentLog
<1> QED
  BY <1>2, <1>3, <1>5, EngineKept DEF HonestPage

LEMMA PostLog ==
    ASSUME LogInv, NEW log \in cast.logs, Post(log)
    PROVE  Truthful(engine') /\ Clocked(engine', now') /\ HonestPage'
<1>1. page'.mode = "api" /\ engine' = engine /\ now' = now
  BY DEF Post, NoPage
<1> QED
  BY <1>1, EngineKept DEF HonestPage, Sent

LEMMA ChecksLog ==
    ASSUME LogInv, Enforce \/ GetText \/ CheckDaily
    PROVE  Truthful(engine') /\ Clocked(engine', now') /\ HonestPage'
<1>1. /\ engine' = engine /\ now' = now /\ page.stage \in {"limit", "text", "daily"}
      /\ DOMAIN page = DOMAIN NoPage
      /\ \/ \E stage \in {"text", "daily", "record"} : \E against :
               \/ page' = [page EXCEPT !.stage = stage, !.against = against]
               \/ page' = [page EXCEPT !.stage = stage]
         \/ \E outcome \in Unjudged : Finish(outcome)
  BY DEF Enforce, GetText, CheckDaily, LogInv, RunInv, PageTyped, Unjudged
<1>2. /\ page'.mode = page.mode /\ page'.log = page.log /\ page'.whole = page.whole
      /\ page'.stage = "done" => page'.outcome \in Unjudged
  BY <1>1 DEF Finish, NoPage
<1>3. Sent' => SentLog'
  <2>1. Sent' => Sent
    BY <1>1, <1>2 DEF Sent
  <2>2. SentLog => SentLog'
    BY <1>1, <1>2 DEF SentLog
  <2> QED
    BY <2>1, <2>2 DEF LogInv, HonestPage
<1>4. page'.stage = "done" => Answered'
  BY <1>2 DEF Answered, Unjudged, OtherTexts
<1> QED
  BY <1>1, <1>3, <1>4, EngineKept DEF HonestPage

LEMMA RecordLog ==
    ASSUME LogInv, Record
    PROVE  Truthful(engine') /\ Clocked(engine', now') /\ HonestPage'
<1> DEFINE outcome == Score(page.log, page.against, now - page.started)
<1>1. /\ engine' = engine /\ now' = now /\ page.stage = "record"
      /\ DOMAIN page = DOMAIN NoPage /\ Finish(outcome)
  BY DEF Record, LogInv, RunInv, PageTyped
<1>2. /\ page'.mode = page.mode /\ page'.log = page.log /\ page'.whole = page.whole
      /\ page'.against = page.against /\ page'.stage = "done" /\ page'.outcome = outcome
  BY <1>1 DEF Finish, NoPage
<1>3. Sent' => SentLog /\ SentLog'
  <2>1. Sent' => Sent
    BY <1>1, <1>2 DEF Sent
  <2>2. SentLog => SentLog'
    BY <1>1, <1>2 DEF SentLog
  <2> QED
    BY <2>1, <2>2 DEF LogInv, HonestPage
<1>4. SentLog => Answered'
  <2> SUFFICES ASSUME SentLog PROVE Answered'
    OBVIOUS
  <2> DEFINE age == now - page.started
  <2> HIDE DEF age
  <2>1. LET verdict == Score(page.log, page.against, age)
        IN  /\ verdict \in TimingVerdicts \cup ClockRefusals \cup OtherTexts
            /\ page.against = Replay(page.log) => verdict \notin OtherTexts
            /\ verdict \notin ClockRefusals => page.log # <<>> /\ Duration(page.log) > 0
    BY HonestScore DEF SentLog
  <2>2. /\ outcome \in TimingVerdicts \cup ClockRefusals \cup OtherTexts
        /\ page.against = Replay(page.log) => outcome \notin OtherTexts
        /\ outcome \notin ClockRefusals => page.log # <<>> /\ Duration(page.log) > 0
    BY <2>1, Zenon DEF age
  <2>3. page.whole => Replay(page.log) = engine.target
    BY DEF SentLog, LogInv, Truthful
  <2> HIDE DEF outcome
  <2>4. /\ outcome \in Unjudged \cup ClockRefusals \cup TimingVerdicts \cup OtherTexts
        /\ page.whole /\ page.against = engine.target => outcome \notin OtherTexts
        /\ outcome \notin Unjudged \cup ClockRefusals => page.log # <<>> /\ Duration(page.log) > 0
    BY <2>2, <2>3, Zenon
  <2> QED
    BY <1>1, <1>2, <2>4, Zenon DEF Answered
<1> HIDE DEF outcome
<1> QED
  BY <1>1, <1>2, <1>3, <1>4, EngineKept DEF HonestPage

LEMMA TickLog ==
    ASSUME LogInv, Tick
    PROVE  Truthful(engine') /\ Clocked(engine', now') /\ HonestPage'
<1>1. engine' = engine /\ page' = page /\ now' = now + 1 /\ now \in Nat
  BY NowBounded DEF Tick, LogInv, RunInv
<1>2. Truthful(engine') /\ HonestPage'
  BY <1>1 DEF LogInv, HonestPage, Sent, SentLog, Answered
<1>3. Clocked(engine', now')
  <2>1. engine.startedAt \in Int /\ Clocked(engine, now)
    BY DEF LogInv, RunInv, EngineTyped, GoodEngine, Engines
  <2>2. engine.startedAt # -1 => engine.lastAt \in engine.startedAt..(now + 1)
    BY <1>1, <2>1 DEF Clocked
  <2> QED
    BY <1>1, <2>1, <2>2 DEF Clocked
<1> QED
  BY <1>2, <1>3

LEMMA OthersLog ==
    ASSUME LogInv, UNCHANGED <<engine, page, now>>
    PROVE  Truthful(engine') /\ Clocked(engine', now') /\ HonestPage'
BY EngineKept DEF LogInv, HonestPage, Sent, SentLog, Answered

LEMMA InitLog == Init => LogInv
<1> SUFFICES ASSUME Init PROVE LogInv
  OBVIOUS
<1>1. RunInv /\ now \in Nat
  BY InitRun DEF Init
<1>2. engine = InitialState(<<>>) /\ page = NoPage
  BY DEF Init
<1>3. Truthful(engine) /\ Clocked(engine, now)
  <2>1. <<>> \in Seq(Alphabet)
    OBVIOUS
  <2>2. Truthful(InitialState(<<>>)) /\ Clocked(InitialState(<<>>), now)
    BY <2>1, FirstTells
  <2> QED
    BY <1>2, <2>2
<1>4. page.stage = "none"
  BY <1>2 DEF NoPage
<1>5. HonestPage
  BY <1>4 DEF HonestPage, Sent
<1> QED
  BY <1>1, <1>3, <1>5 DEF LogInv

LEMMA StepLog == LogInv /\ [Next]_vars => LogInv'
<1> SUFFICES ASSUME LogInv, [Next]_vars PROVE LogInv'
  OBVIOUS
<1>1. RunInv'
  BY StepRun DEF LogInv
<1>2. Truthful(engine') /\ Clocked(engine', now') /\ HonestPage'
  <2>1. ASSUME NEW mode \in {"practice", "daily", "guest"}, Load(mode)
        PROVE  Truthful(engine') /\ Clocked(engine', now') /\ HonestPage'
    BY <2>1, LoadLog
  <2>2. ASSUME NEW value \in Values, Input(value)
        PROVE  Truthful(engine') /\ Clocked(engine', now') /\ HonestPage'
    BY <2>2, InputLog
  <2>3. ASSUME NEW log \in cast.logs, Post(log)
        PROVE  Truthful(engine') /\ Clocked(engine', now') /\ HonestPage'
    BY <2>3, PostLog
  <2>4. CASE Restart
    BY <2>4, RestartLog
  <2>5. CASE NextText
    BY <2>5, NextTextLog
  <2>6. CASE Submit \/ Retry
    BY <2>6, SendLog
  <2>7. CASE Enforce \/ GetText \/ CheckDaily
    BY <2>7, ChecksLog
  <2>8. CASE Record
    BY <2>8, RecordLog
  <2>9. CASE Tick
    BY <2>9, TickLog
  <2>10. ASSUME \/ \E sample \in cast.samples : Arrive(sample)
                \/ \E t \in TextIds : CreateText(t) \/ UpdateText(t)
                \/ \E kind \in {"history", "texts"} : OpenList(kind)
                \/ NextPage \/ OpenBoard \/ AskDaily \/ OpenDaily \/ LookUpMe \/ UNCHANGED vars
         PROVE  Truthful(engine') /\ Clocked(engine', now') /\ HonestPage'
    <3>1. UNCHANGED <<engine, page, now>>
      BY <2>10 DEF Arrive, CreateText, UpdateText, OpenList, NextPage, OpenBoard, AskDaily,
         OpenDaily, LookUpMe, vars
    <3> QED
      BY <3>1, OthersLog
  <2> QED
    BY <2>1, <2>2, <2>3, <2>4, <2>5, <2>6, <2>7, <2>8, <2>9, <2>10 DEF Next
<1> QED
  <2> HIDE DEF RunInv
  <2> QED
    BY <1>1, <1>2 DEF LogInv

LEMMA AlwaysLog == Spec => []LogInv
BY InitLog, StepLog, PTL DEF Spec

-----------------------------------------------------------------------------
(* A reader in the middle of a list.                                       *)
TextsTimed == \A t \in DOMAIN texts : texts[t] \in Nat
Follows ==
    reader.kind \in {"history", "texts"} =>
        /\ Followed(reader.kind, reader.seen, reader.cursor, reader.first)
        /\ reader.open = (reader.cursor # Start)

ReaderInv == RunInv /\ TextsTimed /\ Follows

LEMMA ListedItems ==
    ASSUME RunInv, TextsTimed, NEW kind \in {"history", "texts"}
    PROVE  Listed(kind) \subseteq Items /\ IsFiniteSet(Listed(kind))
<1>1. CASE kind = "history"
  <2> DEFINE f == [r \in MyRows |-> CursorOf(r)]
  <2>1. MyRows \subseteq rows /\ IsFiniteSet(rows)
    BY DEF MyRows, RunInv, RowsTyped
  <2>2. IsFiniteSet(MyRows)
    BY <2>1, FS_Subset
  <2>3. \A r \in MyRows : CursorOf(r) \in Items
    <3> TAKE r \in MyRows
    <3>1. r.id \in 1..MaxRows /\ r.created \in 0..MaxNow
      BY <2>1 DEF RunInv, RowsTyped, Sessions, Ids
    <3> QED
      BY <3>1, BoundsAssumption DEF CursorOf, Items
  <2>4. IsFiniteSet({f[r] : r \in MyRows})
    <3>1. DOMAIN f = MyRows
      OBVIOUS
    <3> HIDE DEF f
    <3> QED
      BY <2>2, <3>1, FiniteImage
  <2>5. {f[r] : r \in MyRows} = {CursorOf(r) : r \in MyRows}
    OBVIOUS
  <2>6. Listed(kind) = {CursorOf(r) : r \in MyRows}
    BY <1>1 DEF Listed
  <2> QED
    BY <2>3, <2>4, <2>5, <2>6
<1>2. CASE kind = "texts"
  <2> DEFINE D == DOMAIN texts
             f == [t \in D |-> [id |-> t, created |-> texts[t]]]
  <2>1. D \subseteq TextIds
    BY DEF RunInv, WorldTyped
  <2>2. IsFiniteSet(D)
    BY <2>1, FS_Subset, TextsAssumption
  <2>3. \A t \in D : [id |-> t, created |-> texts[t]] \in Items
    BY <2>1, TextsAssumption DEF TextsTimed, Items
  <2>4. IsFiniteSet({f[t] : t \in D})
    <3>1. DOMAIN f = D
      OBVIOUS
    <3> HIDE DEF f, D
    <3> QED
      BY <2>2, <3>1, FiniteImage
  <2>5. Listed(kind) = {f[t] : t \in D}
    BY <1>2 DEF Listed, TextRows
  <2> QED
    BY <2>3, <2>4, <2>5
<1> QED
  BY <1>1, <1>2

LEMMA LimitIsPositive == RunInv => cast.limit \in Nat \ {0}
BY CastsAssumption DEF RunInv, WorldTyped

(* What a page was turned to is what the reader has from then on. *)
LEMMA HasTurned ==
    ASSUME NEW kind \in {"history", "texts"}, NEW seen, NEW cursor, NEW first,
           Followed(kind, seen, cursor, first), UNCHANGED <<texts, rows>>,
           reader' = [kind |-> kind, seen |-> seen, cursor |-> cursor,
                      first |-> first, open |-> cursor # Start]
    PROVE  Follows'
<1>1. Listed(kind)' = Listed(kind)
  BY DEF Listed, MyRows, TextRows
<1>2. /\ reader'.kind = kind /\ reader'.seen = seen /\ reader'.cursor = cursor
      /\ reader'.first = first /\ reader'.open = (cursor # Start)
  OBVIOUS
<1> QED
  BY <1>1, <1>2 DEF Follows, Followed

(* The first page, of everything there is. *)
LEMMA OpenReader ==
    ASSUME ReaderInv, NEW kind \in {"history", "texts"}, OpenList(kind)
    PROVE  Follows'
<1> DEFINE got == OnePage(kind, Start)
           first == Listed(kind)
<1>1. /\ reader' = [kind |-> kind, seen |-> <<>> \o got.items, cursor |-> got.next,
                    first |-> first, open |-> got.next # Start]
      /\ UNCHANGED <<texts, rows>>
  BY DEF OpenList, Turned
<1>2. first \subseteq Items /\ IsFiniteSet(first) /\ cast.limit \in Nat \ {0}
  BY ListedItems, LimitIsPositive DEF ReaderInv
<1>3. Pool(kind, Start) = first
  BY DEF Pool
<1>4. PICK s : Lists(s, first, ByAge(first)) /\ Turnable(got, s)
  BY <1>2, <1>3, OnePageIs
<1> HIDE DEF got
<1>5. Followed(kind, <<>> \o got.items, got.next, first)
  <2> DEFINE seen == <<>>
             listed == first
  <2>1. /\ seen \in Seq(Items) /\ \A i, j \in DOMAIN seen : seen[i] = seen[j] => i = j
        /\ \A i \in DOMAIN seen : \A x \in listed : seen[i] # x /\ ~ Before(seen[i], x)
        /\ \A x \in listed : x \in listed \/ \E i \in DOMAIN seen : seen[i] = x
        /\ listed \in SUBSET Items /\ listed \in SUBSET Listed(kind)
        /\ Lists(s, listed, ByAge(listed))
    BY <1>2, <1>4
  <2> HIDE DEF seen, listed
  <2>2. Followed(kind, seen \o got.items, got.next, listed)
    BY <1>4, <2>1, PageTurned
  <2> QED
    BY <2>2 DEF seen, listed
<1> HIDE DEF first
<1> QED
  BY <1>1, <1>5, HasTurned

(* The next page, of what comes after the cursor by now: nothing of it was *)
(* seen, and what there was at first and was not seen is among it.         *)
LEMMA NextReader ==
    ASSUME ReaderInv, NextPage
    PROVE  Follows'
<1> DEFINE kind == reader.kind
           cursor == reader.cursor
           seen == reader.seen
           first == reader.first
           pool == Pool(kind, cursor)
           got == OnePage(kind, cursor)
<1>1. /\ kind \in {"history", "texts"} /\ reader.open
      /\ reader' = [kind |-> kind, seen |-> seen \o got.items, cursor |-> got.next,
                    first |-> first, open |-> got.next # Start]
      /\ UNCHANGED <<texts, rows>>
  BY DEF NextPage, Turned
<1>2. Followed(kind, seen, cursor, first) /\ cursor # Start
  BY <1>1 DEF ReaderInv, Follows
<1>3. Listed(kind) \subseteq Items /\ IsFiniteSet(Listed(kind)) /\ cast.limit \in Nat \ {0}
  BY <1>1, ListedItems, LimitIsPositive DEF ReaderInv
<1>4. pool = {i \in Listed(kind) : Before(i, cursor)} /\ pool \in SUBSET Items
  BY <1>2, <1>3 DEF Pool
<1>5. PICK s : Lists(s, pool, ByAge(pool)) /\ Turnable(got, s)
  BY <1>1, <1>3, OnePageIs
<1>6. /\ cursor \in Items /\ seen \in Seq(Items) /\ first \subseteq Listed(kind)
      /\ \A i \in DOMAIN seen : seen[i] \in Items /\ ~ Before(seen[i], cursor)
      /\ \A i, j \in DOMAIN seen : seen[i] = seen[j] => i = j
      /\ \A x \in first : Before(x, cursor) \/ \E i \in DOMAIN seen : seen[i] = x
  BY <1>2 DEF Followed
<1> HIDE DEF got, pool, seen, cursor, first, kind
<1>8. \A i \in DOMAIN seen : \A x \in pool : seen[i] # x /\ ~ Before(seen[i], x)
  <2> SUFFICES ASSUME NEW i \in DOMAIN seen, NEW x \in pool
               PROVE  seen[i] # x /\ ~ Before(seen[i], x)
    OBVIOUS
  <2>1. Before(x, cursor) /\ x \in Items /\ ~ Before(seen[i], cursor) /\ seen[i] \in Items
    BY <1>4, <1>6
  <2>2. Newer(cursor, x) /\ ~ Newer(cursor, seen[i])
    BY <1>6, <2>1, NewerIsAnOrder
  <2>3. ~ Newer(x, seen[i])
    BY <1>6, <2>1, <2>2, NewerIsAnOrder
  <2> QED
    BY <2>1, <2>3, NewerIsAnOrder
<1>9. \A x \in first : x \in pool \/ \E i \in DOMAIN seen : seen[i] = x
  BY <1>4, <1>6
<1>10. Followed(kind, seen \o got.items, got.next, first)
  BY <1>4, <1>5, <1>6, <1>8, <1>9, PageTurned
<1> QED
  BY <1>1, <1>10, HasTurned

(* Nothing that is listed is ever gone, whoever adds to it. *)
LEMMA ReaderLeft ==
    ASSUME ReaderInv, reader' = reader, rows \subseteq rows',
           \A t \in DOMAIN texts : t \in DOMAIN texts' /\ texts'[t] = texts[t]
    PROVE  Follows'
<1>1. ASSUME NEW kind \in {"history", "texts"} PROVE Listed(kind) \subseteq Listed(kind)'
  BY <1>1 DEF Listed, MyRows, TextRows
<1> QED
  BY <1>1 DEF ReaderInv, Follows, Followed

LEMMA StepReader == ReaderInv /\ [Next]_vars => ReaderInv'
<1> SUFFICES ASSUME ReaderInv, [Next]_vars PROVE ReaderInv'
  OBVIOUS
<1>1. RunInv' /\ now \in Nat
  BY StepRun, NowBounded DEF ReaderInv, RunInv
<1>2. /\ TextsTimed'
      /\ \A t \in DOMAIN texts : t \in DOMAIN texts' /\ texts'[t] = texts[t]
  <2>1. CASE UNCHANGED texts
    BY <2>1 DEF ReaderInv, TextsTimed
  <2>2. ASSUME NEW t \in TextIds, CreateText(t)
        PROVE  /\ TextsTimed'
               /\ \A u \in DOMAIN texts : u \in DOMAIN texts' /\ texts'[u] = texts[u]
    BY <1>1, <2>2 DEF CreateText, ReaderInv, TextsTimed
  <2> QED
    BY <2>1, <2>2 DEF Next, vars, Load, Input, Post, Restart, NextText, Submit, Retry, Enforce,
       GetText, CheckDaily, Record, Arrive, UpdateText, OpenList, NextPage, OpenBoard, AskDaily,
       OpenDaily, LookUpMe, Tick
<1>3. Follows'
  <2>1. CASE \E kind \in {"history", "texts"} : OpenList(kind)
    BY <2>1, OpenReader
  <2>2. CASE NextPage
    BY <2>2, NextReader
  <2>3. CASE OpenBoard \/ AskDaily \/ OpenDaily
    BY <2>3 DEF OpenBoard, AskDaily, OpenDaily, PageOf, Follows
  <2>4. CASE LookUpMe
    BY <2>4 DEF LookUpMe, Follows
  <2>5. CASE reader' = reader /\ rows \subseteq rows'
    BY <1>2, <2>5, ReaderLeft
  <2> QED
    BY <2>1, <2>2, <2>3, <2>4, <2>5 DEF Next, vars, Load, Input, Post, Restart, NextText,
       Submit, Retry, Enforce, GetText, CheckDaily, Record, Arrive, CreateText, UpdateText, Tick
<1> QED
  BY <1>1, <1>2, <1>3 DEF ReaderInv

-----------------------------------------------------------------------------
(* A viewer of a board.  What is on it of theirs was no faster than the     *)
(* page's last row.  On the all-time board as many users as were faster    *)
(* than that row still are; on today's, each run that arrived since then   *)
(* took away one speed above it at most.                                   *)
Known    == {r \in reader.rows : r.user = Me}
Arrived  == rows \ reader.rows
SameDay  == reader.board.daily /\ reader.day = DayOf(now)
Today    == OnBoard(rows, reader.board, now)

Standing ==
    \A last \in reader.last :
        /\ \A r \in OnBoard(Known, reader.board, now) : r.wpm <= last.wpm
        /\ ~reader.board.daily =>
              last.rank <= 1 + Cardinality(FasterUsers(Counting(rows), last.wpm))
        /\ SameDay =>
              last.rank <= 1 + Cardinality(Speeds(Today, last.wpm)) + Cardinality(Arrived)

Views ==
    reader.kind = "board" =>
        /\ reader.rows \subseteq rows
        /\ reader.day \in Int /\ reader.day <= DayOf(now)
        /\ \A last \in reader.last : last.wpm \in Nat /\ last.rank \in Nat
        /\ \A own \in reader.own : own.rank \in Nat
        /\ reader.open => Standing
        /\ ~reader.open /\ MyRows \subseteq reader.rows =>
              \A own \in reader.own, last \in reader.last :
                 /\ own.wpm <= last.wpm
                 /\ ~reader.board.daily => own.rank >= last.rank
                 /\ SameDay => own.rank + Cardinality(Arrived) >= last.rank

BoardInv == RunInv /\ Views

LEMMA BoardRows ==
    ASSUME RunInv, NEW board, NEW S, S = OnBoard(rows, board, now)
    PROVE  S \subseteq rows /\ IsFiniteSet(S) /\ Rated(S) /\ Ordered(S) /\ Ordered(rows)
<1>1. S \subseteq rows /\ IsFiniteSet(rows)
  BY DEF OnBoard, OnDailyBoard, Counting, RunInv, RowsTyped
<1>2. \A r \in rows : r.wpm \in Nat /\ r.started \in Int /\ r.id \in Nat
  BY BoundsAssumption DEF RunInv, RowsTyped, Sessions, Ids
<1>3. \A r, q \in rows : r.id = q.id => r = q
  BY DEF RunInv, RowsTyped
<1> QED
  BY <1>1, <1>2, <1>3, FS_Subset DEF Rated, Ordered

(* What is on a board of the viewer's is what is the viewer's on it. *)
LEMMA MineOnBoard ==
    ASSUME NEW board
    PROVE  OnBoard(MyRows, board, now) = {r \in OnBoard(rows, board, now) : r.user = Me}
BY DEF MyRows, OnBoard, OnDailyBoard, Counting

(* As the days pass, rows only leave a board. *)
LEMMA BoardShrinks ==
    ASSUME now \in Nat, NEW rs, \A r \in rs : r.started \in Int, NEW board
    PROVE  OnBoard(rs, board, now + 1) \subseteq OnBoard(rs, board, now)
<1>1. DayOf(now) <= DayOf(now + 1) /\ DayOf(now) \in Int /\ DayOf(now + 1) \in Int
  BY DayAssumption, Quotient, QuotientGrows DEF DayOf
<1> DEFINE today == DayOf(now)
           later == DayOf(now + 1)
<1> HIDE DEF today, later
<1>2. today * DayLength <= later * DayLength
  BY <1>1, DayAssumption DEF today, later
<1>3. today * DayLength \in Int /\ later * DayLength \in Int
  BY <1>1, DayAssumption DEF today, later
<1>4. \A r \in rs : r.started >= later * DayLength => r.started >= today * DayLength
  BY <1>2, <1>3
<1> QED
  BY <1>4 DEF OnBoard, OnDailyBoard, today, later

(* What day it is only moves on. *)
LEMMA DaysPass ==
    ASSUME now \in Nat, now' = now \/ now' = now + 1
    PROVE  DayOf(now) \in Int /\ DayOf(now') \in Int /\ DayOf(now) <= DayOf(now')
<1>1. DayOf(now) <= DayOf(now + 1) /\ DayOf(now) \in Int /\ DayOf(now + 1) \in Int
  BY DayAssumption, Quotient, QuotientGrows DEF DayOf
<1>2. DayOf(now') = DayOf(now) \/ DayOf(now') = DayOf(now + 1)
  OBVIOUS
<1> DEFINE today == DayOf(now)
           next  == DayOf(now + 1)
<1> HIDE DEF today, next
<1>3. today <= next /\ today \in Int /\ next \in Int
  BY <1>1 DEF today, next
<1>4. DayOf(now') = today \/ DayOf(now') = next
  BY <1>2 DEF today, next
<1>5. today <= DayOf(now') /\ DayOf(now') \in Int
  BY <1>3, <1>4
<1> QED
  BY <1>3, <1>5 DEF today

LEMMA OpenViews == ASSUME BoardInv, NEW board, reader' = PageOf(board), UNCHANGED <<rows, now>>
                   PROVE  Views'
<1> DEFINE S    == OnBoard(rows, board, now)
           top  == Leaderboard(S, cast.limit)
           best == Best(S)
           last == Ranked(board, best, Last(top))
           off  == \A i \in DOMAIN top : top[i].user # Me
           day  == DayOf(now)
<1>1. reader' = [kind |-> "board", board |-> board, day |-> day, rows |-> rows, own |-> {},
                 last |-> IF top = <<>> THEN {} ELSE {last}, open |-> off]
  BY DEF PageOf
<1>2. S \subseteq rows /\ IsFiniteSet(S) /\ Rated(S) /\ Ordered(S)
  BY BoardRows DEF BoardInv
<1>3. cast.limit \in Nat
  BY LimitIsPositive DEF BoardInv
<1>4. day \in Int /\ DayOf(now') = day
  BY DaysPass, NowBounded DEF BoardInv, RunInv
<1>5. ASSUME top # <<>>
      PROVE  /\ last.wpm \in Nat /\ last.rank \in Nat
             /\ off => \A r \in OnBoard(MyRows, board, now) : r.wpm <= last.wpm
             /\ ~board.daily =>
                   last.rank <= 1 + Cardinality(FasterUsers(Counting(rows), last.wpm))
             /\ board.daily => last.rank <= 1 + Cardinality(Speeds(S, last.wpm))
  <2> DEFINE w == Last(top).wpm
  <2>1. Last(top) \in best
    BY <1>2, <1>3, <1>5, LastOfBoard
  <2>2. w \in Nat /\ last.wpm = w
    BY <1>2, <2>1, BestRows DEF Ordered, Ranked
  <2>3. off => \A r \in S : r.user = Me => r.wpm <= w
    BY <1>2, <1>3, <1>5, BelowThePage
  <2>4. off => \A r \in OnBoard(MyRows, board, now) : r.wpm <= w
    BY <2>3, MineOnBoard
  <2>5. ASSUME ~board.daily
        PROVE  /\ last.rank \in Nat
               /\ last.rank <= 1 + Cardinality(FasterUsers(Counting(rows), w))
    <3>1. last.rank = 1 + Cardinality({q \in best : q.wpm > w})
      BY <2>5 DEF Ranked, StandardRank
    <3>2. Cardinality({q \in best : q.wpm > w}) = Cardinality(FasterUsers(S, w))
      <4> HIDE DEF S, w
      <4> QED
        BY <1>2, <2>2, BestCount
    <3>3. Cardinality(FasterUsers(S, w)) \in Nat
      <4> HIDE DEF S, w
      <4> QED
        BY <1>2, FasterUsersGrow
    <3>4. S = Counting(rows)
      BY <2>5 DEF OnBoard
    <3> HIDE DEF S, w, last, best
    <3> QED
      BY <3>1, <3>2, <3>3, <3>4
  <2>6. ASSUME board.daily
        PROVE  last.rank \in Nat /\ last.rank <= 1 + Cardinality(Speeds(S, w))
    <3>1. last.rank = 1 + Cardinality(Speeds(S, w))
      BY <2>6 DEF Ranked, DenseRank, Speeds
    <3>2. Cardinality(Speeds(S, w)) \in Nat
      <4> HIDE DEF S, w
      <4> QED
        BY <1>2, SpeedsFinite
    <3> HIDE DEF S, w, last, best
    <3> QED
      BY <3>1, <3>2
  <2> HIDE DEF S, top, best, last, off, w
  <2> QED
    BY <2>2, <2>4, <2>5, <2>6
<1> HIDE DEF S, top, best, last, off, day
<1>6. /\ reader'.board = board /\ reader'.open = off /\ reader'.day = day
      /\ reader'.rows = rows /\ reader'.own = {}
      /\ \A l \in reader'.last : top # <<>> /\ l = last
  BY <1>1
<1>7. Known' = MyRows /\ Arrived' = {} /\ Today' = S
  BY <1>6 DEF Known, Arrived, Today, MyRows, S
<1>8. ASSUME off PROVE Standing'
  <2> SUFFICES ASSUME NEW l \in reader'.last
               PROVE  /\ \A r \in OnBoard(MyRows, board, now) : r.wpm <= l.wpm
                      /\ ~board.daily =>
                            l.rank <= 1 + Cardinality(FasterUsers(Counting(rows), l.wpm))
                      /\ board.daily =>
                            l.rank <= 1 + Cardinality(Speeds(S, l.wpm)) + Cardinality({})
    BY <1>6, <1>7 DEF Standing, SameDay
  <2>1. Cardinality(Speeds(S, l.wpm)) \in Nat /\ Cardinality({}) = 0
    BY <1>2, SpeedsFinite, FS_EmptySet
  <2>2. /\ \A r \in OnBoard(MyRows, board, now) : r.wpm <= l.wpm
        /\ ~board.daily => l.rank <= 1 + Cardinality(FasterUsers(Counting(rows), l.wpm))
        /\ board.daily => l.rank <= 1 + Cardinality(Speeds(S, l.wpm))
    BY <1>5, <1>6, <1>8
  <2> QED
    BY <2>1, <2>2
<1>9. /\ reader'.rows \subseteq rows' /\ reader'.day \in Int /\ reader'.day <= DayOf(now')
      /\ \A l \in reader'.last : l.wpm \in Nat /\ l.rank \in Nat
  BY <1>4, <1>5, <1>6
<1> QED
  BY <1>6, <1>8, <1>9 DEF Views

RowsGrow == rows' = rows \/ \E row : rows' = rows \cup {row}

(* A run that arrives takes away one speed of today's at most, and is       *)
(* counted.                                                                *)
LEMMA ArrivalCounts ==
    ASSUME BoardInv, RunInv', reader' = reader, RowsGrow, now' = now \/ now' = now + 1,
           reader.kind = "board", SameDay', NEW w
    PROVE  /\ SameDay
           /\ Cardinality(Speeds(Today, w)) \in Nat /\ Cardinality(Speeds(Today', w)) \in Nat
           /\ Cardinality(Arrived) \in Nat /\ Cardinality(Arrived') \in Nat
           /\ Cardinality(Arrived) <= Cardinality(Arrived')
           /\ Cardinality(Speeds(Today, w)) + Cardinality(Arrived)
                <= Cardinality(Speeds(Today', w)) + Cardinality(Arrived')
<1> DEFINE board == reader.board
           S == OnBoard(rows, board, now)
           T == OnBoard(rows', board, now')
<1>1. Today = S /\ Today' = T
  BY DEF Today
<1>2. reader.rows \subseteq rows /\ reader.day \in Int /\ reader.day <= DayOf(now)
  BY DEF BoardInv, Views
<1>3. SameDay /\ board.daily /\ DayOf(now') = DayOf(now)
  <2>1. DayOf(now) \in Int /\ DayOf(now') \in Int /\ DayOf(now) <= DayOf(now')
    BY DaysPass, NowBounded DEF BoardInv, RunInv
  <2>2. board.daily /\ reader.day = DayOf(now')
    BY DEF SameDay
  <2>3. DayOf(now') = DayOf(now)
    BY <1>2, <2>1, <2>2
  <2> QED
    BY <2>2, <2>3 DEF SameDay
<1>4. IsFiniteSet(rows) /\ IsFiniteSet(rows')
  BY DEF BoardInv, RunInv, RowsTyped
<1>5. IsFiniteSet(S) /\ Ordered(S) /\ IsFiniteSet(T) /\ Ordered(T)
  <2>1. IsFiniteSet(S) /\ Ordered(S)
    BY BoardRows DEF BoardInv
  <2>2. T \subseteq rows'
    BY DEF OnBoard, OnDailyBoard, Counting
  <2>3. Ordered(rows')
    BY DEF Ordered, RunInv, RowsTyped, Sessions
  <2>4. IsFiniteSet(T) /\ Ordered(T)
    BY <1>4, <2>2, <2>3, FS_Subset DEF Ordered
  <2> QED
    BY <2>1, <2>4
<1>6. IsFiniteSet(Arrived) /\ Cardinality(Arrived) \in Nat
  <2>1. Arrived \subseteq rows
    BY DEF Arrived
  <2> QED
    BY <1>4, <2>1, FS_Subset, FS_CardinalityType
<1>7. Cardinality(Speeds(S, w)) \in Nat /\ Cardinality(Speeds(T, w)) \in Nat
  <2> HIDE DEF S, T
  <2> QED
    BY <1>5, SpeedsFinite
<1>8. CASE rows' = rows
  <2>1. T = S
    BY <1>3, <1>8 DEF OnBoard, OnDailyBoard
  <2>2. Arrived' = Arrived
    BY <1>8 DEF Arrived
  <2> QED
    BY <1>1, <1>3, <1>6, <1>7, <2>1, <2>2
<1>9. ASSUME NEW row, rows' = rows \cup {row}, row \notin rows
      PROVE  /\ Cardinality(Arrived') = Cardinality(Arrived) + 1
             /\ Cardinality(Speeds(S, w)) <= 1 + Cardinality(Speeds(T, w))
  <2>1. Arrived' = Arrived \cup {row} /\ row \notin Arrived
    BY <1>2, <1>9 DEF Arrived
  <2>2. Cardinality(Arrived') = Cardinality(Arrived) + 1
    BY <1>6, <2>1, FS_AddElement
  <2>3. T = S \/ T = S \cup {row}
    BY <1>3, <1>9 DEF OnBoard, OnDailyBoard
  <2> HIDE DEF S, T
  <2>4. CASE T = S
    BY <1>7, <2>2, <2>4
  <2>5. CASE T = S \cup {row}
    BY <1>5, <2>2, <2>5, OneSpeedLost
  <2> QED
    BY <2>2, <2>3, <2>4, <2>5
<1>10. CASE rows' # rows
  <2>1. PICK row : rows' = rows \cup {row}
    BY <1>10 DEF RowsGrow
  <2>2. row \notin rows
    BY <1>10, <2>1
  <2>3. /\ Cardinality(Arrived') = Cardinality(Arrived) + 1
        /\ Cardinality(Speeds(S, w)) <= 1 + Cardinality(Speeds(T, w))
    BY <1>9, <2>1, <2>2
  <2> HIDE DEF S, T
  <2> QED
    BY <1>1, <1>3, <1>6, <1>7, <2>3
<1> QED
  BY <1>8, <1>10

(* Others' runs only push the viewer down, or on today's board lift them by *)
(* one each at most; their own give them a new row.                        *)
LEMMA ViewsStay ==
    ASSUME BoardInv, RunInv', reader' = reader, RowsGrow, now' = now \/ now' = now + 1
    PROVE  Views'
<1> SUFFICES ASSUME reader.kind = "board" PROVE Views'
  BY DEF Views
<1>1. rows \subseteq rows' /\ MyRows \subseteq MyRows' /\ Counting(rows) \subseteq Counting(rows')
  BY DEF RowsGrow, MyRows, Counting
<1>2. IsFiniteSet(Counting(rows'))
  BY FS_Subset DEF RunInv, RowsTyped, Counting
<1>3. OnBoard(Known, reader.board, now') \subseteq OnBoard(Known, reader.board, now)
  <2>1. \A r \in Known : r.started \in Int
    BY DEF Known, BoardInv, Views, RunInv, RowsTyped, Sessions
  <2>2. now \in Nat
    BY NowBounded DEF BoardInv, RunInv
  <2> QED
    BY <2>1, <2>2, BoardShrinks
<1>4. /\ reader.rows \subseteq rows /\ reader.day \in Int /\ reader.day <= DayOf(now)
      /\ \A last \in reader.last : last.wpm \in Nat /\ last.rank \in Nat
      /\ \A own \in reader.own : own.rank \in Nat
  BY DEF BoardInv, Views
<1>5. ASSUME reader.open PROVE Standing'
  <2>1. ASSUME NEW last \in reader.last, ~reader.board.daily
        PROVE  last.rank <= 1 + Cardinality(FasterUsers(Counting(rows'), last.wpm))
    <3> DEFINE was == Cardinality(FasterUsers(Counting(rows), last.wpm))
               is  == Cardinality(FasterUsers(Counting(rows'), last.wpm))
    <3>1. was \in Nat /\ is \in Nat /\ was <= is
      BY <1>1, <1>2, FasterUsersGrow
    <3>2. last.rank \in Nat /\ last.rank <= 1 + was
      BY <1>5, <2>1 DEF BoardInv, Views, Standing
    <3> HIDE DEF was, is
    <3>3. last.rank <= 1 + is
      BY <3>1, <3>2
    <3> QED
      BY <3>3 DEF is
  <2>2. \A last \in reader.last :
           \A r \in OnBoard(Known, reader.board, now') : r.wpm <= last.wpm
    BY <1>3, <1>5 DEF BoardInv, Views, Standing
  <2>3. ASSUME NEW last \in reader.last, SameDay'
        PROVE  last.rank <= 1 + Cardinality(Speeds(Today', last.wpm)) + Cardinality(Arrived')
    <3> DEFINE was == Cardinality(Speeds(Today, last.wpm))
               is  == Cardinality(Speeds(Today', last.wpm))
               had == Cardinality(Arrived)
               has == Cardinality(Arrived')
    <3>1. SameDay /\ was \in Nat /\ is \in Nat /\ had \in Nat /\ has \in Nat /\ was + had <= is + has
      BY <2>3, ArrivalCounts
    <3>2. last.rank \in Nat /\ last.rank <= 1 + was + had
      BY <1>4, <1>5, <3>1 DEF BoardInv, Views, Standing
    <3> HIDE DEF was, is, had, has
    <3>3. last.rank <= 1 + is + has
      BY <3>1, <3>2
    <3> QED
      BY <3>3 DEF is, has
  <2>4. Known' = Known /\ reader'.board = reader.board /\ reader'.last = reader.last
    BY DEF Known
  <2> QED
    BY <2>1, <2>2, <2>3, <2>4 DEF Standing
<1>6. ASSUME ~reader.open, MyRows' \subseteq reader.rows,
             NEW own \in reader.own, NEW last \in reader.last
      PROVE  /\ own.wpm <= last.wpm
             /\ ~reader.board.daily => own.rank >= last.rank
             /\ SameDay' => own.rank + Cardinality(Arrived') >= last.rank
  <2>1. /\ own.wpm <= last.wpm
        /\ ~reader.board.daily => own.rank >= last.rank
        /\ SameDay => own.rank + Cardinality(Arrived) >= last.rank
    BY <1>1, <1>6 DEF BoardInv, Views
  <2>2. ASSUME SameDay' PROVE own.rank + Cardinality(Arrived') >= last.rank
    <3>1. /\ SameDay /\ Cardinality(Arrived) \in Nat /\ Cardinality(Arrived') \in Nat
          /\ Cardinality(Arrived) <= Cardinality(Arrived')
      BY <2>2, ArrivalCounts
    <3> QED
      BY <1>4, <2>1, <3>1
  <2> QED
    BY <2>1, <2>2
<1>7. reader.rows \subseteq rows' /\ reader.day <= DayOf(now')
  <2>1. DayOf(now) \in Int /\ DayOf(now') \in Int /\ DayOf(now) <= DayOf(now')
    BY DaysPass, NowBounded DEF BoardInv, RunInv
  <2> QED
    BY <1>1, <1>4, <2>1
<1> QED
  BY <1>4, <1>5, <1>6, <1>7 DEF Views

LEMMA LookUpViews == ASSUME BoardInv, LookUpMe PROVE Views'
<1> DEFINE board == reader.board
           S     == OnBoard(rows, board, now)
           own   == OwnRow(rows, board, now, Me)
<1>1. /\ reader.kind = "board" /\ reader.open /\ rows' = rows /\ now' = now
      /\ reader' = [reader EXCEPT !.own = own, !.open = FALSE]
  BY DEF LookUpMe
<1>2. /\ reader'.rows = reader.rows /\ reader'.day = reader.day /\ reader'.last = reader.last
      /\ reader'.board = reader.board /\ reader'.open = FALSE /\ reader'.own \subseteq own
      /\ MyRows' = MyRows
  BY <1>1 DEF MyRows
<1>3. S \subseteq rows /\ IsFiniteSet(S) /\ Ordered(S)
  BY BoardRows DEF BoardInv
<1>4. /\ reader.rows \subseteq rows /\ reader.day \in Int /\ reader.day <= DayOf(now)
      /\ \A last \in reader.last : last.wpm \in Nat /\ last.rank \in Nat
      /\ Standing
  BY <1>1 DEF BoardInv, Views
<1>5. ASSUME NEW mine \in own PROVE mine.rank \in Nat
  <2>1. PICK r \in Best(S) : mine = Ranked(board, Best(S), r)
    BY DEF OwnRow
  <2>2. r \in S /\ r.wpm \in Nat
    BY <1>3, <2>1, BestRows DEF Ordered
  <2>3. CASE board.daily
    <3>1. mine.rank = 1 + Cardinality(Speeds(S, r.wpm))
      BY <2>1, <2>3 DEF Ranked, DenseRank, Speeds
    <3>2. Cardinality(Speeds(S, r.wpm)) \in Nat
      <4> HIDE DEF S
      <4> QED
        BY <1>3, SpeedsFinite
    <3> QED
      BY <3>1, <3>2
  <2>4. CASE ~board.daily
    <3>1. mine.rank = 1 + Cardinality({q \in Best(S) : q.wpm > r.wpm})
      BY <2>1, <2>4 DEF Ranked, StandardRank
    <3>2. {q \in Best(S) : q.wpm > r.wpm} \in SUBSET S
      BY <1>3, BestRows
    <3>3. Cardinality({q \in Best(S) : q.wpm > r.wpm}) \in Nat
      <4> HIDE DEF S
      <4> QED
        BY <1>3, <3>2, FS_Subset, FS_CardinalityType
    <3> QED
      BY <3>1, <3>3
  <2> QED
    BY <2>3, <2>4
<1>6. ASSUME MyRows \subseteq reader.rows, NEW mine \in own, NEW last \in reader.last
      PROVE  /\ mine.wpm <= last.wpm
             /\ ~board.daily => mine.rank >= last.rank
             /\ SameDay => mine.rank + Cardinality(Arrived) >= last.rank
  <2>1. PICK r \in Best(S) : r.user = Me /\ mine = Ranked(board, Best(S), r)
    BY DEF OwnRow
  <2>2. r \in S /\ r.wpm \in Nat
    BY <1>3, <2>1, BestRows DEF Ordered
  <2>3. last.wpm \in Nat /\ last.rank \in Nat
    BY <1>4
  <2>4. mine.wpm = r.wpm /\ r.wpm <= last.wpm
    <3>1. r \in OnBoard(MyRows, board, now)
      BY <2>1, <2>2, MineOnBoard
    <3>2. MyRows = Known
      BY <1>4, <1>6 DEF MyRows, Known
    <3>3. mine.wpm = r.wpm
      BY <2>1 DEF Ranked
    <3> QED
      BY <1>4, <3>1, <3>2, <3>3 DEF Standing
  <2>5. ASSUME ~board.daily PROVE mine.rank >= last.rank
    <3> DEFINE w     == last.wpm
               above == {q \in Best(S) : q.wpm > r.wpm}
    <3>1. mine.rank = 1 + Cardinality(above)
      BY <2>1, <2>5 DEF Ranked, StandardRank
    <3>2. Cardinality(above) = Cardinality(FasterUsers(S, r.wpm))
      <4> HIDE DEF S
      <4> QED
        BY <1>3, <2>2, BestCount
    <3>3. S = Counting(rows)
      BY <2>5 DEF OnBoard
    <3>4. last.rank <= 1 + Cardinality(FasterUsers(S, w)) /\ last.rank \in Nat
      BY <1>4, <2>3, <2>5, <3>3 DEF Standing
    <3> HIDE DEF above, S, w, own
    <3>5. \A q \in S : q.wpm > w => q.wpm > r.wpm
      BY <1>3, <2>2, <2>3, <2>4 DEF Ordered, w
    <3>6. FasterUsers(S, w) \subseteq FasterUsers(S, r.wpm)
      BY <3>5 DEF FasterUsers
    <3>7. IsFiniteSet(FasterUsers(S, r.wpm)) /\ Cardinality(FasterUsers(S, r.wpm)) \in Nat
      BY <1>3, FasterUsersGrow
    <3>8. Cardinality(FasterUsers(S, w)) <= Cardinality(FasterUsers(S, r.wpm))
      BY <3>6, <3>7, FS_Subset
    <3>9. Cardinality(FasterUsers(S, w)) \in Nat
      BY <1>3, FasterUsersGrow
    <3> QED
      BY <3>1, <3>2, <3>4, <3>7, <3>8, <3>9
  <2>6. ASSUME SameDay PROVE mine.rank + Cardinality(Arrived) >= last.rank
    <3> DEFINE w     == last.wpm
               was   == Cardinality(Speeds(S, w))
               above == Cardinality(Speeds(S, r.wpm))
               more  == Cardinality(Arrived)
    <3>1. mine.rank = 1 + above
      BY <2>1, <2>6 DEF SameDay, Ranked, DenseRank, Speeds
    <3>2. last.rank <= 1 + was + more
      BY <1>4, <2>6 DEF Standing, Today
    <3>3. more \in Nat
      <4>1. Arrived \subseteq rows /\ IsFiniteSet(rows)
        BY DEF Arrived, BoardInv, RunInv, RowsTyped
      <4> QED
        BY <4>1, FS_Subset, FS_CardinalityType
    <3>4. was \in Nat /\ above \in Nat /\ was <= above
      <4> HIDE DEF S, own
      <4>1. \A q \in Best(S) : q.wpm > w => q.wpm > r.wpm
        BY <1>3, <2>2, <2>3, <2>4, BestRows DEF Ordered
      <4>2. Speeds(S, w) \subseteq Speeds(S, r.wpm)
        BY <4>1 DEF Speeds
      <4>3. IsFiniteSet(Speeds(S, r.wpm)) /\ above \in Nat /\ was \in Nat
        BY <1>3, SpeedsFinite
      <4> QED
        BY <4>2, <4>3, FS_Subset
    <3> HIDE DEF was, above, more, S, own
    <3>5. mine.rank + more >= last.rank
      BY <2>3, <3>1, <3>2, <3>3, <3>4
    <3> QED
      BY <3>5 DEF more
  <2> QED
    BY <2>4, <2>5, <2>6
<1> HIDE DEF own
<1>7. Arrived' = Arrived /\ SameDay' = SameDay
  BY <1>1, <1>2 DEF Arrived, SameDay
<1> QED
  BY <1>1, <1>2, <1>4, <1>5, <1>6, <1>7 DEF Views

LEMMA StepBoard == BoardInv /\ [Next]_vars => BoardInv'
<1> SUFFICES ASSUME BoardInv, [Next]_vars PROVE BoardInv'
  OBVIOUS
<1>1. RunInv'
  BY StepRun DEF BoardInv
<1>2. Views'
  <2>1. CASE OpenBoard \/ OpenDaily
    BY <2>1, OpenViews DEF OpenBoard, OpenDaily
  <2>2. CASE LookUpMe
    BY <2>2, LookUpViews
  <2>3. CASE (\E kind \in {"history", "texts"} : OpenList(kind)) \/ AskDaily
    BY <2>3 DEF OpenList, AskDaily, Turned, Views
  <2>4. CASE NextPage
    <3>1. reader'.kind = reader.kind /\ reader.kind # "board"
      BY <2>4 DEF NextPage, Turned
    <3> QED
      BY <3>1 DEF Views
  <2>5. CASE reader' = reader /\ RowsGrow /\ (now' = now \/ now' = now + 1)
    BY <1>1, <2>5, ViewsStay
  <2>6. ASSUME Record \/ \E sample \in cast.samples : Arrive(sample)
        PROVE  reader' = reader /\ RowsGrow /\ now' = now
    BY <2>6 DEF Record, Arrive, RowsGrow
  <2>7. ASSUME rows' = rows PROVE RowsGrow
    BY <2>7 DEF RowsGrow
  <2> QED
    BY <2>1, <2>2, <2>3, <2>4, <2>5, <2>6, <2>7 DEF Next, vars, Load, Input, Post, Restart,
       NextText, Submit, Retry, Enforce, GetText, CheckDaily, CreateText, UpdateText, Tick
<1> QED
  BY <1>1, <1>2 DEF BoardInv

-----------------------------------------------------------------------------
(* Whatever is typed, posted or edited, the variables keep their types: a   *)
(* row of typing_sessions is always of an account, in a mode an account can *)
(* have, from a parsed log with a duration, under an id of its own.        *)
THEOREM TypeCorrect == Spec => []TypeOK
BY AlwaysRun, RunInvTypes, PTL

(* The ghost of the day runs as fast and as early as the board's first row, *)
(* whoever has run and however many tie: daily_ghost() asks all runs of the *)
(* text, the board everybody's best.                                       *)
THEOREM GhostOnTop == Spec => []GhostIsFirst
<1>1. RunInv => GhostIsFirst
  <2> SUFFICES ASSUME RunInv PROVE GhostIsFirst
    OBVIOUS
  <2>1. \A r \in rows : r.wpm \in Nat /\ r.started \in Int
    BY BoundsAssumption DEF RunInv, RowsTyped, Sessions
  <2> QED
    BY <2>1, GhostOfRows DEF RunInv, RowsTyped
<1> QED
  BY <1>1, AlwaysRun, PTL

(* Whatever is typed, pasted, corrected or started over, the log has the   *)
(* server's shape, replays to the field and foresees each character        *)
(* (reduce() of engine.ts, replay() of typing_metrics.py).                 *)
THEOREM LogTellsTheRun == Spec => []LogReplays
<1>1. LogInv => LogReplays
  BY DEF LogInv, Truthful, Foreseen, LogReplays
<1> QED
  BY <1>1, AlwaysLog, PTL

(* Whatever was typed, edited, retried or started over, and however far the *)
(* clocks are apart, nothing the page sends is malformed or out of order,   *)
(* and a finished run that is judged by the text it was typed from never    *)
(* fails for being something else (PracticePage.tsx, score_run(),          *)
(* validate()).                                                            *)
THEOREM HonestRunsPass == Spec => []HonestRunsStand
<1>1. LogInv => HonestRunsStand
  BY DEF LogInv, HonestPage, Sent, Answered, Unjudged, ClockRefusals, TimingVerdicts, OtherTexts,
     HonestRunsStand
<1> QED
  BY <1>1, AlwaysLog, PTL

(* The numbers the page shows of a scored run are those the server finds   *)
(* in its log, though the log's times were rounded and the shown one was   *)
(* not (liveStats() of engine.ts, compute() of typing_metrics.py).         *)
THEOREM PageShowsScore == Spec => []ShownIsScored
<1>1. LogInv => ShownIsScored
  <2> SUFFICES ASSUME LogInv, page.stage = "done", page.mode # "api", page.whole,
                      page.outcome \notin Refusals
                          \cup {"rate_limited", "not_found", "not_daily_text"}
               PROVE  /\ Round(LiveStats(engine).elapsed) = Duration(page.log)
                      /\ LiveStats(engine).correct = Metrics(page.log).correct
                      /\ LiveStats(engine).errors = Metrics(page.log).errors
    BY DEF ShownIsScored
  <2>1. page.log = engine.log /\ engine.log # <<>> /\ Duration(engine.log) > 0
    BY DEF LogInv, HonestPage, Sent, SentLog, Answered, Unjudged, ClockRefusals, Refusals
  <2> DEFINE log  == engine.log
             span == engine.lastAt - engine.startedAt
  <2>2. Duration(log) = Round(span) /\ Round(span) > 0 /\ span \in Nat
    <3>1. /\ Duration(log) = Round(span) /\ engine.startedAt \in Int
          /\ engine.lastAt \in engine.startedAt..now /\ now \in Nat
      BY <2>1, NowBounded DEF LogInv, Clocked, RunInv, EngineTyped, GoodEngine, Engines
    <3> QED
      BY <2>1, <3>1
  <2> DEFINE shown == Max({Resolution, span})
  <2>3. Round(shown) = Round(span)
    <3> HIDE DEF span
    <3> QED
      BY <2>2, RoundOfShown
  <2> DEFINE keys    == {i \in DOMAIN log : log[i].typed # Backspace}
             wrong   == {i \in keys : log[i].typed # log[i].expected}
             correct == {i \in keys : log[i].typed = log[i].expected}
  <2>4. keys \ wrong = correct /\ keys \ correct = wrong
    OBVIOUS
  <2>5. LiveStats(engine) = [elapsed |-> shown, correct |-> Cardinality(correct),
                             errors |-> Cardinality(wrong)]
    BY <2>4 DEF LiveStats
  <2>6. /\ Metrics(log).correct = Cardinality(correct)
        /\ Metrics(log).errors = Cardinality(wrong)
    BY <2>4 DEF Metrics, Typed
  <2> HIDE DEF keys, wrong, correct, span, shown
  <2> QED
    BY <2>1, <2>2, <2>3, <2>5, <2>6
<1> QED
  BY <1>1, AlwaysLog, PTL

(* What valid says of a row, whoever sent its log: it replays to the text   *)
(* it was judged by, in order of time, its median gap is a human's and no   *)
(* MachineKeys keys follow each other within MachineGap (validate() of     *)
(* validator.py, which looks for a machine by counting fast gaps as they   *)
(* come).                                                                  *)
THEOREM CountedIsCounted == Spec => []CountedMeans
<1>1. RunInv => CountedMeans
  <2> SUFFICES ASSUME RunInv, NEW r \in rows
               PROVE  r.valid <=> CountsAs(r.log, r.against)
    BY DEF CountedMeans, CountsAs
  <2>1. Scored(r.log) /\ Judged(r)
    BY DEF RunInv, RowsTyped
  <2> QED
    BY <2>1, ValidMeans DEF Judged
<1> QED
  BY <1>1, AlwaysRun, PTL

(* A counted run's progress offsets are one per character of the text it   *)
(* was judged by, in order of time, and the bar's binary search finds how  *)
(* many are over at any moment (progress_offsets() of stats.py,            *)
(* ghostChars() of pace.ts).                                               *)
THEOREM GhostsKeepTime == Spec => []GhostKeepsTime
<1>1. RunInv => GhostKeepsTime
  <2> SUFFICES ASSUME RunInv, NEW r \in Counting(rows)
               PROVE  LET times == ProgressOffsets(r.log) IN
                      /\ Len(times) = Len(r.against)
                      /\ \A i, j \in DOMAIN times : i < j => times[i] <= times[j]
                      /\ \A e \in -1..MaxNow :
                            GhostChars(times, e) = Cardinality({i \in DOMAIN times : times[i] <= e})
    BY DEF GhostKeepsTime
  <2>1. r \in rows /\ r.valid /\ Scored(r.log) /\ Judged(r)
    BY DEF Counting, RunInv, RowsTyped
  <2>2. /\ r.log \in Seq(Keystroke) /\ r.log # <<>> /\ Replay(r.log) = r.against
        /\ \A i, j \in DOMAIN r.log : i < j => r.log[i].t <= r.log[j].t
    BY <2>1, ValidMeans DEF Judged, CountsAs, Scored
  <2> DEFINE times == ProgressOffsets(r.log)
             len   == Len(r.against)
  <2>3. PICK top : Ascending(times, len, top)
    BY <2>2, OffsetsOfText
  <2>4. len \in Nat
    BY <2>2, CountedEnough
  <2> HIDE DEF times, len
  <2>5. Len(times) = len /\ \A i, j \in DOMAIN times : i < j => times[i] <= times[j]
    BY <2>3, <2>4 DEF Ascending
  <2>6. \A e \in -1..MaxNow :
           GhostChars(times, e) = Cardinality({i \in DOMAIN times : times[i] <= e})
    <3> TAKE e \in -1..MaxNow
    <3>1. e \in Int
      BY BoundsAssumption
    <3> QED
      BY <2>3, <2>4, <3>1, GhostIsWhere
  <2> QED
    BY <2>5, <2>6 DEF times, len
<1> QED
  BY <1>1, AlwaysRun, PTL

(* Whatever is added while somebody pages through the history or the texts, *)
(* no item is shown twice, and none that was there at the start is missing  *)
(* at the end, however many share an instant (pagination.py, my_sessions(), *)
(* and the list of texts with its one row too many).                       *)
THEOREM PagingLosesNothing == Spec => []EachListedOnce
<1>1. Init => ReaderInv
  <2> SUFFICES ASSUME Init PROVE ReaderInv
    OBVIOUS
  <2>1. reader.kind = "none" /\ TextsTimed
    BY DEF Init, NoReader, TextsTimed
  <2> QED
    BY <2>1, InitRun DEF ReaderInv, Follows
<1>2. ReaderInv => EachListedOnce
  BY DEF ReaderInv, Follows, Followed, EachListedOnce
<1> QED
  BY <1>1, <1>2, StepReader, PTL DEF Spec

(* Neither others' runs nor midnight between the two queries of _board()    *)
(* make the viewer's own row faster than the page's last, on the all-time  *)
(* board or today's; nor on the former better placed: whoever was ahead     *)
(* still is.  On today's, whose ranks have no gaps, a run that arrives     *)
(* between them closes one gap at most (api/leaderboards.py, leaderboard() *)
(* of stats.py).                                                           *)
THEOREM OwnRowFits == Spec => []OwnRowBelowPage
<1>1. Init => BoardInv
  <2> SUFFICES ASSUME Init PROVE BoardInv
    OBVIOUS
  <2>1. reader.kind = "none"
    BY DEF Init, NoReader
  <2> QED
    BY <2>1, InitRun DEF BoardInv, Views
<1>2. BoardInv => OwnRowBelowPage
  BY DEF BoardInv, Views, OwnRowBelowPage, SameDay, Arrived
<1> QED
  BY <1>1, <1>2, StepBoard, PTL DEF Spec
=============================================================================
