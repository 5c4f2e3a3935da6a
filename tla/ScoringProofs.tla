---------------------------- MODULE ScoringProofs ----------------------------
(***************************************************************************)
(* What the engine writes and what the server reads: for any text and any  *)
(* values of the field, the log a run leaves replays to the text, foresees *)
(* each of its characters and is in order of time, so the server finds     *)
(* nothing to refuse in it but its timing; and what its verdict, the times *)
(* it keeps of a log and the search among them come to.                    *)
(***************************************************************************)
EXTENDS Practice, FiniteSetTheorems, WellFoundedInduction, TLAPS

(* The quotient of two numbers, by what it is between.                      *)
LEMMA Quotient ==
    ASSUME NEW a \in Int, NEW b \in Nat \ {0}
    PROVE  a \div b \in Int /\ b * (a \div b) <= a /\ a < b * (a \div b) + b
OBVIOUS

LEMMA QuotientLeast ==
    ASSUME NEW a \in Int, NEW b \in Nat \ {0}, NEW q \in Int, a < b * q + b
    PROVE  a \div b <= q
<1>1. a \div b \in Int /\ b * (a \div b) <= a
  BY Quotient
<1> DEFINE p == a \div b
<1> HIDE DEF p
<1>2. p \in Int /\ b * p <= a
  BY <1>1 DEF p
<1> SUFFICES ASSUME p >= q + 1 PROVE FALSE
  BY <1>2 DEF p
<1>3. b * p >= b * (q + 1)
  BY <1>2
<1>4. b * (q + 1) = b * q + b
  OBVIOUS
<1> QED
  BY <1>2, <1>3, <1>4

LEMMA QuotientGrows ==
    ASSUME NEW a \in Int, NEW c \in Int, NEW b \in Nat \ {0}, a <= c
    PROVE  a \div b <= c \div b
<1>1. c \div b \in Int /\ c < b * (c \div b) + b
  BY Quotient
<1> DEFINE q == c \div b
<1> HIDE DEF q
<1>2. q \in Int /\ c < b * q + b
  BY <1>1 DEF q
<1>3. a \div b <= q
  BY <1>2, QuotientLeast
<1> QED
  BY <1>3 DEF q

(* Math.round() of a span of time.                                          *)
LEMMA RoundIs ==
    ASSUME NEW span \in Nat
    PROVE  Round(span) \in Nat /\ Max({0, Round(span)}) = Round(span)
<1> DEFINE a == 2 * span + Resolution
           b == 2 * Resolution
           q == a \div b
<1>1. a \in Nat /\ b \in Nat \ {0}
  BY ResolutionAssumption
<1> HIDE DEF a, b
<1>2. q \in Int /\ b * q <= a /\ a < b * q + b
  BY <1>1, Quotient
<1> HIDE DEF q
<1>3. q >= 0
  <2> SUFFICES ASSUME q <= -1 PROVE FALSE
    BY <1>2
  <2>1. b * (q + 1) <= 0
    BY <1>1, <1>2
  <2>2. b * (q + 1) = b * q + b
    BY <1>1, <1>2
  <2> QED
    BY <1>1, <1>2, <2>1, <2>2
<1>4. q \in Nat
  BY <1>2, <1>3
<1>5. Max({0, q}) = q
  <2>1. \A y \in {0, q} : q >= y
    BY <1>4
  <2>2. Max({0, q}) \in {0, q} /\ \A y \in {0, q} : Max({0, q}) >= y
    BY <2>1 DEF Max
  <2> QED
    BY <1>4, <2>2
<1>6. Round(span) = q
  BY DEF Round, q, a, b
<1> QED
  BY <1>4, <1>5, <1>6

LEMMA RoundGrows ==
    ASSUME NEW p \in Nat, NEW q \in Nat, p <= q
    PROVE  Round(p) <= Round(q)
<1>1. /\ 2 * p + Resolution \in Int /\ 2 * q + Resolution \in Int
      /\ 2 * p + Resolution <= 2 * q + Resolution /\ 2 * Resolution \in Nat \ {0}
  BY ResolutionAssumption
<1> QED
  BY <1>1, QuotientGrows DEF Round

(* What is shown is at least a millisecond, and so is a run that counts.    *)
LEMMA RoundOfShown ==
    ASSUME NEW span \in Nat, Round(span) > 0
    PROVE  Round(Max({Resolution, span})) = Round(span)
<1>1. Resolution \in Nat \ {0}
  BY ResolutionAssumption
<1>2. Max({Resolution, span}) = IF span <= Resolution THEN Resolution ELSE span
  <2>1. \E x \in {Resolution, span} : \A y \in {Resolution, span} : x >= y
    BY <1>1
  <2>2. Max({Resolution, span}) \in {Resolution, span}
        /\ \A y \in {Resolution, span} : Max({Resolution, span}) >= y
    BY <2>1 DEF Max
  <2> QED
    BY <1>1, <2>2
<1>3. Round(Resolution) <= 1
  <2>1. /\ 2 * Resolution + Resolution \in Int /\ 2 * Resolution \in Nat \ {0}
        /\ 2 * Resolution + Resolution < 2 * Resolution * 1 + 2 * Resolution
    BY <1>1
  <2> QED
    BY <2>1, QuotientLeast DEF Round
<1>4. Round(span) \in Nat /\ Round(Resolution) \in Nat
  BY <1>1, RoundIs
<1>5. CASE span <= Resolution
  <2>1. Round(span) <= Round(Resolution)
    BY <1>1, <1>5, RoundGrows
  <2> QED
    BY <1>2, <1>3, <1>4, <1>5, <2>1
<1> QED
  BY <1>1, <1>2, <1>5

LEMMA LeastOfNaturals ==
    ASSUME NEW T \in SUBSET Nat, T # {}
    PROVE  \E n \in T : \A m \in T : n <= m
<1> DEFINE Less == {p \in Nat \X Nat : p[1] < p[2]}
<1>1. IsWellFoundedOn(Less, Nat)
  BY NatLessThanWellFounded DEF OpToRel
<1> HIDE DEF Less
<1>2. PICK n \in T : \A m \in T : ~ (<<m, n>> \in Less)
  BY <1>1, WFMin, Zenon
<1>3. \A m \in T : m < n => <<m, n>> \in Less
  BY DEF Less
<1>4. \A m \in T : ~(m < n)
  BY <1>2, <1>3, Zenon
<1>5. \A m \in T : m \in Nat /\ n \in Nat
  OBVIOUS
<1>6. \A m \in T : n <= m
  BY <1>4, <1>5
<1> QED
  BY <1>6

LEMMA GreatestOfBounded ==
    ASSUME NEW T \in SUBSET Nat, T # {}, NEW k \in Nat, \A m \in T : m <= k
    PROVE  \E n \in T : \A m \in T : m <= n
<1> DEFINE D == {d \in Nat : k - d \in T}
<1>1. D # {}
  <2>1. PICK m \in T : TRUE
    OBVIOUS
  <2>2. k - m \in D
    BY <2>1
  <2> QED
    BY <2>2
<1>2. PICK d \in D : \A e \in D : d <= e
  BY <1>1, LeastOfNaturals
<1>3. \A m \in T : k - m \in D /\ d <= k - m
  BY <1>2
<1>4. \A m \in T : m <= k - d
  BY <1>3
<1> QED
  BY <1>2, <1>4

LEMMA MinMember ==
    ASSUME NEW T \in SUBSET Nat, T # {}
    PROVE  Min(T) \in T
BY LeastOfNaturals DEF Min

LEMMA MaxMember ==
    ASSUME NEW T \in SUBSET Nat, T # {}, NEW k \in Nat, \A m \in T : m <= k
    PROVE  Max(T) \in T
<1>1. \E n \in T : \A m \in T : n >= m
  BY GreatestOfBounded
<1> QED
  BY <1>1 DEF Max

(* compute(): the speed of a log with a duration is a natural number.       *)
LEMMA SpeedIsNatural ==
    ASSUME NEW log \in Seq(Keystroke), log # <<>>, Duration(log) > 0
    PROVE  Metrics(log).wpm \in Nat
<1> DEFINE correct == {i \in Typed(log) : log[i].typed = log[i].expected}
<1>1. correct \in SUBSET (1..Len(log)) /\ Len(log) \in Nat
  BY DEF Typed
<1>2. Cardinality(correct) \in Nat
  <2>1. IsFiniteSet(1..Len(log))
    BY <1>1, FS_Interval
  <2> HIDE DEF correct
  <2> QED
    BY <1>1, <2>1, FS_Subset, FS_CardinalityType
<1>3. Duration(log) \in Nat \ {0}
  <2>1. Len(log) \in DOMAIN log
    OBVIOUS
  <2>2. log[Len(log)] \in Keystroke
    BY <2>1
  <2>3. log[Len(log)].t \in Int
    BY <2>2 DEF Keystroke
  <2> QED
    BY <2>3 DEF Duration, Last
<1>4. \A c \in Nat, d \in Nat \ {0} : (c * Scale) \div d \in Nat
  <2> SUFFICES ASSUME NEW c \in Nat, NEW d \in Nat \ {0} PROVE (c * Scale) \div d \in Nat
    OBVIOUS
  <2>1. c * Scale \in Nat
    BY ThresholdsAssumption
  <2>2. \A x \in Nat : x \div d \in Nat
    OBVIOUS
  <2> QED
    BY <2>1, <2>2
<1>5. Metrics(log).wpm = (Cardinality(correct) * Scale) \div Duration(log)
  BY DEF Metrics
<1> QED
  BY <1>2, <1>3, <1>4, <1>5

(* The part of two values that they share is no longer than either, and    *)
(* the same in both.                                                       *)
LEMMA SharedPart ==
    ASSUME NEW A, NEW s \in Seq(A), NEW t \in Seq(A)
    PROVE  LET kept == Len(LongestCommonPrefix({s, t}))
           IN  /\ kept \in Nat /\ kept <= Len(s) /\ kept <= Len(t)
               /\ SubSeq(s, 1, kept) = SubSeq(t, 1, kept)
<1> DEFINE C == CommonPrefixes({s, t})
<1>1. \A p \in C : /\ p \in Seq(A) /\ Len(p) \in Nat /\ Len(p) <= Len(s) /\ Len(p) <= Len(t)
                   /\ SubSeq(s, 1, Len(p)) = SubSeq(t, 1, Len(p))
  BY DEF CommonPrefixes, Prefixes, IsPrefix
<1>2. <<>> \in C
  <2>1. SubSeq(s, 1, 0) = <<>>
    OBVIOUS
  <2>2. <<>> \in Prefixes(s)
    BY <2>1 DEF Prefixes
  <2>3. IsPrefix(<<>>, s) /\ IsPrefix(<<>>, t)
    BY DEF IsPrefix
  <2> QED
    BY <2>2, <2>3 DEF CommonPrefixes
<1> HIDE DEF C
<1>3. \E p \in C : \A q \in C : Len(q) <= Len(p)
  <2> DEFINE T == {Len(p) : p \in C}
  <2>1. Len(s) \in Nat /\ Len(<<>>) \in T
    BY <1>2
  <2>2. \A m \in T : m \in Nat /\ m <= Len(s)
    BY <1>1
  <2> HIDE DEF T
  <2>3. PICK n \in T : \A m \in T : m <= n
    BY <2>1, <2>2, GreatestOfBounded
  <2>4. PICK p \in C : Len(p) = n
    BY DEF T
  <2>5. \A q \in C : Len(q) \in T
    BY DEF T
  <2> QED
    BY <2>3, <2>4, <2>5
<1>4. LongestCommonPrefix({s, t}) \in C
  BY <1>3 DEF LongestCommonPrefix, C
<1> QED
  BY <1>1, <1>4

LEMMA Beginning ==
    ASSUME NEW A, NEW s \in Seq(A), NEW n \in Nat, n <= Len(s)
    PROVE  SubSeq(s, 1, n) \in Seq(A) /\ Len(SubSeq(s, 1, n)) = n
OBVIOUS

LEMMA Shorter ==
    ASSUME NEW A, NEW s \in Seq(A), NEW m \in 1..Len(s)
    PROVE  /\ SubSeq(s, 1, m) # <<>>
           /\ Front(SubSeq(s, 1, m)) = SubSeq(s, 1, m - 1)
           /\ Append(SubSeq(s, 1, m - 1), s[m]) = SubSeq(s, 1, m)
           /\ Len(SubSeq(s, 1, m)) = m /\ Len(SubSeq(s, 1, m - 1)) = m - 1
<1>1. m \in Nat /\ m >= 1 /\ m - 1 \in Nat /\ m <= Len(s)
  OBVIOUS
<1>2. /\ SubSeq(s, 1, m) \in Seq(A) /\ Len(SubSeq(s, 1, m)) = m
      /\ SubSeq(s, 1, m - 1) \in Seq(A) /\ Len(SubSeq(s, 1, m - 1)) = m - 1
  BY <1>1, Beginning
<1>3. Front(SubSeq(s, 1, m)) = SubSeq(s, 1, m - 1)
  BY <1>1, <1>2 DEF Front
<1>4. Append(SubSeq(s, 1, m - 1), s[m]) = SubSeq(s, 1, m)
  BY <1>1, <1>2
<1> QED
  BY <1>1, <1>2, <1>3, <1>4

LEMMA Joined ==
    ASSUME NEW K, NEW a \in Seq(K), NEW b \in Seq(K)
    PROVE  /\ a \o b \in Seq(K) /\ Len(a \o b) = Len(a) + Len(b)
           /\ \A i \in 1..Len(a) : (a \o b)[i] = a[i]
           /\ \A i \in 1..Len(b) : (a \o b)[Len(a) + i] = b[i]
<1>1. a \o b \in Seq(K) /\ Len(a \o b) = Len(a) + Len(b) 
  OBVIOUS
<1>2. \A i \in 1..Len(a) : (a \o b)[i] = a[i]
  OBVIOUS
<1>3. \A i \in 1..Len(b) : (a \o b)[Len(a) + i] = b[i]
  <2> TAKE i \in 1..Len(b)
  <2>1. Len(a) \in Nat /\ Len(b) \in Nat /\ Len(a) + i \in 1..(Len(a) + Len(b)) /\ ~(Len(a) + i <= Len(a))
        /\ (Len(a) + i) - Len(a) = i
    OBVIOUS
  <2>2. (a \o b)[Len(a) + i] = b[(Len(a) + i) - Len(a)]
    BY <2>1
  <2> QED
    BY <2>1, <2>2
<1> QED
  BY <1>1, <1>2, <1>3

(* The part of a value that is taken.                                      *)
LEMMA AcceptedPart ==
    ASSUME NEW A, NEW target \in Seq(A), NEW value \in Seq(A)
    PROVE  Accepted(target, value) \in Seq(A) /\ Len(Accepted(target, value)) <= Len(target)
<1> DEFINE room == SubSeq(value, 1, Min({Len(value), Len(target)}))
           mistakes == {i \in DOMAIN room : room[i] # target[i]}
<1>1. Min({Len(value), Len(target)}) \in {Len(value), Len(target)}
  <2>1. {Len(value), Len(target)} \in SUBSET Nat
    OBVIOUS
  <2> QED
    BY <2>1, MinMember
<1>2. Min({Len(value), Len(target)}) <= Len(value) /\ Min({Len(value), Len(target)}) <= Len(target)
  <2>1. \E x \in {Len(value), Len(target)} : \A y \in {Len(value), Len(target)} : x <= y
    OBVIOUS
  <2> QED
    BY <2>1 DEF Min
<1>3. room \in Seq(A) /\ Len(room) <= Len(target) /\ Len(room) \in Nat
  <2>1. Min({Len(value), Len(target)}) \in Nat
    BY <1>1
  <2> QED
    BY <1>2, <2>1, Beginning
<1> HIDE DEF room
<1>4. CASE mistakes = {}
  BY <1>3, <1>4 DEF Accepted, room
<1>5. CASE mistakes # {}
  <2>1. mistakes \in SUBSET Nat /\ mistakes \subseteq 1..Len(room)
    BY <1>3
  <2>2. Min(mistakes) \in 1..Len(room)
    BY <1>5, <2>1, MinMember
  <2>3. SubSeq(room, 1, Min(mistakes)) \in Seq(A)
        /\ Len(SubSeq(room, 1, Min(mistakes))) <= Len(target)
    <3>1. \A n \in 1..Len(room) : SubSeq(room, 1, n) \in Seq(A)
                                 /\ Len(SubSeq(room, 1, n)) <= Len(target)
      BY <1>3, Beginning
    <3> QED
      BY <2>2, <3>1
  <2>4. Accepted(target, value) = SubSeq(room, 1, Min(mistakes))
    BY <1>5 DEF Accepted, room
  <2> QED
    BY <2>3, <2>4
<1> QED
  BY <1>4, <1>5

(* What the keystrokes of one change of the field are, one by one.         *)
EraseThenType(keys, gone, added, kept, target, value, t) ==
    /\ keys \in Seq(Keystroke) /\ Len(keys) = gone + added
    /\ \A j \in 1..gone : keys[j] = Key(t, Nothing, Backspace)
    /\ \A j \in 1..added : keys[gone + j] = Key(t, target[kept + j], value[kept + j])

LEMMA StrokesAre ==
    ASSUME NEW target \in Seq(Alphabet), NEW typed \in Seq(Alphabet), NEW value \in Seq(Alphabet),
           Len(value) <= Len(target), NEW t \in Int
    PROVE  LET kept == Len(LongestCommonPrefix({typed, value}))
           IN  EraseThenType(Strokes(target, typed, value, t), Len(typed) - kept,
                             Len(value) - kept, kept, target, value, t)
<1> DEFINE kept  == Len(LongestCommonPrefix({typed, value}))
           gone  == Len(typed) - kept
           added == Len(value) - kept
           old   == Erased(t, gone)
           new   == [i \in 1..added |-> Key(t, target[kept + i], value[kept + i])]
<1>1. kept \in Nat /\ kept <= Len(typed) /\ kept <= Len(value)
  BY SharedPart
<1>2. Strokes(target, typed, value, t) = old \o new
  BY DEF Strokes
<1> HIDE DEF kept
<1>3. gone \in Nat /\ added \in Nat
  BY <1>1
<1>4. \A i \in 1..added : target[kept + i] \in Alphabet /\ value[kept + i] \in Alphabet
  BY <1>1
<1> HIDE DEF gone, added
<1>5. /\ old \in Seq(Keystroke) /\ Len(old) = gone
      /\ \A j \in 1..gone : old[j] = Key(t, Nothing, Backspace)
  <2>1. Key(t, Nothing, Backspace) \in Keystroke
    BY DEF Key, Keystroke
  <2> QED
    BY <1>3, <2>1 DEF Erased
<1>6. /\ new \in Seq(Keystroke) /\ Len(new) = added
      /\ \A j \in 1..added : new[j] = Key(t, target[kept + j], value[kept + j])
  <2>1. \A i \in 1..added : Key(t, target[kept + i], value[kept + i]) \in Keystroke
    BY <1>4 DEF Key, Keystroke
  <2> QED
    BY <1>3, <2>1
<1> HIDE DEF old, new
<1>7. /\ old \o new \in Seq(Keystroke) /\ Len(old \o new) = gone + added
      /\ \A j \in 1..gone : (old \o new)[j] = Key(t, Nothing, Backspace)
      /\ \A j \in 1..added : (old \o new)[gone + j] = Key(t, target[kept + j], value[kept + j])
  <2>1. /\ old \o new \in Seq(Keystroke) /\ Len(old \o new) = Len(old) + Len(new)
        /\ \A i \in 1..Len(old) : (old \o new)[i] = old[i]
        /\ \A i \in 1..Len(new) : (old \o new)[Len(old) + i] = new[i]
    <3>1. old \in Seq(Keystroke) /\ new \in Seq(Keystroke)
      BY <1>5, <1>6
    <3>2. old \o new \in Seq(Keystroke) /\ Len(old \o new) = Len(old) + Len(new)
      BY <3>1, Joined, Zenon
    <3>3. \A i \in 1..Len(old) : (old \o new)[i] = old[i]
      BY <3>1, Joined, Zenon
    <3>4. \A i \in 1..Len(new) : (old \o new)[Len(old) + i] = new[i]
      BY <3>1, Joined
    <3> QED
      BY <3>2, <3>3, <3>4
  <2>2. Len(old) = gone /\ Len(new) = added
    BY <1>5, <1>6
  <2>3. \A j \in 1..added : (old \o new)[gone + j] = new[j]
    BY <2>1, <2>2, Zenon
  <2> QED
    BY <1>5, <1>6, <2>1, <2>2, <2>3, Zenon
<1> QED
  BY <1>2, <1>7 DEF kept, gone, added, EraseThenType

-----------------------------------------------------------------------------
(* A replay, one text per prefix of the log.                               *)
Replayed(log, texts_) ==
    texts_ = [n \in 0..Len(log) |->
                 IF n = 0 THEN <<>> ELSE Pressed(texts_[n - 1], log[n])]

(* Two replays of one log are the same; the first place they part at would  *)
(* have nothing to part them.                                              *)
LEMMA ReplayIsOne ==
    ASSUME NEW log, Len(log) \in Nat, NEW f, NEW g, Replayed(log, f), Replayed(log, g)
    PROVE  f = g
<1> DEFINE D == {n \in 0..Len(log) : f[n] # g[n]}
<1>1. \A n \in 0..Len(log) : /\ f[n] = IF n = 0 THEN <<>> ELSE Pressed(f[n - 1], log[n])
                             /\ g[n] = IF n = 0 THEN <<>> ELSE Pressed(g[n - 1], log[n])
  <2>1. f = [n \in 0..Len(log) |-> IF n = 0 THEN <<>> ELSE Pressed(f[n - 1], log[n])]
    BY DEF Replayed
  <2>2. g = [n \in 0..Len(log) |-> IF n = 0 THEN <<>> ELSE Pressed(g[n - 1], log[n])]
    BY DEF Replayed
  <2>3. \A n \in 0..Len(log) : f[n] = IF n = 0 THEN <<>> ELSE Pressed(f[n - 1], log[n])
    BY ONLY <2>1, Zenon
  <2>4. \A n \in 0..Len(log) : g[n] = IF n = 0 THEN <<>> ELSE Pressed(g[n - 1], log[n])
    BY ONLY <2>2, Zenon
  <2> QED
    BY <2>3, <2>4
<1>2. D = {}
  <2> SUFFICES ASSUME D # {} PROVE FALSE
    OBVIOUS
  <2>1. D \in SUBSET Nat
    OBVIOUS
  <2>2. PICK n \in D : \A m \in D : n <= m
    BY <2>1, LeastOfNaturals
  <2>3. CASE n = 0
    BY <1>1, <2>2, <2>3
  <2>4. CASE n # 0
    <3>1. n - 1 \in 0..Len(log) /\ n - 1 \notin D /\ n \in 0..Len(log)
      BY <2>2, <2>4
    <3>2. f[n - 1] = g[n - 1]
      BY <3>1
    <3> QED
      BY <1>1, <2>2, <2>4, <3>1, <3>2
  <2> QED
    BY <2>3, <2>4
<1>3. \A n \in 0..Len(log) : f[n] = g[n]
  BY <1>2
<1>4. f = [n \in 0..Len(log) |-> f[n]] /\ g = [n \in 0..Len(log) |-> g[n]]
  BY <1>1 DEF Replayed
<1> QED
  BY <1>3, <1>4

LEMMA ReplayEnds ==
    ASSUME NEW log, Len(log) \in Nat, NEW g, Replayed(log, g)
    PROVE  Replay(log) = g[Len(log)]
<1> DEFINE f == CHOOSE f : Replayed(log, f)
<1>1. Replayed(log, f)
  OBVIOUS
<1>2. Replay(log) = f[Len(log)]
  BY DEF Replay, Replayed
<1> HIDE DEF f
<1>3. f = g
  BY <1>1, ReplayIsOne
<1> QED
  BY <1>2, <1>3

(* A replay passes through the replays of the log's beginnings.            *)
LEMMA ReplayPasses ==
    ASSUME NEW log \in Seq(Keystroke), NEW g, Replayed(log, g), NEW i \in 0..Len(log)
    PROVE  Replay(SubSeq(log, 1, i)) = g[i]
<1> DEFINE part == SubSeq(log, 1, i)
           h == [n \in 0..i |-> g[n]]
<1>1. part \in Seq(Keystroke) /\ Len(part) = i /\ \A n \in 1..i : part[n] = log[n]
  OBVIOUS
<1>2. \A n \in 0..Len(log) : g[n] = IF n = 0 THEN <<>> ELSE Pressed(g[n - 1], log[n])
  BY Zenon DEF Replayed
<1> HIDE DEF part
<1>3. \A n \in 0..i : h[n] = IF n = 0 THEN <<>> ELSE Pressed(h[n - 1], part[n])
  <2> TAKE n \in 0..i
  <2>1. n = 0 \/ (n - 1 \in 0..i /\ n \in 1..i)
    OBVIOUS
  <2> QED
    BY <1>1, <1>2, <2>1
<1>4. h = [n \in 0..i |-> IF n = 0 THEN <<>> ELSE Pressed(h[n - 1], part[n])]
  <2>1. h = [n \in 0..i |-> h[n]]
    OBVIOUS
  <2> HIDE DEF h
  <2> QED
    BY <1>3, <2>1, Zenon
<1>5. Replayed(part, h)
  BY <1>1, <1>4, Zenon DEF Replayed
<1>6. Replay(part) = h[i]
  BY <1>1, <1>5, ReplayEnds
<1> QED
  BY <1>6 DEF part

(* Every log can be replayed: the shortest beginning that cannot would be   *)
(* one key longer than one that can.                                       *)
LEMMA ReplayExists ==
    ASSUME NEW log \in Seq(Keystroke)
    PROVE  \E g : Replayed(log, g)
<1> DEFINE From(n, g) == g = [k \in 0..n |-> IF k = 0 THEN <<>> ELSE Pressed(g[k - 1], log[k])]
           Bad == {n \in Nat : ~ \E g : From(n, g)}
<1>1. Bad = {}
  <2> SUFFICES ASSUME Bad # {} PROVE FALSE
    OBVIOUS
  <2>1. Bad \in SUBSET Nat /\ \A n \in Nat : n \notin Bad => \E g : From(n, g)
    OBVIOUS
  <2>2. PICK n \in Bad : \A m \in Bad : n <= m
    BY <2>1, LeastOfNaturals
  <2>3. CASE n = 0
    <3> DEFINE g == [k \in 0..0 |-> <<>>]
    <3>1. From(0, g)
      OBVIOUS
    <3> QED
      BY <2>2, <2>3, <3>1
  <2>4. CASE n # 0
    <3>1. n \in Nat /\ n - 1 \in Nat /\ n - 1 \notin Bad
      <4>1. n \in Nat
        OBVIOUS
      <4> HIDE DEF Bad
      <4> QED
        BY <2>1, <2>2, <2>4, <4>1
    <3>2. PICK f : From(n - 1, f)
      BY <3>1
    <3> DEFINE g == [k \in 0..n |-> IF k = n THEN Pressed(f[n - 1], log[n]) ELSE f[k]]
    <3>3. \A k \in 0..(n - 1) : f[k] = IF k = 0 THEN <<>> ELSE Pressed(f[k - 1], log[k])
      BY <3>2, Zenon
    <3>4. \A k \in 0..n : g[k] = IF k = 0 THEN <<>> ELSE Pressed(g[k - 1], log[k])
      <4> TAKE k \in 0..n
      <4>1. CASE k = n
        <5>1. k # 0 /\ k - 1 \in 0..n /\ k - 1 # n
          BY <3>1, <2>4, <4>1
        <5>2. g[k - 1] = f[k - 1]
          BY <5>1
        <5> QED
          BY <4>1, <5>1, <5>2
      <4>2. CASE k # n
        <5>1. k \in 0..(n - 1) /\ (k # 0 => k - 1 \in 0..n /\ k - 1 # n)
          BY <3>1, <4>2
        <5> QED
          BY <3>3, <4>2, <5>1
      <4> QED
        BY <4>1, <4>2
    <3>5. g = [k \in 0..n |-> g[k]]
      OBVIOUS
    <3> HIDE DEF g
    <3>6. From(n, g)
      BY <3>4, <3>5, Zenon
    <3> QED
      BY <2>2, <3>6
  <2> QED
    BY <2>3, <2>4
<1>2. Len(log) \in Nat /\ Len(log) \notin Bad
  BY <1>1
<1>3. \E g : From(Len(log), g)
  BY <1>2
<1> QED
  BY <1>3 DEF Replayed

(* Each character of a log is held against the one that was due.           *)
Foreseen(log, target) ==
    \A i \in DOMAIN log : log[i].typed # Backspace =>
        log[i].expected = target[Len(Replay(SubSeq(log, 1, i - 1))) + 1]

(* A log with the keystrokes of one change added to it.                     *)
Grown(all, log, gone, added, kept, target, value, t) ==
    /\ all \in Seq(Keystroke) /\ Len(all) = Len(log) + (gone + added)
    /\ \A n \in 1..Len(log) : all[n] = log[n]
    /\ \A n \in (Len(log) + 1)..(Len(log) + gone) : all[n] = Key(t, Nothing, Backspace)
    /\ \A n \in (Len(log) + gone + 1)..(Len(log) + gone + added) :
          all[n] = Key(t, target[kept + (n - Len(log) - gone)],
                          value[kept + (n - Len(log) - gone)])

LEMMA LogGrows ==
    ASSUME NEW target \in Seq(Alphabet), NEW typed \in Seq(Alphabet), NEW value \in Seq(Alphabet),
           Len(value) <= Len(target), NEW t \in Int, NEW log \in Seq(Keystroke)
    PROVE  LET kept == Len(LongestCommonPrefix({typed, value}))
           IN  Grown(log \o Strokes(target, typed, value, t), log, Len(typed) - kept,
                     Len(value) - kept, kept, target, value, t)
<1> DEFINE kept  == Len(LongestCommonPrefix({typed, value}))
           gone  == Len(typed) - kept
           added == Len(value) - kept
           keys  == Strokes(target, typed, value, t)
           all   == log \o keys
           L     == Len(log)
<1>1. gone \in Nat /\ added \in Nat /\ L \in Nat
  <2>1. kept \in Nat /\ kept <= Len(typed) /\ kept <= Len(value)
    BY SharedPart
  <2> HIDE DEF kept
  <2> QED
    BY <2>1
<1>2. /\ keys \in Seq(Keystroke) /\ Len(keys) = gone + added
      /\ \A j \in 1..gone : keys[j] = Key(t, Nothing, Backspace)
      /\ \A j \in 1..added : keys[gone + j] = Key(t, target[kept + j], value[kept + j])
  <2>1. EraseThenType(keys, gone, added, kept, target, value, t)
    BY StrokesAre
  <2> QED
    BY <2>1, Zenon DEF EraseThenType
<1> HIDE DEF kept, keys
<1>3. /\ all \in Seq(Keystroke) /\ Len(all) = L + (gone + added)
      /\ \A j \in 1..L : all[j] = log[j]
      /\ \A j \in 1..(gone + added) : all[L + j] = keys[j]
  <2>1. keys \in Seq(Keystroke) /\ log \in Seq(Keystroke)
    BY <1>2
  <2>2. log \o keys \in Seq(Keystroke) /\ Len(log \o keys) = Len(log) + Len(keys)
    BY <2>1, Joined, Zenon
  <2>3. \A i \in 1..Len(log) : (log \o keys)[i] = log[i]
    BY <2>1, Joined, Zenon
  <2>4. \A i \in 1..Len(keys) : (log \o keys)[Len(log) + i] = keys[i]
    BY <2>1, Joined
  <2>5. Len(keys) = gone + added
    BY <1>2
  <2> QED
    BY <2>2, <2>3, <2>4, <2>5, Zenon
<1> HIDE DEF all, gone, added, L
<1>4. \A n \in (L + 1)..(L + gone) : all[n] = Key(t, Nothing, Backspace)
  <2> TAKE n \in (L + 1)..(L + gone)
  <2>1. n - L \in 1..gone /\ n - L \in 1..(gone + added) /\ L + (n - L) = n
    BY <1>1
  <2> QED
    BY <1>2, <1>3, <2>1
<1>5. \A n \in (L + gone + 1)..(L + gone + added) :
         all[n] = Key(t, target[kept + (n - L - gone)], value[kept + (n - L - gone)])
  <2> TAKE n \in (L + gone + 1)..(L + gone + added)
  <2>1. /\ n - L - gone \in 1..added /\ n - L \in 1..(gone + added)
        /\ L + (n - L) = n /\ gone + (n - L - gone) = n - L
    BY <1>1
  <2> QED
    BY <1>2, <1>3, <2>1
<1>6. Grown(all, log, gone, added, kept, target, value, t)
  BY <1>3, <1>4, <1>5, Zenon DEF Grown, L
<1> QED
  BY <1>6, Zenon DEF all, keys, gone, added, kept

(* The texts a log goes through when the keystrokes of one change are      *)
(* added to it: those it went through before; at last it grows from what   *)
(* is shared to the new value.                                             *)
Passes(g, all, f, L, gone, added, kept, value) ==
    /\ Replayed(all, g)
    /\ \A n \in 0..L : g[n] = f[n]
    /\ \A n \in (L + gone)..(L + gone + added) :
          g[n] = SubSeq(value, 1, kept + (n - L - gone))

LEMMA StrokesReplay ==
    ASSUME NEW target \in Seq(Alphabet), NEW typed \in Seq(Alphabet), NEW value \in Seq(Alphabet),
           Len(value) <= Len(target), NEW t \in Int,
           NEW log \in Seq(Keystroke), NEW f, Replayed(log, f), f[Len(log)] = typed
    PROVE  LET kept == Len(LongestCommonPrefix({typed, value}))
               all  == log \o Strokes(target, typed, value, t)
           IN  \E g : Passes(g, all, f, Len(log), Len(typed) - kept, Len(value) - kept, kept, value)
<1> DEFINE kept  == Len(LongestCommonPrefix({typed, value}))
           gone  == Len(typed) - kept
           added == Len(value) - kept
           keys  == Strokes(target, typed, value, t)
           all   == log \o keys
           L     == Len(log)
           G(n)  == IF n <= L THEN f[n]
                    ELSE IF n <= L + gone THEN SubSeq(typed, 1, Len(typed) - (n - L))
                    ELSE SubSeq(value, 1, kept + (n - L - gone))
           g     == [n \in 0..Len(all) |-> G(n)]
<1>1. /\ kept \in Nat /\ kept <= Len(typed) /\ kept <= Len(value)
      /\ SubSeq(typed, 1, kept) = SubSeq(value, 1, kept)
  BY SharedPart
<1>2. Grown(all, log, gone, added, kept, target, value, t)
  BY LogGrows
<1>3. /\ gone \in Nat /\ added \in Nat /\ L \in Nat /\ Len(typed) \in Nat /\ Len(value) \in Nat
      /\ Len(typed) = kept + gone /\ Len(value) = kept + added
  BY <1>1
<1>4. \A n \in 0..L : f[n] = IF n = 0 THEN <<>> ELSE Pressed(f[n - 1], log[n])
  BY Zenon DEF Replayed
<1>5. f[L] = typed
  OBVIOUS
<1> HIDE DEF kept, keys
<1> HIDE DEF all, gone, added
<1>6. /\ Len(all) = L + (gone + added)
      /\ \A n \in 1..L : all[n] = log[n]
      /\ \A n \in (L + 1)..(L + gone) : all[n] = Key(t, Nothing, Backspace)
      /\ \A n \in (L + gone + 1)..(L + gone + added) :
            all[n] = Key(t, target[kept + (n - L - gone)], value[kept + (n - L - gone)])
  BY <1>2, Zenon DEF Grown
<1> HIDE DEF L
<1>7. SubSeq(typed, 1, Len(typed)) = typed
  OBVIOUS
<1>8. \A n \in 1..L : G(n) = Pressed(G(n - 1), all[n])
  <2> TAKE n \in 1..L
  <2>1. n \in 0..L /\ n - 1 \in 0..L /\ n # 0 /\ n <= L /\ n - 1 <= L
    BY <1>3
  <2> QED
    BY <1>4, <1>6, <2>1
<1>9. \A n \in L..(L + gone) : G(n) = SubSeq(typed, 1, Len(typed) - (n - L))
  <2> TAKE n \in L..(L + gone)
  <2>1. CASE n = L
    <3>1. n <= L /\ Len(typed) - (n - L) = Len(typed)
      BY <1>3, <2>1
    <3> QED
      BY <1>3, <1>5, <1>7, <2>1, <3>1
  <2>2. CASE n # L
    <3>1. ~(n <= L) /\ n <= L + gone
      BY <1>3, <2>2
    <3> QED
      BY <3>1
  <2> QED
    BY <2>1, <2>2
<1>10. \A n \in (L + gone)..(L + gone + added) :
          G(n) = SubSeq(value, 1, kept + (n - L - gone))
  <2> TAKE n \in (L + gone)..(L + gone + added)
  <2>1. CASE n = L + gone
    <3>1. n \in L..(L + gone) /\ Len(typed) - (n - L) = kept /\ kept + (n - L - gone) = kept
      BY <1>1, <1>3, <2>1
    <3>2. G(n) = SubSeq(typed, 1, kept)
      BY <1>9, <3>1
    <3> QED
      BY <1>1, <3>1, <3>2
  <2>2. CASE n # L + gone
    <3>1. ~(n <= L) /\ ~(n <= L + gone)
      BY <1>3, <2>2
    <3> QED
      BY <3>1
  <2> QED
    BY <2>1, <2>2
<1> HIDE DEF G
<1>11. \A n \in (L + 1)..(L + gone) : G(n) = Pressed(G(n - 1), all[n])
  <2> TAKE n \in (L + 1)..(L + gone)
  <2> DEFINE m == Len(typed) - (n - 1 - L)
  <2>1. /\ n \in L..(L + gone) /\ n - 1 \in L..(L + gone)
        /\ m \in 1..Len(typed) /\ m - 1 = Len(typed) - (n - L)
    BY <1>1, <1>3
  <2>2. all[n] = Key(t, Nothing, Backspace)
    BY <1>6
  <2>3. G(n - 1) = SubSeq(typed, 1, m) /\ G(n) = SubSeq(typed, 1, m - 1)
    BY <1>9, <2>1
  <2> HIDE DEF m
  <2>4. SubSeq(typed, 1, m) # <<>> /\ Front(SubSeq(typed, 1, m)) = SubSeq(typed, 1, m - 1)
    BY <2>1, Shorter
  <2>5. all[n].typed = Backspace
    BY <2>2 DEF Key
  <2> QED
    BY <2>3, <2>4, <2>5 DEF Pressed
<1>12. \A n \in (L + gone + 1)..(L + gone + added) : G(n) = Pressed(G(n - 1), all[n])
  <2> TAKE n \in (L + gone + 1)..(L + gone + added)
  <2> DEFINE m == kept + (n - L - gone)
  <2>1. /\ n \in (L + gone)..(L + gone + added) /\ n - 1 \in (L + gone)..(L + gone + added)
        /\ m \in 1..Len(value) /\ m - 1 = kept + (n - 1 - L - gone)
    BY <1>1, <1>3
  <2>2. all[n] = Key(t, target[m], value[m])
    BY <1>6
  <2>3. G(n - 1) = SubSeq(value, 1, m - 1) /\ G(n) = SubSeq(value, 1, m)
    BY <1>10, <2>1
  <2> HIDE DEF m
  <2>4. Append(SubSeq(value, 1, m - 1), value[m]) = SubSeq(value, 1, m)
    BY <2>1, Shorter
  <2>5. all[n].typed = value[m] /\ value[m] # Backspace
    <3>1. value[m] \in Alphabet
      BY <2>1
    <3> QED
      BY <2>2, <3>1, TextsAssumption DEF Key
  <2> QED
    BY <2>3, <2>4, <2>5 DEF Pressed
<1>13. \A n \in 0..Len(all) : G(n) = IF n = 0 THEN <<>> ELSE Pressed(G(n - 1), all[n])
  <2> TAKE n \in 0..Len(all)
  <2>1. CASE n = 0
    <3>1. 0 <= L /\ 0 \in 0..L
      BY <1>3
    <3>2. G(0) = f[0] /\ f[0] = <<>>
      BY <1>4, <3>1 DEF G
    <3> QED
      BY <2>1, <3>2
  <2>2. CASE n \in 1..L
    BY <1>8, <2>2
  <2>3. CASE n \in (L + 1)..(L + gone)
    BY <1>3, <1>11, <2>3
  <2>4. CASE n \in (L + gone + 1)..(L + gone + added)
    BY <1>3, <1>12, <2>4
  <2> QED
    BY <1>3, <1>6, <2>1, <2>2, <2>3, <2>4
<1>14. g = [n \in 0..Len(all) |-> IF n = 0 THEN <<>> ELSE Pressed(g[n - 1], all[n])]
  <2>1. \A n \in 0..Len(all) : n # 0 => n - 1 \in 0..Len(all)
    BY <1>3, <1>6
  <2>2. \A n \in 0..Len(all) : g[n] = G(n)
    OBVIOUS
  <2>3. \A n \in 0..Len(all) : n # 0 => g[n - 1] = G(n - 1)
    BY <2>1, <2>2
  <2>4. g = [n \in 0..Len(all) |-> g[n]]
    OBVIOUS
  <2> HIDE DEF g
  <2>5. \A n \in 0..Len(all) : g[n] = IF n = 0 THEN <<>> ELSE Pressed(g[n - 1], all[n])
    BY <1>13, <2>2, <2>3, Zenon
  <2> QED
    BY <2>4, <2>5, Zenon
<1>15. Replayed(all, g)
  <2> HIDE DEF g
  <2> QED
    BY <1>14, Zenon DEF Replayed
<1>16. /\ \A n \in 0..L : n \in 0..Len(all) /\ G(n) = f[n]
       /\ \A n \in (L + gone)..(L + gone + added) : n \in 0..Len(all)
  BY <1>3, <1>6 DEF G
<1>17. /\ \A n \in 0..L : g[n] = f[n]
       /\ \A n \in (L + gone)..(L + gone + added) :
             g[n] = SubSeq(value, 1, kept + (n - L - gone))
  BY <1>10, <1>16
<1> HIDE DEF g
<1>18. Passes(g, all, f, L, gone, added, kept, value)
  BY <1>15, <1>17, Zenon DEF Passes
<1> QED
  BY <1>18, Zenon DEF all, keys, kept, gone, added, L

(* What the reducer appends keeps the log telling how the field got to     *)
(* where it is.                                                            *)
LEMMA StrokesTell ==
    ASSUME NEW target \in Seq(Alphabet), NEW typed \in Seq(Alphabet), NEW value \in Seq(Alphabet),
           Len(value) <= Len(target), NEW t \in Nat,
           NEW log \in Seq(Keystroke), WellFormed(log), Replay(log) = typed, Foreseen(log, target)
    PROVE  LET all == log \o Strokes(target, typed, value, t)
           IN  WellFormed(all) /\ Replay(all) = value /\ Foreseen(all, target)
<1> DEFINE kept  == Len(LongestCommonPrefix({typed, value}))
           gone  == Len(typed) - kept
           added == Len(value) - kept
           all   == log \o Strokes(target, typed, value, t)
           L     == Len(log)
<1>1. /\ kept \in Nat /\ kept <= Len(typed) /\ kept <= Len(value)
      /\ SubSeq(typed, 1, kept) = SubSeq(value, 1, kept)
  BY SharedPart
<1>2. Grown(all, log, gone, added, kept, target, value, t)
  <2>1. t \in Int
    OBVIOUS
  <2> QED
    BY <2>1, LogGrows
<1>3. PICK f : Replayed(log, f)
  BY ReplayExists
<1>4. f[L] = typed /\ L \in Nat
  BY <1>3, ReplayEnds
<1>5. PICK g : Passes(g, all, f, L, gone, added, kept, value)
  <2>1. t \in Int
    OBVIOUS
  <2> QED
    BY <1>3, <1>4, <2>1, StrokesReplay
<1> HIDE DEF kept, all
<1>6. gone \in Nat /\ added \in Nat /\ Len(typed) = kept + gone /\ Len(value) = kept + added
  BY <1>1
<1> HIDE DEF gone, added
<1>7. /\ all \in Seq(Keystroke) /\ Len(all) = L + (gone + added)
      /\ \A n \in 1..L : all[n] = log[n]
      /\ \A n \in (L + 1)..(L + gone) : all[n] = Key(t, Nothing, Backspace)
      /\ \A n \in (L + gone + 1)..(L + gone + added) :
            all[n] = Key(t, target[kept + (n - L - gone)], value[kept + (n - L - gone)])
  BY <1>2, Zenon DEF Grown
<1> HIDE DEF L
<1>8. \A n \in (L + gone + 1)..(L + gone + added) :
         /\ target[kept + (n - L - gone)] \in Alphabet /\ value[kept + (n - L - gone)] \in Alphabet
  <2> TAKE n \in (L + gone + 1)..(L + gone + added)
  <2>1. kept + (n - L - gone) \in 1..Len(value) /\ Len(value) \in Nat /\ Len(target) \in Nat
    BY <1>1, <1>4, <1>6
  <2>2. kept + (n - L - gone) \in 1..Len(target)
    BY <2>1
  <2> QED
    BY <2>1, <2>2
<1>9. DOMAIN all = 1..(L + gone + added) /\ DOMAIN log = 1..L
  BY <1>4, <1>6, <1>7 DEF L
<1>10. WellFormed(all)
  <2> SUFFICES ASSUME NEW n \in 1..(L + gone + added)
               PROVE  /\ all[n].t >= 0
                      /\ (all[n].expected = Nothing) <=> (all[n].typed = Backspace)
                      /\ all[n].typed # Nothing
    BY <1>9 DEF WellFormed
  <2>1. CASE n \in 1..L
    BY <1>7, <1>9, <2>1 DEF WellFormed
  <2>2. CASE n \in (L + 1)..(L + gone)
    <3>1. all[n] = Key(t, Nothing, Backspace)
      BY <1>7, <2>2
    <3>2. /\ all[n].t = t /\ all[n].expected = Nothing /\ all[n].typed = Backspace
      BY <3>1 DEF Key
    <3>3. Backspace # Nothing
      BY DEF Nothing, Backspace
    <3> QED
      BY <3>2, <3>3
  <2>3. CASE n \in (L + gone + 1)..(L + gone + added)
    <3> DEFINE c == target[kept + (n - L - gone)]
               v == value[kept + (n - L - gone)]
    <3>1. all[n] = Key(t, c, v) /\ c \in Alphabet /\ v \in Alphabet
      BY <1>7, <1>8, <2>3
    <3> HIDE DEF c, v
    <3> QED
      BY <3>1, TextsAssumption DEF Key
  <2> QED
    BY <1>4, <1>6, <2>1, <2>2, <2>3
<1> DEFINE Grows(n) == SubSeq(value, 1, kept + (n - L - gone))
<1>11. /\ Replayed(all, g)
       /\ \A n \in 0..L : g[n] = f[n]
       /\ \A n \in (L + gone)..(L + gone + added) : g[n] = Grows(n)
  BY <1>5, Zenon DEF Passes
<1> HIDE DEF Grows
<1>12. Replay(all) = value
  <2>1. Replay(all) = g[Len(all)]
    <3>1. Len(all) \in Nat
      BY <1>4, <1>6, <1>7
    <3> QED
      BY <1>11, <3>1, ReplayEnds
  <2>2. Len(all) \in (L + gone)..(L + gone + added) /\ kept + (Len(all) - L - gone) = Len(value)
    BY <1>1, <1>4, <1>6, <1>7
  <2>3. g[Len(all)] = Grows(Len(all))
    BY <1>11, <2>2, Zenon
  <2>4. g[Len(all)] = SubSeq(value, 1, Len(value))
    BY <2>2, <2>3 DEF Grows
  <2> QED
    BY <2>1, <2>4
<1>13. Foreseen(all, target)
  <2> SUFFICES ASSUME NEW n \in 1..(L + gone + added), all[n].typed # Backspace
               PROVE  all[n].expected = target[Len(Replay(SubSeq(all, 1, n - 1))) + 1]
    BY <1>9 DEF Foreseen
  <2>1. n - 1 \in 0..Len(all) /\ Replay(SubSeq(all, 1, n - 1)) = g[n - 1]
    <3>1. n - 1 \in 0..Len(all)
      BY <1>4, <1>6, <1>7
    <3> QED
      BY <1>11, <1>7, <3>1, ReplayPasses
  <2>2. CASE n \in 1..L
    <3>1. n - 1 \in 0..L /\ n - 1 <= L
      BY <1>4, <2>2
    <3>2. g[n - 1] = f[n - 1]
      BY <1>11, <3>1
    <3>3. Replay(SubSeq(log, 1, n - 1)) = f[n - 1]
      BY <1>3, <3>1, ReplayPasses DEF L
    <3>4. log[n].typed # Backspace /\ n \in DOMAIN log
      BY <1>7, <1>9, <2>2
    <3>5. log[n].expected = target[Len(Replay(SubSeq(log, 1, n - 1))) + 1]
      BY <3>4 DEF Foreseen
    <3> QED
      BY <1>7, <2>1, <2>2, <3>2, <3>3, <3>5
  <2>3. CASE n \in (L + 1)..(L + gone)
    BY <1>7, <2>3 DEF Key
  <2>4. CASE n \in (L + gone + 1)..(L + gone + added)
    <3> DEFINE m == kept + (n - L - gone)
    <3>1. /\ m - 1 \in 0..Len(value) /\ m - 1 + 1 = m
          /\ n - 1 \in (L + gone)..(L + gone + added) /\ kept + (n - 1 - L - gone) = m - 1
      BY <1>1, <1>4, <1>6, <2>4
    <3>2. all[n].expected = target[m]
      <4>1. all[n] = Key(t, target[m], value[m])
        BY <1>7, <2>4
      <4> QED
        BY <4>1 DEF Key
    <3>3. g[n - 1] = SubSeq(value, 1, m - 1)
      <4>1. g[n - 1] = Grows(n - 1)
        BY <1>11, <3>1, Zenon
      <4> QED
        BY <3>1, <4>1 DEF Grows
    <3> HIDE DEF m
    <3>4. Len(SubSeq(value, 1, m - 1)) = m - 1
      BY <3>1
    <3> QED
      BY <2>1, <3>1, <3>2, <3>3, <3>4
  <2> QED
    BY <1>4, <1>6, <2>2, <2>3, <2>4
<1> QED
  BY <1>10, <1>12, <1>13 DEF all

-----------------------------------------------------------------------------
(* The engine, whatever text it was given and whatever is put in the field. *)
Engines ==
    [target: Seq(Alphabet), typed: Seq(Alphabet), log: Seq(Keystroke), startedAt: Int,
     lastAt: Int, finished: BOOLEAN]
GoodEngine(e) ==
    /\ e \in Engines
    /\ e.startedAt \in -1..now
    /\ e.finished => e.startedAt >= 0

LEMMA ReducedEngine ==
    ASSUME GoodEngine(engine), now \in Nat, NEW value \in Seq(Alphabet)
    PROVE  GoodEngine(Reduce(engine, value, now))
           /\ Reduce(engine, value, now).target = engine.target
<1> DEFINE taken == Accepted(engine.target, value)
           start == IF engine.startedAt = -1 THEN now ELSE engine.startedAt
           t     == Max({0, Round(now - start)})
           keys  == Strokes(engine.target, engine.typed, taken, t)
           done  == taken = engine.target
           next  == [engine EXCEPT !.typed = taken, !.startedAt = start, !.lastAt = now,
                                   !.log = @ \o keys, !.finished = done]
<1>1. engine \in Engines /\ engine.startedAt \in -1..now
  BY DEF GoodEngine
<1>2. engine.target \in Seq(Alphabet) /\ engine.typed \in Seq(Alphabet)
      /\ engine.log \in Seq(Keystroke)
  BY <1>1 DEF Engines
<1>3. taken \in Seq(Alphabet) /\ Len(taken) <= Len(engine.target)
  BY <1>2, AcceptedPart
<1>4. start \in 0..now
  BY <1>1
<1> HIDE DEF taken, start
<1>5. keys \in Seq(Keystroke)
  <2>1. t \in Int
    <3>1. now - start \in Nat
      BY <1>4
    <3> QED
      BY <3>1, RoundIs
  <2> HIDE DEF t
  <2> QED
    BY <1>2, <1>3, <2>1, StrokesAre DEF EraseThenType
<1> HIDE DEF keys
<1>6. engine.log \o keys \in Seq(Keystroke)
  BY <1>2, <1>5
<1>7. GoodEngine(next) /\ next.target = engine.target
  <2>1. start \in Int /\ now \in Int /\ done \in BOOLEAN
    BY <1>4
  <2> HIDE DEF done
  <2>2. next \in Engines /\ next.startedAt = start /\ next.target = engine.target
    BY <1>1, <1>3, <1>6, <2>1 DEF Engines
  <2> QED
    BY <1>4, <2>2 DEF GoodEngine
<1>8. Reduce(engine, value, now) = engine \/ Reduce(engine, value, now) = next
  BY DEF Reduce, taken, start, t, keys, done
<1> QED
  BY <1>7, <1>8

LEMMA FirstEngine ==
    ASSUME NEW target \in Seq(Alphabet), now \in Nat
    PROVE  GoodEngine(InitialState(target))
BY DEF GoodEngine, Engines, InitialState

-----------------------------------------------------------------------------
(* The log tells the truth.                                                *)
Truthful(e) ==
    /\ WellFormed(e.log) /\ Replay(e.log) = e.typed /\ Foreseen(e.log, e.target)
    /\ e.finished => e.typed = e.target

(* The log is in order of time and ends where the run does.                *)
Clocked(e, at) ==
    LET span == Round(e.lastAt - e.startedAt) IN
    /\ IF e.startedAt = -1 THEN e.log = <<>> ELSE e.lastAt \in e.startedAt..at
    /\ \A i \in DOMAIN e.log : e.log[i].t <= span
    /\ \A i, j \in DOMAIN e.log : i <= j => e.log[i].t <= e.log[j].t
    /\ e.log # <<>> => Duration(e.log) = span

LEMMA ReplayOfNothing == Replay(<<>>) = <<>>
<1> DEFINE g == [n \in 0..0 |-> <<>>]
<1>1. Len(<<>>) = 0
  OBVIOUS
<1>2. Replayed(<<>>, g)
  <2>1. g = [n \in 0..0 |-> IF n = 0 THEN <<>> ELSE Pressed(g[n - 1], <<>>[n])]
    OBVIOUS
  <2> QED
    BY <1>1, <2>1 DEF Replayed
<1>3. Replay(<<>>) = g[0]
  BY <1>1, <1>2, ReplayEnds
<1> QED
  BY <1>3

LEMMA FirstTells ==
    ASSUME NEW target \in Seq(Alphabet)
    PROVE  Truthful(InitialState(target)) /\ Clocked(InitialState(target), now)
<1>1. DOMAIN <<>> = {}
  OBVIOUS
<1>2. WellFormed(<<>>) /\ Foreseen(<<>>, target)
  BY <1>1 DEF WellFormed, Foreseen
<1> QED
  BY <1>1, <1>2, ReplayOfNothing DEF InitialState, Truthful, Clocked

LEMMA ReducedTells ==
    ASSUME GoodEngine(engine), Truthful(engine), now \in Nat, NEW value \in Seq(Alphabet)
    PROVE  Truthful(Reduce(engine, value, now))
<1> DEFINE taken == Accepted(engine.target, value)
           start == IF engine.startedAt = -1 THEN now ELSE engine.startedAt
           t     == Max({0, Round(now - start)})
           keys  == Strokes(engine.target, engine.typed, taken, t)
           next  == [engine EXCEPT !.typed = taken, !.startedAt = start, !.lastAt = now,
                                   !.log = @ \o keys, !.finished = taken = engine.target]
<1>1. /\ engine \in Engines /\ engine.startedAt \in -1..now
      /\ engine.target \in Seq(Alphabet) /\ engine.typed \in Seq(Alphabet)
      /\ engine.log \in Seq(Keystroke)
  BY DEF GoodEngine, Engines
<1>2. taken \in Seq(Alphabet) /\ Len(taken) <= Len(engine.target)
  BY <1>1, AcceptedPart
<1>3. t \in Nat
  <2>1. now - start \in Nat
    BY <1>1
  <2> HIDE DEF start
  <2> QED
    BY <2>1, RoundIs
<1>4. /\ WellFormed(engine.log \o keys) /\ Replay(engine.log \o keys) = taken
      /\ Foreseen(engine.log \o keys, engine.target)
  <2> HIDE DEF taken, t
  <2> QED
    BY <1>1, <1>2, <1>3, StrokesTell DEF Truthful
<1>5. Reduce(engine, value, now) = engine \/ Reduce(engine, value, now) = next
  BY DEF Reduce
<1>6. /\ next.log = engine.log \o keys /\ next.typed = taken
      /\ next.target = engine.target /\ next.finished = (taken = engine.target)
  <2> HIDE DEF taken, start, keys
  <2> QED
    BY <1>1 DEF Engines
<1> HIDE DEF next, keys, taken
<1>7. Truthful(next)
  BY <1>4, <1>6 DEF Truthful
<1> QED
  BY <1>5, <1>7

(* A log with some keystrokes added to it, all at one time.                *)
GrownAt(all, log, t) ==
    /\ all \in Seq(Keystroke) /\ Len(log) < Len(all)
    /\ \A n \in 1..Len(log) : all[n] = log[n]
    /\ \A n \in (Len(log) + 1)..Len(all) : all[n].t = t

LEMMA KeysHaveTimes ==
    ASSUME NEW log \in Seq(Keystroke), NEW i \in 1..Len(log)
    PROVE  log[i] \in Keystroke /\ log[i].t \in Int
<1>1. log[i] \in Keystroke
  OBVIOUS
<1> QED
  BY <1>1 DEF Keystroke

LEMMA StrokesTimed ==
    ASSUME NEW target \in Seq(Alphabet), NEW typed \in Seq(Alphabet), NEW value \in Seq(Alphabet),
           Len(value) <= Len(target), NEW t \in Int, NEW log \in Seq(Keystroke), value # typed
    PROVE  GrownAt(log \o Strokes(target, typed, value, t), log, t)
<1> DEFINE kept  == Len(LongestCommonPrefix({typed, value}))
           gone  == Len(typed) - kept
           added == Len(value) - kept
           all   == log \o Strokes(target, typed, value, t)
           L     == Len(log)
<1>1. /\ kept \in Nat /\ kept <= Len(typed) /\ kept <= Len(value)
      /\ SubSeq(typed, 1, kept) = SubSeq(value, 1, kept)
  BY SharedPart
<1>2. Grown(all, log, gone, added, kept, target, value, t)
  BY LogGrows
<1> HIDE DEF kept, all
<1>3. gone \in Nat /\ added \in Nat /\ L \in Nat
  BY <1>1
<1>4. gone + added > 0
  <2> SUFFICES ASSUME gone = 0, added = 0 PROVE FALSE
    BY <1>3
  <2>1. kept = Len(typed) /\ kept = Len(value)
    BY <1>1
  <2>2. SubSeq(typed, 1, Len(typed)) = typed /\ SubSeq(value, 1, Len(value)) = value
    OBVIOUS
  <2> QED
    BY <1>1, <2>1, <2>2
<1> HIDE DEF gone, added
<1>5. /\ all \in Seq(Keystroke) /\ Len(all) = L + (gone + added)
      /\ \A n \in 1..L : all[n] = log[n]
      /\ \A n \in (L + 1)..(L + gone) : all[n] = Key(t, Nothing, Backspace)
      /\ \A n \in (L + gone + 1)..(L + gone + added) :
            all[n] = Key(t, target[kept + (n - L - gone)], value[kept + (n - L - gone)])
  BY <1>2, Zenon DEF Grown
<1>6. \A n \in (L + 1)..Len(all) : all[n].t = t
  <2> TAKE n \in (L + 1)..Len(all)
  <2>1. n \in (L + 1)..(L + gone) \/ n \in (L + gone + 1)..(L + gone + added)
    BY <1>3, <1>5
  <2>2. CASE n \in (L + 1)..(L + gone)
    <3>1. all[n] = Key(t, Nothing, Backspace)
      BY <1>5, <2>2, Zenon
    <3> QED
      BY <3>1 DEF Key
  <2>3. CASE n \in (L + gone + 1)..(L + gone + added)
    <3>1. all[n] = Key(t, target[kept + (n - L - gone)], value[kept + (n - L - gone)])
      BY <1>5, <2>3, Zenon
    <3> QED
      BY <3>1 DEF Key
  <2> QED
    BY <2>1, <2>2, <2>3
<1>7. L < Len(all)
  BY <1>3, <1>4, <1>5
<1> QED
  BY <1>5, <1>6, <1>7, Zenon DEF all, GrownAt

LEMMA ReducedClocked ==
    ASSUME GoodEngine(engine), Clocked(engine, now), now \in Nat, NEW value \in Seq(Alphabet)
    PROVE  Clocked(Reduce(engine, value, now), now)
<1> DEFINE taken == Accepted(engine.target, value)
           start == IF engine.startedAt = -1 THEN now ELSE engine.startedAt
           t     == Max({0, Round(now - start)})
           all   == engine.log \o Strokes(engine.target, engine.typed, taken, t)
           next  == [engine EXCEPT !.typed = taken, !.startedAt = start, !.lastAt = now,
                                   !.log = all, !.finished = taken = engine.target]
           L     == Len(engine.log)
<1>1. /\ engine \in Engines /\ engine.startedAt \in -1..now
      /\ engine.target \in Seq(Alphabet) /\ engine.typed \in Seq(Alphabet)
      /\ engine.log \in Seq(Keystroke)
  BY DEF GoodEngine, Engines
<1>2. taken \in Seq(Alphabet) /\ Len(taken) <= Len(engine.target)
  BY <1>1, AcceptedPart
<1>3. t \in Nat /\ t = Round(now - start) /\ start \in 0..now
  <2>1. now - start \in Nat /\ start \in 0..now
    BY <1>1
  <2> HIDE DEF start
  <2> QED
    BY <2>1, RoundIs
<1>4. Reduce(engine, value, now) = engine
      \/ (taken # engine.typed /\ Reduce(engine, value, now) = next)
  BY DEF Reduce
<1> SUFFICES ASSUME taken # engine.typed PROVE Clocked(next, now)
  BY <1>4
<1>5. \A i \in 1..L : engine.log[i].t <= t
  <2>1. CASE engine.startedAt = -1
    BY <2>1 DEF Clocked
  <2>2. CASE engine.startedAt # -1
    <3>1. engine.lastAt \in engine.startedAt..now /\ start = engine.startedAt
      BY <2>2 DEF Clocked
    <3> DEFINE former == Round(engine.lastAt - engine.startedAt)
    <3>2. \A i \in 1..L : engine.log[i].t <= former
      BY <1>1 DEF Clocked
    <3>3. \A i \in 1..L : engine.log[i].t \in Int
      BY <1>1, KeysHaveTimes
    <3>4. /\ engine.lastAt - engine.startedAt \in Nat /\ now - start \in Nat
          /\ engine.lastAt - engine.startedAt <= now - start
      BY <1>1, <1>3, <3>1
    <3> HIDE DEF start
    <3>5. former <= Round(now - start) /\ former \in Nat
      BY <3>4, RoundGrows, RoundIs
    <3> HIDE DEF L, t, former
    <3> QED
      BY <1>3, <3>2, <3>3, <3>5
  <2> QED
    BY <2>1, <2>2
<1> HIDE DEF taken, start, t
<1>6. /\ all \in Seq(Keystroke) /\ L < Len(all)
      /\ \A n \in 1..L : all[n] = engine.log[n]
      /\ \A n \in (L + 1)..Len(all) : all[n].t = t
  <2>1. t \in Int
    BY <1>3
  <2>2. GrownAt(all, engine.log, t)
    BY <1>1, <1>2, <2>1, StrokesTimed
  <2> HIDE DEF all
  <2> QED
    BY <2>2 DEF GrownAt
<1>7. next.log = all /\ next.startedAt = start /\ next.lastAt = now
  <2> HIDE DEF all
  <2> QED
    BY <1>1 DEF Engines
<1> HIDE DEF all, next
<1>8. L \in Nat /\ Len(all) \in Nat /\ DOMAIN all = 1..Len(all) /\ DOMAIN engine.log = 1..L
      /\ all # <<>>
  BY <1>1, <1>6
<1>9. \A i, j \in 1..L : i <= j => engine.log[i].t <= engine.log[j].t
  BY <1>8 DEF Clocked
<1> HIDE DEF L
<1>10. \A n \in 1..Len(all) : all[n].t <= t
  <2> TAKE n \in 1..Len(all)
  <2>1. CASE n \in 1..L
    BY <1>5, <1>6, <2>1
  <2>2. CASE n \in (L + 1)..Len(all)
    BY <1>3, <1>6, <2>2
  <2> QED
    BY <1>8, <2>1, <2>2
<1>11. \A i, j \in 1..Len(all) : i <= j => all[i].t <= all[j].t
  <2> SUFFICES ASSUME NEW i \in 1..Len(all), NEW j \in 1..Len(all), i <= j
               PROVE  all[i].t <= all[j].t
    OBVIOUS
  <2>1. CASE j \in 1..L
    <3>1. i \in 1..L
      BY <1>8, <2>1
    <3> QED
      BY <1>6, <1>9, <2>1, <3>1
  <2>2. CASE j \in (L + 1)..Len(all)
    <3>1. all[j].t = t /\ all[i].t <= t
      BY <1>6, <1>10, <2>2
    <3> QED
      BY <3>1
  <2> QED
    BY <1>8, <2>1, <2>2
<1>12. Duration(all) = t
  <2>1. Len(all) \in (L + 1)..Len(all)
    BY <1>6, <1>8
  <2> QED
    BY <1>6, <2>1 DEF Duration, Last
<1> QED
  <2>1. start # -1 /\ now \in start..now
    BY <1>3
  <2>2. Round(next.lastAt - next.startedAt) = t
    BY <1>3, <1>7
  <2> HIDE DEF t
  <2> QED
    BY <1>7, <1>8, <1>10, <1>11, <1>12, <2>1, <2>2, Zenon DEF Clocked

-----------------------------------------------------------------------------
(* What the server makes of such a log.                                    *)
Chars == Alphabet \cup {Backspace, Nothing}

LEMMA PressedText ==
    ASSUME NEW text \in Seq(Chars), NEW key \in Keystroke
    PROVE  /\ Pressed(text, key) \in Seq(Chars)
           /\ Len(Pressed(text, key)) <= Len(text) + 1
           /\ key.typed = Backspace => Len(Pressed(text, key)) <= Len(text)
<1>1. key.typed \in Chars
  BY DEF Keystroke, Chars
<1>2. CASE key.typed # Backspace
  BY <1>1, <1>2 DEF Pressed
<1>3. CASE key.typed = Backspace /\ text = <<>>
  BY <1>3 DEF Pressed
<1>4. CASE key.typed = Backspace /\ text # <<>>
  <2>1. Pressed(text, key) = SubSeq(text, 1, Len(text) - 1)
    BY <1>4 DEF Pressed, Front
  <2> QED
    BY <1>4, <2>1
<1> QED
  BY <1>2, <1>3, <1>4

(* A text cannot be longer than the characters it was typed with.          *)
LEMMA CountedEnough ==
    ASSUME NEW log \in Seq(Keystroke)
    PROVE  /\ Len(Replay(log)) \in Nat /\ Counted(log) \in Nat
           /\ Len(Replay(log)) <= Counted(log)
<1> DEFINE L    == Len(log)
           C(n) == {i \in 1..n : log[i].typed # Backspace}
<1>1. PICK f : Replayed(log, f)
  BY ReplayExists
<1>2. \A n \in 0..L : f[n] = IF n = 0 THEN <<>> ELSE Pressed(f[n - 1], log[n])
  BY <1>1, Zenon DEF Replayed
<1>3. \A n \in Nat : IsFiniteSet(C(n)) /\ Cardinality(C(n)) \in Nat
  <2> TAKE n \in Nat
  <2>1. IsFiniteSet(1..n) /\ C(n) \subseteq 1..n
    BY FS_Interval
  <2> HIDE DEF C
  <2> QED
    BY <2>1, FS_Subset, FS_CardinalityType
<1> DEFINE Bounded(n) == f[n] \in Seq(Chars) /\ Len(f[n]) <= Cardinality(C(n))
           Bad == {n \in 0..L : ~ Bounded(n)}
<1>4. L \in Nat /\ \A n \in 1..L : log[n] \in Keystroke
  OBVIOUS
<1> HIDE DEF L
<1>5. ASSUME NEW n \in 1..L, Bounded(n - 1) PROVE Bounded(n)
  <2>1. f[n] = Pressed(f[n - 1], log[n]) /\ n \in Nat /\ n - 1 \in Nat /\ f[n - 1] \in Seq(Chars)
    BY <1>2, <1>4, <1>5
  <2> DEFINE a == Cardinality(C(n - 1))
             b == Cardinality(C(n))
  <2>2. a \in Nat /\ b \in Nat /\ IsFiniteSet(C(n - 1))
    BY <1>3, <2>1
  <2>3. CASE log[n].typed = Backspace
    <3>1. C(n) = C(n - 1)
      BY <2>1, <2>3
    <3>2. Len(f[n - 1]) <= a
      BY <1>5
    <3> HIDE DEF C
    <3>3. f[n] \in Seq(Chars) /\ Len(f[n]) <= Len(f[n - 1])
      BY <1>4, <2>1, <2>3, PressedText
    <3> HIDE DEF a, b
    <3>4. Len(f[n]) <= b
      <4>1. b = a
        BY <3>1 DEF a, b
      <4> QED
        BY <2>1, <2>2, <3>2, <3>3, <4>1
    <3> QED
      BY <3>3, <3>4 DEF b
  <2>4. CASE log[n].typed # Backspace
    <3>1. C(n) = C(n - 1) \cup {n} /\ n \notin C(n - 1)
      BY <2>1, <2>4
    <3>2. Len(f[n - 1]) <= a
      BY <1>5
    <3> HIDE DEF C
    <3>3. b = a + 1
      BY <2>2, <3>1, FS_AddElement
    <3>4. f[n] \in Seq(Chars) /\ Len(f[n]) <= Len(f[n - 1]) + 1
      BY <1>4, <2>1, PressedText
    <3> HIDE DEF a, b
    <3>5. Len(f[n]) <= b
      BY <2>1, <2>2, <3>2, <3>3, <3>4
    <3> QED
      BY <3>4, <3>5 DEF b
  <2> QED
    BY <2>3, <2>4
<1>6. Bounded(0)
  <2>1. f[0] = <<>>
    BY <1>2, <1>4
  <2>2. Cardinality(C(0)) \in Nat
    BY <1>3
  <2> HIDE DEF C
  <2> QED
    BY <2>1, <2>2
<1> HIDE DEF Bounded
<1>7. Bad = {}
  <2> SUFFICES ASSUME Bad # {} PROVE FALSE
    OBVIOUS
  <2>1. Bad \in SUBSET Nat
    OBVIOUS
  <2>2. PICK n \in Bad : \A m \in Bad : n <= m
    BY <2>1, LeastOfNaturals
  <2>3. n \in 1..L /\ n - 1 \in 0..L /\ n - 1 \notin Bad
    BY <1>4, <1>6, <2>2
  <2>4. Bounded(n - 1)
    BY <2>3
  <2> QED
    BY <1>5, <2>2, <2>3, <2>4
<1>8. Bounded(L)
  BY <1>4, <1>7
<1>9. Replay(log) = f[L] /\ Typed(log) = C(L)
  BY <1>1, <1>4, ReplayEnds DEF Typed, L
<1> HIDE DEF C
<1>10. Counted(log) = Cardinality(C(L)) /\ Cardinality(C(L)) \in Nat
  BY <1>3, <1>4, <1>9 DEF Counted
<1> QED
  BY <1>8, <1>9, <1>10 DEF Bounded

TimingVerdicts == {"valid", "median_gap_too_low", "machine_run"}
ClockRefusals  == {"in_future", "too_old", "no_duration"}
OtherTexts     == {"too_few_keystrokes", "text_mismatch"}

LEMMA HonestScore ==
    ASSUME NEW log \in Seq(Keystroke), WellFormed(log),
           \A i, j \in DOMAIN log : i <= j => log[i].t <= log[j].t, NEW target, NEW age
    PROVE  LET outcome == Score(log, target, age)
           IN  /\ outcome \in TimingVerdicts \cup ClockRefusals \cup OtherTexts
               /\ target = Replay(log) => outcome \notin OtherTexts
               /\ outcome \notin ClockRefusals => log # <<>> /\ Duration(log) > 0
<1>1. target = Replay(log) => ~ (Counted(log) < Len(target))
  BY CountedEnough
<1>2. \A i \in DOMAIN Gaps(log) : ~ (Gaps(log)[i] < 0)
  <2> TAKE i \in DOMAIN Gaps(log)
  <2>1. i \in 1..(Len(log) - 1) /\ i \in 1..Len(log) /\ i + 1 \in 1..Len(log) /\ i <= i + 1
        /\ DOMAIN log = 1..Len(log)
    BY DEF Gaps
  <2>2. Gaps(log)[i] = log[i + 1].t - log[i].t
    BY <2>1 DEF Gaps
  <2>3. log[i].t <= log[i + 1].t /\ log[i].t \in Int /\ log[i + 1].t \in Int
    BY <2>1, KeysHaveTimes
  <2> QED
    BY <2>2, <2>3
<1>3. log # <<>> => Duration(log) \in Int
  <2> HAVE log # <<>>
  <2>1. Len(log) \in 1..Len(log)
    OBVIOUS
  <2> QED
    BY <2>1, KeysHaveTimes DEF Duration, Last
<1>4. /\ Verdict(log, target) \in TimingVerdicts \cup OtherTexts \cup {"empty_log"}
      /\ log # <<>> => Verdict(log, target) # "empty_log"
      /\ target = Replay(log) => Verdict(log, target) \notin OtherTexts
  <2>1. \/ log = <<>> /\ Verdict(log, target) = "empty_log"
        \/ log # <<>> /\ Verdict(log, target) \in TimingVerdicts
        \/ /\ log # <<>> /\ Verdict(log, target) \in OtherTexts
           /\ Counted(log) < Len(target) \/ Replay(log) # target
    BY <1>2, Zenon DEF Verdict, TimingVerdicts, OtherTexts
  <2> QED
    BY <1>1, <2>1 DEF TimingVerdicts, OtherTexts
<1> DEFINE outcome == Score(log, target, age)
<1>5. \/ outcome \in ClockRefusals
      \/ outcome = Verdict(log, target) /\ log # <<>> /\ ~ (Duration(log) <= 0)
  BY Zenon DEF Score, ClockRefusals
<1> HIDE DEF outcome
<1> QED
  BY <1>3, <1>4, <1>5 DEF TimingVerdicts, ClockRefusals, OtherTexts, outcome

-----------------------------------------------------------------------------
(* A function computed step by step is there for any number of steps.      *)
Stepped(f, size, S, first, step) ==
    /\ f \in [0..size -> S] /\ f[0] = first
    /\ \A n \in 1..size : f[n] = step[<<n, f[n - 1]>>]

LEMMA StepByStep ==
    ASSUME NEW size \in Nat, NEW S, NEW first \in S, NEW step \in [(1..size) \X S -> S]
    PROVE  \E f : Stepped(f, size, S, first, step)
<1> DEFINE Upto(n, f) == /\ f \in [0..n -> S] /\ f[0] = first
                         /\ \A k \in 1..n : f[k] = step[<<k, f[k - 1]>>]
           Bad == {n \in 0..size : ~ \E f : Upto(n, f)}
<1>1. Bad = {}
  <2> SUFFICES ASSUME Bad # {} PROVE FALSE
    OBVIOUS
  <2>1. Bad \in SUBSET Nat /\ \A n \in 0..size : n \notin Bad => \E f : Upto(n, f)
    OBVIOUS
  <2>2. PICK n \in Bad : \A m \in Bad : n <= m
    BY <2>1, LeastOfNaturals
  <2>3. CASE n = 0
    <3> DEFINE g == [k \in 0..0 |-> first]
    <3>1. Upto(0, g)
      OBVIOUS
    <3> QED
      BY <2>2, <2>3, <3>1
  <2>4. CASE n # 0
    <3>1. n \in Nat /\ n - 1 \in Nat /\ n \in 1..size /\ n - 1 \in 0..size /\ n - 1 \notin Bad
      <4>1. n \in 0..size
        OBVIOUS
      <4> HIDE DEF Bad
      <4> QED
        BY <2>1, <2>2, <2>4, <4>1
    <3>2. PICK f : Upto(n - 1, f)
      BY <2>1, <3>1
    <3> DEFINE g == [k \in 0..n |-> IF k = n THEN step[<<n, f[n - 1]>>] ELSE f[k]]
    <3>3. f[n - 1] \in S
      BY <3>1, <3>2
    <3>4. step[<<n, f[n - 1]>>] \in S
      BY <3>1, <3>3
    <3>5. g \in [0..n -> S] /\ g[0] = first
      BY <2>4, <3>1, <3>2, <3>4
    <3>6. \A k \in 1..n : g[k] = step[<<k, g[k - 1]>>]
      <4> TAKE k \in 1..n
      <4>1. k - 1 \in 0..n /\ k \in 0..n /\ k - 1 # n /\ g[k - 1] = f[k - 1]
        BY <3>1
      <4>2. k # n => k \in 1..(n - 1)
        BY <3>1
      <4> QED
        BY <3>2, <4>1, <4>2
    <3> HIDE DEF g
    <3>7. Upto(n, g)
      BY <3>5, <3>6
    <3> QED
      BY <2>2, <3>7
  <2> QED
    BY <2>3, <2>4
<1>2. size \in 0..size /\ (size \in 0..size /\ ~ (\E f : Upto(size, f)) => size \in Bad)
  OBVIOUS
<1>3. \E f : Upto(size, f)
  <2> HIDE DEF Upto, Bad
  <2> QED
    BY <1>1, <1>2
<1> QED
  BY <1>3 DEF Stepped

(* The runs of short gaps, as the validator's loop counts them.            *)
Running(gaps, run) ==
    run = [n \in 0..Len(gaps) |->
              IF n = 0 THEN RunAtStart
              ELSE IF gaps[n] <= MachineGap THEN run[n - 1] + 1 ELSE RunAtStart]

LEMMA RunningExists ==
    ASSUME NEW gaps, Len(gaps) \in Nat
    PROVE  \E run : Running(gaps, run)
<1> DEFINE step == [p \in (1..Len(gaps)) \X Nat |->
                       IF gaps[p[1]] <= MachineGap THEN p[2] + 1 ELSE RunAtStart]
<1>1. step \in [(1..Len(gaps)) \X Nat -> Nat] /\ RunAtStart \in Nat
  BY DEF RunAtStart
<1>2. PICK f : Stepped(f, Len(gaps), Nat, RunAtStart, step)
  <2> HIDE DEF step
  <2> QED
    BY <1>1, StepByStep
<1>3. /\ f \in [0..Len(gaps) -> Nat] /\ f[0] = RunAtStart
      /\ \A n \in 1..Len(gaps) : f[n] = step[<<n, f[n - 1]>>]
  <2> HIDE DEF step
  <2> QED
    BY <1>2 DEF Stepped
<1>4. \A n \in 0..Len(gaps) :
         f[n] = IF n = 0 THEN RunAtStart
                ELSE IF gaps[n] <= MachineGap THEN f[n - 1] + 1 ELSE RunAtStart
  <2> TAKE n \in 0..Len(gaps)
  <2>1. CASE n = 0
    BY <1>3, <2>1
  <2>2. CASE n # 0
    <3>1. n \in 1..Len(gaps) /\ f[n - 1] \in Nat
      BY <1>3, <2>2
    <3>2. f[n] = step[<<n, f[n - 1]>>]
      BY <1>3, <3>1
    <3> QED
      BY <2>2, <3>1, <3>2
  <2> QED
    BY <2>1, <2>2
<1>5. f = [n \in 0..Len(gaps) |-> f[n]]
  BY <1>3
<1> QED
  BY <1>4, <1>5, Zenon DEF Running

(* A run is what lies between a place and the last long gap before it.     *)
Since(gaps, n, run) ==
    /\ run \in 1..(n + 1)
    /\ \A j \in (n - run + 2)..n : gaps[j] <= MachineGap
    /\ run # n + 1 => ~ (gaps[n - run + 1] <= MachineGap)

LEMMA RunsAreSince ==
    ASSUME NEW gaps, Len(gaps) \in Nat, NEW run, Running(gaps, run)
    PROVE  \A n \in 0..Len(gaps) : Since(gaps, n, run[n])
<1>1. \A n \in 0..Len(gaps) :
         run[n] = IF n = 0 THEN RunAtStart
                  ELSE IF gaps[n] <= MachineGap THEN run[n - 1] + 1 ELSE RunAtStart
  BY Zenon DEF Running
<1> DEFINE Bad == {n \in 0..Len(gaps) : ~ Since(gaps, n, run[n])}
<1>2. Since(gaps, 0, run[0])
  BY <1>1 DEF Since, RunAtStart
<1>3. ASSUME NEW n \in 1..Len(gaps), Since(gaps, n - 1, run[n - 1])
      PROVE  Since(gaps, n, run[n])
  <2> DEFINE before == run[n - 1]
  <2>1. /\ before \in 1..n
        /\ \A j \in (n - 1 - before + 2)..(n - 1) : gaps[j] <= MachineGap
        /\ before # n => ~ (gaps[n - 1 - before + 1] <= MachineGap)
    BY <1>3 DEF Since
  <2>2. CASE gaps[n] <= MachineGap
    <3>1. run[n] = before + 1
      BY <1>1, <2>2
    <3> HIDE DEF before
    <3>2. \A j \in (n - run[n] + 2)..n : gaps[j] <= MachineGap
      <4> TAKE j \in (n - run[n] + 2)..n
      <4>1. j = n \/ j \in (n - 1 - before + 2)..(n - 1)
        BY <2>1, <3>1
      <4> QED
        BY <2>1, <2>2, <4>1
    <3>3. n - run[n] + 1 = n - 1 - before + 1 /\ run[n] \in 1..(n + 1)
          /\ (run[n] # n + 1 => before # n)
      BY <2>1, <3>1
    <3> QED
      BY <2>1, <3>2, <3>3 DEF Since
  <2>3. CASE ~ (gaps[n] <= MachineGap)
    <3>1. run[n] = 1
      BY <1>1, <2>3 DEF RunAtStart
    <3>2. n - 1 + 1 = n /\ n \in Nat /\ (n - 1 + 2)..n = {}
      OBVIOUS
    <3> QED
      BY <2>3, <3>1, <3>2 DEF Since
  <2> QED
    BY <2>2, <2>3
<1>4. Bad = {}
  <2> SUFFICES ASSUME Bad # {} PROVE FALSE
    OBVIOUS
  <2>1. Bad \in SUBSET Nat
    OBVIOUS
  <2>2. PICK n \in Bad : \A m \in Bad : n <= m
    BY <2>1, LeastOfNaturals
  <2>3. n \in 1..Len(gaps) /\ n - 1 \in 0..Len(gaps) /\ n - 1 \notin Bad
    BY <1>2, <2>2
  <2>4. Since(gaps, n - 1, run[n - 1])
    BY <2>3
  <2> QED
    BY <1>3, <2>2, <2>3, <2>4
<1> QED
  BY <1>4

(* The loop finds a run exactly if that many keys follow each other fast.  *)
LEMMA MachineRunIs ==
    ASSUME NEW gaps, Len(gaps) \in Nat, DOMAIN gaps = 1..Len(gaps)
    PROVE  MachineRun(gaps) <=>
              \E i \in 1..(Len(gaps) - MachineKeys + 2) :
                  \A j \in i..(i + MachineKeys - 2) : gaps[j] <= MachineGap
<1> DEFINE run == CHOOSE run : Running(gaps, run)
<1>1. Running(gaps, run)
  BY RunningExists
<1>2. MachineRun(gaps) <=> \E n \in 1..Len(gaps) : run[n] >= MachineKeys
  BY DEF MachineRun, Running
<1> HIDE DEF run
<1>3. \A n \in 0..Len(gaps) : Since(gaps, n, run[n])
  BY <1>1, RunsAreSince
<1>4. MachineKeys \in Nat /\ MachineKeys >= 2
  BY ThresholdsAssumption
<1>5. ASSUME NEW n \in 1..Len(gaps), run[n] >= MachineKeys
      PROVE  \E i \in 1..(Len(gaps) - MachineKeys + 2) :
                  \A j \in i..(i + MachineKeys - 2) : gaps[j] <= MachineGap
  <2> DEFINE i == n - MachineKeys + 2
  <2>1. run[n] \in 1..(n + 1) /\ \A j \in (n - run[n] + 2)..n : gaps[j] <= MachineGap
    BY <1>3 DEF Since
  <2>2. i \in 1..(Len(gaps) - MachineKeys + 2) /\ i + MachineKeys - 2 = n
    BY <1>4, <1>5, <2>1
  <2>3. \A j \in i..n : j \in (n - run[n] + 2)..n
    BY <1>4, <1>5, <2>1
  <2> HIDE DEF i
  <2> QED
    BY <2>1, <2>2, <2>3
<1>6. ASSUME NEW i \in 1..(Len(gaps) - MachineKeys + 2),
             \A j \in i..(i + MachineKeys - 2) : gaps[j] <= MachineGap
      PROVE  \E n \in 1..Len(gaps) : run[n] >= MachineKeys
  <2> DEFINE n == i + MachineKeys - 2
  <2>1. n \in 1..Len(gaps)
    BY <1>4
  <2>2. run[n] \in 1..(n + 1) /\ (run[n] # n + 1 => ~ (gaps[n - run[n] + 1] <= MachineGap))
    BY <1>3, <2>1 DEF Since
  <2>3. ASSUME ~ (run[n] >= MachineKeys) PROVE FALSE
    <3>1. run[n] # n + 1 /\ n - run[n] + 1 \in i..n
      BY <1>4, <2>2, <2>3
    <3> QED
      BY <1>6, <2>2, <3>1
  <2> QED
    BY <2>1, <2>3
<1> QED
  BY <1>2, <1>5, <1>6

-----------------------------------------------------------------------------
(* A log is in order of time exactly if none of its gaps is negative.      *)
LEMMA GapsOf ==
    ASSUME NEW log \in Seq(Keystroke), log # <<>>
    PROVE  /\ Len(Gaps(log)) = Len(log) - 1 /\ Len(Gaps(log)) \in Nat
           /\ DOMAIN Gaps(log) = 1..(Len(log) - 1)
           /\ \A i \in 1..(Len(log) - 1) :
                 Gaps(log)[i] = log[i + 1].t - log[i].t /\ Gaps(log)[i] \in Int
<1>1. Len(log) \in Nat \ {0}
  OBVIOUS
<1>2. \A i \in 1..(Len(log) - 1) : log[i + 1].t \in Int /\ log[i].t \in Int
  <2> TAKE i \in 1..(Len(log) - 1)
  <2>1. i \in 1..Len(log) /\ i + 1 \in 1..Len(log)
    BY <1>1
  <2> QED
    BY <2>1, KeysHaveTimes
<1>3. Gaps(log) = [i \in 1..(Len(log) - 1) |-> log[i + 1].t - log[i].t]
  BY DEF Gaps
<1> DEFINE n == Len(log) - 1
           g == Gaps(log)
<1>4. n \in Nat /\ g \in [1..n -> Int]
  BY <1>1, <1>2, <1>3
<1>5. Len(g) = n
  <2> HIDE DEF n, g
  <2>1. g \in Seq(Int) /\ DOMAIN g = 1..n
    BY <1>4
  <2> QED
    BY <1>4, <2>1
<1> QED
  BY <1>2, <1>3, <1>4, <1>5

LEMMA InOrderOfTime ==
    ASSUME NEW log \in Seq(Keystroke), log # <<>>
    PROVE  (\A i \in DOMAIN Gaps(log) : ~ (Gaps(log)[i] < 0))
              <=> \A i, j \in DOMAIN log : i < j => log[i].t <= log[j].t
<1> DEFINE L == Len(log)
<1>1. L \in Nat /\ DOMAIN log = 1..L /\ \A i \in 1..L : log[i].t \in Int
  BY KeysHaveTimes
<1>2. /\ DOMAIN Gaps(log) = 1..(L - 1)
      /\ \A i \in 1..(L - 1) : Gaps(log)[i] = log[i + 1].t - log[i].t
  BY GapsOf
<1> HIDE DEF L
<1>3. ASSUME \A i, j \in DOMAIN log : i < j => log[i].t <= log[j].t, NEW i \in DOMAIN Gaps(log)
      PROVE  ~ (Gaps(log)[i] < 0)
  <2>1. i \in 1..L /\ i + 1 \in 1..L /\ i < i + 1
    BY <1>1, <1>2
  <2>2. log[i].t <= log[i + 1].t
    BY <1>1, <1>3, <2>1
  <2> QED
    BY <1>1, <1>2, <2>1, <2>2
<1>4. ASSUME \A i \in DOMAIN Gaps(log) : ~ (Gaps(log)[i] < 0),
             NEW i \in 1..L
      PROVE  \A j \in 1..L : i < j => log[i].t <= log[j].t
  <2> DEFINE Bad == {j \in 1..L : i < j /\ ~ (log[i].t <= log[j].t)}
  <2>1. Bad = {}
    <3> SUFFICES ASSUME Bad # {} PROVE FALSE
      OBVIOUS
    <3>1. Bad \in SUBSET Nat
      OBVIOUS
    <3>2. PICK j \in Bad : \A m \in Bad : j <= m
      BY <3>1, LeastOfNaturals
    <3>3. j \in 1..L /\ i < j /\ ~ (log[i].t <= log[j].t) /\ j - 1 \in 1..L /\ j - 1 \notin Bad
          /\ j - 1 \in 1..(L - 1) /\ j - 1 + 1 = j
      BY <1>1, <3>2
    <3>4. log[j - 1].t <= log[j].t
      <4>1. Gaps(log)[j - 1] = log[j].t - log[j - 1].t /\ ~ (Gaps(log)[j - 1] < 0)
        BY <1>2, <1>4, <3>3
      <4> QED
        BY <1>1, <3>3, <4>1
    <3>5. log[i].t <= log[j - 1].t
      <4>1. i = j - 1 \/ i < j - 1
        BY <3>3
      <4> QED
        BY <1>1, <3>3, <4>1
    <3> QED
      BY <1>1, <3>3, <3>4, <3>5
  <2> QED
    BY <2>1
<1> QED
  BY <1>1, <1>3, <1>4

(* There is a k-th smallest, and it is one of the numbers.                 *)
LEMMA SmallestIsThere ==
    ASSUME NEW gaps, NEW n \in Nat, DOMAIN gaps = 1..n, NEW bound \in Nat,
           \A i \in 1..n : gaps[i] \in 0..bound, NEW k \in 1..n
    PROVE  Smallest(gaps, k) \in Nat
<1> DEFINE AtMost(v) == {i \in 1..n : gaps[i] <= v}
           Below(v)  == {i \in 1..n : gaps[i] < v}
           W == {v \in Nat : Cardinality(AtMost(v)) >= k}
<1>1. \A v \in Nat : IsFiniteSet(AtMost(v)) /\ Cardinality(AtMost(v)) \in Nat
  <2> TAKE v \in Nat
  <2>1. IsFiniteSet(1..n) /\ AtMost(v) \subseteq 1..n
    BY FS_Interval
  <2> HIDE DEF AtMost
  <2> QED
    BY <2>1, FS_Subset, FS_CardinalityType
<1>2. bound \in W
  <2>1. AtMost(bound) = 1..n
    OBVIOUS
  <2>2. Cardinality(1..n) = n
    <3>1. 1 \in Int /\ n \in Int
      OBVIOUS
    <3>2. Cardinality(1..n) = IF 1 > n THEN 0 ELSE n - 1 + 1
      BY <3>1, FS_Interval
    <3> QED
      BY <3>2
  <2> HIDE DEF AtMost
  <2> QED
    BY <2>1, <2>2
<1>3. W \in SUBSET Nat /\ W # {}
  BY <1>2
<1>4. PICK v \in W : \A m \in W : v <= m
  BY <1>3, LeastOfNaturals
<1>5. v \in Nat /\ Cardinality(AtMost(v)) >= k
  BY <1>4
<1>6. Cardinality(Below(v)) < k
  <2>1. CASE v = 0
    <3>1. Below(v) = {}
      BY <2>1
    <3> HIDE DEF Below
    <3>2. Cardinality(Below(v)) = 0 /\ k >= 1 /\ k \in Int
      BY <3>1, FS_EmptySet
    <3> QED
      BY <3>2
  <2>2. CASE v # 0
    <3>1. v - 1 \in Nat /\ v - 1 \notin W
      <4>1. v - 1 \in Nat /\ ~ (v <= v - 1)
        BY <1>5, <2>2
      <4> HIDE DEF W
      <4> QED
        BY <1>4, <4>1
    <3>2. Below(v) = AtMost(v - 1)
      BY <1>5, <3>1
    <3>3. ~ (Cardinality(AtMost(v - 1)) >= k) /\ Cardinality(AtMost(v - 1)) \in Nat
      BY <1>1, <3>1
    <3> HIDE DEF AtMost, Below
    <3> QED
      BY <3>2, <3>3
  <2> QED
    BY <2>1, <2>2
<1>7. v \in {gaps[i] : i \in DOMAIN gaps}
  <2> SUFFICES ASSUME v \notin {gaps[i] : i \in DOMAIN gaps} PROVE FALSE
    OBVIOUS
  <2>1. AtMost(v) = Below(v)
    BY <1>5
  <2>2. Cardinality(AtMost(v)) \in Nat
    BY <1>1, <1>5
  <2> HIDE DEF AtMost, Below
  <2> QED
    BY <1>5, <1>6, <2>1, <2>2
<1> DEFINE Picked(u) == /\ Cardinality({i \in DOMAIN gaps : gaps[i] < u}) < k
                        /\ Cardinality({i \in DOMAIN gaps : gaps[i] <= u}) >= k
           V == {gaps[i] : i \in DOMAIN gaps}
<1>8. V \subseteq Nat
  OBVIOUS
<1>9. \E u \in V : Picked(u)
  BY <1>5, <1>6, <1>7
<1>10. (CHOOSE u \in V : Picked(u)) \in V
  <2> HIDE DEF Picked, V
  <2> QED
    BY <1>9
<1>11. Smallest(gaps, k) = CHOOSE u \in V : Picked(u)
  BY DEF Smallest
<1> HIDE DEF Picked, V
<1> QED
  BY <1>8, <1>10, <1>11

(* Two numbers make a median, or one does.                                 *)
LEMMA MedianIsNatural ==
    ASSUME NEW gaps, Len(gaps) \in Nat \ {0}, DOMAIN gaps = 1..Len(gaps), NEW bound \in Nat,
           \A i \in 1..Len(gaps) : gaps[i] \in 0..bound
    PROVE  TwiceMedian(gaps) \in Nat
<1> DEFINE n == Len(gaps)
<1>1. n \in Nat \ {0}
  OBVIOUS
<1>2. \A k \in 1..n : Smallest(gaps, k) \in Nat
  BY <1>1, SmallestIsThere
<1> HIDE DEF n
<1>3. CASE n % 2 = 1
  <2>1. (n + 1) \div 2 \in 1..n
    BY <1>1, <1>3
  <2>2. Smallest(gaps, (n + 1) \div 2) \in Nat
    BY <1>2, <2>1
  <2> QED
    BY <1>3, <2>2 DEF TwiceMedian, n
<1>4. CASE n % 2 # 1
  <2>1. n \div 2 \in 1..n /\ n \div 2 + 1 \in 1..n
    BY <1>1, <1>4
  <2>2. Smallest(gaps, n \div 2) \in Nat /\ Smallest(gaps, n \div 2 + 1) \in Nat
    BY <1>2, <2>1
  <2> QED
    BY <1>4, <2>2 DEF TwiceMedian, n
<1> QED
  BY <1>3, <1>4

(* What it takes for a log to count.                                       *)
CountsAs(log, target) ==
    LET gaps == Gaps(log) IN
    /\ Replay(log) = target
    /\ \A i, j \in DOMAIN log : i < j => log[i].t <= log[j].t
    /\ Len(gaps) >= MinGaps => TwiceMedian(gaps) >= 2 * MinMedianGap
    /\ ~ \E i \in 1..(Len(log) - MachineKeys + 1) :
            \A j \in i..(i + MachineKeys - 2) : gaps[j] <= MachineGap

LEMMA ValidMeans ==
    ASSUME NEW log, Scored(log), NEW target
    PROVE  Verdict(log, target) = "valid" <=> CountsAs(log, target)
<1> DEFINE gaps == Gaps(log)
           slow == ~ (Len(gaps) >= MinGaps /\ TwiceMedian(gaps) < 2 * MinMedianGap)
<1>1. log \in Seq(Keystroke) /\ log # <<>> /\ WellFormed(log) /\ Len(log) \in Nat \ {0}
  BY DEF Scored
<1>2. /\ Len(gaps) = Len(log) - 1 /\ Len(gaps) \in Nat /\ DOMAIN gaps = 1..Len(gaps)
      /\ \A i \in 1..Len(gaps) : gaps[i] = log[i + 1].t - log[i].t /\ gaps[i] \in Int
  BY <1>1, GapsOf
<1>3. Replay(log) = target => ~ (Counted(log) < Len(target))
  BY <1>1, CountedEnough
<1>4. (\A i \in DOMAIN gaps : ~ (gaps[i] < 0))
         <=> \A i, j \in DOMAIN log : i < j => log[i].t <= log[j].t
  BY <1>1, InOrderOfTime
<1>5. MachineRun(gaps) <=> \E i \in 1..(Len(log) - MachineKeys + 1) :
                               \A j \in i..(i + MachineKeys - 2) : gaps[j] <= MachineGap
  <2>1. Len(gaps) - MachineKeys + 2 = Len(log) - MachineKeys + 1
    BY <1>1, <1>2, ThresholdsAssumption
  <2> HIDE DEF gaps
  <2> QED
    BY <1>2, <2>1, MachineRunIs
<1>6. ASSUME \A i \in DOMAIN gaps : ~ (gaps[i] < 0)
      PROVE  slow <=> (Len(gaps) >= MinGaps => TwiceMedian(gaps) >= 2 * MinMedianGap)
  <2>1. MinGaps \in Nat \ {0} /\ MinMedianGap \in Nat
    BY ThresholdsAssumption
  <2>2. ASSUME Len(gaps) >= MinGaps PROVE TwiceMedian(gaps) \in Nat
    <3> DEFINE bound == Duration(log)
    <3>1. /\ \A i \in 1..Len(log) : log[i].t \in Nat /\ log[i].t <= bound
          /\ bound \in Nat
      <4>1. \A i \in 1..Len(log) : log[i].t \in Int
        BY <1>1, KeysHaveTimes
      <4>2. \A i \in 1..Len(log) : log[i].t >= 0
        BY <1>1 DEF WellFormed
      <4>3. bound = log[Len(log)].t /\ Len(log) \in 1..Len(log) /\ DOMAIN log = 1..Len(log)
        BY <1>1 DEF Duration, Last
      <4>4. \A i \in 1..Len(log) : i < Len(log) => log[i].t <= log[Len(log)].t
        BY <1>4, <1>6, <4>3
      <4>5. \A i \in 1..Len(log) : log[i].t <= bound
        <5> TAKE i \in 1..Len(log)
        <5>1. CASE i = Len(log)
          <6>1. log[i].t = bound /\ log[i].t \in Int
            BY <4>1, <4>3, <5>1
          <6> QED
            BY <6>1
        <5>2. CASE i # Len(log)
          <6>1. i < Len(log)
            BY <1>1, <5>2
          <6> QED
            BY <4>3, <4>4, <6>1
        <5> QED
          BY <5>1, <5>2
      <4> QED
        BY <4>1, <4>2, <4>3, <4>5
    <3>2. \A i \in 1..Len(gaps) : gaps[i] \in 0..bound
      <4> TAKE i \in 1..Len(gaps)
      <4>1. i \in 1..Len(log) /\ i + 1 \in 1..Len(log) /\ ~ (gaps[i] < 0)
        BY <1>1, <1>2, <1>6
      <4>2. /\ gaps[i] = log[i + 1].t - log[i].t /\ log[i].t \in Nat
            /\ log[i + 1].t \in Nat /\ log[i + 1].t <= bound
        BY <1>2, <3>1, <4>1
      <4> HIDE DEF gaps, bound
      <4> QED
        BY <3>1, <4>1, <4>2
    <3>3. Len(gaps) \in Nat \ {0}
      BY <1>2, <2>1, <2>2
    <3> HIDE DEF gaps, bound
    <3> QED
      BY <1>2, <3>1, <3>2, <3>3, MedianIsNatural
  <2> HIDE DEF gaps
  <2> QED
    BY <2>1, <2>2
<1>7. Verdict(log, target) = "valid"
         <=> /\ ~ (Counted(log) < Len(target)) /\ Replay(log) = target
             /\ \A i \in DOMAIN gaps : ~ (gaps[i] < 0)
             /\ slow /\ ~ MachineRun(gaps)
  BY <1>1 DEF Verdict
<1> HIDE DEF gaps, slow
<1>8. CountsAs(log, target)
         <=> /\ Replay(log) = target
             /\ \A i, j \in DOMAIN log : i < j => log[i].t <= log[j].t
             /\ Len(gaps) >= MinGaps => TwiceMedian(gaps) >= 2 * MinMedianGap
             /\ ~ MachineRun(gaps)
  BY <1>5 DEF CountsAs, gaps
<1> QED
  BY <1>3, <1>4, <1>6, <1>7, <1>8

-----------------------------------------------------------------------------
(* The binary search of pace.ts.                                           *)
Searching(offsets, elapsed, f) ==
    f = [s \in (0..Len(offsets)) \X (0..Len(offsets)) |->
            LET lo == s[1]  hi == s[2]  mid == (lo + hi) \div 2 IN
            IF lo >= hi THEN lo
            ELSE IF offsets[mid + 1] <= elapsed THEN f[<<mid + 1, hi>>]
            ELSE f[<<lo, mid>>]]

LEMMA SearchStarts ==
    ASSUME NEW offsets, NEW elapsed, ~ (elapsed < 0), NEW g, Searching(offsets, elapsed, g)
    PROVE  \E f : /\ Searching(offsets, elapsed, f)
                  /\ GhostChars(offsets, elapsed) = f[<<0, Len(offsets)>>]
<1> DEFINE f == CHOOSE f : Searching(offsets, elapsed, f)
<1>1. Searching(offsets, elapsed, f)
  OBVIOUS
<1>2. GhostChars(offsets, elapsed) = f[<<0, Len(offsets)>>]
  BY DEF GhostChars, Searching
<1> QED
  BY <1>1, <1>2

LEMMA SearchSteps ==
    ASSUME NEW offsets, Len(offsets) \in Nat, NEW elapsed, NEW f, Searching(offsets, elapsed, f),
           NEW lo \in 0..Len(offsets), NEW hi \in 0..Len(offsets)
    PROVE  LET mid == (lo + hi) \div 2 IN
           f[<<lo, hi>>] = IF lo >= hi THEN lo
                           ELSE IF offsets[mid + 1] <= elapsed THEN f[<<mid + 1, hi>>]
                           ELSE f[<<lo, mid>>]
<1> DEFINE e(s) == LET l == s[1]  h == s[2]  mid == (l + h) \div 2 IN
                   IF l >= h THEN l
                   ELSE IF offsets[mid + 1] <= elapsed THEN f[<<mid + 1, h>>]
                   ELSE f[<<l, mid>>]
           D == (0..Len(offsets)) \X (0..Len(offsets))
<1>1. f = [s \in D |-> e(s)]
  BY DEF Searching
<1>2. <<lo, hi>> \in D
  OBVIOUS
<1>3. f[<<lo, hi>>] = e(<<lo, hi>>)
  <2> HIDE DEF e, D
  <2> QED
    BY <1>1, <1>2
<1>4. <<lo, hi>>[1] = lo /\ <<lo, hi>>[2] = hi
  OBVIOUS
<1> QED
  BY <1>3, <1>4

(* Where the search ends: everything up to there is due, nothing after.    *)
Split(offsets, elapsed, c) ==
    /\ c \in 0..Len(offsets)
    /\ \A i \in 1..Len(offsets) : offsets[i] <= elapsed <=> i <= c

LEMMA SearchExists ==
    ASSUME NEW offsets, Len(offsets) \in Nat, NEW elapsed, NEW c, Split(offsets, elapsed, c)
    PROVE  \E f : Searching(offsets, elapsed, f)
<1> DEFINE D == (0..Len(offsets)) \X (0..Len(offsets))
           at(lo, hi) == IF c <= lo \/ lo >= hi THEN lo ELSE IF c >= hi THEN hi ELSE c
           f == [s \in D |-> at(s[1], s[2])]
           e(s) == LET lo == s[1]  hi == s[2]  mid == (lo + hi) \div 2 IN
                   IF lo >= hi THEN lo
                   ELSE IF offsets[mid + 1] <= elapsed THEN f[<<mid + 1, hi>>]
                   ELSE f[<<lo, mid>>]
<1>1. \A lo, hi \in 0..Len(offsets) : f[<<lo, hi>>] = at(lo, hi)
  <2> TAKE lo \in 0..Len(offsets), hi \in 0..Len(offsets)
  <2>1. <<lo, hi>> \in D /\ <<lo, hi>>[1] = lo /\ <<lo, hi>>[2] = hi
    OBVIOUS
  <2> HIDE DEF at, D
  <2> QED
    BY <2>1
<1> HIDE DEF f
<1>2. ASSUME NEW lo \in 0..Len(offsets), NEW hi \in 0..Len(offsets)
      PROVE  at(lo, hi) = e(<<lo, hi>>)
  <2> DEFINE mid == (lo + hi) \div 2
  <2>1. CASE lo >= hi
    BY <2>1
  <2>2. CASE lo < hi
    <3>1. mid \in lo..(hi - 1) /\ mid \in 0..Len(offsets) /\ mid + 1 \in 1..Len(offsets)
          /\ mid + 1 \in 0..Len(offsets)
      BY <2>2
    <3>2. c \in 0..Len(offsets) /\ (offsets[mid + 1] <= elapsed <=> mid + 1 <= c)
      BY <3>1 DEF Split
    <3>3. e(<<lo, hi>>) = IF mid + 1 <= c THEN at(mid + 1, hi) ELSE at(lo, mid)
      <4>1. e(<<lo, hi>>) = IF offsets[mid + 1] <= elapsed THEN f[<<mid + 1, hi>>]
                            ELSE f[<<lo, mid>>]
        BY <2>2
      <4>2. f[<<mid + 1, hi>>] = at(mid + 1, hi) /\ f[<<lo, mid>>] = at(lo, mid)
        <5> HIDE DEF at, mid
        <5> QED
          BY <1>1, <3>1
      <4> HIDE DEF at, mid, e
      <4> QED
        BY <3>2, <4>1, <4>2
    <3> HIDE DEF mid, e
    <3>4. at(lo, hi) = IF mid + 1 <= c THEN at(mid + 1, hi) ELSE at(lo, mid)
      BY <2>2, <3>1, <3>2
    <3> QED
      BY <3>3, <3>4
  <2> QED
    BY <2>1, <2>2
<1>3. \A s \in D : at(s[1], s[2]) = e(s)
  <2> TAKE s \in D
  <2>1. PICK lo \in 0..Len(offsets), hi \in 0..Len(offsets) : s = <<lo, hi>>
    OBVIOUS
  <2>2. s[1] = lo /\ s[2] = hi
    BY <2>1
  <2> HIDE DEF at, e
  <2> QED
    BY <1>2, <2>1, <2>2
<1>4. f = [s \in D |-> e(s)]
  <2>1. f = [s \in D |-> at(s[1], s[2])]
    BY DEF f
  <2> HIDE DEF at, e, D
  <2> QED
    BY <1>3, <2>1
<1>5. Searching(offsets, elapsed, f)
  <2> HIDE DEF f
  <2> QED
    BY <1>4 DEF Searching
<1> QED
  BY <1>5

(* A search that starts around the place finds it: the narrowest one that  *)
(* does not would go on in a narrower one.                                 *)
LEMMA SearchFinds ==
    ASSUME NEW offsets, Len(offsets) \in Nat, NEW elapsed, NEW c, Split(offsets, elapsed, c),
           ~ (elapsed < 0)
    PROVE  GhostChars(offsets, elapsed) = c
<1> DEFINE n == Len(offsets)
<1>1. PICK f : Searching(offsets, elapsed, f) /\ GhostChars(offsets, elapsed) = f[<<0, n>>]
  <2>1. \E g : Searching(offsets, elapsed, g)
    BY SearchExists
  <2> QED
    BY <2>1, SearchStarts
<1> DEFINE Around(lo, hi) == lo \in 0..c /\ hi \in c..n
           Bad == {d \in Nat : \E lo, hi \in 0..n :
                                  Around(lo, hi) /\ hi - lo = d /\ f[<<lo, hi>>] # c}
<1>2. c \in 0..n /\ n \in Nat /\ \A i \in 1..n : offsets[i] <= elapsed <=> i <= c
  BY DEF Split
<1>3. \A lo, hi \in 0..n :
         LET mid == (lo + hi) \div 2 IN
         f[<<lo, hi>>] = IF lo >= hi THEN lo
                         ELSE IF offsets[mid + 1] <= elapsed THEN f[<<mid + 1, hi>>]
                         ELSE f[<<lo, mid>>]
  <2> TAKE lo \in 0..n, hi \in 0..n
  <2>1. Searching(offsets, elapsed, f) /\ lo \in 0..Len(offsets) /\ hi \in 0..Len(offsets)
    BY <1>1
  <2> QED
    BY <2>1, SearchSteps
<1> HIDE DEF n
<1>4. Bad = {}
  <2> SUFFICES ASSUME Bad # {} PROVE FALSE
    OBVIOUS
  <2>1. Bad \in SUBSET Nat
    OBVIOUS
  <2>2. PICK d \in Bad : \A m \in Bad : d <= m
    <3> HIDE DEF Bad
    <3> QED
      BY <2>1, LeastOfNaturals
  <2>3. PICK lo \in 0..n, hi \in 0..n : Around(lo, hi) /\ hi - lo = d /\ f[<<lo, hi>>] # c
    BY <2>2
  <2> DEFINE mid == (lo + hi) \div 2
  <2>4. d \in Nat /\ lo <= hi
    BY <1>2, <2>3
  <2>5. CASE lo = hi
    <3>1. lo = c
      BY <1>2, <2>3, <2>5
    <3>2. lo >= hi
      BY <2>5
    <3>3. f[<<lo, hi>>] = lo
      BY <1>3, <3>2
    <3> QED
      BY <2>3, <3>1, <3>3
  <2>6. CASE lo # hi
    <3>1. mid \in lo..(hi - 1) /\ mid \in 0..n /\ mid + 1 \in 1..n /\ mid + 1 \in 0..n
          /\ ~ (lo >= hi)
      BY <1>2, <2>4, <2>6
    <3>2. f[<<lo, hi>>] = IF offsets[mid + 1] <= elapsed THEN f[<<mid + 1, hi>>]
                          ELSE f[<<lo, mid>>]
      BY <1>3, <3>1
    <3>3. offsets[mid + 1] <= elapsed <=> mid + 1 <= c
      BY <1>2, <3>1
    <3> HIDE DEF mid
    <3>4. CASE mid + 1 <= c
      <4>1. Around(mid + 1, hi) /\ hi - (mid + 1) \in Nat /\ hi - (mid + 1) < d
        BY <1>2, <2>3, <2>4, <3>1, <3>4
      <4>2. hi - (mid + 1) \notin Bad
        <5> HIDE DEF Bad
        <5> QED
          BY <2>2, <2>4, <4>1
      <4>3. f[<<mid + 1, hi>>] = c
        BY <3>1, <4>1, <4>2
      <4> QED
        BY <2>3, <3>2, <3>3, <3>4, <4>3
    <3>5. CASE ~ (mid + 1 <= c)
      <4>1. Around(lo, mid) /\ mid - lo \in Nat /\ mid - lo < d
        BY <1>2, <2>3, <2>4, <3>1, <3>5
      <4>2. mid - lo \notin Bad
        <5> HIDE DEF Bad
        <5> QED
          BY <2>2, <2>4, <4>1
      <4>3. f[<<lo, mid>>] = c
        BY <3>1, <4>1, <4>2
      <4> QED
        BY <2>3, <3>2, <3>3, <3>5, <4>3
    <3> QED
      BY <3>4, <3>5
  <2> QED
    BY <2>5, <2>6
<1>5. Around(0, n) /\ n - 0 \in Nat /\ 0 \in 0..n /\ n \in 0..n
  BY <1>2
<1>6. f[<<0, n>>] = c
  BY <1>4, <1>5
<1> QED
  BY <1>1, <1>6 DEF n

-----------------------------------------------------------------------------
(* Ascending times up to an instant, one per character.                    *)
Ascending(times, len, top) ==
    /\ times \in Seq(Int) /\ Len(times) = len
    /\ \A i \in 1..len : 0 <= times[i] /\ times[i] <= top
    /\ \A i, j \in 1..len : i <= j => times[i] <= times[j]

LEMMA SplitExists ==
    ASSUME NEW times, NEW len \in Nat, NEW top, Ascending(times, len, top), NEW elapsed \in Int
    PROVE  \E c : /\ Split(times, elapsed, c)
                  /\ Cardinality({i \in DOMAIN times : times[i] <= elapsed}) = c
<1> DEFINE B == {i \in 0..len : i = 0 \/ times[i] <= elapsed}
<1>1. /\ DOMAIN times = 1..len /\ Len(times) = len
      /\ \A i \in 1..len : times[i] \in Int
      /\ \A i, j \in 1..len : i <= j => times[i] <= times[j]
  BY DEF Ascending
<1>2. B \in SUBSET Nat /\ B # {} /\ \A i \in B : i <= len
  <2>1. 0 \in B
    OBVIOUS
  <2> QED
    BY <2>1
<1>3. PICK c \in B : \A m \in B : c >= m
  BY <1>2, GreatestOfBounded
<1>4. c \in 0..len
  BY <1>3
<1>5. \A i \in 1..len : times[i] <= elapsed <=> i <= c
  <2> TAKE i \in 1..len
  <2>1. ASSUME times[i] <= elapsed PROVE i <= c
    BY <1>3, <2>1
  <2>2. ASSUME i <= c PROVE times[i] <= elapsed
    <3>1. c \in 1..len /\ times[c] <= elapsed
      BY <1>3, <1>4, <2>2
    <3>2. times[i] <= times[c]
      BY <1>1, <2>2, <3>1
    <3> QED
      BY <1>1, <3>1, <3>2
  <2> QED
    BY <2>1, <2>2
<1>6. {i \in DOMAIN times : times[i] <= elapsed} = 1..c
  BY <1>1, <1>4, <1>5
<1>7. Cardinality(1..c) = c
  <2>1. 1 \in Int /\ c \in Int
    BY <1>4
  <2>2. Cardinality(1..c) = IF 1 > c THEN 0 ELSE c - 1 + 1
    BY <2>1, FS_Interval
  <2> QED
    BY <1>4, <2>2
<1>8. Split(times, elapsed, c)
  BY <1>1, <1>4, <1>5 DEF Split
<1> QED
  BY <1>6, <1>7, <1>8

(* The ghost of an ascending run is where the run was.                     *)
LEMMA GhostIsWhere ==
    ASSUME NEW times, NEW len \in Nat, NEW top, Ascending(times, len, top), NEW elapsed \in Int
    PROVE  GhostChars(times, elapsed) = Cardinality({i \in DOMAIN times : times[i] <= elapsed})
<1>1. PICK c : /\ Split(times, elapsed, c)
               /\ Cardinality({i \in DOMAIN times : times[i] <= elapsed}) = c
  BY SplitExists
<1>2. Len(times) \in Nat /\ Len(times) = len /\ \A i \in 1..len : 0 <= times[i] /\ times[i] \in Int
  BY DEF Ascending
<1>3. CASE elapsed < 0
  <2>1. GhostChars(times, elapsed) = 0
    BY <1>3 DEF GhostChars
  <2>2. c = 0
    <3>1. c \in 0..len /\ (c # 0 => c \in 1..len /\ times[c] <= elapsed)
      BY <1>1, <1>2 DEF Split
    <3> QED
      BY <1>2, <1>3, <3>1
  <2> QED
    BY <1>1, <2>1, <2>2
<1>4. CASE ~ (elapsed < 0)
  BY <1>1, <1>2, <1>4, SearchFinds
<1> QED
  BY <1>3, <1>4

-----------------------------------------------------------------------------
(* The times a run leaves.                                                 *)
Timing(log, times) ==
    times = [n \in 0..Len(log) |->
                IF n = 0 THEN <<>> ELSE Timed(times[n - 1], log[n], log[1].t)]

LEMMA TimedTypes ==
    ASSUME NEW times \in Seq(Int), NEW key, NEW first \in Int, key.t \in Int
    PROVE  Timed(times, key, first) \in Seq(Int)
<1>1. CASE key.typed # Backspace
  <2>1. key.t - first \in Int
    OBVIOUS
  <2> QED
    BY <1>1, <2>1 DEF Timed
<1>2. CASE key.typed = Backspace /\ times = <<>>
  BY <1>2 DEF Timed
<1>3. CASE key.typed = Backspace /\ times # <<>>
  <2>1. Timed(times, key, first) = SubSeq(times, 1, Len(times) - 1)
    BY <1>3 DEF Timed, Front
  <2> QED
    BY <2>1
<1> QED
  BY <1>1, <1>2, <1>3

LEMMA TimingExists ==
    ASSUME NEW log \in Seq(Keystroke)
    PROVE  \E times : Timing(log, times)
<1> DEFINE S    == Seq(Int)
           step == [p \in (1..Len(log)) \X S |-> Timed(p[2], log[p[1]], log[1].t)]
<1>1. Len(log) \in Nat /\ <<>> \in S
  OBVIOUS
<1>2. step \in [(1..Len(log)) \X S -> S]
  <2> SUFFICES ASSUME NEW p \in (1..Len(log)) \X S PROVE Timed(p[2], log[p[1]], log[1].t) \in S
    OBVIOUS
  <2>1. p[2] \in Seq(Int) /\ p[1] \in 1..Len(log) /\ 1 \in 1..Len(log)
    OBVIOUS
  <2>2. log[p[1]].t \in Int /\ log[1].t \in Int
    BY <2>1, KeysHaveTimes
  <2> QED
    BY <2>1, <2>2, TimedTypes
<1>3. PICK f : Stepped(f, Len(log), S, <<>>, step)
  <2> HIDE DEF step, S
  <2> QED
    BY <1>1, <1>2, StepByStep
<1>4. /\ f \in [0..Len(log) -> S] /\ f[0] = <<>>
      /\ \A n \in 1..Len(log) : f[n] = step[<<n, f[n - 1]>>]
  <2> HIDE DEF step, S
  <2> QED
    BY <1>3 DEF Stepped
<1>5. \A n \in 0..Len(log) : f[n] = IF n = 0 THEN <<>> ELSE Timed(f[n - 1], log[n], log[1].t)
  <2> TAKE n \in 0..Len(log)
  <2>1. CASE n = 0
    BY <1>4, <2>1
  <2>2. CASE n # 0
    <3>1. n \in 1..Len(log) /\ f[n - 1] \in S
      BY <1>4, <2>2
    <3>2. f[n] = step[<<n, f[n - 1]>>]
      BY <1>4, <3>1
    <3> HIDE DEF S
    <3> QED
      BY <2>2, <3>1, <3>2
  <2> QED
    BY <2>1, <2>2
<1>6. f = [n \in 0..Len(log) |-> f[n]]
  BY <1>4
<1> QED
  BY <1>5, <1>6, Zenon DEF Timing

LEMMA TimingEnds ==
    ASSUME NEW log \in Seq(Keystroke)
    PROVE  \E times : Timing(log, times) /\ ProgressOffsets(log) = times[Len(log)]
<1> DEFINE f == CHOOSE f : Timing(log, f)
<1>1. Timing(log, f)
  BY TimingExists
<1>2. ProgressOffsets(log) = f[Len(log)]
  BY DEF ProgressOffsets, Timing
<1> QED
  BY <1>1, <1>2

(* A key does to the times what it does to the text.                       *)
LEMMA TimedWithText ==
    ASSUME NEW text \in Seq(Chars), NEW times, NEW top \in Int, Ascending(times, Len(text), top),
           NEW key \in Keystroke, NEW first \in Int, top <= key.t - first, 0 <= top
    PROVE  Ascending(Timed(times, key, first), Len(Pressed(text, key)), key.t - first)
<1> DEFINE n    == Len(text)
           at   == key.t - first
           next == Timed(times, key, first)
<1>1. /\ n \in Nat /\ times \in Seq(Int) /\ Len(times) = n /\ at \in Int /\ 0 <= at
      /\ key.typed \in Chars
      /\ \A i \in 1..n : 0 <= times[i] /\ times[i] <= top /\ times[i] \in Int
      /\ \A i, j \in 1..n : i <= j => times[i] <= times[j]
  BY DEF Ascending, Keystroke, Chars
<1>2. CASE key.typed # Backspace
  <2>1. next = Append(times, at) /\ Pressed(text, key) = Append(text, key.typed)
    BY <1>2 DEF Timed, Pressed
  <2> HIDE DEF at, n
  <2>2. /\ next \in Seq(Int) /\ Len(next) = n + 1 /\ Len(Pressed(text, key)) = n + 1
        /\ next[n + 1] = at /\ \A i \in 1..n : next[i] = times[i]
    <3> HIDE DEF next
    <3> QED
      BY <1>1, <2>1 DEF n
  <2> HIDE DEF next
  <2>3. \A i \in 1..(n + 1) : 0 <= next[i] /\ next[i] <= at
    <3> TAKE i \in 1..(n + 1)
    <3>1. CASE i = n + 1
      BY <1>1, <2>2, <3>1
    <3>2. CASE i # n + 1
      <4>1. i \in 1..n /\ next[i] = times[i]
        BY <1>1, <2>2, <3>2
      <4> QED
        BY <1>1, <4>1 DEF at
    <3> QED
      BY <3>1, <3>2
  <2>4. \A i, j \in 1..(n + 1) : i <= j => next[i] <= next[j]
    <3> TAKE i \in 1..(n + 1), j \in 1..(n + 1)
    <3> HAVE i <= j
    <3>1. CASE j = n + 1
      BY <2>2, <2>3, <3>1
    <3>2. CASE j # n + 1
      <4>1. i \in 1..n /\ j \in 1..n
        BY <1>1, <3>2
      <4> QED
        BY <1>1, <2>2, <4>1
    <3> QED
      BY <3>1, <3>2
  <2> QED
    BY <2>2, <2>3, <2>4 DEF Ascending, at, next
<1>3. CASE key.typed = Backspace /\ text = <<>>
  <2>1. n = 0 /\ times = <<>>
    BY <1>1, <1>3
  <2>2. next = <<>> /\ Pressed(text, key) = <<>>
    BY <1>3, <2>1 DEF Timed, Pressed
  <2> QED
    BY <2>2 DEF Ascending
<1>4. CASE key.typed = Backspace /\ text # <<>>
  <2>1. n # 0 /\ times # <<>>
    BY <1>1, <1>4
  <2>2. next = SubSeq(times, 1, n - 1) /\ Pressed(text, key) = SubSeq(text, 1, n - 1)
    BY <1>1, <1>4, <2>1 DEF Timed, Pressed, Front
  <2>3. /\ next \in Seq(Int) /\ Len(next) = n - 1 /\ Len(Pressed(text, key)) = n - 1
        /\ \A i \in 1..(n - 1) : next[i] = times[i]
    <3> HIDE DEF next
    <3> QED
      BY <1>1, <2>1, <2>2
  <2> HIDE DEF next, n
  <2>4. \A i \in 1..(n - 1) : 0 <= next[i] /\ next[i] <= at
    <3> TAKE i \in 1..(n - 1)
    <3>1. i \in 1..n /\ next[i] = times[i]
      BY <1>1, <2>3
    <3> QED
      BY <1>1, <3>1 DEF at
  <2>5. \A i, j \in 1..(n - 1) : i <= j => next[i] <= next[j]
    <3> TAKE i \in 1..(n - 1), j \in 1..(n - 1)
    <3>1. i \in 1..n /\ j \in 1..n
      BY <1>1
    <3> QED
      BY <1>1, <2>3, <3>1
  <2> QED
    BY <2>3, <2>4, <2>5 DEF Ascending, at, next
<1> QED
  BY <1>2, <1>3, <1>4

(* So a log in order of time leaves one time per character.                *)
LEMMA OffsetsOfText ==
    ASSUME NEW log \in Seq(Keystroke), log # <<>>,
           \A i, j \in DOMAIN log : i < j => log[i].t <= log[j].t
    PROVE  \E top : Ascending(ProgressOffsets(log), Len(Replay(log)), top)
<1> DEFINE L     == Len(log)
           first == log[1].t
           top(n) == IF n = 0 THEN 0 ELSE log[n].t - first
<1>1. /\ L \in Nat \ {0} /\ DOMAIN log = 1..L /\ first \in Int
      /\ \A n \in 1..L : log[n] \in Keystroke /\ log[n].t \in Int
  BY KeysHaveTimes
<1>2. PICK f : Timing(log, f) /\ ProgressOffsets(log) = f[L]
  BY TimingEnds
<1>3. PICK g : Replayed(log, g)
  BY ReplayExists
<1>4. Replay(log) = g[L]
  BY <1>1, <1>3, ReplayEnds
<1>5. \A n \in 0..L : f[n] = IF n = 0 THEN <<>> ELSE Timed(f[n - 1], log[n], first)
  BY <1>2, Zenon DEF Timing
<1>6. \A n \in 0..L : g[n] = IF n = 0 THEN <<>> ELSE Pressed(g[n - 1], log[n])
  BY <1>3, Zenon DEF Replayed
<1> HIDE DEF L
<1>7. \A n \in 1..L : top(n) \in Int /\ top(n - 1) \in Int /\ 0 <= top(n - 1) /\ top(n - 1) <= top(n)
  <2> TAKE n \in 1..L
  <2>1. n # 0 /\ 1 \in 1..L /\ (n = 1 \/ (n - 1 \in 1..L /\ n - 1 # 0))
    BY <1>1
  <2>2. first <= log[n].t
    <3>1. n = 1 \/ 1 < n
      OBVIOUS
    <3> QED
      BY <1>1, <2>1, <3>1
  <2>3. CASE n = 1
    BY <1>1, <2>2, <2>3
  <2>4. CASE n # 1
    <3>1. n - 1 \in 1..L /\ n - 1 # 0 /\ n - 1 < n /\ (n - 1 = 1 \/ 1 < n - 1)
      BY <2>1, <2>4
    <3>2. first <= log[n - 1].t /\ log[n - 1].t <= log[n].t
      BY <1>1, <2>1, <3>1
    <3>3. log[n].t \in Int /\ log[n - 1].t \in Int
      BY <1>1, <3>1
    <3> HIDE DEF first
    <3> QED
      BY <1>1, <2>1, <3>1, <3>2, <3>3
  <2> QED
    BY <2>3, <2>4
<1> HIDE DEF first
<1> DEFINE Good(n) == g[n] \in Seq(Chars) /\ Ascending(f[n], Len(g[n]), top(n))
           Bad == {n \in 0..L : ~ Good(n)}
<1>8. Good(0)
  <2>1. f[0] = <<>> /\ g[0] = <<>>
    BY <1>1, <1>5, <1>6
  <2> QED
    BY <2>1 DEF Ascending
<1>9. ASSUME NEW n \in 1..L, Good(n - 1) PROVE Good(n)
  <2>1. /\ f[n] = Timed(f[n - 1], log[n], first) /\ g[n] = Pressed(g[n - 1], log[n])
        /\ n # 0 /\ log[n] \in Keystroke
    BY <1>1, <1>5, <1>6
  <2>2. top(n - 1) \in Int /\ 0 <= top(n - 1) /\ top(n - 1) <= log[n].t - first
        /\ top(n) = log[n].t - first
    BY <1>7, <2>1
  <2>3. g[n] \in Seq(Chars)
    BY <1>9, <2>1, PressedText
  <2> HIDE DEF top
  <2>4. Ascending(f[n], Len(g[n]), top(n))
    BY <1>1, <1>9, <2>1, <2>2, TimedWithText
  <2> QED
    BY <2>3, <2>4
<1> HIDE DEF Good
<1>10. Bad = {}
  <2> SUFFICES ASSUME Bad # {} PROVE FALSE
    OBVIOUS
  <2>1. Bad \in SUBSET Nat
    BY <1>1
  <2>2. PICK n \in Bad : \A m \in Bad : n <= m
    BY <2>1, LeastOfNaturals
  <2>3. n \in 1..L /\ n - 1 \in 0..L /\ n - 1 \notin Bad
    BY <1>1, <1>8, <2>2
  <2>4. Good(n - 1)
    BY <2>3
  <2> QED
    BY <1>9, <2>2, <2>3, <2>4
<1>11. Good(L)
  BY <1>1, <1>10
<1> QED
  BY <1>2, <1>4, <1>11 DEF Good
=============================================================================
