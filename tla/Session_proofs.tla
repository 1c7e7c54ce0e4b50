--------------------------- MODULE Session_proofs ---------------------------
(***************************************************************************)
(* What the start page guarantees in every session: whatever the user      *)
(* loads, ticks, deletes and classifies, whatever other programs do to the *)
(* files, and however often the platforms are updated after a failure, the *)
(* undefined erasure of their map included.                                *)
(***************************************************************************)
EXTENDS Session, SequenceTheorems, Sums

Image == [path : Paths, picture : Pictures, checked : BOOLEAN]
Box == [platform : AllPlatforms, checked : BOOLEAN]

WidgetTypes ==
  /\ files \in [Paths -> Pictures \cup {NoPicture}]
  /\ images \in Seq(Image)
  /\ description \in Descriptions
  /\ boxes \in Seq(Box)

(* No file is loaded twice. *)
OnceInv == \A i, j \in DOMAIN images : images[i].path = images[j].path => i = j

(* A text leads to a platform of that description, whichever entries of    *)
(* the map have survived an update, and that of each box leads somewhere.  *)
Finds(map) == \A text \in DOMAIN map : map[text] \in AllPlatforms /\ description[map[text]] = text
MapInv ==
  /\ Finds(platformMap)
  /\ \A i \in DOMAIN boxes : description[boxes[i].platform] \in DOMAIN platformMap

WidgetInv == WidgetTypes /\ OnceInv /\ MapInv /\ ButtonSaysWhatItDoes

SessionTypes ==
  /\ hosts \in {<<"fpga", "local">>, <<"local">>}
  /\ busy \in BOOLEAN /\ worker \in BOOLEAN

(* From the start of the worker to the end of the slot that receives its   *)
(* signal the start page is locked and on display.                         *)
BusyInv ==
  /\ worker \/ signal # <<>> => busy /\ page = "start"
  /\ worker => signal = <<>>

(* The boxes are of hosts that are left, unless the page is to learn yet   *)
(* that one is lost.                                                       *)
HostLost == signal # <<>> /\ ~ signal[1].ok /\ signal[1].kind = "comm"
BoxesInv == ~ HostLost => \A i \in DOMAIN boxes : boxes[i].platform \in ToSet(Offered(hosts))

SessionInv == WidgetInv /\ SessionTypes /\ BusyInv /\ BoxesInv /\ RequestIsTheSelection

-----------------------------------------------------------------------------
(* The outputs in their order.                                             *)
Larger(output, v) == {i \in DOMAIN output : output[i] > v}
NotSmaller(output, v) == {i \in DOMAIN output : output[i] >= v}
HasRank(output, v, rank) ==
  Cardinality(Larger(output, v)) < rank /\ rank <= Cardinality(NotSmaller(output, v))

LEMMA RanksAreNumbers ==
  ASSUME NEW output \in Seq(Nat), NEW v
  PROVE  /\ IsFiniteSet(Larger(output, v)) /\ IsFiniteSet(NotSmaller(output, v))
         /\ Cardinality(Larger(output, v)) \in 0..Len(output)
         /\ Cardinality(NotSmaller(output, v)) \in 0..Len(output)
  <1>1. /\ DOMAIN output = 1..Len(output) /\ Len(output) \in Nat
        /\ IsFiniteSet(DOMAIN output) /\ Cardinality(DOMAIN output) = Len(output)
    <2>1. DOMAIN output = 1..Len(output) /\ Len(output) \in Nat
      BY LenProperties
    <2>2. IsFiniteSet(1..Len(output)) /\ Cardinality(1..Len(output)) = IF 1 > Len(output) THEN 0 ELSE Len(output) - 1 + 1
      BY <2>1, FS_Interval
    <2> QED BY <2>1, <2>2
  <1>2. \A T \in SUBSET DOMAIN output : IsFiniteSet(T) /\ Cardinality(T) \in 0..Len(output)
    <2> TAKE T \in SUBSET DOMAIN output
    <2>1. IsFiniteSet(T) /\ Cardinality(T) <= Cardinality(DOMAIN output)
      BY <1>1, FS_Subset
    <2> QED BY <1>1, <2>1, FS_CardinalityType
  <1> QED BY <1>2 DEF Larger, NotSmaller

(* What is larger than a smaller value includes what is not smaller than a *)
(* larger one.                                                             *)
LEMMA RanksDiffer ==
  ASSUME NEW output \in Seq(Nat), NEW v \in Nat, NEW w \in Nat, v < w
  PROVE  Cardinality(NotSmaller(output, w)) <= Cardinality(Larger(output, v))
  <1>1. \A i \in DOMAIN output : output[i] \in Nat
    BY LenProperties, ElementOfSeq
  <1>2. NotSmaller(output, w) \in SUBSET Larger(output, v)
    BY <1>1 DEF NotSmaller, Larger
  <1> QED BY <1>2, RanksAreNumbers, FS_Subset

LEMMA LargestOf ==
  ASSUME NEW output \in Seq(Nat), NEW S \in SUBSET ToSet(output), S # {}
  PROVE  \E m \in S : \A w \in S : w <= m
  <1>1. ToSet(output) \in SUBSET Nat /\ \A i \in DOMAIN output : output[i] \in Nat
    BY LenProperties, ElementOfSeq DEF ToSet
  <1> DEFINE N == {Cardinality(Larger(output, w)) : w \in S}
  <1>2. N \in SUBSET Nat /\ N # {}
    BY RanksAreNumbers
  <1>3. PICK n \in N : \A k \in N : n <= k
    BY <1>2, LeastNumber
  <1>4. PICK m \in S : n = Cardinality(Larger(output, m))
    BY <1>3
  <1>5. ASSUME NEW w \in S, ~ (w <= m) PROVE FALSE
    <2>1. m < w /\ m \in Nat /\ w \in Nat
      BY <1>1, <1>5
    <2>2. Cardinality(NotSmaller(output, w)) <= Cardinality(Larger(output, m))
      BY <2>1, RanksDiffer
    <2>3. PICK i \in DOMAIN output : output[i] = w
      BY DEF ToSet
    <2>4. i \in NotSmaller(output, w) /\ i \notin Larger(output, w)
          /\ Larger(output, w) \in SUBSET NotSmaller(output, w)
      BY <1>1, <2>1, <2>3 DEF NotSmaller, Larger
    <2>5. Cardinality(Larger(output, w)) < Cardinality(NotSmaller(output, w))
      BY <2>4, RanksAreNumbers, FS_Subset
    <2>6. n <= Cardinality(Larger(output, w))
      BY <1>3
    <2> QED BY <1>4, <2>2, <2>5, <2>6, RanksAreNumbers
  <1> QED BY <1>5

(* There is an output of every rank. *)
LEMMA RankExists ==
  ASSUME NEW output \in Seq(Nat), NEW rank \in 1..Len(output)
  PROVE  \E v \in ToSet(output) : HasRank(output, v, rank)
  <1>1. /\ DOMAIN output = 1..Len(output) /\ Len(output) \in Nat /\ rank \in Nat \ {0}
        /\ rank <= Len(output) /\ ToSet(output) \in SUBSET Nat
        /\ \A i \in DOMAIN output : output[i] \in Nat /\ output[i] \in ToSet(output)
    BY LenProperties, ElementOfSeq DEF ToSet
  <1> DEFINE C == {v \in ToSet(output) : Cardinality(Larger(output, v)) < rank}
  <1>2. C # {}
    <2>1. ToSet(output) # {}
      <3>1. rank \in DOMAIN output
        BY <1>1
      <3> QED BY <1>1, <3>1
    <2>2. PICK m \in ToSet(output) : \A w \in ToSet(output) : w <= m
      BY <2>1, LargestOf
    <2>3. Larger(output, m) = {}
      <3>1. \A i \in DOMAIN output : ~ (output[i] > m)
        BY <1>1, <2>2
      <3> QED BY <3>1 DEF Larger
    <2>4. Cardinality(Larger(output, m)) = 0
      BY <2>3, FS_EmptySet
    <2>5. m \in C
      BY <1>1, <2>4
    <2> QED BY <2>5
  <1>3. PICK v \in C : \A w \in C : v <= w
    BY <1>1, <1>2, LeastNumber
  <1>4. ASSUME Cardinality(NotSmaller(output, v)) < rank PROVE FALSE
    <2> DEFINE B == {w \in ToSet(output) : w < v}
    <2>1. B # {}
      <3> SUFFICES ASSUME B = {} PROVE FALSE
        OBVIOUS
      <3>1. NotSmaller(output, v) = DOMAIN output
        BY <1>1 DEF NotSmaller
      <3>2. Cardinality(DOMAIN output) = Len(output)
        <4>1. Cardinality(1..Len(output)) = IF 1 > Len(output) THEN 0 ELSE Len(output) - 1 + 1
          BY <1>1, FS_Interval
        <4> QED BY <1>1, <4>1
      <3> QED BY <1>1, <1>4, <3>1, <3>2
    <2>2. PICK m \in B : \A w \in B : w <= m
      BY <2>1, LargestOf
    <2>3. Larger(output, m) \in SUBSET NotSmaller(output, v)
      <3> SUFFICES ASSUME NEW i \in DOMAIN output, output[i] > m PROVE output[i] >= v
        BY DEF Larger, NotSmaller
      <3> QED BY <1>1, <2>2
    <2>4. Cardinality(Larger(output, m)) <= Cardinality(NotSmaller(output, v))
      BY <2>3, RanksAreNumbers, FS_Subset
    <2>5. m \in C
      BY <1>1, <1>4, <2>4, RanksAreNumbers
    <2> QED BY <1>1, <1>3, <2>5
  <1> QED BY <1>1, <1>3, <1>4, RanksAreNumbers DEF HasRank

(* ... and only one. *)
LEMMA RankIsUnique ==
  ASSUME NEW output \in Seq(Nat), NEW v \in Nat, NEW w \in Nat, NEW j \in Nat, NEW k \in Nat,
         HasRank(output, v, j), HasRank(output, w, k), j <= k
  PROVE  w <= v
  <1> SUFFICES ASSUME v < w PROVE FALSE
    OBVIOUS
  <1>1. Cardinality(NotSmaller(output, w)) <= Cardinality(Larger(output, v))
    BY RanksDiffer
  <1> QED BY <1>1, RanksAreNumbers DEF HasRank

LEMMA SortOutProperties ==
  ASSUME NEW output \in Seq(Nat), NEW rank \in 1..Len(output)
  PROVE  /\ SortOut(output, rank) \in ToSet(output) /\ SortOut(output, rank) \in Nat
         /\ HasRank(output, SortOut(output, rank), rank)
  <1>1. SortOut(output, rank) = CHOOSE v \in ToSet(output) : HasRank(output, v, rank)
    BY DEF SortOut, HasRank, Larger, NotSmaller
  <1>2. SortOut(output, rank) \in ToSet(output) /\ HasRank(output, SortOut(output, rank), rank)
    BY <1>1, RankExists
  <1> QED BY <1>2, LenProperties, ElementOfSeq DEF ToSet

LEMMA IndexOfProperties ==
  ASSUME NEW output \in Seq(Nat), NEW rank \in 1..Len(output)
  PROVE  /\ IndexOf(output, rank) \in 1..Len(output)
         /\ output[IndexOf(output, rank)] = SortOut(output, rank)
  <1> DEFINE I == {i \in 1..Len(output) : output[i] = SortOut(output, rank)}
  <1>1. DOMAIN output = 1..Len(output) /\ Len(output) \in Nat
    BY LenProperties
  <1>2. I # {} /\ I \in SUBSET Nat
    <2>1. PICK i \in DOMAIN output : output[i] = SortOut(output, rank)
      <3>1. SortOut(output, rank) \in ToSet(output)
        BY SortOutProperties
      <3> QED BY <3>1 DEF ToSet
    <2> QED BY <1>1, <2>1
  <1>3. IndexOf(output, rank) = Min(I)
    BY <1>2 DEF IndexOf, SelectInSeq
  <1>4. Min(I) \in I
    BY <1>2, LeastNumber DEF Min
  <1> QED BY <1>3, <1>4

(* Without ties the outputs that are top are those of the first ranks.     *)
LEMMA RankOfTop ==
  ASSUME NEW output \in Seq(Nat), ~ Ties(output), NEW i \in DOMAIN output, IsTop(output, i)
  PROVE  \E k \in 1..Len(output) : k <= TopX /\ IndexOf(output, k) = i
  <1>1. /\ DOMAIN output = 1..Len(output) /\ Len(output) \in Nat
        /\ \A j \in DOMAIN output : output[j] \in Nat
    BY LenProperties, ElementOfSeq
  <1> DEFINE u == output[i]
             k == Cardinality(Larger(output, u)) + 1
  <1>2. Cardinality(Larger(output, u)) < TopX /\ TopX \in Nat
    BY ResultsAssumption DEF ResultsAssumption, IsTop, Larger
  <1>3. k <= Cardinality(NotSmaller(output, u))
    <2>1. i \in NotSmaller(output, u) /\ i \notin Larger(output, u)
          /\ Larger(output, u) \in SUBSET NotSmaller(output, u)
      BY <1>1 DEF NotSmaller, Larger
    <2> QED BY <2>1, RanksAreNumbers, FS_Subset
  <1>4. k \in 1..Len(output) /\ k <= TopX /\ HasRank(output, u, k)
    BY <1>1, <1>2, <1>3, RanksAreNumbers DEF HasRank
  <1> HIDE DEF k, u
  <1> DEFINE v == SortOut(output, k)
  <1>5. v \in Nat /\ HasRank(output, v, k)
    BY <1>4, SortOutProperties
  <1> HIDE DEF v
  <1>6. u \in Nat /\ k \in Nat
    BY <1>1, <1>4 DEF u
  <1>7. v <= u /\ u <= v
    BY <1>4, <1>5, <1>6, RankIsUnique
  <1>8. v = u
    BY <1>5, <1>6, <1>7
  <1>9. IndexOf(output, k) \in DOMAIN output /\ output[IndexOf(output, k)] = u
    BY <1>1, <1>4, <1>8, IndexOfProperties DEF v
  <1>10. IndexOf(output, k) = i
    BY <1>9 DEF Ties, u
  <1> QED BY <1>4, <1>10

LEMMA TopOfRank ==
  ASSUME NEW output \in Seq(Nat), NEW k \in 1..Len(output), k <= TopX,
         NEW i \in DOMAIN output, output[i] = SortOut(output, k)
  PROVE  IsTop(output, i)
  <1>1. Cardinality(Larger(output, SortOut(output, k))) < k
    BY SortOutProperties DEF HasRank
  <1>2. Cardinality(Larger(output, output[i])) < TopX
    BY <1>1, RanksAreNumbers, ResultsAssumption DEF ResultsAssumption
  <1> QED BY <1>2 DEF IsTop, Larger

LEMMA EntryFields ==
  ASSUME NEW e, NEW l, NEW v, e = Entry(l, v)
  PROVE  e.label = l /\ e.prob = v
  BY DEF Entry

LEMMA ResultDomain ==
  ASSUME NEW output \in Seq(Nat)
  PROVE  /\ DOMAIN GetResult(output) = {k \in 1..Len(output) : k <= TopX}
         /\ Min({TopX, Len(output)}) \in Nat /\ Min({TopX, Len(output)}) <= TopX
         /\ Min({TopX, Len(output)}) <= Len(output)
         /\ TopX <= Len(output) => Min({TopX, Len(output)}) = TopX
         /\ \A k \in DOMAIN GetResult(output) : GetResult(output)[k] =
                  Entry(Labels[IndexOf(output, k)], SortOut(output, k))
  <1>1. Len(output) \in Nat /\ TopX \in Nat
    BY LenProperties, ResultsAssumption DEF ResultsAssumption
  <1> DEFINE n == Min({TopX, Len(output)})
  <1>2. n = IF TopX <= Len(output) THEN TopX ELSE Len(output)
    BY <1>1 DEF Min
  <1> HIDE DEF n
  <1>3. 1..n = {k \in 1..Len(output) : k <= TopX}
    BY <1>1, <1>2
  <1> QED BY <1>1, <1>2, <1>3 DEF GetResult, n

(* The labels of an image are the top ones, in their order. *)
LEMMA TopLabels ==
  ASSUME NEW output \in Seq(Nat)
  PROVE  TopLabelsOf(output, GetResult(output))
  <1> DEFINE r == GetResult(output)
  <1>1. /\ DOMAIN r = {k \in 1..Len(output) : k <= TopX}
        /\ \A k \in DOMAIN r : r[k] = Entry(Labels[IndexOf(output, k)], SortOut(output, k))
    BY ResultDomain
  <1>2. /\ DOMAIN output = 1..Len(output) /\ Len(output) \in Nat /\ TopX \in Nat
        /\ \A j \in DOMAIN output : output[j] \in Nat
    BY LenProperties, ElementOfSeq, ResultsAssumption DEF ResultsAssumption
  <1> HIDE DEF r
  <1>3. \A a, b, x, y : Entry(a, x) = Entry(b, y) => a = b /\ x = y
    <2> SUFFICES ASSUME NEW a, NEW b, NEW x, NEW y, Entry(a, x) = Entry(b, y) PROVE a = b /\ x = y
      OBVIOUS
    <2>1. Entry(a, x).label = Entry(b, y).label /\ Entry(a, x).prob = Entry(b, y).prob
      OBVIOUS
    <2> QED BY <2>1 DEF Entry
  <1>4. \A k \in DOMAIN r : r[k].prob = SortOut(output, k)
    BY <1>1 DEF Entry
  <1>5. ASSUME NEW k \in DOMAIN r, k > 1
        PROVE  r[k].prob <= r[k - 1].prob
    <2>1. k \in 1..Len(output) /\ k - 1 \in 1..Len(output) /\ k - 1 \in DOMAIN r /\ k - 1 <= k
      BY <1>1, <1>2, <1>5
    <2>2. /\ SortOut(output, k) \in Nat /\ HasRank(output, SortOut(output, k), k)
          /\ SortOut(output, k - 1) \in Nat /\ HasRank(output, SortOut(output, k - 1), k - 1)
      BY <2>1, SortOutProperties
    <2>3. SortOut(output, k) <= SortOut(output, k - 1)
      BY <1>2, <2>1, <2>2, RankIsUnique
    <2> QED BY <1>4, <2>1, <2>3
  <1>6. ASSUME NEW k \in DOMAIN r
        PROVE  \E i \in DOMAIN output : Entry(Labels[i], output[i]) = r[k]
    <2>1. IndexOf(output, k) \in DOMAIN output /\ output[IndexOf(output, k)] = SortOut(output, k)
      BY <1>1, <1>2, IndexOfProperties
    <2> QED BY <1>1, <2>1
  <1>7. ASSUME ~ Ties(output), NEW i \in DOMAIN output
        PROVE  Entry(Labels[i], output[i]) \in ToSet(r) <=> IsTop(output, i)
    <2>1. ASSUME Entry(Labels[i], output[i]) \in ToSet(r) PROVE IsTop(output, i)
      <3>1. PICK k \in DOMAIN r : Entry(Labels[i], output[i]) = r[k]
        BY <2>1 DEF ToSet
      <3>2. output[i] = SortOut(output, k)
        BY <1>1, <1>3, <3>1
      <3> QED BY <1>1, <3>2, TopOfRank
    <2>2. ASSUME IsTop(output, i) PROVE Entry(Labels[i], output[i]) \in ToSet(r)
      <3>1. PICK k \in 1..Len(output) : k <= TopX /\ IndexOf(output, k) = i
        BY <1>7, <2>2, RankOfTop
      <3>2. k \in DOMAIN r /\ r[k] = Entry(Labels[i], output[i])
        BY <1>1, <3>1, IndexOfProperties
      <3> QED BY <3>2 DEF ToSet
    <2> QED BY <2>1, <2>2
  <1> QED BY <1>5, <1>6, <1>7 DEF TopLabelsOf, r

-----------------------------------------------------------------------------
(* Numbers in their order.                                                 *)
Increasing(s) == \A a, b \in DOMAIN s : a < b => s[a] < s[b]

(* One more number, before those that are larger. *)
LEMMA Prepend ==
  ASSUME NEW S \in SUBSET Nat, IsFiniteSet(S), NEW m \in S, \A x \in S : m <= x,
         NEW s \in [1..Cardinality(S \ {m}) -> S \ {m}], Increasing(s)
  PROVE  \E t \in [1..Cardinality(S) -> S] : Increasing(t)
  <1> DEFINE n == Cardinality(S \ {m})
             t == [k \in 1..(n + 1) |-> IF k = 1 THEN m ELSE s[k - 1]]
  <1>1. n \in Nat /\ Cardinality(S) = n + 1
    <2>1. IsFiniteSet(S \ {m}) /\ Cardinality(S \ {m}) = Cardinality(S) - 1
      BY FS_RemoveElement
    <2>2. Cardinality(S) \in Nat /\ Cardinality(S \ {m}) \in Nat
      BY <2>1, FS_CardinalityType
    <2> QED BY <2>1, <2>2
  <1>2. \A k \in 1..(n + 1) : k # 1 => k - 1 \in 1..n
    BY <1>1
  <1>3. t \in [1..(n + 1) -> S]
    <2>1. \A k \in 1..(n + 1) : t[k] \in S
      BY <1>2
    <2> QED BY <2>1
  <1>4. ASSUME NEW a \in 1..(n + 1), NEW b \in 1..(n + 1), a < b PROVE t[a] < t[b]
    <2>1. b # 1 /\ t[b] = s[b - 1]
      BY <1>1, <1>4
    <2>2. b - 1 \in 1..n /\ s[b - 1] \in S \ {m}
      BY <2>1, <1>2
    <2>3. CASE a = 1
      <3>1. t[a] = m /\ m <= s[b - 1] /\ m # s[b - 1]
        BY <2>2, <2>3
      <3>2. m \in Nat /\ s[b - 1] \in Nat
        BY <2>2
      <3> QED BY <2>1, <3>1, <3>2
    <2>4. CASE a # 1
      <3>1. a - 1 \in 1..n /\ t[a] = s[a - 1] /\ a - 1 < b - 1
        BY <2>4, <1>1, <1>2, <1>4
      <3>2. DOMAIN s = 1..n
        OBVIOUS
      <3> QED BY <2>1, <2>2, <3>1, <3>2 DEF Increasing
    <2> QED BY <2>3, <2>4
  <1> HIDE DEF t
  <1>5. Increasing(t)
    BY <1>3, <1>4 DEF Increasing
  <1> QED BY <1>1, <1>3, <1>5

(* Every finite set of numbers can be put in order. *)
LEMMA AscendingProperties ==
  ASSUME NEW S \in SUBSET Nat, IsFiniteSet(S)
  PROVE  /\ Ascending(S) \in [1..Cardinality(S) -> S]
         /\ \A a, b \in 1..Cardinality(S) : Ascending(S)[a] = Ascending(S)[b] => a = b
  <1> DEFINE C == {T \in SUBSET S : ~ \E s \in [1..Cardinality(T) -> T] : Increasing(s)}
  <1>1. {} \notin C
    <2>1. Cardinality({}) = 0 /\ <<>> \in [1..0 -> {}] /\ Increasing(<<>>)
      BY FS_EmptySet DEF Increasing
    <2> QED BY <2>1
  <1>2. \A T \in C : \E x \in T : T \ {x} \in C
    <2> SUFFICES ASSUME NEW T \in C PROVE \E x \in T : T \ {x} \in C
      OBVIOUS
    <2>1. T \in SUBSET Nat /\ IsFiniteSet(T) /\ T # {}
      BY <1>1, FS_Subset
    <2>2. PICK m \in T : \A x \in T : m <= x
      BY <2>1, LeastNumber
    <2>3. T \ {m} \in SUBSET S
      OBVIOUS
    <2>4. ~ \E s \in [1..Cardinality(T \ {m}) -> T \ {m}] : Increasing(s)
      BY <2>1, <2>2, Prepend
    <2> QED BY <2>3, <2>4
  <1> HIDE DEF C
  <1>3. C = {}
    BY <1>1, <1>2, NoneFails DEF C
  <1>4. \E s \in [1..Cardinality(S) -> S] : Increasing(s)
    BY <1>3 DEF C
  <1>5. Ascending(S) \in [1..Cardinality(S) -> S] /\ Increasing(Ascending(S))
    BY <1>4 DEF Ascending, Increasing
  <1>6. ASSUME NEW a \in 1..Cardinality(S), NEW b \in 1..Cardinality(S),
               Ascending(S)[a] = Ascending(S)[b]
        PROVE  a = b
    <2>1. Ascending(S)[a] \in Nat /\ Ascending(S)[b] \in Nat
      BY <1>5
    <2>2. ~ (a < b) /\ ~ (b < a)
      BY <1>5, <1>6, <2>1 DEF Increasing
    <2>3. a \in Int /\ b \in Int
      OBVIOUS
    <2> QED BY <2>2, <2>3
  <1> QED BY <1>5, <1>6

-----------------------------------------------------------------------------
(* The platforms and their texts.                                          *)

(* The first platform of a text has that text. *)
LEMMA FirstOfText ==
  ASSUME NEW platforms \in Seq(AllPlatforms), NEW p \in ToSet(platforms), NEW text,
         description[p] = text
  PROVE  /\ FirstOf(platforms, text) \in 1..Len(platforms)
         /\ description[platforms[FirstOf(platforms, text)]] = text
  <1> DEFINE I == {k \in 1..Len(platforms) : description[platforms[k]] = text}
  <1>1. I \in SUBSET Nat /\ I # {}
    <2>1. PICK k \in DOMAIN platforms : platforms[k] = p
      BY DEF ToSet
    <2>2. k \in 1..Len(platforms)
      BY LenProperties
    <2> QED BY <2>1, <2>2
  <1>2. \E k \in I : \A m \in I : k <= m
    BY <1>1, LeastNumber
  <1>3. Min(I) \in I
    BY <1>2 DEF Min
  <1>4. FirstOf(platforms, text) = Min(I)
    BY <1>1 DEF FirstOf, SelectInSeq
  <1> QED BY <1>3, <1>4

(* What is inserted is found, whatever was in the map before. *)
LEMMA InsertProperties ==
  ASSUME NEW map, Finds(map), NEW platforms \in Seq(AllPlatforms)
  PROVE  /\ Finds(Insert(map, platforms))
         /\ \A p \in ToSet(platforms) : description[p] \in DOMAIN Insert(map, platforms)
  <1> DEFINE texts == {description[p] : p \in ToSet(platforms)}
  <1>1. DOMAIN Insert(map, platforms) = DOMAIN map \cup texts
    BY DEF Insert
  <1>2. ASSUME NEW text \in DOMAIN map \cup texts
        PROVE  /\ Insert(map, platforms)[text] \in AllPlatforms
               /\ description[Insert(map, platforms)[text]] = text
    <2>1. CASE text \in DOMAIN map
      <3>1. Insert(map, platforms)[text] = map[text]
        BY <2>1 DEF Insert
      <3> QED BY <2>1, <3>1 DEF Finds
    <2>2. CASE text \notin DOMAIN map
      <3>1. PICK p \in ToSet(platforms) : description[p] = text
        BY <2>2
      <3>2. FirstOf(platforms, text) \in 1..Len(platforms) /\ description[platforms[FirstOf(platforms, text)]] = text
        BY <3>1, FirstOfText
      <3>3. Insert(map, platforms)[text] = platforms[FirstOf(platforms, text)]
        BY <2>2 DEF Insert
      <3>4. platforms[FirstOf(platforms, text)] \in AllPlatforms
        BY <3>2, ElementOfSeq
      <3> QED BY <3>2, <3>3, <3>4
    <2> QED BY <2>1, <2>2
  <1>3. Finds(Insert(map, platforms))
    BY <1>1, <1>2 DEF Finds
  <1> QED BY <1>1, <1>3

(* The lists of one host and of two, one after the other. *)
LEMMA FlattenOne ==
  ASSUME NEW s, Len(s) = 1
  PROVE  FlattenSeq(s) = s[1]
  <1> DEFINE step(g, k) == IF k = 1 THEN s[k] ELSE g[k - 1] \o s[k]
             flatten == CHOOSE g : g = [k \in 1..1 |-> step(g, k)]
             one == [k \in 1..1 |-> s[1]]
  <1>1. FlattenSeq(s) = flatten[1]
    BY DEF FlattenSeq
  <1>2. one = [k \in 1..1 |-> step(one, k)]
    OBVIOUS
  <1> HIDE DEF one
  <1>3. flatten = [k \in 1..1 |-> step(flatten, k)]
    BY <1>2
  <1> HIDE DEF flatten
  <1> QED BY <1>1, <1>3

LEMMA FlattenTwo ==
  ASSUME NEW s, Len(s) = 2
  PROVE  FlattenSeq(s) = s[1] \o s[2]
  <1> DEFINE step(g, k) == IF k = 1 THEN s[k] ELSE g[k - 1] \o s[k]
             flatten == CHOOSE g : g = [k \in 1..2 |-> step(g, k)]
             two == [k \in 1..2 |-> IF k = 1 THEN s[1] ELSE s[1] \o s[2]]
  <1>1. FlattenSeq(s) = flatten[2]
    BY DEF FlattenSeq
  <1>2. two = [k \in 1..2 |-> step(two, k)]
    <2>1. two[1] = s[1] /\ two[2] = s[1] \o s[2]
      OBVIOUS
    <2>2. two = [k \in 1..2 |-> two[k]]
      OBVIOUS
    <2> HIDE DEF two
    <2>3. two[1] = step(two, 1) /\ two[2] = step(two, 2)
      BY <2>1
    <2>4. \A k \in 1..2 : k = 1 \/ k = 2
      OBVIOUS
    <2>5. \A k \in 1..2 : two[k] = step(two, k)
      <3> HIDE DEF step
      <3> QED BY <2>3, <2>4
    <2> QED BY <2>2, <2>5
  <1> HIDE DEF two
  <1>3. flatten = [k \in 1..2 |-> step(flatten, k)]
    BY <1>2
  <1> HIDE DEF flatten
  <1>4. flatten[1] = s[1] /\ flatten[2] = flatten[1] \o s[2]
    BY <1>3
  <1> QED BY <1>1, <1>4

LEMMA OfferedType ==
  ASSUME NEW hs \in {<<"fpga", "local">>, <<"local">>}
  PROVE  Offered(hs) \in Seq(AllPlatforms)
  <1> DEFINE lists == [k \in DOMAIN hs |-> PlatformsOf[hs[k]]]
  <1>1. \A h \in {"fpga", "local"} : PlatformsOf[h] \in Seq(AllPlatforms)
    <2> SUFFICES ASSUME NEW h \in {"fpga", "local"} PROVE PlatformsOf[h] \in Seq(AllPlatforms)
      OBVIOUS
    <2>1. PlatformsOf[h] \in Seq(ToSet(PlatformsOf[h])) /\ ToSet(PlatformsOf[h]) \subseteq AllPlatforms
      BY SessionAssumption DEF SessionAssumption, AllPlatforms
    <2> QED BY <2>1, SeqMonotonic
  <1>2. CASE hs = <<"fpga", "local">>
    <2>1. Len(lists) = 2 /\ lists[1] = PlatformsOf["fpga"] /\ lists[2] = PlatformsOf["local"]
      BY <1>2
    <2>2. Offered(hs) = PlatformsOf["fpga"] \o PlatformsOf["local"]
      BY <2>1, FlattenTwo DEF Offered
    <2> QED BY <1>1, <2>2, ConcatProperties
  <1>3. CASE hs = <<"local">>
    <2>1. Len(lists) = 1 /\ lists[1] = PlatformsOf["local"]
      BY <1>3
    <2> QED BY <1>1, <2>1, FlattenOne DEF Offered
  <1> QED BY <1>2, <1>3

-----------------------------------------------------------------------------
(* The images of the page.                                                 *)

LEMMA ImageFacts ==
  ASSUME WidgetTypes
  PROVE  /\ Len(images) \in Nat /\ DOMAIN images = 1..Len(images)
         /\ \A i \in 1..Len(images) : images[i] \in Image
  BY LenProperties, ElementOfSeq DEF WidgetTypes

(* What is loaded comes behind the images that are there, and is none of   *)
(* them.                                                                   *)
LEMMA LoadStep ==
  ASSUME WidgetTypes, OnceInv, NEW chosen \in SUBSET Paths, ProcessInputImageButton(chosen)
  PROVE  images' \in Seq(Image) /\ OnceInv'
  <1> DEFINE loaded == {p \in RemoveDuplicateSelectedImages(chosen) : files[p] # NoPicture}
             sorted == Ascending(loaded)
             n == Cardinality(loaded)
             more == [k \in DOMAIN sorted |->
                        [path |-> sorted[k], picture |-> files[sorted[k]], checked |-> FALSE]]
  <1>1. /\ loaded \subseteq Paths
        /\ \A p \in loaded : files[p] \in Pictures
        /\ \A p \in loaded : \A i \in DOMAIN images : images[i].path # p
    BY DEF RemoveDuplicateSelectedImages, WidgetTypes
  <1>2. loaded \in SUBSET Nat /\ IsFiniteSet(loaded) /\ n \in Nat
    BY <1>1, StartWidgetAssumption, FS_Subset, FS_CardinalityType DEF StartWidgetAssumption
  <1>3. images' = images \o more
    BY DEF ProcessInputImageButton
  <1> HIDE DEF loaded
  <1>4. /\ sorted \in [1..n -> loaded]
        /\ \A a, b \in 1..n : sorted[a] = sorted[b] => a = b
    BY <1>2, AscendingProperties
  <1> HIDE DEF sorted
  <1>5. /\ DOMAIN more = 1..n
        /\ \A k \in 1..n : more[k] \in Image /\ more[k].path = sorted[k]
    BY <1>1, <1>4 DEF Image
  <1>6. more \in Seq(Image) /\ Len(more) = n
    <2>1. more \in [1..n -> Image]
      BY <1>5
    <2> HIDE DEF more, n
    <2>2. more \in Seq(Image)
      BY <2>1, <1>2, SeqDef
    <2> QED BY <2>1, <2>2, <1>2, LenProperties
  <1> HIDE DEF more, n
  <1>7. Len(images) \in Nat /\ DOMAIN images = 1..Len(images) /\ images \in Seq(Image)
    BY ImageFacts DEF WidgetTypes
  <1>8. /\ images' \in Seq(Image)
        /\ Len(images') = Len(images) + n
        /\ \A k \in 1..(Len(images) + n) :
             images'[k] = IF k <= Len(images) THEN images[k] ELSE more[k - Len(images)]
    BY <1>3, <1>6, <1>7, ConcatProperties
  <1>9. ASSUME NEW i \in 1..(Len(images) + n), NEW j \in 1..(Len(images) + n),
               images'[i].path = images'[j].path
        PROVE  i = j
    <2>1. \A k \in 1..(Len(images) + n) : k > Len(images) =>
            k - Len(images) \in 1..n /\ images'[k].path = sorted[k - Len(images)]
      BY <1>2, <1>5, <1>7, <1>8
    <2>2. \A k \in 1..(Len(images) + n) : k <= Len(images) =>
            k \in DOMAIN images /\ images'[k].path = images[k].path
      BY <1>2, <1>7, <1>8
    <2>3. CASE i <= Len(images) /\ j <= Len(images)
      BY <2>2, <2>3, <1>9 DEF OnceInv
    <2>4. CASE i > Len(images) /\ j > Len(images)
      <3>1. i - Len(images) = j - Len(images)
        BY <2>1, <2>4, <1>4, <1>9
      <3> QED BY <3>1, <1>2, <1>7
    <2>5. CASE i <= Len(images) /\ j > Len(images)
      BY <2>1, <2>2, <2>5, <1>1, <1>4, <1>9
    <2>6. CASE i > Len(images) /\ j <= Len(images)
      BY <2>1, <2>2, <2>6, <1>1, <1>4, <1>9
    <2>7. (i <= Len(images) \/ i > Len(images)) /\ (j <= Len(images) \/ j > Len(images))
      BY <1>2, <1>7
    <2> QED BY <2>3, <2>4, <2>5, <2>6, <2>7
  <1>10. DOMAIN images' = 1..(Len(images) + n)
    BY <1>8, LenProperties
  <1> QED BY <1>8, <1>9, <1>10 DEF OnceInv

(* What is kept was there. *)
LEMMA DeleteStep ==
  ASSUME WidgetTypes, OnceInv, ProcessConfirmDeletionButton
  PROVE  images' \in Seq(Image) /\ OnceInv'
  <1> DEFINE rest == {i \in DOMAIN images : ~ images[i].checked}
             kept == Ascending(rest)
             n == Cardinality(rest)
  <1>1. rest \in SUBSET Nat /\ IsFiniteSet(rest) /\ n \in Nat /\ rest \subseteq DOMAIN images
    <2>1. IsFiniteSet(1..Len(images))
      BY ImageFacts, FS_Interval
    <2>2. rest \subseteq 1..Len(images)
      BY ImageFacts
    <2> QED BY <2>1, <2>2, FS_Subset, FS_CardinalityType
  <1>2. images' = [k \in DOMAIN kept |-> images[kept[k]]]
    BY DEF ProcessConfirmDeletionButton
  <1> HIDE DEF rest
  <1>3. /\ kept \in [1..n -> rest]
        /\ \A a, b \in 1..n : kept[a] = kept[b] => a = b
    BY <1>1, AscendingProperties
  <1> HIDE DEF kept, n
  <1>4. images' \in [1..n -> Image]
    <2>1. \A k \in 1..n : images[kept[k]] \in Image
      BY <1>1, <1>3, ImageFacts
    <2> QED BY <2>1, <1>2, <1>3
  <1>5. images' \in Seq(Image)
    BY <1>1, <1>4, SeqDef
  <1>6. ASSUME NEW i \in 1..n, NEW j \in 1..n, images'[i].path = images'[j].path
        PROVE  i = j
    <2>1. images'[i] = images[kept[i]] /\ images'[j] = images[kept[j]]
      BY <1>2, <1>3
    <2>2. kept[i] \in DOMAIN images /\ kept[j] \in DOMAIN images
      BY <1>1, <1>3
    <2> QED BY <2>1, <2>2, <1>3, <1>6 DEF OnceInv
  <1> QED BY <1>4, <1>5, <1>6 DEF OnceInv

(* Ticking changes no path. *)
LEMMA TickStep ==
  ASSUME WidgetTypes, OnceInv,
         \/ \E i \in DOMAIN images : ClickImage(i)
         \/ ProcessAbortDeletionQPushButton
  PROVE  images' \in Seq(Image) /\ OnceInv'
  <1>0. Len(images) \in Nat /\ DOMAIN images = 1..Len(images)
    BY ImageFacts
  <1>1. ASSUME NEW i \in DOMAIN images, ClickImage(i)
        PROVE  images' \in [1..Len(images) -> Image] /\ \A k \in 1..Len(images) : images'[k].path = images[k].path
    <2>1. images' = [images EXCEPT ![i].checked = ~ @]
      BY <1>1 DEF ClickImage
    <2>2. images \in [1..Len(images) -> Image]
      BY <1>0, ImageFacts DEF WidgetTypes
    <2>3. [images[i] EXCEPT !.checked = ~ @] \in Image /\ [images[i] EXCEPT !.checked = ~ @].path = images[i].path
      BY <1>0, <2>2 DEF Image
    <2> QED BY <1>0, <2>1, <2>2, <2>3
  <1>2. ASSUME ProcessAbortDeletionQPushButton
        PROVE  images' \in [1..Len(images) -> Image] /\ \A k \in 1..Len(images) : images'[k].path = images[k].path
    <2> DEFINE to == ~ AreAllSelected(images)
    <2>1. images' = [i \in DOMAIN images |-> [images[i] EXCEPT !.checked = to]]
      BY <1>2 DEF ProcessAbortDeletionQPushButton
    <2>2. to \in BOOLEAN
      BY DEF AreAllSelected
    <2> HIDE DEF to
    <2>3. ASSUME NEW k \in 1..Len(images)
          PROVE  [images[k] EXCEPT !.checked = to] \in Image /\ [images[k] EXCEPT !.checked = to].path = images[k].path
      BY <2>2, ImageFacts DEF Image
    <2> QED BY <1>0, <2>1, <2>3
  <1>3. images' \in [1..Len(images) -> Image] /\ \A k \in 1..Len(images) : images'[k].path = images[k].path
    BY <1>1, <1>2
  <1>4. images' \in Seq(Image)
    BY <1>0, <1>3, SeqDef
  <1> QED BY <1>0, <1>3, <1>4 DEF OnceInv

LEMMA ImagesStep ==
  ASSUME WidgetTypes, OnceInv, Widget
  PROVE  images' \in Seq(Image) /\ OnceInv'
  <1>1. CASE \E chosen \in SUBSET Paths : ProcessInputImageButton(chosen)
    BY <1>1, LoadStep
  <1>2. CASE ProcessConfirmDeletionButton
    BY <1>2, DeleteStep
  <1>3. CASE (\E i \in DOMAIN images : ClickImage(i)) \/ ProcessAbortDeletionQPushButton
    BY <1>3, TickStep
  <1>4. CASE (\E i \in DOMAIN boxes : ClickPlatform(i)) \/ ClickAggregate
    BY <1>4 DEF ClickPlatform, ClickAggregate, imageVars, OnceInv, WidgetTypes
  <1> QED BY <1>1, <1>2, <1>3, <1>4 DEF Widget

(* The text of the button follows the boxes. *)
LEMMA ButtonStep ==
  ASSUME WidgetTypes, ButtonSaysWhatItDoes, Widget
  PROVE  ButtonSaysWhatItDoes'
  <1>1. ASSUME button' = CheckImageSelection(images') PROVE ButtonSaysWhatItDoes'
    BY <1>1 DEF CheckImageSelection, AreAllSelected, ButtonSaysWhatItDoes
  <1>2. ASSUME ProcessConfirmDeletionButton PROVE ButtonSaysWhatItDoes'
    <2>1. button' = IF AreAllSelected(images') /\ images' # <<>> THEN "Deselect all" ELSE "Select all"
      BY <1>2 DEF ProcessConfirmDeletionButton
    <2> QED BY <2>1 DEF AreAllSelected, ButtonSaysWhatItDoes
  <1>3. ASSUME ProcessAbortDeletionQPushButton PROVE ButtonSaysWhatItDoes'
    <2> DEFINE to == ~ AreAllSelected(images)
    <2>1. images' = [i \in DOMAIN images |-> [images[i] EXCEPT !.checked = to]]
      BY <1>3 DEF ProcessAbortDeletionQPushButton
    <2>2. button' = IF images = <<>> THEN button ELSE IF to THEN "Deselect all" ELSE "Select all"
      BY <1>3 DEF ProcessAbortDeletionQPushButton
    <2>3. to \in BOOLEAN
      BY DEF AreAllSelected
    <2> HIDE DEF to
    <2>4. DOMAIN images' = 1..Len(images) /\ Len(images) \in Nat
      BY <2>1, ImageFacts
    <2>5. \A k \in 1..Len(images) : images'[k].checked = to
      BY <2>1, <2>3, ImageFacts DEF Image
    <2>6. CASE images = <<>>
      <3>1. images' = <<>>
        BY <2>1, <2>6
      <3> QED BY <3>1 DEF ButtonSaysWhatItDoes
    <2>7. CASE images # <<>>
      <3>1. 1 \in DOMAIN images'
        BY <2>4, <2>7, EmptySeq DEF WidgetTypes
      <3> QED BY <2>2, <2>3, <2>4, <2>5, <2>7, <3>1 DEF ButtonSaysWhatItDoes
    <2> QED BY <2>6, <2>7
  <1>4. CASE \E chosen \in SUBSET Paths : ProcessInputImageButton(chosen)
    BY <1>1, <1>4 DEF ProcessInputImageButton
  <1>5. CASE \E i \in DOMAIN images : ClickImage(i)
    BY <1>1, <1>5 DEF ClickImage
  <1>6. CASE (\E i \in DOMAIN boxes : ClickPlatform(i)) \/ ClickAggregate
    BY <1>6 DEF ClickPlatform, ClickAggregate, imageVars, ButtonSaysWhatItDoes
  <1> QED BY <1>2, <1>3, <1>4, <1>5, <1>6 DEF Widget

-----------------------------------------------------------------------------
(* The steps of the start page, of other programs, and of an update of the *)
(* platforms.                                                              *)

(* No box gets another platform. *)
LEMMA TickPlatform ==
  ASSUME boxes \in Seq(Box), NEW i \in DOMAIN boxes, ClickPlatform(i)
  PROVE  /\ boxes' \in Seq(Box) /\ DOMAIN boxes' = DOMAIN boxes
         /\ \A j \in DOMAIN boxes : boxes'[j].platform = boxes[j].platform
  <1>1. Len(boxes) \in Nat /\ boxes \in [1..Len(boxes) -> Box] /\ DOMAIN boxes = 1..Len(boxes)
    BY LenProperties
  <1>2. boxes' = [boxes EXCEPT ![i].checked = ~ @]
    BY DEF ClickPlatform
  <1>3. [boxes[i] EXCEPT !.checked = ~ @] \in Box /\ [boxes[i] EXCEPT !.checked = ~ @].platform = boxes[i].platform
    BY <1>1 DEF Box
  <1>4. boxes' \in [1..Len(boxes) -> Box] /\ \A j \in 1..Len(boxes) : boxes'[j].platform = boxes[j].platform
    BY <1>1, <1>2, <1>3
  <1> QED BY <1>1, <1>4, SeqDef

LEMMA WidgetStep ==
  ASSUME WidgetInv, Widget
  PROVE  /\ WidgetInv'
         /\ DOMAIN boxes' = DOMAIN boxes
         /\ \A j \in DOMAIN boxes : boxes'[j].platform = boxes[j].platform
  <1>1. images' \in Seq(Image) /\ OnceInv' /\ ButtonSaysWhatItDoes'
    BY ImagesStep, ButtonStep DEF WidgetInv
  <1>2. files' = files /\ description' = description /\ platformMap' = platformMap
    BY DEF Widget, ProcessInputImageButton, ClickImage, ProcessConfirmDeletionButton,
           ProcessAbortDeletionQPushButton, ClickPlatform, ClickAggregate, platformVars, diskVars
  <1>3. /\ boxes' \in Seq(Box) /\ DOMAIN boxes' = DOMAIN boxes
        /\ \A j \in DOMAIN boxes : boxes'[j].platform = boxes[j].platform
    <2>1. CASE \E i \in DOMAIN boxes : ClickPlatform(i)
      BY <2>1, TickPlatform DEF WidgetInv, WidgetTypes
    <2>2. CASE ~ \E i \in DOMAIN boxes : ClickPlatform(i)
      <3>1. boxes' = boxes
        BY <2>2 DEF Widget, ProcessInputImageButton, ClickImage, ProcessConfirmDeletionButton,
                    ProcessAbortDeletionQPushButton, ClickAggregate, platformVars
      <3> QED BY <3>1 DEF WidgetInv, WidgetTypes
    <2> QED BY <2>1, <2>2
  <1>4. WidgetTypes'
    BY <1>1, <1>2, <1>3 DEF WidgetInv, WidgetTypes
  <1>5. MapInv'
    BY <1>2, <1>3 DEF WidgetInv, MapInv, Finds
  <1> QED BY <1>1, <1>3, <1>4, <1>5 DEF WidgetInv

LEMMA FileStep ==
  ASSUME WidgetInv, NEW p \in Paths, FileChanges(p)
  PROVE  WidgetInv'
  <1>1. files' \in [Paths -> Pictures \cup {NoPicture}]
    BY DEF FileChanges, WidgetInv, WidgetTypes
  <1> QED BY <1>1 DEF FileChanges, imageVars, platformVars, WidgetInv, WidgetTypes, OnceInv, MapInv, Finds,
                      ButtonSaysWhatItDoes

LEMMA BoxesProperties ==
  ASSUME NEW platforms \in Seq(AllPlatforms)
  PROVE  /\ Boxes(platforms) \in Seq(Box) /\ DOMAIN Boxes(platforms) = 1..Len(platforms)
         /\ \A i \in 1..Len(platforms) : /\ Boxes(platforms)[i].platform = platforms[i]
                                         /\ platforms[i] \in ToSet(platforms)
  <1>1. /\ Len(platforms) \in Nat /\ DOMAIN platforms = 1..Len(platforms)
        /\ \A i \in 1..Len(platforms) : platforms[i] \in AllPlatforms
    BY LenProperties, ElementOfSeq
  <1>2. Boxes(platforms) \in [1..Len(platforms) -> Box]
    BY <1>1 DEF Boxes, Box
  <1>3. Boxes(platforms) \in Seq(Box)
    BY <1>1, <1>2, SeqDef
  <1> QED BY <1>1, <1>2, <1>3 DEF Boxes, ToSet

LEMMA UpdatePlatformsStep ==
  ASSUME WidgetInv, NEW platforms \in Seq(AllPlatforms), UpdatePlatforms(platforms)
  PROVE  /\ WidgetInv'
         /\ \A i \in DOMAIN boxes' : boxes'[i].platform \in ToSet(platforms)
  <1>1. PICK kept \in SUBSET DOMAIN platformMap :
          platformMap' = Insert(Restrict(platformMap, kept), platforms)
    BY DEF UpdatePlatforms
  <1>2. Finds(Restrict(platformMap, kept))
    BY DEF Restrict, Finds, WidgetInv, MapInv
  <1>3. /\ Finds(platformMap')
        /\ \A p \in ToSet(platforms) : description[p] \in DOMAIN platformMap'
    BY <1>1, <1>2, InsertProperties
  <1>4. boxes' = Boxes(platforms)
    BY DEF UpdatePlatforms
  <1>5. /\ boxes' \in Seq(Box)
        /\ \A i \in DOMAIN boxes' : boxes'[i].platform \in ToSet(platforms)
    BY <1>4, BoxesProperties
  <1>6. description' = description /\ files' = files /\ images' = images /\ button' = button
    BY DEF UpdatePlatforms, diskVars, imageVars
  <1>7. MapInv'
    BY <1>3, <1>5, <1>6 DEF MapInv, Finds
  <1> QED BY <1>5, <1>6, <1>7 DEF WidgetInv, WidgetTypes, OnceInv, ButtonSaysWhatItDoes

-----------------------------------------------------------------------------
(* What is selected when a classification starts.                          *)

LEMMA PositionOfPath ==
  ASSUME WidgetTypes, OnceInv, NEW i \in DOMAIN images
  PROVE  Position(images[i].path) = i
  <1> DEFINE I == {k \in 1..Len(images) : images[k].path = images[i].path}
  <1>1. DOMAIN images = 1..Len(images) /\ Len(images) \in Nat
    BY ImageFacts
  <1>2. I = {i}
    BY <1>1 DEF OnceInv
  <1>3. Position(images[i].path) = Min(I)
    BY <1>2 DEF Position, SelectInSeq
  <1>4. Min({i}) = i
    BY <1>1 DEF Min
  <1> QED BY <1>2, <1>3, <1>4

LEMMA ImagesSelected ==
  ASSUME WidgetTypes, OnceInv
  PROVE  /\ DOMAIN SelectedImages = {images[i].path : i \in DOMAIN images}
         /\ \A i \in DOMAIN images : SelectedImages[images[i].path] = images[i].picture
  BY PositionOfPath DEF SelectedImages

LEMMA PlatformsSelected ==
  ASSUME WidgetInv, DistinctDescriptions
  PROVE  SelectedPlatforms = {boxes[i].platform : i \in {j \in DOMAIN boxes : boxes[j].checked}}
  <1>1. DOMAIN description = AllPlatforms
    BY SessionAssumption DEF SessionAssumption, WidgetInv, WidgetTypes
  <1>2. ASSUME NEW i \in DOMAIN boxes
        PROVE  platformMap[description[boxes[i].platform]] = boxes[i].platform
    <2> DEFINE p == boxes[i].platform
               q == platformMap[description[p]]
    <2>1. p \in AllPlatforms
      <3>1. boxes[i] \in Box
        BY LenProperties, ElementOfSeq DEF WidgetInv, WidgetTypes
      <3> QED BY <3>1 DEF Box
    <2>2. q \in AllPlatforms /\ description[q] = description[p]
      BY DEF WidgetInv, MapInv, Finds
    <2> QED BY <1>1, <2>1, <2>2 DEF DistinctDescriptions
  <1> QED BY <1>2 DEF SelectedPlatforms

LEMMA StartStep ==
  ASSUME SessionInv, page = "start", ~ busy, SetClassificationRequestState
  PROVE  SessionInv'
  <1>1. WidgetInv /\ SessionTypes /\ BusyInv /\ BoxesInv
    BY DEF SessionInv
  <1>2. ~ worker /\ signal = <<>> /\ ~ HostLost
    BY <1>1 DEF BusyInv, HostLost
  <1>3. /\ UNCHANGED <<widgetVars, hosts, page, signal>>
        /\ UNCHANGED <<files, images, button, description, boxes, platformMap, aggregate>>
    BY DEF SetClassificationRequestState, widgetVars, diskVars, imageVars, platformVars
  <1>4. WidgetInv' /\ BoxesInv'
    BY <1>1, <1>3 DEF WidgetInv, WidgetTypes, OnceInv, MapInv, Finds, ButtonSaysWhatItDoes, BoxesInv, HostLost
  <1>5. CASE SelectedPlatforms # {} /\ SelectedImages # <<>>
    <2>1. /\ request' = [images |-> SelectedImages, platforms |-> SelectedPlatforms, aggregate |-> aggregate]
          /\ worker' /\ busy' /\ worker' \in BOOLEAN /\ busy' \in BOOLEAN
      BY <1>5 DEF SetClassificationRequestState
    <2>2. RequestIsTheSelection'
      <3>1. /\ \A i, j \in DOMAIN images : images[i].path = images[j].path => i = j
            /\ DOMAIN SelectedImages = {images[i].path : i \in DOMAIN images}
            /\ \A i \in DOMAIN images : SelectedImages[images[i].path] = images[i].picture
        BY <1>1, ImagesSelected DEF WidgetInv, OnceInv
      <3>2. DistinctDescriptions =>
              /\ SelectedPlatforms = {boxes[i].platform : i \in {j \in DOMAIN boxes : boxes[j].checked}}
              /\ SelectedPlatforms \subseteq ToSet(Offered(hosts))
        BY <1>1, <1>2, PlatformsSelected DEF BoxesInv
      <3> HIDE DEF SelectedImages, SelectedPlatforms
      <3> QED BY <1>3, <2>1, <3>1, <3>2 DEF RequestIsTheSelection, DistinctDescriptions
    <2> QED BY <1>1, <1>2, <1>3, <1>4, <2>1, <2>2 DEF SessionInv, SessionTypes, BusyInv
  <1>6. CASE ~ (SelectedPlatforms # {} /\ SelectedImages # <<>>)
    <2>1. worker' = worker /\ busy' = busy
      BY <1>6 DEF SetClassificationRequestState
    <2> QED BY <1>1, <1>2, <1>3, <1>4, <2>1 DEF SessionInv, SessionTypes, BusyInv, RequestIsTheSelection
  <1> QED BY <1>5, <1>6

-----------------------------------------------------------------------------
(* The session.                                                            *)

LEMMA SessionStarts == SessionInit => SessionInv
  <1> SUFFICES ASSUME SessionInit PROVE SessionInv
    OBVIOUS
  <1>1. /\ description \in Descriptions /\ hosts = <<"fpga", "local">>
        /\ files \in Disks /\ images = <<>>
        /\ boxes = Boxes(Offered(hosts)) /\ platformMap = Insert(<<>>, Offered(hosts))
        /\ page = "start" /\ ~ busy /\ busy \in BOOLEAN /\ ~ worker /\ worker \in BOOLEAN /\ signal = <<>>
    BY DEF SessionInit, WidgetInit
  <1>2. Offered(hosts) \in Seq(AllPlatforms)
    BY <1>1, OfferedType
  <1>3. Finds(<<>>)
    BY DEF Finds
  <1>4. /\ Finds(platformMap)
        /\ \A p \in ToSet(Offered(hosts)) : description[p] \in DOMAIN platformMap
    BY <1>1, <1>2, <1>3, InsertProperties
  <1>5. boxes \in Seq(Box) /\ \A i \in DOMAIN boxes : boxes[i].platform \in ToSet(Offered(hosts))
    BY <1>1, <1>2, BoxesProperties
  <1>6. MapInv
    BY <1>4, <1>5 DEF MapInv
  <1>7. WidgetTypes
    BY <1>1, <1>5, StartWidgetAssumption DEF WidgetTypes, StartWidgetAssumption
  <1>8. OnceInv /\ ButtonSaysWhatItDoes
    BY <1>1 DEF OnceInv, ButtonSaysWhatItDoes
  <1> QED BY <1>1, <1>5, <1>6, <1>7, <1>8
             DEF SessionInv, WidgetInv, SessionTypes, BusyInv, BoxesInv, RequestIsTheSelection

(* What the start page and the worker hold matters, and not the rest. *)
LEMMA PageUntouched ==
  ASSUME SessionInv, UNCHANGED <<widgetVars, hosts, request>>, worker' = worker \/ worker' = FALSE
  PROVE  WidgetInv' /\ RequestIsTheSelection' /\ hosts' \in {<<"fpga", "local">>, <<"local">>}
         /\ worker' \in BOOLEAN /\ (~ HostLost => \A i \in DOMAIN boxes' : boxes'[i].platform \in ToSet(Offered(hosts')))
  <1>1. WidgetInv /\ SessionTypes /\ BoxesInv /\ RequestIsTheSelection
    BY DEF SessionInv
  <1>2. UNCHANGED <<files, images, button, description, boxes, platformMap, aggregate, hosts, request>>
    BY DEF widgetVars, diskVars, imageVars, platformVars
  <1>3. WidgetInv'
    BY <1>1, <1>2 DEF WidgetInv, WidgetTypes, OnceInv, MapInv, Finds, ButtonSaysWhatItDoes
  <1>4. RequestIsTheSelection'
    <2>1. CASE worker' = worker
      BY <1>1, <1>2, <2>1 DEF RequestIsTheSelection, DistinctDescriptions
    <2>2. CASE worker' = FALSE
      BY <2>2 DEF RequestIsTheSelection
    <2> QED BY <2>1, <2>2
  <1>5. hosts' \in {<<"fpga", "local">>, <<"local">>} /\ worker' \in BOOLEAN
    BY <1>1, <1>2 DEF SessionTypes
  <1>6. ~ HostLost => \A i \in DOMAIN boxes' : boxes'[i].platform \in ToSet(Offered(hosts'))
    BY <1>1, <1>2 DEF BoxesInv
  <1> QED BY <1>3, <1>4, <1>5, <1>6

(* The user. *)
LEMMA UserStep ==
  ASSUME SessionInv, User
  PROVE  SessionInv'
  <1>0. WidgetInv /\ SessionTypes /\ BusyInv /\ BoxesInv
    BY DEF SessionInv
  <1>1. ASSUME page = "start", ~ busy, Widget, UNCHANGED <<sessionVars, changes>>
        PROVE  SessionInv'
    <2>1. /\ WidgetInv' /\ DOMAIN boxes' = DOMAIN boxes
          /\ \A j \in DOMAIN boxes : boxes'[j].platform = boxes[j].platform
      BY <1>0, <1>1, WidgetStep
    <2>2. UNCHANGED <<hosts, page, busy, request, worker, signal>>
      BY <1>1 DEF sessionVars
    <2>3. ~ worker
      BY <1>0, <1>1 DEF BusyInv
    <2>4. BoxesInv'
      BY <1>0, <2>1, <2>2 DEF BoxesInv, HostLost
    <2> QED BY <1>0, <2>1, <2>2, <2>3, <2>4 DEF SessionInv, SessionTypes, BusyInv, RequestIsTheSelection
  <1>2. ASSUME ProcessReturnQPushButton PROVE SessionInv'
    <2>1. /\ UNCHANGED <<widgetVars, hosts, request, worker, signal>>
          /\ page = "result" /\ page' = "start" /\ busy' = FALSE
      BY <1>2 DEF ProcessReturnQPushButton
    <2>2. ~ worker /\ signal = <<>>
      BY <1>0, <2>1 DEF BusyInv
    <2>3. ~ HostLost
      BY <2>2 DEF HostLost
    <2> QED BY <2>1, <2>2, <2>3, PageUntouched DEF SessionInv, SessionTypes, BusyInv, BoxesInv
  <1> QED BY <1>1, <1>2, StartStep DEF User

LEMMA DiskStep ==
  ASSUME SessionInv, Disk
  PROVE  SessionInv'
  <1>0. WidgetInv /\ SessionTypes /\ BusyInv /\ BoxesInv /\ RequestIsTheSelection
    BY DEF SessionInv
  <1>1. PICK p \in Paths : FileChanges(p)
    BY DEF Disk
  <1>2. WidgetInv'
    BY <1>0, <1>1, FileStep
  <1>3. UNCHANGED <<images, description, boxes, aggregate, hosts, page, busy, request, worker, signal>>
    BY <1>1 DEF FileChanges, imageVars, platformVars, Disk, sessionVars
  <1>4. RequestIsTheSelection'
    BY <1>0, <1>3 DEF RequestIsTheSelection, DistinctDescriptions
  <1> QED BY <1>0, <1>2, <1>3, <1>4 DEF SessionInv, SessionTypes, BusyInv, BoxesInv, HostLost

LEMMA RemoveFpga == RemoveFirst(<<"fpga", "local">>, "fpga") = <<"local">>
  <1> DEFINE hs == <<"fpga", "local">>
             I == {k \in 1..Len(hs) : hs[k] = "fpga"}
  <1>1. Len(hs) = 2 /\ hs[1] = "fpga" /\ hs[2] = "local"
    OBVIOUS
  <1>2. I = {1}
    BY <1>1
  <1>3. SelectInSeq(hs, LAMBDA h : h = "fpga") = Min(I)
    BY <1>2 DEF SelectInSeq
  <1>4. Min({1}) = 1
    BY DEF Min
  <1>5. RemoveFirst(hs, "fpga") = RemoveAt(hs, 1)
    BY <1>1, <1>2, <1>3, <1>4 DEF RemoveFirst
  <1>6. RemoveAt(hs, 1) = <<"local">>
    <2>1. RemoveAt(hs, 1) = SubSeq(hs, 1, 1 - 1) \o SubSeq(hs, 1 + 1, Len(hs))
      BY DEF RemoveAt
    <2>2. SubSeq(hs, 1, 1 - 1) = <<>>
      OBVIOUS
    <2>3. SubSeq(hs, 1 + 1, Len(hs)) = <<"local">>
      <3> DEFINE t == SubSeq(hs, 2, 2)
      <3>1. hs \in Seq({"fpga", "local"}) /\ \A j \in 2..2 : hs[j] \in {"fpga", "local"}
        OBVIOUS
      <3>2. /\ t \in Seq({"fpga", "local"}) /\ Len(t) = (IF 2 <= 2 THEN 2 - 2 + 1 ELSE 0)
            /\ \A j \in 1..(2 - 2 + 1) : t[j] = hs[2 + j - 1]
        BY <3>1, SubSeqProperties
      <3> HIDE DEF t
      <3>3. Len(t) = 1 /\ t[1] = "local"
        BY <1>1, <3>2
      <3>4. t = <<"local">>
        <4>1. <<"local">> \in Seq({"fpga", "local"}) /\ Len(<<"local">>) = 1 /\ <<"local">>[1] = "local"
          OBVIOUS
        <4> QED BY <3>2, <3>3, <4>1, SeqEqual
      <3> QED BY <1>1, <3>4 DEF t
    <2>4. <<>> \o <<"local">> = <<"local">>
      BY ConcatEmptySeq
    <2> QED BY <2>1, <2>2, <2>3, <2>4
  <1> QED BY <1>5, <1>6

(* The worker ends with a signal; only a lost host changes the hosts. *)
LEMMA WorkerStep ==
  ASSUME SessionInv, Worker
  PROVE  SessionInv'
  <1>0. WidgetInv /\ SessionTypes /\ BusyInv /\ BoxesInv
    BY DEF SessionInv
  <1>1. worker /\ busy /\ page = "start" /\ signal = <<>> /\ ~ HostLost
    BY <1>0 DEF Worker, Update, UpdateCutsTooMuch, UpdateHasNoPlatform, UpdateFails, BusyInv, HostLost
  <1>2. ASSUME UNCHANGED <<widgetVars, hosts, page, busy, request>>, worker' = FALSE
        PROVE  SessionInv'
    BY <1>0, <1>1, <1>2, PageUntouched DEF SessionInv, SessionTypes, BusyInv, BoxesInv
  <1>3. CASE Update
    BY <1>2, <1>3 DEF Update
  <1>4. CASE UpdateCutsTooMuch \/ UpdateHasNoPlatform
    <2>1. UNCHANGED <<widgetVars, hosts, page, busy, request, worker, signal>>
      BY <1>4 DEF UpdateCutsTooMuch, UpdateHasNoPlatform
    <2> QED BY <1>0, <1>1, <2>1, PageUntouched DEF SessionInv, SessionTypes, BusyInv, BoxesInv
  <1>5. ASSUME NEW kind \in {"comm", "resource", "other"}, UpdateFails(kind) PROVE SessionInv'
    <2>1. /\ UNCHANGED <<widgetVars, page, busy, request>> /\ worker' = FALSE
          /\ signal' = <<[ok |-> FALSE, kind |-> kind]>>
          /\ hosts' = IF kind = "comm" THEN RemoveFirst(hosts, "fpga") ELSE hosts
          /\ kind = "comm" => "fpga" \in ToSet(hosts)
      BY <1>5 DEF UpdateFails
    <2>2. CASE kind # "comm"
      BY <1>2, <2>1, <2>2
    <2>3. CASE kind = "comm"
      <3>1. hosts = <<"fpga", "local">>
        BY <1>0, <2>1, <2>3 DEF SessionTypes, ToSet
      <3>2. hosts' = <<"local">>
        BY <2>1, <2>3, <3>1, RemoveFpga
      <3>3. HostLost'
        BY <2>1, <2>3 DEF HostLost
      <3>4. UNCHANGED <<files, images, button, description, boxes, platformMap>>
        BY <2>1 DEF widgetVars, diskVars, imageVars, platformVars
      <3>5. WidgetInv'
        BY <1>0, <3>4 DEF WidgetInv, WidgetTypes, OnceInv, MapInv, Finds, ButtonSaysWhatItDoes
      <3> QED BY <1>0, <1>1, <2>1, <3>2, <3>3, <3>5
                 DEF SessionInv, SessionTypes, BusyInv, BoxesInv, RequestIsTheSelection
    <2> QED BY <2>2, <2>3
  <1> QED BY <1>3, <1>4, <1>5 DEF Worker

(* The signal is received: the result is shown, or the platforms updated. *)
LEMMA EventStep ==
  ASSUME SessionInv, EventLoop
  PROVE  SessionInv'
  <1>0. WidgetInv /\ SessionTypes /\ BusyInv /\ BoxesInv
    BY DEF SessionInv
  <1>1. signal # <<>> /\ ~ worker /\ worker' = worker
    BY <1>0 DEF EventLoop, ProcessClassificationResult, ProcessFailure, UpdatePlatformsCrashes, BusyInv
  <1>2. CASE ProcessClassificationResult
    <2>1. /\ UNCHANGED <<widgetVars, hosts, busy, request>> /\ signal' = <<>>
          /\ ~ HostLost
      BY <1>2 DEF ProcessClassificationResult, HostLost
    <2> QED BY <1>0, <1>1, <2>1, PageUntouched DEF SessionInv, SessionTypes, BusyInv, BoxesInv
  <1>3. CASE ProcessFailure
    <2>1. /\ UNCHANGED <<hosts, page, request>> /\ signal' = <<>> /\ busy' \in BOOLEAN
          /\ ~ signal[1].ok
          /\ IF signal[1].kind = "comm" THEN UpdatePlatforms(Offered(hosts)) ELSE UNCHANGED widgetVars
      BY <1>3 DEF ProcessFailure, LockedByError
    <2>2. CASE signal[1].kind = "comm"
      <3>1. Offered(hosts) \in Seq(AllPlatforms)
        BY <1>0, OfferedType DEF SessionTypes
      <3>2. WidgetInv' /\ \A i \in DOMAIN boxes' : boxes'[i].platform \in ToSet(Offered(hosts))
        BY <1>0, <2>1, <2>2, <3>1, UpdatePlatformsStep
      <3>3. BoxesInv'
        BY <2>1, <3>2 DEF BoxesInv
      <3> QED BY <1>0, <1>1, <2>1, <3>2, <3>3 DEF SessionInv, SessionTypes, BusyInv, RequestIsTheSelection
    <2>3. CASE signal[1].kind # "comm"
      <3>1. UNCHANGED widgetVars /\ ~ HostLost
        BY <2>1, <2>3 DEF HostLost
      <3> QED BY <1>0, <1>1, <2>1, <3>1, PageUntouched DEF SessionInv, SessionTypes, BusyInv, BoxesInv
    <2> QED BY <2>2, <2>3
  <1>4. CASE UpdatePlatformsCrashes
    <2>1. UNCHANGED <<widgetVars, hosts, page, busy, request, signal>> /\ HostLost
      BY <1>4 DEF UpdatePlatformsCrashes, HostLost
    <2>2. BoxesInv'
      BY <2>1 DEF BoxesInv, HostLost
    <2> QED BY <1>0, <1>1, <2>1, <2>2, PageUntouched DEF SessionInv, SessionTypes, BusyInv
  <1> QED BY <1>2, <1>3, <1>4 DEF EventLoop

LEMMA Stutter ==
  ASSUME SessionInv, UNCHANGED allVars
  PROVE  SessionInv'
  <1>1. UNCHANGED <<widgetVars, hosts, page, busy, request, worker, signal>>
    BY DEF allVars, sessionVars
  <1>2. UNCHANGED boxes
    BY <1>1 DEF widgetVars, platformVars
  <1> QED BY <1>1, <1>2, PageUntouched DEF SessionInv, SessionTypes, BusyInv, BoxesInv, HostLost

LEMMA AlwaysSessionInv == SessionSpec => []SessionInv
  <1>1. SessionInv /\ [SessionNext]_allVars => SessionInv'
    BY UserStep, DiskStep, WorkerStep, EventStep, Stutter DEF SessionNext, Ended
  <1> QED BY <1>1, SessionStarts, PTL DEF SessionSpec

(* The text of the button says whether a press selects or deselects, after *)
(* every sequence of the steps that change the images or their boxes.      *)
THEOREM ButtonIsRight == SessionSpec => []ButtonSaysWhatItDoes
  <1>1. SessionInv => ButtonSaysWhatItDoes
    BY DEF SessionInv, WidgetInv
  <1> QED BY <1>1, AlwaysSessionInv, PTL

(* What is classified is what the start page says, for all images, files   *)
(* and platforms, and any number of classifications that failed before.    *)
THEOREM RequestIsRight == SessionSpec => []RequestIsTheSelection
  <1>1. SessionInv => RequestIsTheSelection
    BY DEF SessionInv
  <1> QED BY <1>1, AlwaysSessionInv, PTL

-----------------------------------------------------------------------------
(* What is shown, and why the program crashes.                             *)

(* A file that is not touched holds what was loaded. *)
TouchInv == \A i \in DOMAIN images : images[i].path \notin touched => files[images[i].path] = images[i].picture

RequestInv ==
  /\ worker \/ signal # <<>> \/ page = "result" =>
       /\ request.platforms # {}
       /\ DOMAIN request.images \subseteq Paths /\ DOMAIN request.images # {}
       /\ \A p \in DOMAIN request.images : request.images[p] \in Pictures
  /\ worker \/ signal # <<>> =>
       \A p \in DOMAIN request.images : p \notin touched => files[p] = request.images[p]

(* What the results may be. *)
Aggregated(list) ==
  IF request.aggregate THEN list \in AggregateResults(ImageResults) /\ AggregateIsDefined(ImageResults)
                       ELSE list = <<>>
Performed(details) ==
  \E sizes \in BatchSizes(AvailableHosts, Len(RequestedPaths)),
     times \in [DOMAIN AvailableHosts -> Times] :
    \E distributions \in Distributions(AvailableHosts, sizes) :
      details = CalculatePerformance(AvailableHosts, TimesTaken(sizes, times), distributions, sizes)

SignalInv ==
  signal # <<>> /\ signal[1].ok =>
    /\ signal[1].results = ImageResults
    /\ Aggregated(signal[1].aggregated)
    /\ Performed(signal[1].performance)

ShownInv ==
  page = "result" =>
    /\ DOMAIN shown.entries = DOMAIN RequestedPaths
    /\ \A i \in DOMAIN shown.entries :
         /\ shown.entries[i].path = RequestedPaths[i]
         /\ RequestedPaths[i] \notin touched => shown.entries[i].picture = request.images[RequestedPaths[i]]
         /\ shown.entries[i].results = IF shown.aggregated = <<>> THEN ImageResults[i] ELSE <<>>
    /\ Aggregated(shown.aggregated)
    /\ Performed(shown.details)

PageInv == TouchInv /\ RequestInv /\ SignalInv /\ ShownInv

(* What the results depend on. *)
LEMMA SameResults ==
  ASSUME UNCHANGED <<request, hosts>>
  PROVE  /\ RequestedPaths' = RequestedPaths /\ ImageResults' = ImageResults
         /\ AvailableHosts' = AvailableHosts
         /\ \A list : Aggregated(list)' <=> Aggregated(list)
         /\ \A details : Performed(details)' <=> Performed(details)
  <1>1. RequestedPaths' = RequestedPaths
    BY DEF RequestedPaths
  <1>2. ImageResults' = ImageResults
    BY <1>1 DEF ImageResults
  <1>3. \A h : Selected(h)' = Selected(h)
    BY DEF Selected
  <1>4. AvailableHosts' = AvailableHosts
    BY <1>3 DEF AvailableHosts
  <1>5. \A list : Aggregated(list)' <=> Aggregated(list)
    BY <1>2 DEF Aggregated
  <1>6. \A h, n : HostDistributions(h, n)' = HostDistributions(h, n)
    BY <1>3 DEF HostDistributions, OnePlatform
  <1>7. \A hs, sizes : Distributions(hs, sizes)' = Distributions(hs, sizes)
    BY <1>6 DEF Distributions
  <1>8. \A details : Performed(details)' <=> Performed(details)
    BY <1>1, <1>4, <1>7 DEF Performed
  <1> QED BY <1>1, <1>2, <1>4, <1>5, <1>8

LEMMA RequestedPathsType ==
  ASSUME DOMAIN request.images \subseteq Paths
  PROVE  /\ IsFiniteSet(DOMAIN request.images) /\ Cardinality(DOMAIN request.images) \in Nat
         /\ RequestedPaths \in [1..Cardinality(DOMAIN request.images) -> DOMAIN request.images]
         /\ \A a, b \in DOMAIN RequestedPaths : RequestedPaths[a] = RequestedPaths[b] => a = b
         /\ \A p \in DOMAIN request.images : \E i \in DOMAIN RequestedPaths : RequestedPaths[i] = p
  <1> DEFINE D == DOMAIN request.images
             n == Cardinality(D)
  <1>1. D \in SUBSET Nat /\ IsFiniteSet(D) /\ n \in Nat
    BY StartWidgetAssumption, FS_Subset, FS_CardinalityType DEF StartWidgetAssumption
  <1> HIDE DEF D
  <1>2. /\ Ascending(D) \in [1..n -> D]
        /\ \A a, b \in 1..n : Ascending(D)[a] = Ascending(D)[b] => a = b
    BY <1>1, AscendingProperties
  <1> DEFINE f == Ascending(D)
  <1> HIDE DEF f
  <1>3. IsFiniteSet(1..n) /\ Cardinality(1..n) = n
    <2>1. IsFiniteSet(1..n) /\ Cardinality(1..n) = IF 1 > n THEN 0 ELSE n - 1 + 1
      BY <1>1, FS_Interval
    <2> QED BY <1>1, <2>1
  <1>4. f \in Injection(1..n, D)
    BY <1>2 DEF f, Injection, IsInjective
  <1>5. f \in Surjection(1..n, D)
    BY <1>1, <1>3, <1>4, FS_Injection
  <1>6. \A p \in D : \E i \in 1..n : f[i] = p
    BY <1>5 DEF Surjection
  <1>7. RequestedPaths = f
    BY DEF RequestedPaths, f, D
  <1>8. f \in [1..n -> D] /\ \A a, b \in 1..n : f[a] = f[b] => a = b
    BY <1>2 DEF f
  <1> QED BY <1>1, <1>6, <1>7, <1>8 DEF D

LEMMA PageStarts == SessionInit => PageInv
  <1> SUFFICES ASSUME SessionInit PROVE PageInv
    OBVIOUS
  <1>1. images = <<>> /\ page = "start" /\ ~ worker /\ signal = <<>>
    BY DEF SessionInit, WidgetInit
  <1> QED BY <1>1 DEF PageInv, TouchInv, RequestInv, SignalInv, ShownInv

(* The pictures of the images are those of their files, after every step   *)
(* of the start page.                                                      *)
LEMMA TouchLoad ==
  ASSUME WidgetTypes, TouchInv, NEW chosen \in SUBSET Paths, ProcessInputImageButton(chosen)
  PROVE  TouchInv'
  <1> DEFINE loaded == {p \in RemoveDuplicateSelectedImages(chosen) : files[p] # NoPicture}
             sorted == Ascending(loaded)
             n == Cardinality(loaded)
             more == [k \in DOMAIN sorted |->
                        [path |-> sorted[k], picture |-> files[sorted[k]], checked |-> FALSE]]
  <1>1. /\ loaded \subseteq Paths
        /\ \A p \in loaded : files[p] \in Pictures
        /\ \A p \in loaded : \A i \in DOMAIN images : images[i].path # p
    BY DEF RemoveDuplicateSelectedImages, WidgetTypes
  <1>2. loaded \in SUBSET Nat /\ IsFiniteSet(loaded) /\ n \in Nat
    BY <1>1, StartWidgetAssumption, FS_Subset, FS_CardinalityType DEF StartWidgetAssumption
  <1>3. images' = images \o more /\ touched' = touched \ loaded /\ files' = files
    BY DEF ProcessInputImageButton
  <1> HIDE DEF loaded
  <1>4. sorted \in [1..n -> loaded]
    BY <1>2, AscendingProperties
  <1> HIDE DEF sorted
  <1>5. /\ DOMAIN more = 1..n
        /\ \A k \in 1..n : more[k] \in Image /\ more[k].picture = files[more[k].path]
    BY <1>1, <1>4 DEF Image
  <1>6. more \in Seq(Image) /\ Len(more) = n
    <2>1. more \in [1..n -> Image]
      BY <1>5
    <2> HIDE DEF more, n
    <2>2. more \in Seq(Image)
      BY <2>1, <1>2, SeqDef
    <2> QED BY <2>1, <2>2, <1>2, LenProperties
  <1> HIDE DEF more, n
  <1>7. Len(images) \in Nat /\ DOMAIN images = 1..Len(images) /\ images \in Seq(Image)
    BY ImageFacts DEF WidgetTypes
  <1>8. /\ DOMAIN images' = 1..(Len(images) + n)
        /\ \A k \in 1..(Len(images) + n) :
             images'[k] = IF k <= Len(images) THEN images[k] ELSE more[k - Len(images)]
    BY <1>3, <1>6, <1>7, ConcatProperties, LenProperties
  <1>9. ASSUME NEW k \in 1..(Len(images) + n), images'[k].path \notin touched'
        PROVE  files'[images'[k].path] = images'[k].picture
    <2>1. CASE k <= Len(images)
      <3>1. k \in DOMAIN images /\ images'[k] = images[k]
        BY <1>2, <1>7, <1>8, <2>1
      <3>2. images[k].path \notin loaded
        BY <1>1, <3>1
      <3> QED BY <1>3, <1>9, <3>1, <3>2 DEF TouchInv
    <2>2. CASE k > Len(images)
      <3>1. k - Len(images) \in 1..n /\ images'[k] = more[k - Len(images)]
        BY <1>2, <1>7, <1>8, <2>2
      <3> QED BY <1>3, <1>5, <3>1
    <2> QED BY <1>2, <1>7, <2>1, <2>2
  <1> QED BY <1>8, <1>9 DEF TouchInv

LEMMA TouchStep ==
  ASSUME WidgetTypes, TouchInv, Widget
  PROVE  TouchInv'
  <1>0. Len(images) \in Nat /\ DOMAIN images = 1..Len(images) /\ \A i \in 1..Len(images) : images[i] \in Image
    BY ImageFacts
  <1>1. CASE \E chosen \in SUBSET Paths : ProcessInputImageButton(chosen)
    BY <1>1, TouchLoad
  <1>2. CASE ProcessConfirmDeletionButton
    <2> DEFINE rest == {i \in DOMAIN images : ~ images[i].checked}
               kept == Ascending(rest)
    <2>1. rest \in SUBSET Nat /\ IsFiniteSet(rest) /\ rest \subseteq DOMAIN images
      <3>1. IsFiniteSet(1..Len(images)) /\ rest \subseteq 1..Len(images)
        BY <1>0, FS_Interval
      <3> QED BY <1>0, <3>1, FS_Subset
    <2>2. images' = [k \in DOMAIN kept |-> images[kept[k]]] /\ files' = files /\ touched' = touched
      BY <1>2 DEF ProcessConfirmDeletionButton, diskVars
    <2> HIDE DEF rest
    <2>3. kept \in [1..Cardinality(rest) -> rest]
      BY <2>1, AscendingProperties
    <2> HIDE DEF kept
    <2>4. DOMAIN images' = DOMAIN kept /\ \A k \in DOMAIN kept : images'[k] = images[kept[k]] /\ kept[k] \in DOMAIN images
      BY <2>1, <2>2, <2>3
    <2> QED BY <2>2, <2>4 DEF TouchInv
  <1>3. ASSUME NEW i \in DOMAIN images, ClickImage(i) PROVE TouchInv'
    <2>1. images' = [images EXCEPT ![i].checked = ~ @] /\ files' = files /\ touched' = touched
      BY <1>3 DEF ClickImage, diskVars
    <2>2. DOMAIN images' = DOMAIN images /\ \A k \in DOMAIN images :
            images'[k].path = images[k].path /\ images'[k].picture = images[k].picture
      BY <1>0, <2>1 DEF Image
    <2> QED BY <2>1, <2>2 DEF TouchInv
  <1>4. CASE ProcessAbortDeletionQPushButton
    <2>1. PICK to : images' = [i \in DOMAIN images |-> [images[i] EXCEPT !.checked = to]]
      BY <1>4 DEF ProcessAbortDeletionQPushButton
    <2>2. files' = files /\ touched' = touched
      BY <1>4 DEF ProcessAbortDeletionQPushButton, diskVars
    <2>3. DOMAIN images' = DOMAIN images /\ \A k \in DOMAIN images :
            images'[k].path = images[k].path /\ images'[k].picture = images[k].picture
      BY <1>0, <2>1 DEF Image
    <2> QED BY <2>2, <2>3 DEF TouchInv
  <1>5. CASE (\E i \in DOMAIN boxes : ClickPlatform(i)) \/ ClickAggregate
    BY <1>5 DEF ClickPlatform, ClickAggregate, imageVars, diskVars, TouchInv
  <1> QED BY <1>1, <1>2, <1>3, <1>4, <1>5 DEF Widget

(* A step that leaves the request and what is shown alone. *)
LEMMA PageKept ==
  ASSUME SessionInv, PageInv, UNCHANGED <<request, hosts, shown, files, touched>>,
         TouchInv', worker' => worker, signal' = signal \/ signal' = <<>>, page' = "result" => page = "result"
  PROVE  PageInv'
  <1>1. /\ RequestedPaths' = RequestedPaths /\ ImageResults' = ImageResults
        /\ \A list : Aggregated(list)' <=> Aggregated(list)
        /\ \A details : Performed(details)' <=> Performed(details)
    BY SameResults
  <1>2. RequestInv'
    BY DEF PageInv, RequestInv
  <1>3. SignalInv'
    <2>1. CASE signal' = <<>>
      BY <2>1 DEF SignalInv
    <2>2. CASE signal' = signal
      <3>1. PICK a, d : a = signal[1].aggregated /\ d = signal[1].performance
        OBVIOUS
      <3>2. Aggregated(signal[1].aggregated)' <=> Aggregated(a)'
        BY <2>2, <3>1 DEF Aggregated
      <3>3. Performed(signal[1].performance)' <=> Performed(d)'
        BY <2>2, <3>1 DEF Performed
      <3> QED BY <1>1, <2>2, <3>1, <3>2, <3>3 DEF PageInv, SignalInv
    <2> QED BY <2>1, <2>2
  <1>4. ShownInv'
    <2>1. PICK a, d : a = shown.aggregated /\ d = shown.details
      OBVIOUS
    <2>2. Aggregated(shown.aggregated)' <=> Aggregated(a)'
      BY <2>1 DEF Aggregated
    <2>3. Performed(shown.details)' <=> Performed(d)'
      BY <2>1 DEF Performed
    <2> QED BY <1>1, <2>1, <2>2, <2>3 DEF PageInv, ShownInv
  <1> QED BY <1>2, <1>3, <1>4 DEF PageInv

LEMMA PageUser ==
  ASSUME SessionInv, PageInv, User
  PROVE  PageInv'
  <1>0. WidgetInv /\ SessionTypes /\ BusyInv
    BY DEF SessionInv
  <1>1. ASSUME page = "start", ~ busy, Widget, UNCHANGED <<sessionVars, changes>>
        PROVE  PageInv'
    <2>1. TouchInv'
      BY <1>0, <1>1, TouchStep DEF WidgetInv, PageInv
    <2>2. ~ worker' /\ signal' = <<>> /\ page' = "start"
      BY <1>0, <1>1 DEF sessionVars, BusyInv
    <2> QED BY <2>1, <2>2 DEF PageInv, RequestInv, SignalInv, ShownInv
  <1>2. ASSUME page = "start", ~ busy, SetClassificationRequestState
        PROVE  PageInv'
    <2>1. ~ worker /\ signal = <<>>
      BY <1>0, <1>2 DEF BusyInv
    <2>2. UNCHANGED <<files, touched, images, page, signal>>
      BY <1>2 DEF SetClassificationRequestState, widgetVars, diskVars, imageVars
    <2>3. TouchInv'
      BY <2>2 DEF PageInv, TouchInv
    <2>4. SignalInv' /\ ShownInv'
      BY <1>2, <2>1, <2>2 DEF SignalInv, ShownInv
    <2>5. CASE ~ worker'
      BY <1>2, <2>1, <2>2, <2>3, <2>4, <2>5 DEF PageInv, RequestInv
    <2>6. CASE worker'
      <3>1. /\ request' = [images |-> SelectedImages, platforms |-> SelectedPlatforms, aggregate |-> aggregate]
            /\ SelectedPlatforms # {} /\ SelectedImages # <<>>
        BY <1>2, <2>1, <2>6 DEF SetClassificationRequestState
      <3>2. /\ DOMAIN SelectedImages = {images[i].path : i \in DOMAIN images}
            /\ \A i \in DOMAIN images : SelectedImages[images[i].path] = images[i].picture
        BY <1>0, ImagesSelected DEF WidgetInv
      <3>3. DOMAIN SelectedImages # {}
        <4> SUFFICES ASSUME DOMAIN SelectedImages = {} PROVE FALSE
          OBVIOUS
        <4>1. SelectedImages = [p \in {} |-> p]
          BY DEF SelectedImages
        <4>2. <<>> = [p \in {} |-> p]
          OBVIOUS
        <4> QED BY <3>1, <4>1, <4>2
      <3>4. \A i \in DOMAIN images : images[i].path \in Paths /\ images[i].picture \in Pictures
        BY <1>0, ImageFacts DEF WidgetInv, Image
      <3>5. \A p \in DOMAIN SelectedImages : p \in Paths /\ SelectedImages[p] \in Pictures
        BY <3>2, <3>4
      <3>6. \A p \in DOMAIN SelectedImages : p \notin touched => files[p] = SelectedImages[p]
        BY <3>2 DEF PageInv, TouchInv
      <3> HIDE DEF SelectedImages, SelectedPlatforms
      <3>7. request'.images = SelectedImages /\ request'.platforms = SelectedPlatforms
        BY <3>1
      <3>8. RequestInv'
        BY <2>2, <3>1, <3>3, <3>5, <3>6, <3>7 DEF RequestInv
      <3> QED BY <2>3, <2>4, <3>8 DEF PageInv
    <2> QED BY <2>5, <2>6
  <1>3. ASSUME ProcessReturnQPushButton PROVE PageInv'
    <2>1. /\ UNCHANGED <<files, touched, images, request, worker, signal>>
          /\ page = "result" /\ page' = "start"
      BY <1>3 DEF ProcessReturnQPushButton, widgetVars, diskVars, imageVars
    <2>2. ~ worker /\ signal = <<>>
      BY <1>0, <2>1 DEF BusyInv
    <2> QED BY <2>1, <2>2 DEF PageInv, TouchInv, RequestInv, SignalInv, ShownInv
  <1> QED BY <1>1, <1>2, <1>3 DEF User

(* A file that changes is touched. *)
LEMMA PageDisk ==
  ASSUME SessionInv, PageInv, Disk
  PROVE  PageInv'
  <1>1. PICK p \in Paths : FileChanges(p)
    BY DEF Disk
  <1>2. /\ UNCHANGED <<images, hosts, page, request, worker, signal, shown>>
        /\ touched' = touched \cup {p}
    BY <1>1 DEF FileChanges, imageVars, Disk, sessionVars
  <1>3. \A q \in Paths : q \notin touched' => files'[q] = files[q]
    BY <1>1, <1>2 DEF FileChanges, SessionInv, WidgetInv, WidgetTypes
  <1>4. \A i \in DOMAIN images : images[i].path \in Paths
    BY ImageFacts DEF SessionInv, WidgetInv, Image
  <1>5. TouchInv'
    BY <1>2, <1>3, <1>4 DEF PageInv, TouchInv
  <1>6. RequestInv'
    BY <1>2, <1>3 DEF PageInv, RequestInv
  <1>7. /\ RequestedPaths' = RequestedPaths /\ ImageResults' = ImageResults
        /\ \A list : Aggregated(list)' <=> Aggregated(list)
        /\ \A details : Performed(details)' <=> Performed(details)
    BY <1>2, SameResults
  <1>8. SignalInv'
    <2>1. PICK a, d : a = signal[1].aggregated /\ d = signal[1].performance
      OBVIOUS
    <2>2. Aggregated(signal[1].aggregated)' <=> Aggregated(a)'
      BY <1>2, <2>1 DEF Aggregated
    <2>3. Performed(signal[1].performance)' <=> Performed(d)'
      BY <1>2, <2>1 DEF Performed
    <2> QED BY <1>2, <1>7, <2>1, <2>2, <2>3 DEF PageInv, SignalInv
  <1>9. ShownInv'
    <2>1. PICK a, d : a = shown.aggregated /\ d = shown.details
      OBVIOUS
    <2>2. Aggregated(shown.aggregated)' <=> Aggregated(a)'
      BY <1>2, <2>1 DEF Aggregated
    <2>3. Performed(shown.details)' <=> Performed(d)'
      BY <1>2, <2>1 DEF Performed
    <2> QED BY <1>2, <1>7, <2>1, <2>2, <2>3 DEF PageInv, ShownInv
  <1> QED BY <1>5, <1>6, <1>8, <1>9 DEF PageInv

(* The worker hands over what it has computed for the request. *)
LEMMA PageWorker ==
  ASSUME SessionInv, PageInv, Worker
  PROVE  PageInv'
  <1>0. worker /\ page = "start" /\ signal = <<>>
    BY DEF SessionInv, BusyInv, Worker, Update, UpdateCutsTooMuch, UpdateHasNoPlatform, UpdateFails
  <1>1. UNCHANGED <<files, touched, images, page, request, shown>>
    BY DEF Worker, Update, UpdateCutsTooMuch, UpdateHasNoPlatform, UpdateFails, widgetVars, diskVars, imageVars
  <1>2. TouchInv' /\ ShownInv'
    BY <1>0, <1>1 DEF PageInv, TouchInv, ShownInv
  <1>3. RequestInv'
    BY <1>0, <1>1 DEF PageInv, RequestInv
  <1>4. CASE Update
    <2>1. PICK sizes \in BatchSizes(AvailableHosts, Len(RequestedPaths)),
               times \in [DOMAIN AvailableHosts -> Times],
               aggregated \in IF request.aggregate THEN AggregateResults(ImageResults) ELSE {<<>>} :
            \E distributions \in Distributions(AvailableHosts, sizes) :
              signal' = <<[ok |-> TRUE, results |-> ImageResults, aggregated |-> aggregated,
                           performance |-> CalculatePerformance(AvailableHosts, TimesTaken(sizes, times),
                                                                distributions, sizes)]>>
      BY <1>4 DEF Update
    <2>2. PICK distributions \in Distributions(AvailableHosts, sizes) :
              signal' = <<[ok |-> TRUE, results |-> ImageResults, aggregated |-> aggregated,
                           performance |-> CalculatePerformance(AvailableHosts, TimesTaken(sizes, times),
                                                                distributions, sizes)]>>
      BY <2>1
    <2>3. PICK d : d = CalculatePerformance(AvailableHosts, TimesTaken(sizes, times), distributions, sizes)
      OBVIOUS
    <2>4. signal'[1].results = ImageResults /\ signal'[1].aggregated = aggregated /\ signal'[1].performance = d
      BY <2>2, <2>3
    <2>5. Performed(d)
      BY <2>2, <2>3 DEF Performed
    <2>6. Aggregated(aggregated)
      BY <1>4 DEF Aggregated, Update
    <2>7. UNCHANGED <<request, hosts>>
      BY <1>4 DEF Update
    <2>8. ImageResults' = ImageResults /\ Aggregated(aggregated)' /\ Performed(d)'
      BY <2>5, <2>6, <2>7, SameResults
    <2>9. Aggregated(signal[1].aggregated)' /\ Performed(signal[1].performance)'
      BY <2>4, <2>8 DEF Aggregated, Performed
    <2>10. SignalInv'
      BY <2>4, <2>8, <2>9 DEF SignalInv
    <2> QED BY <1>2, <1>3, <2>10 DEF PageInv
  <1>5. CASE UpdateCutsTooMuch \/ UpdateHasNoPlatform
    <2>1. signal' = <<>>
      BY <1>0, <1>5 DEF UpdateCutsTooMuch, UpdateHasNoPlatform
    <2> QED BY <1>2, <1>3, <2>1 DEF PageInv, SignalInv
  <1>6. ASSUME NEW kind, UpdateFails(kind) PROVE PageInv'
    <2>1. ~ signal'[1].ok
      BY <1>6 DEF UpdateFails
    <2> QED BY <1>2, <1>3, <2>1 DEF PageInv, SignalInv
  <1> QED BY <1>4, <1>5, <1>6 DEF Worker

(* The results are shown as they were received. *)
LEMMA PageEvents ==
  ASSUME SessionInv, PageInv, EventLoop
  PROVE  PageInv'
  <1>0. signal # <<>> /\ ~ worker /\ page = "start"
    BY DEF SessionInv, BusyInv, EventLoop, ProcessClassificationResult, ProcessFailure, UpdatePlatformsCrashes
  <1>1. UNCHANGED <<files, touched, images, request, hosts, worker>>
    BY DEF EventLoop, ProcessClassificationResult, ProcessFailure, UpdatePlatformsCrashes, UpdatePlatforms,
           widgetVars, diskVars, imageVars
  <1>2. TouchInv'
    BY <1>1 DEF PageInv, TouchInv
  <1>3. CASE ProcessClassificationResult
    <2>1. PICK a, d : a = signal[1].aggregated /\ d = signal[1].performance
      OBVIOUS
    <2>2. /\ signal[1].results = ImageResults /\ Aggregated(a) /\ Performed(d)
      <3>1. signal[1].ok
        BY <1>3 DEF ProcessClassificationResult
      <3>2. /\ signal[1].results = ImageResults /\ Aggregated(signal[1].aggregated)
            /\ Performed(signal[1].performance)
        BY <1>0, <3>1 DEF PageInv, SignalInv
      <3> QED BY <2>1, <3>2
    <2>3. /\ RequestedPaths' = RequestedPaths /\ ImageResults' = ImageResults
          /\ Aggregated(a)' /\ Performed(d)'
      BY <1>1, <2>2, SameResults
    <2>4. /\ shown' = DisplayResults(signal[1]) /\ page' = "result" /\ signal' = <<>>
      BY <1>3 DEF ProcessClassificationResult
    <2>5. /\ shown'.aggregated = a /\ shown'.details = d
          /\ shown'.entries = [i \in DOMAIN signal[1].results |->
               [path |-> RequestedPaths[i], picture |-> files[RequestedPaths[i]],
                results |-> IF signal[1].aggregated = <<>> THEN signal[1].results[i] ELSE <<>>]]
      BY <2>1, <2>4 DEF DisplayResults
    <2>6. DOMAIN ImageResults = DOMAIN RequestedPaths
      BY DEF ImageResults
    <2>7. /\ DOMAIN shown'.entries = DOMAIN RequestedPaths
          /\ \A i \in DOMAIN RequestedPaths :
               /\ shown'.entries[i].path = RequestedPaths[i]
               /\ shown'.entries[i].picture = files[RequestedPaths[i]]
               /\ shown'.entries[i].results = IF a = <<>> THEN ImageResults[i] ELSE <<>>
      BY <2>1, <2>2, <2>5, <2>6
    <2>8. DOMAIN request.images \subseteq Paths
      BY <1>0 DEF PageInv, RequestInv
    <2>9. \A i \in DOMAIN RequestedPaths : RequestedPaths[i] \in DOMAIN request.images
      BY <2>8, RequestedPathsType
    <2>10. \A i \in DOMAIN RequestedPaths : RequestedPaths[i] \notin touched =>
             files[RequestedPaths[i]] = request.images[RequestedPaths[i]]
      BY <1>0, <2>9 DEF PageInv, RequestInv
    <2>11. Aggregated(shown.aggregated)' /\ Performed(shown.details)'
      BY <2>3, <2>5 DEF Aggregated, Performed
    <2>12. ShownInv'
      BY <1>1, <2>3, <2>5, <2>7, <2>10, <2>11 DEF ShownInv
    <2>13. RequestInv'
      BY <1>0, <1>1, <2>4 DEF PageInv, RequestInv
    <2> QED BY <1>2, <2>4, <2>12, <2>13 DEF PageInv, SignalInv
  <1>4. CASE ProcessFailure
    <2>1. signal' = <<>> /\ page' = page
      BY <1>4 DEF ProcessFailure
    <2> QED BY <1>0, <1>1, <1>2, <2>1 DEF PageInv, RequestInv, SignalInv, ShownInv
  <1>5. CASE UpdatePlatformsCrashes
    <2>1. signal' = signal /\ page' = page /\ shown' = shown
      BY <1>5 DEF UpdatePlatformsCrashes
    <2> QED BY <1>0, <1>1, <1>2, <2>1, PageKept
  <1> QED BY <1>3, <1>4, <1>5 DEF EventLoop

LEMMA AlwaysPageInv == SessionSpec => [](SessionInv /\ PageInv)
  <1>1. SessionInv /\ PageInv /\ UNCHANGED allVars => PageInv'
    <2> SUFFICES ASSUME SessionInv, PageInv, UNCHANGED allVars PROVE PageInv'
      OBVIOUS
    <2>1. UNCHANGED <<files, touched, images, page, hosts, request, worker, signal, shown>>
      BY DEF allVars, sessionVars, widgetVars, diskVars, imageVars
    <2>2. TouchInv'
      BY <2>1 DEF PageInv, TouchInv
    <2> QED BY <2>1, <2>2, PageKept
  <1>2. SessionInv /\ PageInv /\ [SessionNext]_allVars => PageInv'
    BY <1>1, PageUser, PageDisk, PageWorker, PageEvents DEF SessionNext, Ended
  <1> QED BY <1>2, PageStarts, AlwaysSessionInv, PTL DEF SessionSpec
-----------------------------------------------------------------------------
(* Labels of one image for all the labels of the aggregation.              *)

LEMMA RanksAreDistinct ==
  ASSUME NEW output \in Seq(Nat), ~ Ties(output), NEW j \in 1..Len(output), NEW k \in 1..Len(output),
         IndexOf(output, j) = IndexOf(output, k), j <= k
  PROVE  j = k
  <1> DEFINE i == IndexOf(output, j)
             v == SortOut(output, j)
  <1>1. /\ DOMAIN output = 1..Len(output) /\ Len(output) \in Nat
        /\ \A x \in DOMAIN output : output[x] \in Nat
    BY LenProperties, ElementOfSeq
  <1>2. /\ i \in DOMAIN output /\ output[i] = v /\ v = SortOut(output, k)
    BY <1>1, IndexOfProperties
  <1>3. HasRank(output, v, j) /\ HasRank(output, v, k)
    BY <1>2, SortOutProperties
  <1> HIDE DEF v, i
  <1>4. v \in Nat
    BY <1>1, <1>2
  <1>5. NotSmaller(output, v) = Larger(output, v) \cup {i}
    <2>1. \A x \in DOMAIN output : output[x] = v => x = i
      BY <1>2 DEF Ties
    <2>2. \A x \in DOMAIN output : output[x] >= v <=> output[x] > v \/ output[x] = v
      BY <1>1, <1>4
    <2> QED BY <1>2, <2>1, <2>2 DEF NotSmaller, Larger
  <1>6. Cardinality(NotSmaller(output, v)) <= Cardinality(Larger(output, v)) + 1
    <2>1. IsFiniteSet(Larger(output, v)) /\ Cardinality(Larger(output, v)) \in Nat
      BY RanksAreNumbers
    <2>2. Cardinality(Larger(output, v) \cup {i}) = IF i \in Larger(output, v) THEN Cardinality(Larger(output, v))
                                                    ELSE Cardinality(Larger(output, v)) + 1
      BY <2>1, FS_AddElement
    <2> QED BY <1>5, <2>1, <2>2
  <1>7. Cardinality(Larger(output, v)) < j /\ k <= Cardinality(NotSmaller(output, v))
    BY <1>3 DEF HasRank
  <1> QED BY <1>6, <1>7, RanksAreNumbers

(* An image without ties and repeated labels has TopX of them.             *)
LEMMA LabelsOfOne ==
  ASSUME NEW output \in Seq(Nat), ~ Ties(output), ~ Repeats(output), TopX <= Len(output),
         NEW S, IsFiniteSet(S), \A k \in DOMAIN GetResult(output) : GetResult(output)[k].label \in S
  PROVE  TopX <= Cardinality(S)
  <1>1. /\ DOMAIN output = 1..Len(output) /\ Len(output) \in Nat /\ TopX \in Nat
    BY LenProperties, ResultsAssumption DEF ResultsAssumption
  <1> DEFINE f == [k \in 1..TopX |-> Labels[IndexOf(output, k)]]
  <1>2. \A k \in 1..TopX : k \in 1..Len(output) /\ k <= TopX
    BY <1>1
  <1>3. f \in [1..TopX -> S]
    <2>1. \A k \in 1..TopX : GetResult(output)[k] = Entry(Labels[IndexOf(output, k)], SortOut(output, k))
                             /\ k \in DOMAIN GetResult(output)
      BY <1>2, ResultDomain
    <2>2. \A k \in 1..TopX : GetResult(output)[k].label = Labels[IndexOf(output, k)]
      BY <2>1, EntryFields
    <2> QED BY <2>1, <2>2
  <1>4. ASSUME NEW j \in 1..TopX, NEW k \in 1..TopX, f[j] = f[k]
        PROVE  j = k
    <2>1. /\ IndexOf(output, j) \in DOMAIN output /\ IsTop(output, IndexOf(output, j))
          /\ IndexOf(output, k) \in DOMAIN output /\ IsTop(output, IndexOf(output, k))
      BY <1>1, <1>2, IndexOfProperties, TopOfRank
    <2>2. IndexOf(output, j) = IndexOf(output, k)
      BY <1>4, <2>1 DEF Repeats
    <2>3. j <= k \/ k <= j
      OBVIOUS
    <2> QED BY <1>2, <2>2, <2>3, RanksAreDistinct
  <1> HIDE DEF f
  <1>5. f \in Injection(1..TopX, S)
    BY <1>3, <1>4 DEF Injection, IsInjective
  <1>6. Cardinality(1..TopX) <= Cardinality(S)
    BY <1>5, FS_Injection
  <1>7. Cardinality(1..TopX) = TopX
    <2>1. Cardinality(1..TopX) = IF 1 > TopX THEN 0 ELSE TopX - 1 + 1
      BY <1>1, FS_Interval
    <2> QED BY <1>1, <2>1
  <1> QED BY <1>6, <1>7

LEMMA ResultsOfImages ==
  ASSUME RequestInv, worker \/ signal # <<>> \/ page = "result"
  PROVE  /\ \A i \in DOMAIN RequestedPaths :
              /\ RequestedPaths[i] \in DOMAIN request.images
              /\ request.images[RequestedPaths[i]] \in Pictures
              /\ Outputs[request.images[RequestedPaths[i]]] \in Seq(Nat)
              /\ Len(Outputs[request.images[RequestedPaths[i]]]) <= Len(Labels)
              /\ ImageResults[i] = GetResult(Outputs[request.images[RequestedPaths[i]]])
         /\ DOMAIN ImageResults = DOMAIN RequestedPaths
  <1>1. \A i \in DOMAIN RequestedPaths :
           RequestedPaths[i] \in DOMAIN request.images /\ request.images[RequestedPaths[i]] \in Pictures
    BY RequestedPathsType DEF RequestInv
  <1>2. \A p \in Pictures : Outputs[p] \in Seq(Nat) /\ Len(Outputs[p]) <= Len(Labels)
    BY SessionAssumption, ResultsAssumption DEF SessionAssumption, ResultsAssumption
  <1> QED BY <1>1, <1>2 DEF ImageResults

(* There are finitely many labels to aggregate. *)
LEMMA LabelsAreFinite ==
  ASSUME RequestInv, worker \/ signal # <<>> \/ page = "result"
  PROVE  IsFiniteSet(LabelsIn(ImageResults))
  <1> DEFINE L == {Labels[i] : i \in 1..Len(Labels)}
             f == [i \in 1..Len(Labels) |-> Labels[i]]
  <1>1. Len(Labels) \in Nat
    BY ResultsAssumption, LenProperties DEF ResultsAssumption
  <1>2. IsFiniteSet(L)
    <2>1. f \in Surjection(1..Len(Labels), L)
      BY DEF Surjection
    <2> QED BY <1>1, <2>1, FS_Interval, FS_Surjection
  <1>3. LabelsIn(ImageResults) \subseteq L
    <2> SUFFICES ASSUME NEW i \in DOMAIN ImageResults, NEW k \in DOMAIN ImageResults[i]
                 PROVE  ImageResults[i][k].label \in L
      BY DEF LabelsIn, ToSet
    <2> DEFINE output == Outputs[request.images[RequestedPaths[i]]]
    <2>1. output \in Seq(Nat) /\ Len(output) <= Len(Labels) /\ ImageResults[i] = GetResult(output)
      BY ResultsOfImages
    <2> HIDE DEF output
    <2>2. k \in 1..Len(output) /\ GetResult(output)[k].label = Labels[IndexOf(output, k)]
      <3>1. /\ DOMAIN GetResult(output) = {j \in 1..Len(output) : j <= TopX}
            /\ \A j \in DOMAIN GetResult(output) :
                 GetResult(output)[j] = Entry(Labels[IndexOf(output, j)], SortOut(output, j))
        BY <2>1, ResultDomain
      <3>2. k \in DOMAIN GetResult(output)
        BY <2>1
      <3>3. GetResult(output)[k] = Entry(Labels[IndexOf(output, k)], SortOut(output, k))
        BY <3>1, <3>2
      <3> QED BY <3>1, <3>2, <3>3, EntryFields
    <2>3. IndexOf(output, k) \in 1..Len(output)
      BY <2>1, <2>2, IndexOfProperties
    <2>4. IndexOf(output, k) \in 1..Len(Labels)
      BY <1>1, <2>1, <2>3, LenProperties
    <2> QED BY <2>1, <2>2, <2>4
  <1> HIDE DEF L
  <1> QED BY <1>2, <1>3, FS_Subset

LEMMA CutsTooMuch ==
  ASSUME OutputsAreLong, RequestInv, worker, ~ AggregateIsDefined(ImageResults),
         NEW p \in DOMAIN request.images
  PROVE  Ties(Outputs[request.images[p]]) \/ Repeats(Outputs[request.images[p]])
  <1> DEFINE output == Outputs[request.images[p]]
             S == LabelsIn(ImageResults)
  <1>1. PICK i \in DOMAIN RequestedPaths : RequestedPaths[i] = p
    BY RequestedPathsType DEF RequestInv
  <1>2. output \in Seq(Nat) /\ TopX <= Len(output)
    BY <1>1, ResultsOfImages DEF OutputsAreLong
  <1>3. \A k \in DOMAIN GetResult(output) : GetResult(output)[k].label \in S
    <2>1. i \in DOMAIN ImageResults /\ ImageResults[i] = GetResult(output)
      BY <1>1, ResultsOfImages
    <2> QED BY <2>1 DEF LabelsIn, ToSet
  <1> HIDE DEF output
  <1>4. IsFiniteSet(S)
    BY LabelsAreFinite
  <1>5. ~ (TopX <= Cardinality(S))
    <2>1. Cardinality(S) \in Nat /\ TopX \in Nat
      BY <1>4, FS_CardinalityType, ResultsAssumption DEF ResultsAssumption
    <2> QED BY <2>1 DEF AggregateIsDefined
  <1> HIDE DEF S
  <1>6. Ties(output) \/ Repeats(output)
    BY <1>2, <1>3, <1>4, <1>5, LabelsOfOne
  <1> QED BY <1>6 DEF output

LEMMA ConcatElements ==
  ASSUME NEW S, NEW s \in Seq(S), NEW t \in Seq(S)
  PROVE  ToSet(s \o t) = ToSet(s) \cup ToSet(t)
  <1>1. Range(s \o t) = Range(s) \cup Range(t)
    BY RangeConcatenation
  <1> QED BY <1>1 DEF Range, ToSet

(* No host is available only if none has a selected platform. *)
LEMMA NoneAvailable ==
  ASSUME SessionTypes, AvailableHosts = <<>>, NEW p \in request.platforms
  PROVE  p \notin ToSet(Offered(hosts))
  <1> DEFINE one(h) == IF Selected(h) = {} THEN <<>> ELSE <<h>>
             lists == [i \in DOMAIN hosts |-> one(hosts[i])]
             offers == [i \in DOMAIN hosts |-> PlatformsOf[hosts[i]]]
  <1>0. AvailableHosts = FlattenSeq(lists) /\ Offered(hosts) = FlattenSeq(offers)
    BY DEF AvailableHosts, Offered
  <1>1. \A h \in {"fpga", "local"} : one(h) \in Seq({"fpga", "local"}) /\ (Selected(h) # {} => one(h) # <<>>)
    <2> SUFFICES ASSUME NEW h \in {"fpga", "local"}
                 PROVE  one(h) \in Seq({"fpga", "local"}) /\ (Selected(h) # {} => one(h) # <<>>)
      OBVIOUS
    <2>1. <<h>> \in Seq({"fpga", "local"}) /\ <<>> \in Seq({"fpga", "local"}) /\ <<h>> # <<>>
      OBVIOUS
    <2>2. CASE Selected(h) = {}
      BY <2>1, <2>2
    <2>3. CASE Selected(h) # {}
      BY <2>1, <2>3
    <2> QED BY <2>2, <2>3
  <1>2. \A h \in {"fpga", "local"} : PlatformsOf[h] \in Seq(AllPlatforms)
    <2> SUFFICES ASSUME NEW h \in {"fpga", "local"} PROVE PlatformsOf[h] \in Seq(AllPlatforms)
      OBVIOUS
    <2>1. PlatformsOf[h] \in Seq(ToSet(PlatformsOf[h])) /\ ToSet(PlatformsOf[h]) \subseteq AllPlatforms
      BY SessionAssumption DEF SessionAssumption, AllPlatforms
    <2> QED BY <2>1, SeqMonotonic
  <1>3. CASE hosts = <<"fpga", "local">>
    <2>1. /\ Len(lists) = 2 /\ lists[1] = one("fpga") /\ lists[2] = one("local")
          /\ Len(offers) = 2 /\ offers[1] = PlatformsOf["fpga"] /\ offers[2] = PlatformsOf["local"]
      BY <1>3
    <2> HIDE DEF lists, offers
    <2>2. /\ AvailableHosts = one("fpga") \o one("local")
          /\ Offered(hosts) = PlatformsOf["fpga"] \o PlatformsOf["local"]
      BY <1>0, <2>1, FlattenTwo
    <2> HIDE DEF one
    <2>3. one("fpga") = <<>> /\ one("local") = <<>>
      <3>1. one("fpga") \in Seq({"fpga", "local"}) /\ one("local") \in Seq({"fpga", "local"})
        BY <1>1
      <3>2. one("fpga") \o one("local") = <<>>
        BY <2>2
      <3> QED BY <3>1, <3>2, ConcatEqualIffEmpty
    <2>4. Selected("fpga") = {} /\ Selected("local") = {}
      BY <1>1, <2>3
    <2>5. p \notin ToSet(PlatformsOf["fpga"]) /\ p \notin ToSet(PlatformsOf["local"])
      BY <2>4 DEF Selected
    <2>6. \A q \in ToSet(PlatformsOf["fpga"] \o PlatformsOf["local"]) :
             q \in ToSet(PlatformsOf["fpga"]) \/ q \in ToSet(PlatformsOf["local"])
      <3>1. PlatformsOf["fpga"] \in Seq(AllPlatforms) /\ PlatformsOf["local"] \in Seq(AllPlatforms)
        BY <1>2
      <3> QED BY <3>1, ConcatElements
    <2> QED BY <2>2, <2>5, <2>6
  <1>4. CASE hosts = <<"local">>
    <2>1. Len(lists) = 1 /\ lists[1] = one("local") /\ Len(offers) = 1 /\ offers[1] = PlatformsOf["local"]
      BY <1>4
    <2> HIDE DEF lists, offers
    <2>2. AvailableHosts = one("local") /\ Offered(hosts) = PlatformsOf["local"]
      BY <1>0, <2>1, FlattenOne
    <2> HIDE DEF one
    <2>3. Selected("local") = {}
      BY <1>1, <2>2
    <2> QED BY <2>2, <2>3 DEF Selected
  <1> QED BY <1>3, <1>4 DEF SessionTypes

(* The program stops where it crashes; and it crashes where the labels or  *)
(* the platforms run out only for the reason that is named.                *)
THEOREM CrashesAreRare ==
  ASSUME OutputsAreLong
  PROVE  SessionSpec => []CrashesAreExplained
  <1>1. SessionInit => CrashesAreExplained
    BY DEF SessionInit, CrashesAreExplained
  <1>2. ASSUME SessionInv, PageInv, CrashesAreExplained, [SessionNext]_allVars
        PROVE  CrashesAreExplained'
    <2>1. CASE UpdateCutsTooMuch
      <3>1. \A p \in DOMAIN request.images :
              Ties(Outputs[request.images[p]]) \/ Repeats(Outputs[request.images[p]])
        BY <1>2, <2>1, CutsTooMuch DEF UpdateCutsTooMuch, PageInv
      <3>2. request' = request /\ crashed' = "labels"
        BY <2>1 DEF UpdateCutsTooMuch
      <3> QED BY <3>1, <3>2 DEF CrashesAreExplained
    <2>2. CASE UpdateHasNoPlatform
      <3>1. worker /\ AvailableHosts = <<>> /\ crashed' = "platforms" /\ description' = description
        BY <2>2 DEF UpdateHasNoPlatform, widgetVars, platformVars
      <3>2. request.platforms # {} /\ SessionTypes /\ RequestIsTheSelection
        BY <1>2, <3>1 DEF SessionInv, PageInv, RequestInv
      <3>3. ~ DistinctDescriptions
        BY <3>1, <3>2, NoneAvailable DEF RequestIsTheSelection
      <3> QED BY <3>1, <3>3 DEF CrashesAreExplained, DistinctDescriptions
    <2>3. CASE UNCHANGED allVars
      <3>1. UNCHANGED <<crashed, request, description>>
        BY <2>3 DEF allVars, sessionVars, widgetVars, platformVars
      <3> QED BY <1>2, <3>1 DEF CrashesAreExplained, DistinctDescriptions
    <2>4. CASE crashed = "no" /\ ~ UpdateCutsTooMuch /\ ~ UpdateHasNoPlatform
               /\ (User \/ Disk \/ Worker \/ EventLoop)
      <3>1. crashed' = "no" \/ crashed' = "map"
        BY <2>4 DEF User, SetClassificationRequestState, ProcessReturnQPushButton, sessionVars, Disk,
                    Worker, Update, UpdateFails, EventLoop, ProcessClassificationResult,
                    ProcessFailure, UpdatePlatformsCrashes
      <3> QED BY <3>1 DEF CrashesAreExplained
    <2> QED BY <1>2, <2>1, <2>2, <2>3, <2>4 DEF SessionNext, Ended
  <1> QED BY <1>1, <1>2, AlwaysPageInv, PTL DEF SessionSpec
-----------------------------------------------------------------------------
(* The means.                                                              *)

LEMMA ExactDivision ==
  ASSUME NEW n \in Nat \ {0}, NEW m \in Nat
  PROVE  (n * m) \div n = m
  OBVIOUS

LEMMA NoRest ==
  ASSUME NEW n \in Nat \ {0}, NEW a \in Nat, a % n = 0
  PROVE  a \div n \in Nat /\ a = n * (a \div n)
  OBVIOUS

(* What the labels of an image add is what its outputs contribute. *)
LEMMA SumOfOne ==
  ASSUME NEW output \in Seq(Nat), ~ Ties(output), NEW label
  PROVE  /\ LabelSumOf(GetResult(output), label) = Contribution(output, label)
         /\ Contribution(output, label) \in Nat
  <1> DEFINE r == GetResult(output)
             n == Min({TopX, Len(output)})
             e == [k \in DOMAIN r |-> IF r[k].label = label THEN r[k].prob ELSE 0]
             S == {j \in DOMAIN output : Labels[j] = label /\ IsTop(output, j)}
             f == [j \in S |-> output[j]]
             A == {k \in 1..n : r[k].label = label}
             b == [k \in A |-> IndexOf(output, k)]
  <1>1. /\ DOMAIN output = 1..Len(output) /\ Len(output) \in Nat
        /\ \A x \in DOMAIN output : output[x] \in Nat
    BY LenProperties, ElementOfSeq
  <1>2. /\ DOMAIN r = 1..n /\ n \in Nat /\ n <= TopX /\ n <= Len(output)
        /\ \A k \in DOMAIN r : r[k] = Entry(Labels[IndexOf(output, k)], SortOut(output, k))
    BY ResultDomain DEF GetResult
  <1>3. \A k \in 1..Len(output) : k <= TopX => k \in DOMAIN r
    BY ResultDomain
  <1> HIDE DEF r, n
  <1>4. \A k \in 1..n : /\ k \in 1..Len(output) /\ k <= TopX
                        /\ r[k].label = Labels[IndexOf(output, k)] /\ r[k].prob = SortOut(output, k)
                        /\ IndexOf(output, k) \in DOMAIN output /\ IsTop(output, IndexOf(output, k))
                        /\ output[IndexOf(output, k)] = SortOut(output, k) /\ SortOut(output, k) \in Nat
    <2> SUFFICES ASSUME NEW k \in 1..n
                 PROVE  /\ k \in 1..Len(output) /\ k <= TopX
                        /\ r[k].label = Labels[IndexOf(output, k)] /\ r[k].prob = SortOut(output, k)
                        /\ IndexOf(output, k) \in DOMAIN output /\ IsTop(output, IndexOf(output, k))
                        /\ output[IndexOf(output, k)] = SortOut(output, k) /\ SortOut(output, k) \in Nat
      OBVIOUS
    <2>1. k \in 1..Len(output) /\ k <= TopX
      BY <1>1, <1>2, ResultsAssumption DEF ResultsAssumption
    <2>2. r[k].label = Labels[IndexOf(output, k)] /\ r[k].prob = SortOut(output, k)
      BY <1>2, EntryFields
    <2>3. /\ IndexOf(output, k) \in DOMAIN output /\ SortOut(output, k) \in Nat
          /\ output[IndexOf(output, k)] = SortOut(output, k)
      BY <1>1, <2>1, IndexOfProperties, SortOutProperties
    <2> QED BY <2>1, <2>2, <2>3, TopOfRank
  <1>5. /\ e \in [1..n -> Nat] /\ f \in [S -> Nat] /\ b \in [A -> S]
        /\ A \in SUBSET 1..n /\ \A k \in A : e[k] = f[b[k]]
        /\ \A k \in 1..n \ A : e[k] = 0
    BY <1>1, <1>2, <1>4
  <1>6. \A j, k \in A : b[j] = b[k] => j = k
    <2> SUFFICES ASSUME NEW j \in A, NEW k \in A, b[j] = b[k] PROVE j = k
      OBVIOUS
    <2>1. j \in 1..Len(output) /\ k \in 1..Len(output) /\ IndexOf(output, j) = IndexOf(output, k)
      BY <1>4
    <2>2. j <= k \/ k <= j
      BY <2>1
    <2> QED BY <2>1, <2>2, RanksAreDistinct
  <1>7. \A j \in S : \E k \in A : b[k] = j
    <2> SUFFICES ASSUME NEW j \in S PROVE \E k \in A : b[k] = j
      OBVIOUS
    <2>1. PICK k \in 1..Len(output) : k <= TopX /\ IndexOf(output, k) = j
      BY RankOfTop
    <2>2. k \in A
      BY <1>2, <1>3, <1>4, <2>1
    <2> QED BY <2>1, <2>2
  <1>8. IsFiniteSet(1..n) /\ IsFiniteSet(S)
    <2>1. IsFiniteSet(1..n) /\ IsFiniteSet(1..Len(output)) /\ S \in SUBSET 1..Len(output)
      BY <1>1, <1>2, FS_Interval
    <2> QED BY <2>1, FS_Subset
  <1>9. LabelSumOf(r, label) = FoldLeft(+, 0, e)
    BY DEF LabelSumOf
  <1>10. Contribution(output, label) = SumFunction(f)
    BY DEF Contribution
  <1> HIDE DEF e, S, f, A, b
  <1>11. SumFunction(e) = SumFunction(f) /\ SumFunction(f) \in Nat
    <2>1. SumFunction(e) = SumFunction(f)
      <3>1. Renames(b, A, e, 1..n, f, S)
        BY <1>5, <1>6, <1>7 DEF Renames
      <3> QED BY <1>8, <3>1, SumRenamed
    <2>2. f \in [S -> Nat] /\ IsFiniteSet(S)
      BY <1>5, <1>8
    <2>3. SumFunction(f) \in Nat
      BY <2>2, SumType
    <2> QED BY <2>1, <2>3
  <1>12. e \in Seq(Nat)
    BY <1>2, <1>5, SeqDef
  <1>13. FoldLeft(+, 0, e) = SumFunction(e)
    BY <1>12, FoldLeftIsSumFunction
  <1>14. LabelSumOf(r, label) = SumFunction(e)
    BY <1>9, <1>13
  <1> QED BY <1>10, <1>11, <1>14 DEF r

(* If a number divides the outputs, it divides what they contribute. *)
Divides(n, output) == \A i \in DOMAIN output : output[i] % n = 0

LEMMA DividesContribution ==
  ASSUME NEW output \in Seq(Nat), NEW n \in Nat \ {0}, Divides(n, output), NEW label
  PROVE  \E m \in Nat : Contribution(output, label) = n * m
  <1> DEFINE S == {j \in DOMAIN output : Labels[j] = label /\ IsTop(output, j)}
             f == [j \in S |-> output[j]]
             e == [j \in S |-> output[j] \div n]
  <1>1. /\ DOMAIN output = 1..Len(output) /\ Len(output) \in Nat
        /\ \A x \in DOMAIN output : output[x] \in Nat
    BY LenProperties, ElementOfSeq
  <1>2. \A j \in DOMAIN output : output[j] \div n \in Nat /\ output[j] = n * (output[j] \div n)
    BY <1>1, NoRest DEF Divides
  <1>3. f \in [S -> Nat] /\ e \in [S -> Nat] /\ \A j \in S : f[j] = n * e[j]
    BY <1>1, <1>2
  <1>4. IsFiniteSet(S)
    <2>1. IsFiniteSet(1..Len(output)) /\ S \in SUBSET 1..Len(output)
      BY <1>1, FS_Interval
    <2> QED BY <2>1, FS_Subset
  <1>5. Contribution(output, label) = SumFunction(f)
    BY DEF Contribution
  <1> HIDE DEF S, f, e
  <1>6. SumFunction(f) = n * SumFunction(e) /\ SumFunction(e) \in Nat
    <2>1. SumFunction(f) = n * SumFunction(e)
      <3>1. ScaledBy(f, e, n, S)
        BY <1>3 DEF ScaledBy
      <3> QED BY <1>4, <3>1, SumScaledBy
    <2>2. SumFunction(e) \in Nat
      BY <1>3, <1>4, SumType
    <2> QED BY <2>1, <2>2
  <1> QED BY <1>5, <1>6

(* The mean of a label, times the images, is what the images contribute.   *)
LEMMA MeanProperties ==
  ASSUME MeansAreExact, RequestInv, page = "result",
         \A p \in DOMAIN request.images : ~ Ties(Outputs[request.images[p]]), NEW label
  PROVE  /\ Mean(ImageResults, label) \in Nat
         /\ Mean(ImageResults, label) * Cardinality(DOMAIN request.images) =
              SumFunction([p \in DOMAIN request.images |-> Contribution(Outputs[request.images[p]], label)])
  <1> DEFINE D == DOMAIN request.images
             n == Cardinality(D)
             s == [i \in DOMAIN ImageResults |-> LabelSumOf(ImageResults[i], label)]
             f == [p \in D |-> Contribution(Outputs[request.images[p]], label)]
             e == [p \in D |-> f[p] \div n]
  <1>1. /\ D \subseteq Paths /\ D # {} /\ IsFiniteSet(D) /\ n \in Nat
        /\ \A p \in D : request.images[p] \in Pictures
        /\ RequestedPaths \in [1..n -> D]
        /\ \A a, b \in DOMAIN RequestedPaths : RequestedPaths[a] = RequestedPaths[b] => a = b
        /\ \A p \in D : \E i \in DOMAIN RequestedPaths : RequestedPaths[i] = p
    BY RequestedPathsType DEF RequestInv
  <1>2. n # 0 /\ n \in 1..Cardinality(Paths)
    <2>1. Cardinality(Paths) \in Nat /\ n <= Cardinality(Paths) /\ n # 0
      BY <1>1, StartWidgetAssumption, FS_Subset, FS_CardinalityType, FS_EmptySet DEF StartWidgetAssumption
    <2> QED BY <1>1, <2>1
  <1>3. \A p \in D : Outputs[request.images[p]] \in Seq(Nat)
    BY <1>1, SessionAssumption, ResultsAssumption DEF SessionAssumption, ResultsAssumption
  <1>4. \A p \in D : \A i \in DOMAIN Outputs[request.images[p]] : Outputs[request.images[p]][i] % n = 0
    BY <1>1, <1>2 DEF MeansAreExact
  <1>5. \A p \in D : f[p] \in Nat /\ e[p] \in Nat /\ f[p] = n * e[p]
    <2> SUFFICES ASSUME NEW p \in D PROVE f[p] \in Nat /\ e[p] \in Nat /\ f[p] = n * e[p]
      OBVIOUS
    <2>1. PICK m \in Nat : Contribution(Outputs[request.images[p]], label) = n * m
      <3> DEFINE output == Outputs[request.images[p]]
      <3>1. output \in Seq(Nat) /\ Divides(n, output)
        BY <1>3, <1>4 DEF Divides
      <3>2. n \in Nat \ {0}
        BY <1>1, <1>2
      <3> HIDE DEF output, n
      <3>3. \E m \in Nat : Contribution(output, label) = n * m
        BY <3>1, <3>2, DividesContribution
      <3> QED BY <3>3 DEF output
    <2>2. f[p] = n * m /\ e[p] = (n * m) \div n
      BY <2>1
    <2>3. (n * m) \div n = m /\ n * m \in Nat
      BY <1>1, <1>2, ExactDivision
    <2> QED BY <2>2, <2>3
  <1>6. /\ DOMAIN ImageResults = 1..n
        /\ \A i \in 1..n : /\ RequestedPaths[i] \in D
                           /\ ImageResults[i] = GetResult(Outputs[request.images[RequestedPaths[i]]])
    BY <1>1 DEF ImageResults
  <1>7. \A i \in 1..n : s[i] = f[RequestedPaths[i]] /\ s[i] \in Nat
    <2> SUFFICES ASSUME NEW i \in 1..n PROVE s[i] = f[RequestedPaths[i]] /\ s[i] \in Nat
      OBVIOUS
    <2>1. RequestedPaths[i] \in D /\ ~ Ties(Outputs[request.images[RequestedPaths[i]]])
      BY <1>6
    <2>2. s[i] = Contribution(Outputs[request.images[RequestedPaths[i]]], label) /\ s[i] \in Nat
      BY <1>3, <1>6, <2>1, SumOfOne
    <2> QED BY <2>1, <2>2
  <1>8. Mean(ImageResults, label) = FoldLeft(+, 0, s) \div Len(ImageResults)
    BY DEF Mean, LabelSum
  <1>9. ImageResults \in Seq(ToSet(ImageResults)) /\ Len(ImageResults) = n
    <2>1. ImageResults \in [1..n -> ToSet(ImageResults)]
      BY <1>6 DEF ToSet, ImageResults
    <2> QED BY <1>1, <2>1, SeqDef, LenProperties
  <1>10. /\ DOMAIN s = 1..n /\ s \in [1..n -> Nat] /\ f \in [D -> Nat] /\ e \in [D -> Nat]
         /\ \A p \in D : f[p] = n * e[p]
    BY <1>5, <1>6, <1>7
  <1> HIDE DEF s, f, e, D, n
  <1>11. s \in Seq(Nat)
    <2>1. n \in Nat /\ s \in [1..n -> Nat]
      BY <1>1, <1>10
    <2> QED BY <2>1, SeqDef
  <1>12. FoldLeft(+, 0, s) = SumFunction(s)
    BY <1>11, FoldLeftIsSumFunction
  <1> DEFINE total == FoldLeft(+, 0, s)
  <1>13. Mean(ImageResults, label) = total \div n /\ total = SumFunction(s)
    BY <1>8, <1>9, <1>12
  <1> HIDE DEF total
  <1>14. SumFunction(s) = SumFunction(f)
    <2>1. IsFiniteSet(1..n) /\ 1..n \in SUBSET 1..n /\ DOMAIN RequestedPaths = 1..n
      BY <1>1, FS_Interval
    <2>2. /\ s \in [1..n -> Nat] /\ f \in [D -> Nat] /\ IsFiniteSet(D)
          /\ RequestedPaths \in [1..n -> D] /\ \A i \in 1..n : s[i] = f[RequestedPaths[i]]
      BY <1>1, <1>7, <1>10
    <2>3. \A a, b \in 1..n : RequestedPaths[a] = RequestedPaths[b] => a = b
      BY <1>1, <2>1
    <2>4. \A p \in D : \E i \in 1..n : RequestedPaths[i] = p
      BY <1>1, <2>1
    <2>5. \A i \in (1..n) \ (1..n) : s[i] = 0
      OBVIOUS
    <2>6. Renames(RequestedPaths, 1..n, s, 1..n, f, D)
      BY <2>2, <2>3, <2>4, <2>5 DEF Renames
    <2> QED BY <2>1, <2>2, <2>6, SumRenamed
  <1>15. SumFunction(f) = n * SumFunction(e) /\ SumFunction(e) \in Nat
    <2>1. /\ IsFiniteSet(D) /\ f \in [D -> Nat] /\ e \in [D -> Nat] /\ n \in Nat
          /\ \A p \in D : f[p] = n * e[p]
      BY <1>1, <1>10
    <2>2. SumFunction(f) = n * SumFunction(e)
      BY <2>1, SumScaled
    <2>3. SumFunction(e) \in Nat
      BY <2>1, SumType
    <2> QED BY <2>2, <2>3
  <1>16. total = n * SumFunction(e)
    BY <1>13, <1>14, <1>15
  <1>17. Mean(ImageResults, label) = SumFunction(e)
    BY <1>1, <1>2, <1>13, <1>15, <1>16, ExactDivision
  <1>18. SumFunction(e) * n = n * SumFunction(e)
    BY <1>1, <1>15
  <1> QED BY <1>15, <1>17, <1>18 DEF f, D, n
(* The aggregation is in order, of labels with their means. *)
LEMMA AggregatedProperties ==
  ASSUME RequestInv, page = "result", AggregateIsDefined(ImageResults),
         NEW list \in AggregateResults(ImageResults)
  PROVE  /\ list # <<>>
         /\ \A k \in DOMAIN list :
              /\ k > 1 => list[k].prob <= list[k - 1].prob
              /\ \E l : list[k] = Entry(l, Mean(ImageResults, l))
  <1> DEFINE L == LabelsIn(ImageResults)
             entry(l) == Entry(l, Mean(ImageResults, l))
             S == {entry(l) : l \in L}
             f == [l \in L |-> entry(l)]
  <1>1. IsFiniteSet(L) /\ TopX <= Cardinality(L) /\ TopX \in Nat \ {0}
    <2>1. IsFiniteSet(L) /\ Cardinality(L) \in Nat
      BY LabelsAreFinite, FS_CardinalityType
    <2> QED BY <2>1, ResultsAssumption DEF AggregateIsDefined, ResultsAssumption
  <1>2. \A l, m : entry(l) = entry(m) => l = m
    <2> SUFFICES ASSUME NEW l, NEW m, entry(l) = entry(m) PROVE l = m
      OBVIOUS
    <2>1. entry(l).label = l /\ entry(l).label = m
      BY EntryFields
    <2> QED BY <2>1
  <1> HIDE DEF L, entry
  <1>3. f \in Surjection(L, S) /\ f \in Injection(L, S)
    BY <1>2 DEF Surjection, Injection, IsInjective
  <1> HIDE DEF f
  <1>4. IsFiniteSet(S) /\ Cardinality(L) <= Cardinality(S) /\ Cardinality(S) \in Nat
    <2>1. IsFiniteSet(S)
      BY <1>1, <1>3, FS_Surjection
    <2> QED BY <1>3, <2>1, FS_Injection, FS_CardinalityType
  <1>5. PICK t \in SetToSeqs(S) : /\ list = SubSeq(t, 1, TopX)
                                  /\ \A i \in 1..(Len(t) - 1) : t[i].prob >= t[i + 1].prob
    BY DEF AggregateResults, L, entry
  <1> DEFINE n == Cardinality(S)
  <1>6. t \in [1..n -> S]
    BY <1>5 DEF SetToSeqs
  <1>7. n \in Nat /\ TopX <= n
    BY <1>1, <1>4, FS_CardinalityType
  <1>8. t \in Seq(S) /\ Len(t) = n
    <2> HIDE DEF n, S
    <2>1. t \in Seq(S)
      BY <1>6, <1>7, SeqDef
    <2> QED BY <1>6, <1>7, <2>1, LenProperties
  <1> HIDE DEF n
  <1>9. /\ list \in Seq(S) /\ Len(list) = TopX
        /\ \A k \in 1..TopX : list[k] = t[k]
    <2> HIDE DEF S
    <2>1. \A j \in 1..TopX : t[j] \in S
      BY <1>1, <1>6, <1>7
    <2>2. /\ SubSeq(t, 1, TopX) \in Seq(S)
          /\ Len(SubSeq(t, 1, TopX)) = IF 1 <= TopX THEN TopX - 1 + 1 ELSE 0
          /\ \A k \in 1..(TopX - 1 + 1) : SubSeq(t, 1, TopX)[k] = t[1 + k - 1]
      BY <1>1, <1>8, <2>1, SubSeqProperties
    <2> QED BY <1>1, <1>5, <2>2
  <1>10. DOMAIN list = 1..TopX /\ list # <<>>
    <2> HIDE DEF S
    <2> QED BY <1>1, <1>9, LenProperties, EmptySeq
  <1>11. ASSUME NEW k \in DOMAIN list, k > 1 PROVE list[k].prob <= list[k - 1].prob
    <2>1. k \in 1..TopX /\ k - 1 \in 1..TopX /\ k - 1 \in 1..(Len(t) - 1) /\ (k - 1) + 1 = k
      BY <1>1, <1>7, <1>8, <1>10, <1>11
    <2>2. t[k - 1].prob >= t[(k - 1) + 1].prob
      BY <1>5, <2>1
    <2> QED BY <1>9, <2>1, <2>2
  <1>12. ASSUME NEW k \in DOMAIN list PROVE \E l : list[k] = Entry(l, Mean(ImageResults, l))
    <2>1. k \in 1..n /\ list[k] = t[k]
      BY <1>1, <1>7, <1>9, <1>10
    <2>2. t[k] \in S
      BY <1>6, <2>1
    <2> QED BY <2>1, <2>2 DEF entry
  <1> QED BY <1>10, <1>11, <1>12

FlagInv == aggregate \in BOOLEAN /\ request.aggregate \in BOOLEAN

LEMMA AlwaysFlagInv == SessionSpec => []FlagInv
  <1>1. SessionInit => FlagInv
    <2>1. NoRequest.aggregate = FALSE
      BY DEF NoRequest
    <2>2. SessionInit => aggregate = FALSE /\ request = NoRequest
      BY DEF SessionInit, WidgetInit
    <2> QED BY <2>1, <2>2 DEF FlagInv
  <1>2. ASSUME FlagInv, [SessionNext]_allVars PROVE FlagInv'
    <2>1. CASE User
      <3>1. CASE SetClassificationRequestState
        <4> DEFINE asked == [images |-> SelectedImages, platforms |-> SelectedPlatforms,
                             aggregate |-> aggregate]
        <4>1. aggregate' = aggregate /\ (request' = asked \/ request' = NoRequest)
          BY <3>1 DEF SetClassificationRequestState, widgetVars
        <4>2. asked.aggregate = aggregate
          OBVIOUS
        <4>3. NoRequest.aggregate = FALSE
          BY DEF NoRequest
        <4> HIDE DEF asked
        <4> QED BY <1>2, <4>1, <4>2, <4>3 DEF FlagInv
      <3>2. CASE Widget /\ UNCHANGED <<sessionVars, changes>>
        <4>1. aggregate' \in {aggregate, ~ aggregate} /\ request' = request
          BY <3>2 DEF Widget, ProcessInputImageButton, ClickImage, ProcessConfirmDeletionButton,
                      ProcessAbortDeletionQPushButton, ClickPlatform, ClickAggregate, sessionVars
        <4> QED BY <1>2, <4>1 DEF FlagInv
      <3>3. CASE ProcessReturnQPushButton
        BY <1>2, <3>3 DEF ProcessReturnQPushButton, widgetVars, FlagInv
      <3> QED BY <2>1, <3>1, <3>2, <3>3 DEF User
    <2>2. CASE Disk \/ Worker \/ EventLoop \/ Ended \/ UNCHANGED allVars
      <3>1. UNCHANGED <<aggregate, request>>
        BY <2>2 DEF Disk, FileChanges, Worker, Update, UpdateCutsTooMuch, UpdateHasNoPlatform, UpdateFails,
                    EventLoop, ProcessClassificationResult, ProcessFailure, UpdatePlatforms,
                    UpdatePlatformsCrashes, Ended, allVars, sessionVars, widgetVars
      <3> QED BY <1>2, <3>1 DEF FlagInv
    <2> QED BY <1>2, <2>1, <2>2 DEF SessionNext
  <1> QED BY <1>1, <1>2, PTL DEF SessionSpec

(* The result page is the answer to the request, for all images, outputs   *)
(* and labels, and whatever happens to the files meanwhile.                *)
THEOREM PageIsRight ==
  ASSUME MeansAreExact
  PROVE  SessionSpec => []PageShowsTheRequest
  <1>1. ASSUME SessionInv, PageInv, FlagInv, page = "result"
        PROVE  PageShowsTheRequest
    <2> DEFINE list == shown.aggregated
               D == DOMAIN request.images
    <2>1. /\ RequestInv
          /\ DOMAIN shown.entries = DOMAIN RequestedPaths
          /\ \A i \in DOMAIN shown.entries :
               /\ shown.entries[i].path = RequestedPaths[i]
               /\ RequestedPaths[i] \notin touched =>
                    shown.entries[i].picture = request.images[RequestedPaths[i]]
               /\ shown.entries[i].results = IF list = <<>> THEN ImageResults[i] ELSE <<>>
          /\ Aggregated(list)
      BY <1>1 DEF PageInv, ShownInv
    <2> HIDE DEF list
    <2>2. (list # <<>>) = request.aggregate
      <3>1. request.aggregate \in BOOLEAN
        BY <1>1 DEF FlagInv
      <3> QED BY <1>1, <2>1, <3>1, AggregatedProperties DEF Aggregated
    <2>3. [i \in DOMAIN shown.entries |-> shown.entries[i].path] = RequestedPaths
      <3>1. RequestedPaths \in [1..Cardinality(D) -> D]
        BY <1>1, <2>1, RequestedPathsType DEF RequestInv
      <3> QED BY <2>1, <3>1
    <2>4. ASSUME NEW i \in DOMAIN shown.entries
          PROVE  LET entry == shown.entries[i]
                     picture == request.images[entry.path]
                 IN  /\ entry.path \notin touched => entry.picture = picture
                     /\ IF request.aggregate THEN entry.results = <<>>
                                             ELSE TopLabelsOf(Outputs[picture], entry.results)
      <3> DEFINE output == Outputs[request.images[RequestedPaths[i]]]
      <3>1. output \in Seq(Nat) /\ ImageResults[i] = GetResult(output)
        BY <1>1, <2>1, <2>4, ResultsOfImages
      <3>2. TopLabelsOf(output, ImageResults[i])
        BY <3>1, TopLabels
      <3>3. shown.entries[i].results = IF request.aggregate THEN <<>> ELSE ImageResults[i]
        BY <2>1, <2>2, <2>4
      <3> QED BY <2>1, <2>4, <3>2, <3>3
    <2>5. ASSUME \A p \in D : ~ Ties(Outputs[request.images[p]]), NEW k \in DOMAIN list
          PROVE  /\ k > 1 => list[k].prob <= list[k - 1].prob
                 /\ list[k].prob * Cardinality(D) =
                      SumFunction([p \in D |-> Contribution(Outputs[request.images[p]], list[k].label)])
      <3>1. list # <<>>
        BY <2>5
      <3>2. AggregateIsDefined(ImageResults) /\ list \in AggregateResults(ImageResults)
        BY <2>1, <2>2, <3>1 DEF Aggregated
      <3>3. k > 1 => list[k].prob <= list[k - 1].prob
        BY <1>1, <2>1, <2>5, <3>2, AggregatedProperties
      <3>4. PICK l : list[k] = Entry(l, Mean(ImageResults, l))
        BY <1>1, <2>1, <2>5, <3>2, AggregatedProperties
      <3>5. list[k].label = l /\ list[k].prob = Mean(ImageResults, l)
        BY <3>4, EntryFields
      <3>6. Mean(ImageResults, l) * Cardinality(D) =
              SumFunction([p \in D |-> Contribution(Outputs[request.images[p]], l)])
        BY <1>1, <2>1, <2>5, MeanProperties
      <3> QED BY <3>3, <3>5, <3>6
    <2> QED BY <2>2, <2>3, <2>4, <2>5 DEF PageShowsTheRequest, list, D
  <1>2. SessionInv /\ PageInv /\ FlagInv => PageShowsTheRequest
    <2>1. page # "result" => PageShowsTheRequest
      BY DEF PageShowsTheRequest
    <2> QED BY <1>1, <2>1
  <1> QED BY <1>2, AlwaysPageInv, AlwaysFlagInv, PTL
-----------------------------------------------------------------------------
(* The shares of the platforms.                                            *)

Shares(usage) == [u \in DOMAIN usage |-> usage[u].share]
UsageOf(P) == [platform : P, share : Nat]

LEMMA HostUsageProperties ==
  ASSUME NEW P, IsFiniteSet(P), NEW d \in [P -> Nat], NEW n \in Nat
  PROVE  /\ HostUsage(d, n) \in Seq(UsageOf(P)) /\ Shares(HostUsage(d, n)) \in Seq(Nat)
         /\ FoldLeft(+, 0, Shares(HostUsage(d, n))) = n * SumFunction(d)
  <1> DEFINE s == SetToSeq(P)
             m == Cardinality(P)
             U == HostUsage(d, n)
             f == [p \in P |-> d[p] * n]
  <1>1. /\ m \in Nat /\ s \in [1..m -> P]
        /\ \A a, b \in 1..m : s[a] = s[b] => a = b
        /\ \A p \in P : \E k \in 1..m : s[k] = p
    <2>1. m \in Nat /\ ExistsBijection(1..m, P)
      BY FS_CardinalityType
    <2>2. PICK b : b \in Bijection(1..m, P)
      BY <2>1 DEF ExistsBijection
    <2>3. b \in [1..m -> P] /\ IsInjective(b)
      BY <2>2 DEF Bijection, Injection
    <2>4. s \in [1..m -> P] /\ IsInjective(s)
      BY <2>3 DEF SetToSeq
    <2> HIDE DEF s, m
    <2>5. s \in Injection(1..m, P)
      BY <2>4 DEF Injection
    <2>6. IsFiniteSet(1..m) /\ Cardinality(1..m) = m
      <3>1. IsFiniteSet(1..m) /\ Cardinality(1..m) = IF 1 > m THEN 0 ELSE m - 1 + 1
        BY <2>1, FS_Interval
      <3> QED BY <2>1, <3>1
    <2>7. s \in Surjection(1..m, P)
      BY <2>5, <2>6, FS_Injection DEF m
    <2> QED BY <2>1, <2>4, <2>7 DEF IsInjective, Surjection
  <1>2. DOMAIN d = P /\ \A p \in P : d[p] \in Nat /\ d[p] * n \in Nat
    OBVIOUS
  <1> HIDE DEF s, m
  <1>3. U = [k \in 1..m |-> [platform |-> s[k], share |-> d[s[k]] * n]]
    BY <1>1, <1>2 DEF HostUsage, Weighted, s
  <1> HIDE DEF U
  <1>4. U \in [1..m -> UsageOf(P)] /\ Shares(U) = [k \in 1..m |-> d[s[k]] * n]
    BY <1>1, <1>2, <1>3 DEF UsageOf, Shares
  <1>5. U \in Seq(UsageOf(P))
    BY <1>1, <1>4, SeqDef
  <1> DEFINE e == Shares(U)
  <1>6. e \in [1..m -> Nat] /\ f \in [P -> Nat] /\ \A k \in 1..m : e[k] = f[s[k]]
    BY <1>1, <1>2, <1>4
  <1> HIDE DEF e, f
  <1>7. e \in Seq(Nat)
    BY <1>1, <1>6, SeqDef
  <1>8. Renames(s, 1..m, e, 1..m, f, P)
    <2>1. \A k \in (1..m) \ (1..m) : e[k] = 0
      OBVIOUS
    <2> QED BY <1>1, <1>6, <2>1 DEF Renames
  <1>9. SumFunction(e) = SumFunction(f)
    <2>1. IsFiniteSet(1..m)
      BY <1>1, FS_Interval
    <2> QED BY <1>8, <2>1, SumRenamed
  <1>10. SumFunction(f) = n * SumFunction(d)
    <2>1. \A p \in P : f[p] = n * d[p]
      BY <1>2 DEF f
    <2>2. PICK u \in [P -> Nat] : u = d
      OBVIOUS
    <2>3. PICK v \in [P -> Nat] : v = f
      BY <1>6
    <2>4. SumFunction(v) = n * SumFunction(u)
      BY <2>1, <2>2, <2>3, SumScaled
    <2> QED BY <2>2, <2>3, <2>4
  <1> DEFINE total == FoldLeft(+, 0, e)
  <1>11. total = SumFunction(e)
    BY <1>7, FoldLeftIsSumFunction
  <1> HIDE DEF total
  <1>12. total = n * SumFunction(d)
    BY <1>9, <1>10, <1>11
  <1> QED BY <1>5, <1>7, <1>12 DEF total, e, U

LEMMA SelectedIsFinite ==
  ASSUME NEW h \in {"fpga", "local"}
  PROVE  IsFiniteSet(Selected(h)) /\ Selected(h) \subseteq request.platforms
  <1> DEFINE s == PlatformsOf[h]
             f == [i \in 1..Len(s) |-> s[i]]
  <1>1. Len(s) \in Nat /\ DOMAIN s = 1..Len(s)
    BY SessionAssumption, LenProperties DEF SessionAssumption
  <1>2. IsFiniteSet(ToSet(s))
    <2>1. f \in Surjection(1..Len(s), ToSet(s))
      BY <1>1 DEF Surjection, ToSet
    <2> QED BY <1>1, <2>1, FS_Interval, FS_Surjection
  <1> QED BY <1>2, FS_Subset DEF Selected

(* The shares of a host with n images are those of n images. *)
LEMMA RemoteShares ==
  ASSUME SharesAreExact, NEW h \in {"fpga", "local"}, NEW n \in 1..Cardinality(Paths),
         NEW ds \in [1..n -> OnePlatform(h)]
  PROVE  \E P \in SUBSET Selected(h) :
           /\ AggregateReplyDistribution(ds) \in [P -> Nat]
           /\ n * SumFunction(AggregateReplyDistribution(ds)) = AllWork * n
  <1> DEFINE S == 1..n
             c == AllWork \div n
             d == AggregateReplyDistribution(ds)
             w == [i \in S |-> c]
  <1>1. Cardinality(Paths) \in Nat /\ n \in Nat \ {0} /\ AllWork \in Nat /\ AllWork % n = 0
    BY StartWidgetAssumption, ResultsAssumption, FS_CardinalityType
    DEF StartWidgetAssumption, ResultsAssumption, SharesAreExact
  <1>2. c \in Nat /\ AllWork = n * c
    BY <1>1, NoRest
  <1>3. \A i \in S : \E r \in Selected(h) : ds[i] = [p \in {r} |-> AllWork]
    BY DEF OnePlatform
  <1> DEFINE q == [i \in S |-> CHOOSE r \in Selected(h) : ds[i] = [p \in {r} |-> AllWork]]
  <1>4. /\ q \in [S -> Selected(h)]
        /\ \A i \in S : q[i] \in Selected(h) /\ ds[i] = [p \in {q[i]} |-> AllWork]
    BY <1>3
  <1> HIDE DEF q
  <1>5. \A i \in S : DOMAIN ds[i] = {q[i]} /\ ds[i][q[i]] = AllWork
    BY <1>4
  <1>6. DOMAIN ds = S /\ Len(ds) = n
    <2>1. ds \in Seq(OnePlatform(h))
      BY <1>1, SeqDef
    <2> QED BY <1>1, <2>1, LenProperties
  <1> DEFINE P == UNION {DOMAIN x : x \in ToSet(ds)}
  <1>7. P \in SUBSET Selected(h) /\ \A i \in S : q[i] \in P
    <2>1. \A i \in S : ds[i] \in ToSet(ds) /\ q[i] \in DOMAIN ds[i]
      BY <1>5, <1>6 DEF ToSet
    <2>2. \A x \in ToSet(ds) : DOMAIN x \subseteq Selected(h)
      <3> SUFFICES ASSUME NEW i \in S PROVE DOMAIN ds[i] \subseteq Selected(h)
        BY <1>6 DEF ToSet
      <3> QED BY <1>4, <1>5
    <2>3. P \subseteq Selected(h)
      BY <2>2
    <2>4. \A i \in S : q[i] \in P
      BY <2>1
    <2> QED BY <2>3, <2>4
  <1>8. q \in [S -> P]
    <2> HIDE DEF P, S
    <2>1. q = [i \in S |-> q[i]]
      BY <1>4
    <2> QED BY <1>7, <2>1
  <1> DEFINE term(p) == [i \in S |-> IF q[i] = p THEN w[i] ELSE 0]
  <1>9. d = [p \in P |-> MeanShare(ds, p)]
    BY DEF AggregateReplyDistribution
  <1>10. ASSUME NEW p \in P
         PROVE  MeanShare(ds, p) = SumFunction(term(p)) /\ MeanShare(ds, p) \in Nat
    <2> DEFINE e == [i \in DOMAIN ds |-> IF p \in DOMAIN ds[i] THEN ds[i][p] \div Len(ds) ELSE 0]
    <2>1. \A i \in S : (p \in DOMAIN ds[i] <=> q[i] = p) /\ (q[i] = p => ds[i][p] = AllWork)
      BY <1>5
    <2>2. e = term(p)
      BY <1>6, <2>1
    <2>3. term(p) \in [S -> Nat]
      BY <1>2
    <2>4. MeanShare(ds, p) = FoldLeft(+, 0, e)
      BY DEF MeanShare
    <2> HIDE DEF e, term
    <2>5. e \in Seq(Nat)
      BY <1>1, <2>2, <2>3, SeqDef
    <2>6. IsFiniteSet(S)
      BY <1>1, FS_Interval
    <2>7. FoldLeft(+, 0, e) = SumFunction(e)
      BY <2>5, FoldLeftIsSumFunction
    <2>8. MeanShare(ds, p) = SumFunction(e)
      BY <2>4, <2>7
    <2>9. SumFunction(term(p)) \in Nat
      BY <2>3, <2>6, SumType
    <2> QED BY <2>2, <2>8, <2>9
  <1>11. d \in [P -> Nat] /\ \A p \in P : d[p] = SumFunction(term(p))
    <2> HIDE DEF P, term, d
    <2> QED BY <1>9, <1>10
  <1>12. IsFiniteSet(S) /\ IsFiniteSet(P) /\ Cardinality(S) = n
    <2>1. IsFiniteSet(S) /\ Cardinality(S) = IF 1 > n THEN 0 ELSE n - 1 + 1
      BY <1>1, FS_Interval
    <2>2. IsFiniteSet(Selected(h))
      BY SelectedIsFinite
    <2>3. IsFiniteSet(P)
      BY <1>7, <2>2, FS_Subset
    <2> QED BY <1>1, <2>1, <2>3
  <1>13. w \in [S -> Nat] /\ SumFunction(w) = c * n
    <2>1. w \in [S -> Nat]
      BY <1>2
    <2>2. SumFunction(w) = c * Cardinality(S)
      BY <1>2, <1>12, SumConstant
    <2> QED BY <1>12, <2>1, <2>2
  <1>14. SumFunction(d) = SumFunction(w)
    <2>1. AddsClasses(d, w, q, S, P)
      <3> HIDE DEF P, d, w, S
      <3>1. w \in [S -> Nat] /\ q \in [S -> P] /\ d \in [P -> Nat]
        BY <1>8, <1>11, <1>13
      <3> QED BY <1>11, <3>1 DEF AddsClasses
    <2> HIDE DEF w, P, S, d, term
    <2>2. IsFiniteSet(S) /\ w \in [S -> Nat] /\ IsFiniteSet(P) /\ q \in [S -> P] /\ d \in [P -> Nat]
      BY <1>8, <1>11, <1>12, <1>13
    <2> QED BY <2>2, <2>1, SumOfClasses
  <1> HIDE DEF w, P, S, d, c
  <1>15. n * (c * n) = (n * c) * n
    BY <1>1, <1>2
  <1>16. n * SumFunction(d) = AllWork * n
    BY <1>2, <1>13, <1>14, <1>15
  <1> QED BY <1>7, <1>11, <1>16 DEF d

LEMMA HostShares ==
  ASSUME SharesAreExact, NEW h \in {"fpga", "local"}, NEW n \in 0..Cardinality(Paths),
         NEW d \in HostDistributions(h, n)
  PROVE  \E P \in SUBSET Selected(h) : d \in [P -> Nat] /\ n * SumFunction(d) = AllWork * n
  <1>1. Cardinality(Paths) \in Nat /\ n \in Nat /\ AllWork \in Nat /\ IsFiniteSet(Selected(h))
    BY StartWidgetAssumption, ResultsAssumption, FS_CardinalityType, SelectedIsFinite
    DEF StartWidgetAssumption, ResultsAssumption
  <1>2. CASE n = 0
    <2>1. d = [p \in Selected(h) |-> 0]
      BY <1>2 DEF HostDistributions
    <2>2. d \in [Selected(h) -> Nat]
      BY <2>1
    <2>3. SumFunction(d) \in Nat
      BY <1>1, <2>2, SumType
    <2>4. n * SumFunction(d) = AllWork * n
      BY <1>1, <1>2, <2>3
    <2> QED BY <2>2, <2>4
  <1>3. CASE n # 0 /\ h = "local"
    <2>1. PICK q \in Selected(h) : d = [p \in {q} |-> AllWork]
      BY <1>3 DEF HostDistributions, OnePlatform
    <2>2. d \in [{q} -> Nat]
      BY <1>1, <2>1
    <2>3. SumFunction(d) = AllWork
      <3>1. IsFiniteSet({q}) /\ Cardinality({q}) = 1
        BY FS_Singleton
      <3>2. SumFunction([p \in {q} |-> AllWork]) = AllWork * Cardinality({q})
        BY <1>1, <3>1, SumConstant
      <3> QED BY <1>1, <2>1, <3>1, <3>2
    <2>4. n * SumFunction(d) = AllWork * n
      BY <1>1, <2>3
    <2> QED BY <2>1, <2>2, <2>4
  <1>4. CASE n # 0 /\ h # "local"
    <2>1. PICK ds \in [1..n -> OnePlatform(h)] : d = AggregateReplyDistribution(ds)
      BY <1>4 DEF HostDistributions
    <2>2. n \in 1..Cardinality(Paths)
      BY <1>1, <1>4
    <2> QED BY <2>1, <2>2, RemoteShares
  <1> QED BY <1>2, <1>3, <1>4

(* What a host contributes to the detail dialog. *)
LEMMA UsageOfHost ==
  ASSUME SharesAreExact, NEW h \in {"fpga", "local"}, NEW n \in 0..Cardinality(Paths),
         NEW d \in HostDistributions(h, n)
  PROVE  /\ HostUsage(d, n) \in Seq(UsageOf(request.platforms))
         /\ Shares(HostUsage(d, n)) \in Seq(Nat)
         /\ FoldLeft(+, 0, Shares(HostUsage(d, n))) = AllWork * n
  <1>1. PICK P \in SUBSET Selected(h) : d \in [P -> Nat] /\ n * SumFunction(d) = AllWork * n
    BY HostShares
  <1>2. IsFiniteSet(P) /\ P \subseteq request.platforms /\ n \in Nat
    BY SelectedIsFinite, FS_Subset
  <1> DEFINE U == HostUsage(d, n)
             total == FoldLeft(+, 0, Shares(U))
  <1>3. U \in Seq(UsageOf(P)) /\ Shares(U) \in Seq(Nat) /\ total = n * SumFunction(d)
    BY <1>1, <1>2, HostUsageProperties
  <1> HIDE DEF U, total
  <1>4. UsageOf(P) \subseteq UsageOf(request.platforms)
    BY <1>2 DEF UsageOf
  <1>5. U \in Seq(UsageOf(request.platforms)) /\ total = AllWork * n
    BY <1>1, <1>3, <1>4, SeqMonotonic
  <1> QED BY <1>3, <1>5 DEF U, total
-----------------------------------------------------------------------------
(* The time and the energy.                                                *)

LEMMA DivisionGrows ==
  ASSUME NEW a \in Nat, NEW b \in Nat, NEW n \in Nat \ {0}, a <= b
  PROVE  a \div n \in Nat /\ a \div n <= b \div n
  OBVIOUS

LEMMA ProductGrows ==
  ASSUME NEW a \in Nat, NEW s \in Nat, NEW t \in Nat, s <= t
  PROVE  a * s \in Nat /\ a * s <= a * t
  OBVIOUS

LEMMA EnergyGrows ==
  ASSUME NEW h \in {"fpga", "local"}, NEW s \in Nat, NEW t \in Nat, s <= t
  PROVE  Energy(h, s) \in Nat /\ Energy(h, s) <= Energy(h, t)
  <1> DEFINE a == HostData[h].power
             n == HostData[h].time
  <1>1. a \in Nat /\ n \in Nat \ {0}
    BY ResultsAssumption, SessionAssumption DEF ResultsAssumption, SessionAssumption
  <1>2. Energy(h, s) = (a * s) \div n /\ Energy(h, t) = (a * t) \div n
    BY DEF Energy
  <1> HIDE DEF a, n
  <1>3. a * s \in Nat /\ a * t \in Nat /\ a * s <= a * t
    BY <1>1, ProductGrows
  <1> QED BY <1>1, <1>2, <1>3, DivisionGrows

(* The energy of one host and of two. *)
LEMMA EnergyOfOne ==
  ASSUME NEW hs, NEW ts, Len(hs) = 1
  PROVE  TotalEnergy(hs, ts) = AddToInt(0, Energy(hs[1], ts[1]))
  <1> DEFINE step(g, k) == IF k = 0 THEN 0 ELSE AddToInt(g[k - 1], Energy(hs[k], ts[k]))
             sum == CHOOSE g : g = [k \in 0..1 |-> step(g, k)]
             one == [k \in 0..1 |-> IF k = 0 THEN 0 ELSE AddToInt(0, Energy(hs[1], ts[1]))]
  <1>1. TotalEnergy(hs, ts) = sum[1]
    BY DEF TotalEnergy
  <1>2. one = [k \in 0..1 |-> step(one, k)]
    <2>1. one[0] = 0 /\ one[1] = AddToInt(0, Energy(hs[1], ts[1]))
      OBVIOUS
    <2>2. one = [k \in 0..1 |-> one[k]]
      OBVIOUS
    <2> HIDE DEF one
    <2>3. \A k \in 0..1 : one[k] = step(one, k)
      <3>1. one[0] = step(one, 0) /\ one[1] = step(one, 1)
        BY <2>1
      <3>2. \A k \in 0..1 : k = 0 \/ k = 1
        OBVIOUS
      <3> HIDE DEF step
      <3> QED BY <3>1, <3>2
    <2> QED BY <2>2, <2>3
  <1> HIDE DEF one
  <1>3. sum = [k \in 0..1 |-> step(sum, k)]
    BY <1>2
  <1> HIDE DEF sum
  <1>4. sum[0] = 0 /\ sum[1] = AddToInt(sum[0], Energy(hs[1], ts[1]))
    BY <1>3
  <1> QED BY <1>1, <1>4

LEMMA EnergyOfTwo ==
  ASSUME NEW hs, NEW ts, Len(hs) = 2
  PROVE  TotalEnergy(hs, ts) =
           AddToInt(AddToInt(0, Energy(hs[1], ts[1])), Energy(hs[2], ts[2]))
  <1> DEFINE step(g, k) == IF k = 0 THEN 0 ELSE AddToInt(g[k - 1], Energy(hs[k], ts[k]))
             sum == CHOOSE g : g = [k \in 0..2 |-> step(g, k)]
             first == AddToInt(0, Energy(hs[1], ts[1]))
             both == AddToInt(first, Energy(hs[2], ts[2]))
             two == [k \in 0..2 |-> IF k = 0 THEN 0 ELSE IF k = 1 THEN first ELSE both]
  <1>1. TotalEnergy(hs, ts) = sum[2]
    BY DEF TotalEnergy
  <1>2. two = [k \in 0..2 |-> step(two, k)]
    <2> HIDE DEF first, both
    <2>1. two[0] = 0 /\ two[1] = first /\ two[2] = both
      OBVIOUS
    <2>2. two = [k \in 0..2 |-> two[k]]
      OBVIOUS
    <2> HIDE DEF two
    <2>3. \A k \in 0..2 : two[k] = step(two, k)
      <3>1. two[0] = step(two, 0) /\ two[1] = step(two, 1) /\ two[2] = step(two, 2)
        BY <2>1 DEF first, both
      <3>2. \A k \in 0..2 : k = 0 \/ k = 1 \/ k = 2
        OBVIOUS
      <3> HIDE DEF step
      <3> QED BY <3>1, <3>2
    <2> QED BY <2>2, <2>3
  <1> HIDE DEF two
  <1>3. sum = [k \in 0..2 |-> step(sum, k)]
    BY <1>2
  <1> HIDE DEF sum
  <1>4. /\ sum[0] = 0 /\ sum[1] = AddToInt(sum[0], Energy(hs[1], ts[1]))
        /\ sum[2] = AddToInt(sum[1], Energy(hs[2], ts[2]))
    BY <1>3
  <1> QED BY <1>1, <1>4

LEMMA AddsWithoutOverflow ==
  ASSUME NEW a \in Nat, NEW b \in Nat, a + b < IntLimit
  PROVE  AddToInt(a, b) = a + b
  BY DEF AddToInt

(* The time that is shown is that of the slowest host. *)
LEMMA SlowestHost ==
  ASSUME NEW ts \in Seq(Nat)
  PROVE  /\ Max({0} \cup ToSet(ts)) \in Nat
         /\ \A i \in DOMAIN ts : ts[i] <= Max({0} \cup ToSet(ts))
  <1> DEFINE S == {0} \cup ToSet(ts)
  <1>1. S \in SUBSET Nat /\ \A i \in DOMAIN ts : ts[i] \in S /\ ts[i] \in Nat
    BY LenProperties, ElementOfSeq DEF ToSet
  <1>2. \E m \in S : \A x \in S : m >= x
    <2>1. CASE ToSet(ts) = {}
      BY <2>1
    <2>2. CASE ToSet(ts) # {}
      <3>1. PICK m \in ToSet(ts) : \A x \in ToSet(ts) : x <= m
        BY <2>2, LargestOf
      <3>2. m \in S /\ m \in Nat
        BY <1>1, <3>1
      <3>3. \A x \in S : m >= x
        <4> SUFFICES ASSUME NEW x \in S PROVE m >= x
          OBVIOUS
        <4> QED BY <1>1, <3>1, <3>2
      <3> QED BY <3>2, <3>3
    <2> QED BY <2>1, <2>2
  <1>3. Max(S) \in S /\ \A x \in S : Max(S) >= x
    BY <1>2 DEF Max
  <1> HIDE DEF S
  <1>4. Max(S) \in Nat /\ \A i \in DOMAIN ts : ts[i] <= Max(S)
    <2>1. Max(S) \in Nat
      BY <1>1, <1>3
    <2> QED BY <1>1, <1>3, <2>1
  <1> QED BY <1>4 DEF S

(* The hosts with a selected platform. *)
LEMMA AvailableIs ==
  ASSUME SessionTypes
  PROVE  AvailableHosts \in {<<>>, <<"fpga">>, <<"local">>, <<"fpga", "local">>}
  <1> DEFINE one(h) == IF Selected(h) = {} THEN <<>> ELSE <<h>>
             lists == [i \in DOMAIN hosts |-> one(hosts[i])]
  <1>0. AvailableHosts = FlattenSeq(lists)
    BY DEF AvailableHosts
  <1>1. one("fpga") \in {<<>>, <<"fpga">>} /\ one("local") \in {<<>>, <<"local">>}
    OBVIOUS
  <1>2. CASE hosts = <<"fpga", "local">>
    <2>1. Len(lists) = 2 /\ lists[1] = one("fpga") /\ lists[2] = one("local")
      BY <1>2
    <2> HIDE DEF lists
    <2>2. AvailableHosts = one("fpga") \o one("local")
      BY <1>0, <2>1, FlattenTwo
    <2> HIDE DEF one
    <2>3. /\ <<>> \in Seq({"fpga", "local"})
          /\ <<"fpga">> \in Seq({"fpga", "local"}) /\ <<"local">> \in Seq({"fpga", "local"})
      OBVIOUS
    <2>4. /\ <<>> \o <<"local">> = <<"local">> /\ <<"fpga">> \o <<>> = <<"fpga">> /\ <<>> \o <<>> = <<>>
      BY <2>3, ConcatEmptySeq
    <2>5. <<"fpga">> \o <<"local">> = <<"fpga", "local">>
      <3> DEFINE t == <<"fpga">> \o <<"local">>
      <3>1. Len(<<"fpga">>) = 1 /\ Len(<<"local">>) = 1 /\ <<"fpga">>[1] = "fpga" /\ <<"local">>[1] = "local"
        OBVIOUS
      <3>2. /\ t \in Seq({"fpga", "local"}) /\ Len(t) = 1 + 1
            /\ \A i \in 1..(1 + 1) : t[i] = IF i <= 1 THEN <<"fpga">>[i] ELSE <<"local">>[i - 1]
        BY <2>3, <3>1, ConcatProperties
      <3> HIDE DEF t
      <3>3. Len(t) = 2 /\ t[1] = "fpga" /\ t[2] = "local"
        BY <3>1, <3>2
      <3> DEFINE u == <<"fpga", "local">>
      <3>4. u \in Seq({"fpga", "local"}) /\ Len(u) = 2 /\ u[1] = "fpga" /\ u[2] = "local"
        OBVIOUS
      <3> HIDE DEF u
      <3>5. \A i \in 1..2 : t[i] = u[i]
        <4>1. \A i \in 1..2 : i = 1 \/ i = 2
          OBVIOUS
        <4> QED BY <3>3, <3>4, <4>1
      <3>6. t = u
        BY <3>2, <3>3, <3>4, <3>5, SeqEqual
      <3> QED BY <3>6 DEF t, u
    <2>6. CASE one("fpga") = <<>> /\ one("local") = <<>>
      BY <2>2, <2>4, <2>6
    <2>7. CASE one("fpga") = <<>> /\ one("local") = <<"local">>
      BY <2>2, <2>4, <2>7
    <2>8. CASE one("fpga") = <<"fpga">> /\ one("local") = <<>>
      BY <2>2, <2>4, <2>8
    <2>9. CASE one("fpga") = <<"fpga">> /\ one("local") = <<"local">>
      BY <2>2, <2>5, <2>9
    <2> QED BY <1>1, <2>6, <2>7, <2>8, <2>9
  <1>3. CASE hosts = <<"local">>
    <2>1. Len(lists) = 1 /\ lists[1] = one("local")
      BY <1>3
    <2> HIDE DEF lists
    <2>2. AvailableHosts = one("local")
      BY <1>0, <2>1, FlattenOne
    <2> QED BY <1>1, <2>2
  <1> QED BY <1>2, <1>3 DEF SessionTypes
(* All hosts together. *)
LEMMA UsageOfAll ==
  ASSUME SharesAreExact, NEW n \in 1..Cardinality(Paths), NEW hs,
         hs \in {<<>>, <<"fpga">>, <<"local">>, <<"fpga", "local">>},
         NEW sizes \in BatchSizes(hs, n), NEW ds \in Distributions(hs, sizes)
  PROVE  /\ OverallDistribution(ds, sizes) \in Seq(UsageOf(request.platforms))
         /\ FoldLeft(+, 0, Shares(OverallDistribution(ds, sizes))) = AllWork * n
         /\ hs # <<>>
  <1> DEFINE lists == [i \in DOMAIN sizes |-> HostUsage(ds[i], sizes[i])]
             U == OverallDistribution(ds, sizes)
             total == FoldLeft(+, 0, Shares(U))
             all == FoldLeft(+, 0, sizes)
  <1>1. /\ Cardinality(Paths) \in Nat /\ n \in Nat \ {0} /\ n <= Cardinality(Paths) /\ AllWork \in Nat
    BY StartWidgetAssumption, ResultsAssumption, FS_CardinalityType
    DEF StartWidgetAssumption, ResultsAssumption
  <1>2. sizes \in [DOMAIN hs -> 0..n] /\ all = n
    BY DEF BatchSizes
  <1> HIDE DEF all
  <1>3. \A i \in DOMAIN hs : sizes[i] \in Nat /\ sizes[i] \in 0..Cardinality(Paths)
    BY <1>1, <1>2
  <1>4. \A i \in DOMAIN hs : ds[i] \in HostDistributions(hs[i], sizes[i])
    BY <1>2 DEF Distributions
  <1>5. U = FlattenSeq(lists)
    BY DEF OverallDistribution
  <1> HIDE DEF U, total
  <1>6. CASE hs = <<>>
    <2>1. sizes \in Seq(Nat) /\ Len(sizes) = 0
      <3>1. DOMAIN hs = 1..0
        BY <1>6
      <3>2. sizes \in [1..0 -> Nat]
        BY <1>2, <3>1
      <3>3. sizes \in Seq(Nat)
        BY <3>2, SeqDef
      <3> QED BY <3>2, <3>3, LenProperties
    <2>2. all = 0
      BY <2>1, FoldLeftShort DEF all
    <2> QED BY <1>1, <1>2, <2>2
  <1>7. ASSUME NEW h \in {"fpga", "local"}, hs = <<h>>
        PROVE  U \in Seq(UsageOf(request.platforms)) /\ total = AllWork * n /\ hs # <<>>
    <2>0. DOMAIN hs = 1..1 /\ hs[1] = h /\ hs # <<>>
      BY <1>7
    <2>1. sizes \in Seq(Nat) /\ Len(sizes) = 1 /\ DOMAIN sizes = 1..1
      <3>1. sizes \in [1..1 -> Nat]
        BY <1>2, <1>3, <2>0
      <3>2. sizes \in Seq(Nat)
        <4>1. PICK m \in Nat : m = 1
          OBVIOUS
        <4>2. sizes \in [1..m -> Nat]
          BY <3>1, <4>1
        <4> QED BY <4>2, SeqDef
      <3> QED BY <3>1, <3>2, LenProperties
    <2>2. all = sizes[1]
      BY <2>1, FoldLeftShort DEF all
    <2>3. Len(lists) = 1 /\ lists[1] = HostUsage(ds[1], sizes[1])
      BY <2>1
    <2> HIDE DEF lists
    <2>4. U = HostUsage(ds[1], sizes[1])
      BY <1>5, <2>3, FlattenOne
    <2>5. ds[1] \in HostDistributions(h, n) /\ sizes[1] = n
      BY <1>2, <1>4, <2>0, <2>2
    <2>6. /\ HostUsage(ds[1], n) \in Seq(UsageOf(request.platforms))
          /\ FoldLeft(+, 0, Shares(HostUsage(ds[1], n))) = AllWork * n
      <3>1. n \in 0..Cardinality(Paths)
        BY <1>1
      <3> QED BY <2>5, <3>1, UsageOfHost
    <2>7. U = HostUsage(ds[1], n)
      BY <2>4, <2>5
    <2> QED BY <2>0, <2>6, <2>7 DEF total
  <1>8. ASSUME hs = <<"fpga", "local">>
        PROVE  U \in Seq(UsageOf(request.platforms)) /\ total = AllWork * n /\ hs # <<>>
    <2>0. DOMAIN hs = 1..2 /\ hs[1] = "fpga" /\ hs[2] = "local" /\ hs # <<>>
      BY <1>8
    <2>1. sizes \in Seq(Nat) /\ Len(sizes) = 2 /\ DOMAIN sizes = 1..2
      <3>1. sizes \in [1..2 -> Nat]
        BY <1>2, <1>3, <2>0
      <3>2. sizes \in Seq(Nat)
        BY <3>1, SeqDef
      <3> QED BY <3>1, <3>2, LenProperties
    <2>2. all = sizes[1] + sizes[2]
      BY <2>1, FoldLeftShort DEF all
    <2> DEFINE A == HostUsage(ds[1], sizes[1])
               B == HostUsage(ds[2], sizes[2])
               a == FoldLeft(+, 0, Shares(A))
               b == FoldLeft(+, 0, Shares(B))
    <2>3. Len(lists) = 2 /\ lists[1] = A /\ lists[2] = B
      BY <2>1
    <2> HIDE DEF lists
    <2>4. U = A \o B
      BY <1>5, <2>3, FlattenTwo
    <2>5. /\ ds[1] \in HostDistributions("fpga", sizes[1]) /\ ds[2] \in HostDistributions("local", sizes[2])
          /\ sizes[1] \in 0..Cardinality(Paths) /\ sizes[2] \in 0..Cardinality(Paths)
          /\ sizes[1] \in Nat /\ sizes[2] \in Nat
      BY <1>3, <1>4, <2>0
    <2>6. A \in Seq(UsageOf(request.platforms)) /\ Shares(A) \in Seq(Nat) /\ a = AllWork * sizes[1]
      BY <2>5, UsageOfHost
    <2>7. B \in Seq(UsageOf(request.platforms)) /\ Shares(B) \in Seq(Nat) /\ b = AllWork * sizes[2]
      BY <2>5, UsageOfHost
    <2> DEFINE c == FoldLeft(+, 0, Shares(A) \o Shares(B))
    <2>8. c = a + b
      BY <2>6, <2>7, FoldLeftConcat
    <2> HIDE DEF A, B, a, b, c
    <2>9. /\ U \in Seq(UsageOf(request.platforms)) /\ Len(A) \in Nat /\ Len(B) \in Nat
          /\ DOMAIN U = 1..(Len(A) + Len(B)) /\ DOMAIN A = 1..Len(A) /\ DOMAIN B = 1..Len(B)
          /\ \A u \in 1..(Len(A) + Len(B)) : U[u] = IF u <= Len(A) THEN A[u] ELSE B[u - Len(A)]
      BY <2>4, <2>6, <2>7, ConcatProperties, LenProperties
    <2>10. Shares(U) = Shares(A) \o Shares(B)
      <3>1. /\ DOMAIN Shares(A) = 1..Len(A) /\ DOMAIN Shares(B) = 1..Len(B)
            /\ \A u \in 1..Len(A) : Shares(A)[u] = A[u].share
            /\ \A u \in 1..Len(B) : Shares(B)[u] = B[u].share
        BY <2>9 DEF Shares
      <3>2. Len(Shares(A)) = Len(A) /\ Len(Shares(B)) = Len(B)
        BY <2>6, <2>7, <2>9, <3>1, LenProperties
      <3> DEFINE s == Shares(A) \o Shares(B)
      <3>3. /\ s \in Seq(Nat) /\ Len(s) = Len(A) + Len(B)
            /\ \A u \in 1..(Len(A) + Len(B)) :
                 s[u] = IF u <= Len(A) THEN Shares(A)[u] ELSE Shares(B)[u - Len(A)]
        <4>1. /\ s \in Seq(Nat) /\ Len(s) = Len(Shares(A)) + Len(Shares(B))
              /\ \A u \in 1..(Len(Shares(A)) + Len(Shares(B))) :
                   s[u] = IF u <= Len(Shares(A)) THEN Shares(A)[u] ELSE Shares(B)[u - Len(Shares(A))]
          BY <2>6, <2>7, ConcatProperties
        <4> HIDE DEF s
        <4> QED BY <3>2, <4>1
      <3> HIDE DEF s
      <3>4. s = [u \in 1..(Len(A) + Len(B)) |-> s[u]]
        BY <3>3, LenProperties
      <3>5. Shares(U) = [u \in 1..(Len(A) + Len(B)) |-> U[u].share]
        BY <2>9 DEF Shares
      <3>6. \A u \in 1..(Len(A) + Len(B)) : U[u].share = s[u]
        <4> SUFFICES ASSUME NEW u \in 1..(Len(A) + Len(B)) PROVE U[u].share = s[u]
          OBVIOUS
        <4>1. CASE u <= Len(A)
          <5>1. u \in 1..Len(A)
            BY <2>9, <4>1
          <5> QED BY <2>9, <3>1, <3>3, <4>1, <5>1
        <4>2. CASE ~ (u <= Len(A))
          <5>1. u - Len(A) \in 1..Len(B)
            BY <2>9, <4>2
          <5> QED BY <2>9, <3>1, <3>3, <4>2, <5>1
        <4> QED BY <4>1, <4>2
      <3>7. Shares(U) = s
        BY <3>4, <3>5, <3>6
      <3> QED BY <3>7 DEF s
    <2>11. total = c
      BY <2>10 DEF total, c
    <2>12. AllWork * sizes[1] + AllWork * sizes[2] = AllWork * (sizes[1] + sizes[2])
      BY <1>1, <2>5
    <2> QED BY <1>2, <2>0, <2>2, <2>6, <2>7, <2>8, <2>9, <2>11, <2>12
  <1> QED BY <1>6, <1>7, <1>8 DEF U, total
LEMMA MostOfOne ==
  ASSUME NEW h \in {"fpga", "local"}, NEW hs, hs = <<h>>, NEW time \in Nat
  PROVE  MostEnergy(hs, time) = Energy(h, time)
  <1> DEFINE s == [i \in DOMAIN hs |-> Energy(hs[i], time)]
             sum == FoldLeft(+, 0, s)
  <1>1. MostEnergy(hs, time) = sum
    BY DEF MostEnergy
  <1> HIDE DEF sum
  <1>2. DOMAIN hs = 1..1 /\ hs[1] = h
    OBVIOUS
  <1>3. Energy(h, time) \in Nat
    BY EnergyGrows
  <1>4. s \in [1..1 -> Nat] /\ s[1] = Energy(h, time)
    BY <1>2, <1>3
  <1> HIDE DEF s
  <1>5. s \in Seq(Nat) /\ Len(s) = 1
    <2>1. PICK m \in Nat : m = 1
      OBVIOUS
    <2>2. s \in [1..m -> Nat]
      BY <1>4, <2>1
    <2>3. s \in Seq(Nat)
      BY <2>1, <2>2, SeqDef
    <2>4. Len(s) = m
      BY <2>1, <2>2, <2>3, LenProperties
    <2> QED BY <2>1, <2>3, <2>4
  <1>6. sum = Energy(h, time)
    BY <1>4, <1>5, FoldLeftShort DEF sum
  <1> QED BY <1>1, <1>6

LEMMA MostOfTwo ==
  ASSUME NEW hs, hs = <<"fpga", "local">>, NEW time \in Nat
  PROVE  MostEnergy(hs, time) = Energy("fpga", time) + Energy("local", time)
  <1> DEFINE s == [i \in DOMAIN hs |-> Energy(hs[i], time)]
             sum == FoldLeft(+, 0, s)
             c == Energy("fpga", time)
             d == Energy("local", time)
  <1>1. MostEnergy(hs, time) = sum
    BY DEF MostEnergy
  <1> HIDE DEF sum
  <1>2. DOMAIN hs = 1..2 /\ hs[1] = "fpga" /\ hs[2] = "local"
    OBVIOUS
  <1>3. c \in Nat /\ d \in Nat
    BY EnergyGrows
  <1>4. s \in [1..2 -> Nat] /\ s[1] = c /\ s[2] = d
    BY <1>2, <1>3
  <1> HIDE DEF s, c, d
  <1>5. s \in Seq(Nat) /\ Len(s) = 2
    <2>1. s \in Seq(Nat)
      BY <1>4, SeqDef
    <2> QED BY <1>4, <2>1, LenProperties
  <1>6. sum = c + d
    BY <1>4, <1>5, FoldLeftShort DEF sum
  <1> QED BY <1>1, <1>6 DEF c, d

(* The hosts take no more than they do if all work until the last ends. *)
LEMMA PowerIsBounded ==
  ASSUME NEW hs, hs \in {<<"fpga">>, <<"local">>, <<"fpga", "local">>},
         NEW ts \in Seq(Nat), Len(ts) = Len(hs),
         NEW time \in Nat, \A i \in DOMAIN ts : ts[i] <= time,
         MostEnergy(hs, time) < IntLimit
  PROVE  Quotient(TotalEnergy(hs, ts), WattSecond) \in 0..(MostEnergy(hs, time) \div WattSecond)
  <1> DEFINE most == MostEnergy(hs, time)
  <1>0. most < IntLimit
    OBVIOUS
  <1>1. IntLimit \in Nat /\ WattSecond \in Nat \ {0}
    BY ResultsAssumption DEF ResultsAssumption
  <1> HIDE DEF most
  <1>2. ASSUME NEW total \in Nat, total <= most, most \in Nat, TotalEnergy(hs, ts) = total
        PROVE  Quotient(TotalEnergy(hs, ts), WattSecond) \in 0..(most \div WattSecond)
    <2>1. Quotient(total, WattSecond) = total \div WattSecond
      BY <1>1, <1>2 DEF Quotient
    <2>2. total \div WattSecond \in Nat /\ most \div WattSecond \in Nat
          /\ total \div WattSecond <= most \div WattSecond
      <3>1. total \div WattSecond \in Nat /\ total \div WattSecond <= most \div WattSecond
        BY <1>1, <1>2, DivisionGrows
      <3>2. most <= most
        BY <1>2
      <3>3. most \div WattSecond \in Nat
        BY <1>1, <1>2, <3>2, DivisionGrows
      <3> QED BY <3>1, <3>3
    <2> QED BY <1>2, <2>1, <2>2
  <1>3. ASSUME NEW h \in {"fpga", "local"}, hs = <<h>>
        PROVE  Quotient(TotalEnergy(hs, ts), WattSecond) \in 0..(most \div WattSecond)
    <2>1. Len(hs) = 1 /\ hs[1] = h /\ DOMAIN hs = 1..1 /\ 1 \in DOMAIN ts /\ ts[1] \in Nat
      BY <1>3, LenProperties, ElementOfSeq
    <2>2. Energy(h, ts[1]) \in Nat /\ Energy(h, ts[1]) <= Energy(h, time) /\ Energy(h, time) \in Nat
      <3>1. ts[1] <= time /\ time <= time
        BY <2>1
      <3>2. Energy(h, ts[1]) \in Nat /\ Energy(h, ts[1]) <= Energy(h, time)
        BY <2>1, <3>1, EnergyGrows
      <3>3. Energy(h, time) \in Nat
        BY <3>1, EnergyGrows
      <3> QED BY <3>2, <3>3
    <2>4. most = Energy(h, time)
      BY <1>3, MostOfOne DEF most
    <2>5. TotalEnergy(hs, ts) = Energy(h, ts[1])
      <3>1. TotalEnergy(hs, ts) = AddToInt(0, Energy(h, ts[1]))
        BY <2>1, EnergyOfOne
      <3>2. 0 + Energy(h, ts[1]) < IntLimit
        BY <1>0, <1>1, <2>2, <2>4
      <3>3. AddToInt(0, Energy(h, ts[1])) = 0 + Energy(h, ts[1])
        BY <2>2, <3>2, AddsWithoutOverflow
      <3> QED BY <2>2, <3>1, <3>3
    <2> QED BY <1>2, <2>2, <2>4, <2>5
  <1>4. ASSUME hs = <<"fpga", "local">>
        PROVE  Quotient(TotalEnergy(hs, ts), WattSecond) \in 0..(most \div WattSecond)
    <2> DEFINE a == Energy("fpga", ts[1])
               b == Energy("local", ts[2])
               c == Energy("fpga", time)
               d == Energy("local", time)
    <2>1. /\ Len(hs) = 2 /\ hs[1] = "fpga" /\ hs[2] = "local" /\ DOMAIN hs = 1..2
          /\ 1 \in DOMAIN ts /\ 2 \in DOMAIN ts /\ ts[1] \in Nat /\ ts[2] \in Nat
      <3>1. Len(hs) = 2 /\ hs[1] = "fpga" /\ hs[2] = "local" /\ DOMAIN hs = 1..2
        BY <1>4
      <3> QED BY <3>1, LenProperties, ElementOfSeq
    <2>2. a \in Nat /\ b \in Nat /\ c \in Nat /\ d \in Nat /\ a <= c /\ b <= d
      BY <2>1, EnergyGrows
    <2>4. most = c + d
      BY <1>4, MostOfTwo DEF most
    <2>5. TotalEnergy(hs, ts) = AddToInt(AddToInt(0, a), b)
      BY <2>1, EnergyOfTwo
    <2> HIDE DEF a, b, c, d
    <2>6. TotalEnergy(hs, ts) = a + b
      <3>1. 0 + a < IntLimit /\ a + b < IntLimit
        BY <1>0, <1>1, <2>2, <2>4
      <3>2. AddToInt(0, a) = 0 + a
        BY <2>2, <3>1, AddsWithoutOverflow
      <3>3. AddToInt(a, b) = a + b
        BY <2>2, <3>1, AddsWithoutOverflow
      <3>4. 0 + a = a
        BY <2>2
      <3> QED BY <2>5, <3>2, <3>3, <3>4
    <2>7. a + b \in Nat /\ a + b <= most /\ most \in Nat
      BY <2>2, <2>4
    <2> QED BY <1>2, <2>6, <2>7
  <1> QED BY <1>3, <1>4 DEF most

LEMMA DetailsOf ==
  ASSUME SharesAreExact, SessionTypes, RequestInv, page = "result", NEW details, Performed(details)
  PROVE  LET most == MostEnergy(AvailableHosts, details.time)
         IN  /\ FoldLeft(+, 0, [u \in DOMAIN details.usage |-> details.usage[u].share])
                  = AllWork * Cardinality(DOMAIN request.images)
             /\ \A u \in ToSet(details.usage) : u.platform \in request.platforms
             /\ most < IntLimit => details.power \in 0..(most \div WattSecond)
  <1> DEFINE n == Cardinality(DOMAIN request.images)
             hs == AvailableHosts
             most == MostEnergy(hs, details.time)
  <1>1. n \in 1..Cardinality(Paths) /\ Len(RequestedPaths) = n
    <2> DEFINE D == DOMAIN request.images
    <2>1. D \subseteq Paths /\ D # {} /\ IsFiniteSet(D) /\ n \in Nat /\ RequestedPaths \in [1..n -> D]
      BY RequestedPathsType DEF RequestInv
    <2>2. Cardinality(Paths) \in Nat /\ n <= Cardinality(Paths) /\ n # 0
      BY <2>1, StartWidgetAssumption, FS_Subset, FS_CardinalityType, FS_EmptySet DEF StartWidgetAssumption
    <2> HIDE DEF n, D
    <2>3. RequestedPaths \in Seq(D)
      BY <2>1, SeqDef
    <2> QED BY <2>1, <2>2, <2>3, LenProperties
  <1> HIDE DEF n
  <1>2. PICK sizes \in BatchSizes(hs, n), times \in [DOMAIN hs -> Times] :
          \E ds \in Distributions(hs, sizes) :
            details = CalculatePerformance(hs, TimesTaken(sizes, times), ds, sizes)
    BY <1>1 DEF Performed
  <1>3. PICK ds \in Distributions(hs, sizes) :
          details = CalculatePerformance(hs, TimesTaken(sizes, times), ds, sizes)
    BY <1>2
  <1> DEFINE ts == TimesTaken(sizes, times)
             U == OverallDistribution(ds, sizes)
  <1>4. /\ details.time = Max({0} \cup ToSet(ts)) /\ details.usage = U
        /\ details.power = Quotient(TotalEnergy(hs, ts), WattSecond)
    BY <1>3 DEF CalculatePerformance
  <1>5. hs \in {<<>>, <<"fpga">>, <<"local">>, <<"fpga", "local">>}
    BY AvailableIs
  <1> HIDE DEF hs
  <1>6. /\ U \in Seq(UsageOf(request.platforms)) /\ hs # <<>>
        /\ FoldLeft(+, 0, Shares(U)) = AllWork * n
    BY <1>1, <1>5, UsageOfAll
  <1>7. FoldLeft(+, 0, [u \in DOMAIN details.usage |-> details.usage[u].share]) = AllWork * n
    BY <1>4, <1>6 DEF Shares
  <1>8. ASSUME NEW u \in ToSet(details.usage) PROVE u.platform \in request.platforms
    <2> HIDE DEF U
    <2>1. PICK k \in DOMAIN U : u = U[k]
      BY <1>4, <1>8 DEF ToSet
    <2>2. U[k] \in UsageOf(request.platforms)
      BY <1>6, <2>1, LenProperties, ElementOfSeq
    <2> QED BY <2>1, <2>2 DEF UsageOf
  <1>9. ts \in Seq(Nat) /\ Len(ts) = Len(hs)
    <2>1. PICK m \in Nat : DOMAIN hs = 1..m /\ Len(hs) = m
      <3>1. hs = <<>> => DOMAIN hs = 1..0 /\ Len(hs) = 0
        OBVIOUS
      <3>2. ASSUME NEW h, hs = <<h>> PROVE DOMAIN hs = 1..1 /\ Len(hs) = 1
        BY <3>2
      <3>3. hs = <<"fpga", "local">> => DOMAIN hs = 1..2 /\ Len(hs) = 2
        OBVIOUS
      <3> QED BY <1>5, <3>1, <3>2, <3>3
    <2>2. DOMAIN sizes = 1..m /\ ts = [i \in 1..m |-> IF sizes[i] = 0 THEN 1 ELSE times[i]]
      BY <2>1 DEF BatchSizes, TimesTaken
    <2>3. ts \in [1..m -> Nat]
      <3>1. \A i \in 1..m : times[i] \in Nat
        BY <2>1, SessionAssumption DEF SessionAssumption
      <3> HIDE DEF ts
      <3>2. DOMAIN ts = 1..m /\ \A i \in 1..m : ts[i] \in Nat
        BY <2>2, <3>1
      <3>3. ts = [i \in 1..m |-> ts[i]]
        BY <2>2
      <3> QED BY <3>2, <3>3
    <2> HIDE DEF ts
    <2>4. ts \in Seq(Nat)
      BY <2>3, SeqDef
    <2> QED BY <2>1, <2>3, <2>4, LenProperties
  <1>10. most < IntLimit => details.power \in 0..(most \div WattSecond)
    <2> SUFFICES ASSUME most < IntLimit PROVE details.power \in 0..(most \div WattSecond)
      OBVIOUS
    <2>1. details.time \in Nat /\ \A i \in DOMAIN ts : ts[i] <= details.time
      <3> HIDE DEF ts
      <3> QED BY <1>4, <1>9, SlowestHost
    <2>2. hs \in {<<"fpga">>, <<"local">>, <<"fpga", "local">>}
      BY <1>5, <1>6
    <2> HIDE DEF ts
    <2>3. Quotient(TotalEnergy(hs, ts), WattSecond) \in 0..(MostEnergy(hs, details.time) \div WattSecond)
      BY <1>9, <2>1, <2>2, PowerIsBounded
    <2> QED BY <1>4, <2>3
  <1> QED BY <1>7, <1>8, <1>10 DEF n, hs

(* The detail dialog tells where all images were classified, and no more   *)
(* energy than the hosts can have taken.                                   *)
THEOREM DetailsAreRight ==
  ASSUME SharesAreExact
  PROVE  SessionSpec => []DetailsAddUp
  <1>1. SessionInv /\ PageInv => DetailsAddUp
    <2> SUFFICES ASSUME SessionInv, PageInv, page = "result" PROVE DetailsAddUp
      BY DEF DetailsAddUp
    <2>1. SessionTypes /\ RequestInv /\ Performed(shown.details)
      BY DEF SessionInv, PageInv, ShownInv
    <2> QED BY <2>1, DetailsOf DEF DetailsAddUp
  <1> QED BY <1>1, AlwaysPageInv, PTL
-----------------------------------------------------------------------------
(* The refinement of Classification.                                       *)
Answer ==
  IF worker THEN "pending"
  ELSE IF signal = <<>> THEN "none"
  ELSE IF signal[1].ok THEN "ok" ELSE signal[1].kind
OnPage == [i \in DOMAIN shown.entries |-> shown.entries[i].path]
Final == busy /\ page = "start" /\ ~ worker /\ signal = <<>>
Observed == <<page, RequestedPaths, Answer, hosts, OnPage, Final>>

(* A signal that is no result names a kind of failure.                     *)
FailureInv == signal # <<>> /\ ~ signal[1].ok => signal[1].kind \in {"comm", "resource", "other"}

LEMMA FailureStep == FailureInv /\ [SessionNext]_allVars => FailureInv'
  <1> SUFFICES ASSUME FailureInv, [SessionNext]_allVars PROVE FailureInv'
    OBVIOUS
  <1>1. ASSUME signal' = signal PROVE FailureInv'
    BY <1>1 DEF FailureInv
  <1>2. ASSUME signal' = <<>> PROVE FailureInv'
    BY <1>2 DEF FailureInv
  <1>3. CASE Update
    <2>1. PICK r : signal' = <<r>> /\ r.ok
      BY <1>3 DEF Update
    <2> QED BY <2>1 DEF FailureInv
  <1>4. ASSUME NEW kind \in {"comm", "resource", "other"}, UpdateFails(kind) PROVE FailureInv'
    BY <1>4 DEF UpdateFails, FailureInv
  <1>5. CASE UpdateCutsTooMuch \/ UpdateHasNoPlatform
    BY <1>1, <1>5 DEF UpdateCutsTooMuch, UpdateHasNoPlatform
  <1>6. CASE EventLoop
    BY <1>1, <1>2, <1>6 DEF EventLoop, ProcessClassificationResult, ProcessFailure, UpdatePlatformsCrashes
  <1>7. CASE User \/ Disk \/ UNCHANGED allVars
    BY <1>1, <1>7 DEF User, SetClassificationRequestState, ProcessReturnQPushButton, Disk,
                      sessionVars, allVars
  <1> QED BY <1>3, <1>4, <1>5, <1>6, <1>7 DEF SessionNext, Ended, Worker

LEMMA AlwaysFailureInv == SessionSpec => [](SessionInv /\ PageInv /\ FailureInv)
  <1>1. SessionInit => FailureInv
    BY DEF SessionInit, FailureInv
  <1> QED BY <1>1, FailureStep, AlwaysPageInv, PTL DEF SessionSpec

LEMMA NothingAscends == Ascending({}) = <<>>
  <1>1. Cardinality({}) = 0 /\ IsFiniteSet({}) /\ {} \in SUBSET Nat
    BY FS_EmptySet
  <1>2. Ascending({}) \in [1..0 -> {}]
    BY <1>1, AscendingProperties
  <1> QED BY <1>2

LEMMA NothingOnPage == [i \in DOMAIN NoPage.entries |-> NoPage.entries[i].path] = <<>>
  BY DEF NoPage

LEMMA UserServes ==
  ASSUME SessionInv, PageInv, SessionInv', PageInv', User
  PROVE  Service!Next \/ UNCHANGED Observed
  <1> USE DEF SessionInv, BusyInv
  <1>1. ASSUME page = "start", ~ busy
        PROVE  ~ worker /\ signal = <<>> /\ Answer = "none" /\ ~ Final
    BY <1>1 DEF Answer, Final
  <1>2. ASSUME page = "start", ~ busy, SetClassificationRequestState,
               SelectedPlatforms # {} /\ SelectedImages # <<>>
        PROVE  Service!Ask
    <2>1. worker' /\ busy' /\ UNCHANGED <<hosts, page, signal, shown>>
      BY <1>2 DEF SetClassificationRequestState
    <2>2. Answer' = "pending" /\ ~ Final' /\ OnPage' = OnPage
      BY <2>1 DEF Answer, Final, OnPage
    <2> DEFINE D == DOMAIN request'.images
    <2>3. D \subseteq Paths /\ D # {}
      BY <2>1 DEF PageInv, RequestInv
    <2>4. D \in SUBSET Nat /\ IsFiniteSet(D) /\ Cardinality(D) \in Nat /\ Cardinality(D) # 0
      BY <2>3, StartWidgetAssumption, FS_Subset, FS_CardinalityType, FS_EmptySet
         DEF StartWidgetAssumption
    <2>5. RequestedPaths' = Ascending(D)
      BY DEF RequestedPaths
    <2> HIDE DEF D
    <2> DEFINE n == Cardinality(D)
    <2>6. /\ Ascending(D) \in [1..n -> D]
          /\ \A a, b \in 1..n : Ascending(D)[a] = Ascending(D)[b] => a = b
      BY <2>4, AscendingProperties
    <2>7. /\ RequestedPaths' \in Seq(Paths) /\ RequestedPaths' # <<>>
          /\ \A a, b \in DOMAIN RequestedPaths' : RequestedPaths'[a] = RequestedPaths'[b] => a = b
      <3>1. n \in Nat /\ 1 \in 1..n
        BY <2>4
      <3> HIDE DEF n
      <3>2. Ascending(D) \in [1..n -> Paths] /\ DOMAIN Ascending(D) = 1..n
        BY <2>3, <2>6
      <3> QED BY <2>5, <2>6, <3>1, <3>2
    <2> QED BY <1>1, <1>2, <2>1, <2>2, <2>7
        DEF Service!Ask, Service!MayAsk, Service!IsInjective, Answer, Final, OnPage
  <1>3. ASSUME page = "start", ~ busy, SetClassificationRequestState,
               ~ (SelectedPlatforms # {} /\ SelectedImages # <<>>)
        PROVE  Service!Refuse
    <2>1. request' = NoRequest /\ UNCHANGED <<worker, busy, hosts, page, signal, shown>>
      BY <1>3 DEF SetClassificationRequestState
    <2>2. RequestedPaths' = <<>>
      BY <2>1, NothingAscends DEF RequestedPaths, NoRequest
    <2>3. Answer' = Answer /\ Final' = Final /\ OnPage' = OnPage
      BY <2>1 DEF Answer, Final, OnPage
    <2> QED BY <1>1, <1>3, <2>1, <2>2, <2>3
        DEF Service!Refuse, Service!MayAsk, Answer, Final, OnPage
  <1>4. CASE ProcessReturnQPushButton
    <2>1. /\ page = "result" /\ page' = "start" /\ busy' = FALSE /\ shown' = NoPage
          /\ UNCHANGED <<hosts, request, worker, signal>>
      BY <1>4 DEF ProcessReturnQPushButton
    <2>2. OnPage' = <<>>
      BY <2>1, NothingOnPage DEF OnPage
    <2>3. Answer' = Answer /\ ~ Final /\ ~ Final' /\ RequestedPaths' = RequestedPaths
      BY <2>1 DEF Answer, Final, RequestedPaths
    <2> QED BY <2>1, <2>2, <2>3 DEF Service!Next, Service!Return, Answer, Final, OnPage
  <1>5. CASE UNCHANGED sessionVars
    BY <1>5 DEF sessionVars, Observed, Answer, Final, OnPage, RequestedPaths
  <1> QED BY <1>2, <1>3, <1>4, <1>5 DEF User, Service!Next

LEMMA WorkerServes ==
  ASSUME SessionInv, Worker
  PROVE  Service!Next \/ UNCHANGED Observed
  <1>1. worker /\ signal = <<>> /\ page = "start" /\ Answer = "pending" /\ ~ Final
    BY DEF SessionInv, BusyInv, Worker, Update, UpdateCutsTooMuch, UpdateHasNoPlatform, UpdateFails,
           Answer, Final
  <1>2. ASSUME UNCHANGED <<request, shown>>
        PROVE  RequestedPaths' = RequestedPaths /\ OnPage' = OnPage
    BY <1>2 DEF RequestedPaths, OnPage
  <1>3. CASE Update
    <2>1. PICK r : signal' = <<r>> /\ r.ok
      BY <1>3 DEF Update
    <2>2. worker' = FALSE /\ UNCHANGED <<hosts, page, busy, request, shown>>
      BY <1>3 DEF Update
    <2>3. Answer' = "ok" /\ ~ Final'
      BY <2>1, <2>2 DEF Answer, Final
    <2> QED BY <1>1, <1>2, <2>2, <2>3
        DEF Service!Next, Service!Succeed, Answer, Final, OnPage
  <1>4. CASE UpdateCutsTooMuch \/ UpdateHasNoPlatform
    <2>1. UNCHANGED <<hosts, page, busy, request, worker, signal, shown>>
      BY <1>4 DEF UpdateCutsTooMuch, UpdateHasNoPlatform
    <2> QED BY <1>2, <2>1 DEF Observed, Answer, Final
  <1>5. ASSUME NEW kind \in {"comm", "resource", "other"}, UpdateFails(kind)
        PROVE  Service!Fail(kind)
    <2>1. /\ signal' = <<[ok |-> FALSE, kind |-> kind]>> /\ worker' = FALSE
          /\ UNCHANGED <<page, busy, request, shown>>
          /\ hosts' = IF kind = "comm" THEN RemoveFirst(hosts, "fpga") ELSE hosts
          /\ kind = "comm" => "fpga" \in ToSet(hosts)
      BY <1>5 DEF UpdateFails
    <2>2. kind = "comm" => hosts = <<"fpga", "local">>
      BY <2>1 DEF SessionInv, SessionTypes, ToSet
    <2>3. hosts' = IF kind = "comm" THEN <<"local">> ELSE hosts
      BY <2>1, <2>2, RemoveFpga
    <2>4. Answer' = kind /\ ~ Final'
      BY <2>1 DEF Answer, Final
    <2> QED BY <1>1, <1>2, <2>1, <2>2, <2>3, <2>4 DEF Service!Fail, Answer, Final, OnPage
  <1> QED BY <1>3, <1>4, <1>5 DEF Worker, Service!Next

LEMMA EventsServe ==
  ASSUME SessionInv, PageInv, FailureInv, SessionInv', PageInv', EventLoop
  PROVE  Service!Next \/ UNCHANGED Observed
  <1>1. signal # <<>> /\ ~ worker /\ page = "start" /\ busy /\ ~ Final
    BY DEF SessionInv, BusyInv, EventLoop, ProcessClassificationResult, ProcessFailure,
           UpdatePlatformsCrashes, Final
  <1>2. CASE ProcessClassificationResult
    <2>1. /\ signal[1].ok /\ page' = "result" /\ signal' = <<>>
          /\ UNCHANGED <<hosts, busy, request, worker>>
      BY <1>2 DEF ProcessClassificationResult
    <2>2. Answer = "ok" /\ Answer' = "none" /\ ~ Final'
      BY <1>1, <2>1 DEF Answer, Final
    <2>3. RequestedPaths' = RequestedPaths
      BY <2>1 DEF RequestedPaths
    <2>4. OnPage' = RequestedPaths
      <3>1. /\ DOMAIN shown'.entries = DOMAIN RequestedPaths
            /\ \A k \in DOMAIN RequestedPaths : shown'.entries[k].path = RequestedPaths[k]
        BY <2>1, <2>3 DEF PageInv, ShownInv
      <3>2. DOMAIN request.images \subseteq Paths
        BY <1>1 DEF PageInv, RequestInv
      <3>3. RequestedPaths = [k \in DOMAIN RequestedPaths |-> RequestedPaths[k]]
        BY <3>2, RequestedPathsType
      <3> QED BY <3>1, <3>3 DEF OnPage
    <2> QED BY <1>1, <2>1, <2>2, <2>3, <2>4 DEF Service!Next, Service!Show, Answer, Final, OnPage
  <1>3. CASE ProcessFailure
    <2> DEFINE kind == signal[1].kind
    <2>1. /\ ~ signal[1].ok /\ signal' = <<>> /\ busy' = (kind = "resource")
          /\ UNCHANGED <<hosts, page, request, worker, shown>>
      BY <1>3 DEF ProcessFailure, LockedByError
    <2>2. kind \in {"comm", "resource", "other"}
      BY <1>1, <2>1 DEF FailureInv
    <2>3. Answer = kind /\ Answer' = "none"
      BY <1>1, <2>1 DEF Answer
    <2>4. Final' = (kind = "resource")
      BY <1>1, <2>1 DEF Final
    <2>5. RequestedPaths' = RequestedPaths /\ OnPage' = OnPage
      BY <2>1 DEF RequestedPaths, OnPage
    <2> HIDE DEF kind
    <2> QED BY <1>1, <2>1, <2>2, <2>3, <2>4, <2>5
        DEF Service!Next, Service!Report, Answer, Final, OnPage
  <1>4. CASE UpdatePlatformsCrashes
    BY <1>4 DEF UpdatePlatformsCrashes, Observed, Answer, Final, OnPage, RequestedPaths
  <1> QED BY <1>2, <1>3, <1>4 DEF EventLoop

(* A session, with its files, its check boxes and its results, is the      *)
(* service that the threads of Manager are: that update is one step here   *)
(* hides none of its answers.                                              *)
THEOREM SessionIsTheService == SessionSpec => ImplementsClassification
  <1>1. SessionInit => Service!Init
    <2> SUFFICES ASSUME SessionInit PROVE Service!Init
      OBVIOUS
    <2>1. Answer = "none" /\ ~ Final
      BY DEF SessionInit, Answer, Final
    <2>2. RequestedPaths = <<>>
      BY NothingAscends DEF SessionInit, NoRequest, RequestedPaths
    <2>3. OnPage = <<>>
      BY NothingOnPage DEF SessionInit, OnPage
    <2> QED BY <2>1, <2>2, <2>3 DEF Service!Init, SessionInit, Answer, Final, OnPage
  <1>2. SessionInv /\ PageInv /\ FailureInv /\ SessionInv' /\ PageInv' /\ [SessionNext]_allVars
          => [Service!Next]_(Service!serviceVars)
    <2> SUFFICES ASSUME SessionInv, PageInv, FailureInv, SessionInv', PageInv',
                        [SessionNext]_allVars
                 PROVE  Service!Next \/ UNCHANGED Service!serviceVars
      OBVIOUS
    <2>1. UNCHANGED sessionVars => UNCHANGED Observed
      BY DEF sessionVars, Observed, Answer, Final, OnPage, RequestedPaths
    <2>2. Service!Next \/ UNCHANGED Observed
      BY <2>1, UserServes, WorkerServes, EventsServe DEF SessionNext, Ended, Disk, allVars
    <2>3. UNCHANGED Observed => UNCHANGED Service!serviceVars
      BY DEF Service!serviceVars, Observed, Answer, Final, OnPage
    <2> QED BY <2>2, <2>3
  <1> QED BY <1>1, <1>2, AlwaysFailureInv, PTL DEF SessionSpec, ImplementsClassification, Service!Spec
=============================================================================
