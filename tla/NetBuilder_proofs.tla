-------------------------- MODULE NetBuilder_proofs --------------------------
(***************************************************************************)
(* What is built and offered for every directory, description and weight   *)
(* file: the layers so far are those described, and weightIndex counts     *)
(* those of them that have weights.                                        *)
(***************************************************************************)
EXTENDS NetBuilder, SequenceTheorems, Sums

IsList(s) == \E S : s \in Seq(S)

(* What is on offer is the identifier of a file that was read and has the  *)
(* name of the net.                                                        *)
Offers(id, file) == file.identifier = id /\ file.readable /\ file.valid /\ NameMatches(file)

CrawlInv ==
  at \in {"crawl", "offer"} =>
    /\ index \in Nat \ {0}
    /\ IsList(offered)
    /\ \A id \in ToSet(offered) : \E i \in DOMAIN directory : Offers(id, directory[i])

KnownType(type) == IF type \in KnownTypes THEN type ELSE "losslayer"

IsAsDescribed(i) ==
  /\ layers[i].type = KnownType(model[i].type)
  /\ layers[i].in = layers[i - 1].out
  /\ layers[i].group = IF Weighted(layers[i])
                       THEN Groups[Min({WeightedUpTo(i), Len(Groups)})] ELSE "none"

BuildInv ==
  at \in {"build", "built"} =>
    /\ index \in 1..(LastLayer + 1)
    /\ at = "built" => index = LastLayer + 1
    /\ IsList(layers) /\ Len(layers) = index
    /\ layers[1].type = "input"
    /\ weightIndex = WeightedUpTo(index)
    /\ \A i \in 2..index : IsAsDescribed(i)

(* Dimensions: a vector, or channels of squares, whose side is negative if *)
(* the filter was too large.                                               *)
Dimensions == {<<n>> : n \in Nat} \cup {<<c, w, w>> : c \in Nat, w \in Int}

Measured(l) == l.out \in Dimensions /\ ExactDifficulty(l) \in Nat

MeasureInv ==
  at \in {"build", "built"} =>
    /\ \A l \in ToSet(model) :
         {l.inputSize, l.inputChannels, l.filterSize, l.stride, l.numFilters, l.radius} \subseteq Nat
    /\ weightFile # <<>>
    /\ \A i \in 1..index : Measured(layers[i])

FilesInv ==
  /\ directory \in Directories
  /\ weightFile \in {<<>>} \cup {<<w>> : w \in WeightFiles}
  /\ IsList(model)

-----------------------------------------------------------------------------
(* The directory.                                                          *)

LEMMA DirectoryFacts ==
  ASSUME FilesInv, NEW i \in DOMAIN directory
  PROVE  /\ directory \in Seq(ToSet(directory)) /\ directory[i] \in ToSet(directory)
         /\ directory[i].name \in Seq(ToSet(directory[i].name))
         /\ directory[i].identifier \in Seq(ToSet(directory[i].identifier))
         /\ directory[i].layers \in Seq(ToSet(directory[i].layers))
  <1>1. directory[i] \in ToSet(directory)
    BY DEF ToSet
  <1>2. directory \in Directories
    BY DEF FilesInv
  <1>3. directory \in Seq(ToSet(directory)) /\ \A file \in ToSet(directory) :
          /\ file.name \in Seq(ToSet(file.name)) /\ file.identifier \in Seq(ToSet(file.identifier))
          /\ file.layers \in Seq(ToSet(file.layers))
    BY <1>2, NetBuilderAssumption, Zenon DEF NetBuilderAssumption
  <1> QED BY <1>1, <1>3, Zenon

LEMMA ToSetAppend ==
  ASSUME NEW S, NEW s \in Seq(S), NEW x
  PROVE  /\ Append(s, x) \in Seq(S \cup {x}) /\ Len(Append(s, x)) = Len(s) + 1
         /\ \A k \in 1..Len(s) : Append(s, x)[k] = s[k]
         /\ Append(s, x)[Len(s) + 1] = x
         /\ ToSet(Append(s, x)) = ToSet(s) \cup {x}
  <1> DEFINE T == S \cup {x}
             t == Append(s, x)
  <1>1. s \in Seq(T) /\ x \in T
    BY SeqMonotonic
  <1> HIDE DEF T
  <1>2. /\ t \in Seq(T) /\ Len(t) = Len(s) + 1
        /\ \A k \in 1..Len(s) : t[k] = s[k]
        /\ t[Len(s) + 1] = x
    BY <1>1, AppendProperties
  <1>3. Len(s) \in Nat /\ DOMAIN s = 1..Len(s) /\ DOMAIN t = 1..(Len(s) + 1)
    BY <1>1, <1>2, LenProperties
  <1> HIDE DEF t
  <1>4. ToSet(t) = ToSet(s) \cup {x}
    <2>1. \A k \in 1..(Len(s) + 1) : k \in 1..Len(s) \/ k = Len(s) + 1
      BY <1>3
    <2>2. ToSet(t) \subseteq ToSet(s) \cup {x}
      BY <1>2, <1>3, <2>1 DEF ToSet
    <2>3. ToSet(s) \subseteq ToSet(t)
      <3>1. \A k \in 1..Len(s) : k \in 1..(Len(s) + 1)
        BY <1>3
      <3> QED BY <1>2, <1>3, <3>1 DEF ToSet
    <2>4. Len(s) + 1 \in DOMAIN t
      BY <1>3
    <2> QED BY <1>2, <2>2, <2>3, <2>4 DEF ToSet
  <1> QED BY <1>2, <1>4 DEF t, T

LEMMA CrawlStep ==
  ASSUME FilesInv, CrawlInv, CrawlFile
  PROVE  CrawlInv'
  <1> DEFINE file == directory[index]
  <1>1. /\ at = "crawl" /\ at' = at /\ directory' = directory /\ index' = index + 1
        /\ index <= Len(directory) /\ ~ Corrupt(file) /\ ~ Mistyped(file)
        /\ offered' = IF file.valid THEN Append(offered, file.identifier) ELSE offered
    BY DEF CrawlFile
  <1>2. index \in DOMAIN directory
    <2>1. directory \in Seq(ToSet(directory))
      BY NetBuilderAssumption DEF NetBuilderAssumption, FilesInv
    <2>2. DOMAIN directory = 1..Len(directory) /\ Len(directory) \in Nat
      BY <2>1, LenProperties
    <2> QED BY <1>1, <2>2 DEF CrawlInv
  <1>3. file.valid => file.readable /\ NameMatches(file)
    BY <1>1 DEF Corrupt, Mistyped
  <1>4. PICK S : offered \in Seq(S)
    BY <1>1 DEF CrawlInv, IsList
  <1>5. index' \in Nat \ {0}
    BY <1>1 DEF CrawlInv
  <1>6. CASE file.valid
    <2> DEFINE x == file.identifier
    <2>0. offered' = Append(offered, x)
      BY <1>1, <1>6
    <2> HIDE DEF x
    <2>1. IsList(offered') /\ ToSet(offered') = ToSet(offered) \cup {x}
      <3>1. \A y : /\ Append(offered, y) \in Seq(S \cup {y})
                   /\ ToSet(Append(offered, y)) = ToSet(offered) \cup {y}
        BY <1>4, ToSetAppend
      <3> QED BY <2>0, <3>1 DEF IsList
    <2>2. Offers(x, file)
      BY <1>3, <1>6 DEF Offers, x
    <2> QED BY <1>1, <1>2, <1>5, <2>1, <2>2 DEF CrawlInv, Offers, NameMatches
  <1>7. CASE ~ file.valid
    BY <1>1, <1>5, <1>7 DEF CrawlInv, Offers, NameMatches
  <1> QED BY <1>6, <1>7

(* A name of one part has no other suffix than itself. *)
LEMMA OnlySuffix ==
  ASSUME NEW S, NEW s \in Seq(S), NEW t \in Seq(S), s # <<>>, Len(t) = 1, IsSuffix(s, t)
  PROVE  s = t
  <1>1. Len(s) \in Nat \ {0}
    BY EmptySeq, LenProperties
  <1> DEFINE n == Len(s)
             r == [i \in 1..n |-> s[n - i + 1]]
             q == [i \in 1..1 |-> t[1 - i + 1]]
  <1>2. Reverse(s) = r /\ Reverse(t) = q
    BY DEF Reverse
  <1>3. r \in Seq(S) /\ Len(r) = n /\ q \in Seq(S) /\ Len(q) = 1
    <2>1. r \in [1..n -> S]
      <3>1. \A i \in 1..n : n - i + 1 \in 1..n
        BY <1>1
      <3> QED BY <3>1, ElementOfSeq
    <2>2. q \in [1..1 -> S]
      <3>1. \A i \in 1..1 : 1 - i + 1 \in 1..Len(t)
        OBVIOUS
      <3> QED BY <3>1, ElementOfSeq
    <2> HIDE DEF r, q, n
    <2>3. r \in Seq(S) /\ q \in Seq(S)
      <3>1. n \in Nat /\ 1 \in Nat
        BY <1>1 DEF n
      <3>2. r \in UNION {[1..k -> S] : k \in Nat} /\ q \in UNION {[1..k -> S] : k \in Nat}
        BY <3>1, <2>1, <2>2, Zenon
      <3> QED BY <3>2, SeqDef, Zenon
    <2> QED BY <1>1, <2>1, <2>2, <2>3, LenProperties DEF n
  <1>4. Len(r) <= Len(q) /\ SubSeq(r, 1, Len(r)) = SubSeq(q, 1, Len(r))
    BY <1>2 DEF IsSuffix, IsPrefix
  <1>5. n = 1
    BY <1>1, <1>3, <1>4
  <1>6. r[1] = q[1]
    <2> HIDE DEF r, q
    <2>1. \A j \in 1..1 : r[j] \in S /\ q[j] \in S
      BY <1>3, <1>5, ElementOfSeq
    <2>2. /\ \A j \in 1..(1 - 1 + 1) : SubSeq(r, 1, 1)[j] = r[1 + j - 1]
          /\ \A j \in 1..(1 - 1 + 1) : SubSeq(q, 1, 1)[j] = q[1 + j - 1]
      BY <2>1, SubSeqProperties
    <2> QED BY <1>3, <1>4, <1>5, <2>2
  <1>7. s[1] = t[1]
    BY <1>5, <1>6
  <1> QED BY <1>5, <1>7, SeqEqual

LEMMA OfferedAreFound ==
  ASSUME FilesInv, CrawlInv
  PROVE  OfferedNetsCanBeOpened
  <1> SUFFICES ASSUME at = "offer",
                      \A file \in ToSet(directory) :
                        Len(file.name) = 1 /\ ~ file.goesOn /\ file.identifier # <<>>,
                      NEW id \in ToSet(offered)
               PROVE  \E i \in Described(id) : directory[i].readable /\ directory[i].valid
    BY DEF OfferedNetsCanBeOpened
  <1>1. PICK i \in DOMAIN directory : Offers(id, directory[i])
    BY DEF CrawlInv
  <1>2. Len(directory[i].name) = 1 /\ ~ directory[i].goesOn /\ directory[i].identifier # <<>>
    BY DirectoryFacts
  <1>3. IsSuffix(directory[i].identifier, directory[i].name) /\ directory[i].identifier = id
    BY <1>1 DEF Offers, NameMatches
  <1> DEFINE s == directory[i].identifier
             n == directory[i].name
             T == ToSet(s) \cup ToSet(n)
  <1>4. s \in Seq(ToSet(s)) /\ n \in Seq(ToSet(n))
    BY DirectoryFacts
  <1> HIDE DEF s, n
  <1>5. s \in Seq(T) /\ n \in Seq(T)
    BY <1>4, SeqMonotonic
  <1> HIDE DEF T
  <1>6. s # <<>> /\ Len(n) = 1 /\ IsSuffix(s, n)
    BY <1>2, <1>3 DEF s, n
  <1>7. s = n
    BY <1>5, <1>6, OnlySuffix
  <1> QED BY <1>1, <1>2, <1>3, <1>7 DEF Described, Offers, s, n

-----------------------------------------------------------------------------
(* The layers.                                                             *)

LEMMA WeightedType ==
  ASSUME NEW n \in Nat
  PROVE  WeightedUpTo(n) \in Nat
  <1>1. IsFiniteSet(1..n)
    BY FS_Interval
  <1>2. {j \in 1..n : Weighted(layers[j])} \in SUBSET (1..n)
    OBVIOUS
  <1>3. IsFiniteSet({j \in 1..n : Weighted(layers[j])})
    BY <1>1, <1>2, FS_Subset
  <1> QED BY <1>3, FS_CardinalityType DEF WeightedUpTo

(* A layer more, after n of them. *)
LEMMA WeightedNext ==
  ASSUME NEW n \in Nat, \A j \in 1..n : layers[j]' = layers[j]
  PROVE  /\ \A i \in 1..n : WeightedUpTo(i)' = WeightedUpTo(i)
         /\ WeightedUpTo(n + 1)' = WeightedUpTo(n) + IF Weighted(layers[n + 1])' THEN 1 ELSE 0
  <1> DEFINE B(i) == {j \in 1..i : Weighted(layers[j])}
             A(i) == {j \in 1..i : Weighted(layers[j])'}
  <1>1. \A i \in 1..n : A(i) = B(i)
    BY DEF Weighted
  <1>2. \A i \in 1..n : WeightedUpTo(i)' = WeightedUpTo(i)
    BY <1>1 DEF WeightedUpTo
  <1>3. A(n + 1) = IF Weighted(layers[n + 1])' THEN B(n) \cup {n + 1} ELSE B(n)
    <2>1. \A j : j \in 1..(n + 1) <=> j \in 1..n \/ j = n + 1
      OBVIOUS
    <2>2. \A j \in 1..n : Weighted(layers[j])' <=> Weighted(layers[j])
      BY DEF Weighted
    <2> QED BY <2>1, <2>2
  <1>4. IsFiniteSet(B(n)) /\ n + 1 \notin B(n)
    <2>1. IsFiniteSet(1..n) /\ B(n) \in SUBSET (1..n)
      BY FS_Interval
    <2> QED BY <2>1, FS_Subset
  <1>5. Cardinality(B(n) \cup {n + 1}) = Cardinality(B(n)) + 1 /\ Cardinality(B(n)) \in Nat
    BY <1>4, FS_AddElement, FS_CardinalityType
  <1>6. WeightedUpTo(n + 1)' = Cardinality(A(n + 1)) /\ WeightedUpTo(n) = Cardinality(B(n))
    BY DEF WeightedUpTo
  <1> HIDE DEF A, B
  <1>7. WeightedUpTo(n + 1)' = WeightedUpTo(n) + IF Weighted(layers[n + 1])' THEN 1 ELSE 0
    <2>1. CASE Weighted(layers[n + 1])'
      BY <1>3, <1>5, <1>6, <2>1
    <2>2. CASE ~ Weighted(layers[n + 1])'
      BY <1>3, <1>5, <1>6, <2>2
    <2> QED BY <2>1, <2>2
  <1> QED BY <1>2, <1>7

(* What the actions that add a layer have in common.                       *)
Grows(layer) ==
  /\ at = "build" /\ at' = "build" /\ index <= LastLayer /\ index' = index + 1 /\ model' = model
  /\ layers' = Append(layers, layer)

LEMMA AddsOne ==
  ASSUME FilesInv, BuildInv, NEW layer, Grows(layer), NEW n, n = index
  PROVE  /\ n \in 1..LastLayer /\ LastLayer \in Nat
         /\ IsList(layers') /\ Len(layers)' = n + 1
         /\ \A k \in 1..n : layers[k]' = layers[k]
         /\ layers[n + 1]' = layer /\ Dims = layers[n].out
  <1>1. n \in 1..LastLayer /\ LastLayer \in Nat /\ Len(layers) = n
    BY NetBuilderAssumption DEF NetBuilderAssumption, BuildInv, Grows
  <1>2. PICK S : layers \in Seq(S)
    BY DEF BuildInv, IsList, Grows
  <1>3. \A y : /\ Append(layers, y) \in Seq(S \cup {y}) /\ Len(Append(layers, y)) = Len(layers) + 1
               /\ \A k \in 1..Len(layers) : Append(layers, y)[k] = layers[k]
               /\ Append(layers, y)[Len(layers) + 1] = y
    BY <1>2, ToSetAppend
  <1>4. IsList(layers')
    BY <1>3 DEF IsList, Grows
  <1> QED BY <1>1, <1>3, <1>4 DEF Grows, Dims, Last

LEMMA BuildStep ==
  ASSUME FilesInv, BuildInv, NEW layer, Grows(layer),
         layer.type = KnownType(Lcp.type), layer.in = Dims,
         layer.group = IF Weighted(layer) THEN Group ELSE "none",
         weightIndex' = IF Weighted(layer) THEN weightIndex + 1 ELSE weightIndex
  PROVE  BuildInv'
  <1>0. PICK n : n = index
    OBVIOUS
  <1>1. /\ n \in 1..LastLayer /\ LastLayer \in Nat
        /\ IsList(layers') /\ Len(layers)' = n + 1
        /\ \A k \in 1..n : layers[k]' = layers[k]
        /\ layers[n + 1]' = layer /\ Dims = layers[n].out
    BY <1>0, AddsOne
  <1>2. /\ layers[1].type = "input" /\ weightIndex = WeightedUpTo(n)
        /\ \A i \in 2..n : IsAsDescribed(i)
        /\ index' = n + 1 /\ model' = model /\ at' = "build"
    BY <1>0 DEF BuildInv, Grows
  <1>3. /\ \A i \in 1..n : WeightedUpTo(i)' = WeightedUpTo(i)
        /\ WeightedUpTo(n + 1)' = WeightedUpTo(n) + IF Weighted(layer) THEN 1 ELSE 0
        /\ Weighted(layers[n + 1])' <=> Weighted(layer)
    <2>1. Weighted(layers[n + 1])' <=> Weighted(layer)
      BY <1>1 DEF Weighted
    <2>2. n \in Nat
      BY <1>1
    <2>3. /\ \A i \in 1..n : WeightedUpTo(i)' = WeightedUpTo(i)
          /\ WeightedUpTo(n + 1)' = WeightedUpTo(n) + IF Weighted(layers[n + 1])' THEN 1 ELSE 0
      BY <1>1, <2>2, WeightedNext
    <2> QED BY <2>1, <2>3
  <1>4. WeightedUpTo(n) \in Nat
    BY <1>1, WeightedType
  <1>5. weightIndex' = WeightedUpTo(n + 1)'
    BY <1>2, <1>3, <1>4
  <1>6. \A i \in 2..n : IsAsDescribed(i)'
    <2> SUFFICES ASSUME NEW i \in 2..n PROVE IsAsDescribed(i)'
      OBVIOUS
    <2>1. IsAsDescribed(i) /\ i \in 1..n /\ i - 1 \in 1..n
      BY <1>1, <1>2
    <2>2. layers[i]' = layers[i] /\ layers[i - 1]' = layers[i - 1] /\ WeightedUpTo(i)' = WeightedUpTo(i)
      BY <1>1, <1>3, <2>1
    <2> QED BY <1>2, <2>1, <2>2 DEF IsAsDescribed, Weighted
  <1>7. IsAsDescribed(n + 1)'
    <2> DEFINE m == n + 1
    <2>1. m - 1 = n /\ n \in 1..n
      BY <1>1
    <2>2. layers[m]' = layer /\ layers[m - 1]' = layers[n] /\ model' = model
      BY <1>1, <1>2, <2>1
    <2>3. Weighted(layer) => WeightedUpTo(m)' = weightIndex + 1
      BY <1>2, <1>3, <1>4
    <2>4. Weighted(layers[m])' <=> Weighted(layer)
      BY <1>3
    <2>5. layer.type = KnownType(model[m].type) /\ layer.in = layers[n].out
      BY <1>0, <1>1 DEF Lcp
    <2>6. layer.group = IF Weighted(layer) THEN Groups[Min({WeightedUpTo(m)', Len(Groups)})] ELSE "none"
      BY <2>3 DEF Group
    <2> HIDE DEF m
    <2>7. layers[m].type' = KnownType(model[m].type)' /\ layers[m].in' = layers[m - 1].out'
      BY <2>2, <2>5 DEF KnownType
    <2>8. layers[m].group' = IF Weighted(layers[m])' THEN Groups[Min({WeightedUpTo(m)', Len(Groups)})] ELSE "none"
      BY <2>2, <2>4, <2>6
    <2>9. IsAsDescribed(m)'
      BY <2>7, <2>8 DEF IsAsDescribed, KnownType
    <2> QED BY <2>9 DEF m
  <1>8. \A i \in 2..(n + 1) : IsAsDescribed(i)'
    <2>1. \A i \in 2..(n + 1) : i \in 2..n \/ i = n + 1
      BY <1>1
    <2> QED BY <1>6, <1>7, <2>1
  <1>9. n + 1 \in 1..(LastLayer + 1) /\ layers[1]'.type = "input"
    BY <1>1, <1>2
  <1>10. /\ index' \in 1..(LastLayer + 1) /\ at' # "built"
         /\ IsList(layers') /\ Len(layers)' = index' /\ layers[1]'.type = "input"
    BY <1>1, <1>2, <1>9
  <1>11. weightIndex' = WeightedUpTo(index)'
    BY <1>2, <1>5 DEF WeightedUpTo
  <1>12. \A i \in 2..index' : IsAsDescribed(i)'
    BY <1>2, <1>8
  <1> QED BY <1>10, <1>11, <1>12 DEF BuildInv

LEMMA NextBuild ==
  ASSUME FilesInv, BuildInv, [Next]_vars
  PROVE  BuildInv'
  <1>1. \A how : Ends(how) => /\ at' = how /\ UNCHANGED <<index, layers, model, weightIndex>>
    BY DEF Ends
  <1>2. CASE at' \notin {"build", "built"}
    BY <1>2 DEF BuildInv
  <1>3. CASE NetBuilt
    <2>1. LastLayer \in Nat
      BY NetBuilderAssumption DEF NetBuilderAssumption
    <2>2. index = LastLayer + 1
      BY <1>3, <2>1 DEF NetBuilt, BuildInv
    <2> QED BY <1>1, <1>3, <2>2
        DEF NetBuilt, BuildInv, IsAsDescribed, Weighted, WeightedUpTo
  <1>4. ASSUME NEW id, BeginBuild(id), at' = "build"
        PROVE  BuildInv'
    <2>1. PICK l : /\ layers' = <<InputLayer(l)>> /\ index' = 1 /\ weightIndex' = 0
      BY <1>1, <1>4 DEF BeginBuild
    <2>2. LastLayer \in Nat
      BY NetBuilderAssumption DEF NetBuilderAssumption
    <2> DEFINE x == InputLayer(l)
    <2>3. x.type = "input"
      BY DEF InputLayer
    <2> HIDE DEF x
    <2>4. layers' \in Seq({x}) /\ Len(layers') = 1 /\ layers'[1] = x
      BY <2>1 DEF x
    <2>5. WeightedUpTo(1)' = 0
      <3>1. {j \in 1..1 : Weighted(layers[j])'} = {}
        BY <2>3, <2>4 DEF Weighted
      <3> QED BY <3>1, FS_EmptySet DEF WeightedUpTo
    <2>6. weightIndex' = WeightedUpTo(index)'
      BY <2>1, <2>5 DEF WeightedUpTo
    <2>7. index' \in 1..(LastLayer + 1) /\ \A i \in 2..index' : IsAsDescribed(i)'
      BY <2>1, <2>2
    <2>8. IsList(layers') /\ Len(layers') = index' /\ layers'[1].type = "input"
      BY <2>1, <2>3, <2>4 DEF IsList
    <2> QED BY <1>4, <2>6, <2>7, <2>8 DEF BuildInv
  <1>5. CASE AddPlainLayer
    <2> DEFINE layer == [type |-> IF Lcp.type \in {"activation", "LRN"} THEN Lcp.type ELSE "losslayer",
                         in |-> Dims, out |-> Dims, group |-> "none", params |-> Params(Lcp)]
    <2>1. Grows(layer) /\ weightIndex' = weightIndex
      BY <1>5 DEF AddPlainLayer, AddLayer, Building, Grows
    <2>2. /\ layer.type = KnownType(Lcp.type) /\ layer.in = Dims /\ layer.group = "none"
          /\ ~ Weighted(layer)
      BY <1>5 DEF AddPlainLayer, KnownType, KnownTypes, Weighted
    <2> HIDE DEF layer
    <2> QED BY <2>1, <2>2, BuildStep
  <1>6. CASE AddPoolingLayer
    <2> DEFINE layer == [type |-> "maxpooling", in |-> Dims, out |-> PoolDims(Lcp), group |-> "none",
                         params |-> Params(Lcp)]
    <2>1. Grows(layer) /\ weightIndex' = weightIndex
      BY <1>6 DEF AddPoolingLayer, AddLayer, Building, Grows
    <2>2. /\ layer.type = KnownType(Lcp.type) /\ layer.in = Dims /\ layer.group = "none"
          /\ ~ Weighted(layer)
      BY <1>6 DEF AddPoolingLayer, KnownType, KnownTypes, Weighted
    <2> HIDE DEF layer
    <2> QED BY <2>1, <2>2, BuildStep
  <1>7. CASE AddConvLayer
    <2> DEFINE layer == [type |-> "conv", in |-> Dims, out |-> ConvDims(Lcp), group |-> Group,
                         params |-> Params(Lcp)]
    <2>1. Grows(layer) /\ weightIndex' = weightIndex + 1
      BY <1>7 DEF AddConvLayer, AddLayer, Building, Grows
    <2>2. /\ layer.type = KnownType(Lcp.type) /\ layer.in = Dims /\ layer.group = Group
          /\ Weighted(layer)
      BY <1>7 DEF AddConvLayer, KnownType, KnownTypes, Weighted
    <2> HIDE DEF layer
    <2> QED BY <2>1, <2>2, BuildStep
  <1>8. CASE AddFCLayer
    <2> DEFINE layer == [type |-> "fullyConnected", in |-> Dims, out |-> <<Weights.rows>>,
                         group |-> Group, elements |-> Weights.rows * Weights.columns]
    <2>1. Grows(layer) /\ weightIndex' = weightIndex + 1
      BY <1>8 DEF AddFCLayer, AddLayer, Building, Grows, NextWeights
    <2>2. /\ layer.type = KnownType(Lcp.type) /\ layer.in = Dims /\ layer.group = Group
          /\ Weighted(layer)
      BY <1>8 DEF AddFCLayer, KnownType, KnownTypes, Weighted
    <2> HIDE DEF layer
    <2> QED BY <2>1, <2>2, BuildStep
  <1>9. CASE UNCHANGED vars
    BY <1>9 DEF vars, BuildInv, IsAsDescribed, Weighted, WeightedUpTo
  <1>10. ASSUME CrawlFile \/ CrawlEnds \/ LayerMissing \/ WeightsMissing
                \/ WeightsAssertionFails \/ DimensionsUndefined
         PROVE  at' \notin {"build", "built"}
    BY <1>1, <1>10 DEF CrawlFile, CrawlEnds, LayerMissing, WeightsMissing, WeightsAssertionFails,
       DimensionsUndefined
  <1>11. ASSUME NEW id, BeginBuild(id) PROVE at' # "built"
    BY <1>1, <1>11 DEF BeginBuild
  <1> QED BY <1>2, <1>3, <1>4, <1>5, <1>6, <1>7, <1>8, <1>9, <1>10, <1>11 DEF Next, Stopped

LEMMA NextFiles ==
  ASSUME FilesInv, [Next]_vars
  PROVE  FilesInv'
  <1>1. directory' = directory /\ weightFile' = weightFile
    BY DEF Next, vars, CrawlFile, CrawlEnds, BeginBuild, Ends, LayerMissing, AddPlainLayer,
       AddPoolingLayer, AddConvLayer, AddFCLayer, AddLayer, WeightsMissing, WeightsAssertionFails,
       DimensionsUndefined, NetBuilt, Stopped
  <1>2. model' = model \/ \E i \in DOMAIN directory : model' = directory[i].layers
    BY DEF Next, vars, CrawlFile, CrawlEnds, BeginBuild, Described, Ends, LayerMissing, AddPlainLayer,
       AddPoolingLayer, AddConvLayer, AddFCLayer, AddLayer, WeightsMissing, WeightsAssertionFails,
       DimensionsUndefined, NetBuilt, Stopped
  <1>3. IsList(model')
    BY <1>2, DirectoryFacts DEF FilesInv, IsList
  <1> QED BY <1>1, <1>3 DEF FilesInv

LEMMA NextCrawl ==
  ASSUME FilesInv, CrawlInv, [Next]_vars
  PROVE  CrawlInv'
  <1>1. CASE CrawlFile
    BY <1>1, CrawlStep
  <1>2. CASE CrawlEnds \/ UNCHANGED vars
    BY <1>2 DEF CrawlEnds, vars, CrawlInv, Offers, NameMatches
  <1>3. CASE /\ at' \notin {"crawl", "offer"}
    BY <1>3 DEF CrawlInv
  <1> QED BY <1>1, <1>2, <1>3
      DEF Next, BeginBuild, Ends, LayerMissing, AddPlainLayer, Building,
       AddPoolingLayer, AddConvLayer, AddFCLayer, AddLayer, WeightsMissing, WeightsAssertionFails,
       DimensionsUndefined, NetBuilt, Stopped

-----------------------------------------------------------------------------
(* The difficulties.                                                       *)

(* What the recursive function is, for as many dimensions as there are.    *)
LEMMA ElementsOne ==
  ASSUME NEW n \in Nat
  PROVE  Elements(<<n>>) = n
  <1> DEFINE dims == <<n>>
             P(g) == g = [k \in 0..1 |-> IF k = 0 THEN 1 ELSE g[k - 1] * dims[k]]
             f == [k \in 0..1 |-> IF k = 0 THEN 1 ELSE n]
             p == CHOOSE g : P(g)
  <1>1. Len(dims) = 1 /\ dims[1] = n
    OBVIOUS
  <1>2. P(f)
    OBVIOUS
  <1>3. P(p)
    BY <1>2
  <1>4. p[0] = 1 /\ p[1] = p[0] * n
    <2> HIDE DEF p
    <2>1. \A k \in 0..1 : p[k] = IF k = 0 THEN 1 ELSE p[k - 1] * dims[k]
      BY <1>3
    <2> HIDE DEF dims
    <2> QED BY <1>1, <2>1
  <1>5. Elements(dims) = p[1]
    BY <1>1 DEF Elements
  <1> HIDE DEF p
  <1> QED BY <1>4, <1>5

LEMMA ElementsThree ==
  ASSUME NEW c \in Nat, NEW w \in Int
  PROVE  Elements(<<c, w, w>>) = c * w * w
  <1> DEFINE dims == <<c, w, w>>
             P(g) == g = [k \in 0..3 |-> IF k = 0 THEN 1 ELSE g[k - 1] * dims[k]]
             f == [k \in 0..3 |-> IF k = 0 THEN 1 ELSE IF k = 1 THEN c ELSE IF k = 2 THEN c * w ELSE c * w * w]
             p == CHOOSE g : P(g)
  <1>1. Len(dims) = 3 /\ dims[1] = c /\ dims[2] = w /\ dims[3] = w
    OBVIOUS
  <1>2. P(f)
    OBVIOUS
  <1>3. P(p)
    BY <1>2
  <1>4. p[0] = 1 /\ p[1] = p[0] * c /\ p[2] = p[1] * w /\ p[3] = p[2] * w
    <2> HIDE DEF p
    <2>1. \A k \in 0..3 : p[k] = IF k = 0 THEN 1 ELSE p[k - 1] * dims[k]
      BY <1>3
    <2> HIDE DEF dims
    <2> QED BY <1>1, <2>1
  <1>5. Elements(dims) = p[3]
    BY <1>1 DEF Elements
  <1> HIDE DEF p
  <1> QED BY <1>4, <1>5

LEMMA DimensionsAre ==
  /\ \A n \in Nat : <<n>> \in Dimensions
  /\ \A c \in Nat, w \in Int : <<c, w, w>> \in Dimensions
  BY DEF Dimensions

LEMMA ElementsNat ==
  ASSUME NEW dims \in Dimensions
  PROVE  Elements(dims) \in Nat
  <1>1. CASE \E n \in Nat : dims = <<n>>
    BY <1>1, ElementsOne
  <1>2. CASE \E c \in Nat, w \in Int : dims = <<c, w, w>>
    <2>1. PICK c \in Nat, w \in Int : dims = <<c, w, w>>
      BY <1>2
    <2>2. Elements(dims) = c * w * w
      BY <2>1, ElementsThree
    <2>3. w * w \in Nat /\ c * w * w = c * (w * w)
      OBVIOUS
    <2>4. c * (w * w) \in Nat
      BY <2>3
    <2> QED BY <2>2, <2>3, <2>4
  <1> QED BY <1>1, <1>2 DEF Dimensions

LEMMA WidthIsInt ==
  ASSUME Dims \in Dimensions, Len(Dims) = 3, NEW l, l.filterSize \in Nat, l.stride \in Nat,
         l.stride # 0
  PROVE  OutputWidth(l) \in Int
  <1>1. PICK c \in Nat, w \in Int : Dims = <<c, w, w>>
    BY DEF Dimensions
  <1>2. Dims[3] - l.filterSize \in Int /\ l.stride \in Int /\ l.stride > 0
    BY <1>1
  <1>3. \A a \in Int, b \in Nat : b > 0 => a \div b \in Int
    OBVIOUS
  <1>4. \A a \in Int, b \in Nat : b > 0 => Quotient(a, b) \in Int
    BY <1>3 DEF Quotient
  <1> QED BY <1>2, <1>4 DEF OutputWidth

LEMMA MeasureStep ==
  ASSUME FilesInv, BuildInv, MeasureInv, NEW layer, Grows(layer), Measured(layer),
         weightFile' = weightFile
  PROVE  MeasureInv'
  <1>0. PICK n : n = index
    OBVIOUS
  <1>1. n \in 1..LastLayer /\ (\A k \in 1..n : layers[k]' = layers[k]) /\ layers[n + 1]' = layer
    BY <1>0, AddsOne
  <1>2. \A i \in 1..n : Measured(layers[i])'
    BY <1>0, <1>1 DEF MeasureInv, Grows, Measured, ExactDifficulty, NaiveDifficulty
  <1>3. Measured(layers[n + 1])'
    BY <1>1 DEF Measured, ExactDifficulty, NaiveDifficulty
  <1>4. \A i \in 1..(n + 1) : i \in 1..n \/ i = n + 1
    BY <1>1
  <1>5. index' = n + 1 /\ model' = model
    BY <1>0 DEF Grows
  <1>6. \A i \in 1..index' : Measured(layers[i])'
    BY <1>2, <1>3, <1>4, <1>5
  <1> QED BY <1>5, <1>6 DEF MeasureInv, Grows

(* What a layer is built from. *)
LEMMA BuildsFrom ==
  ASSUME FilesInv, BuildInv, MeasureInv, Building
  PROVE  /\ Dims \in Dimensions
         /\ {Lcp.filterSize, Lcp.stride, Lcp.numFilters, Lcp.radius} \subseteq Nat
         /\ GroupFound => Weights.rows \in Nat /\ Weights.columns \in Nat
  <1>1. index \in 1..LastLayer /\ Len(layers) = index /\ at = "build"
    BY NetBuilderAssumption DEF NetBuilderAssumption, BuildInv, Building
  <1>2. Dims = layers[index].out /\ index \in 1..index
    BY <1>1 DEF Dims, Last
  <1>3. Dims \in Dimensions
    BY <1>1, <1>2 DEF MeasureInv, Measured
  <1>4. Lcp \in ToSet(model)
    <2>1. PICK S : model \in Seq(S)
      BY DEF FilesInv, IsList
    <2>2. index + 1 \in 1..Len(model) /\ DOMAIN model = 1..Len(model)
      BY <1>1, <2>1, LenProperties DEF Building, HasLayer
    <2> QED BY <2>2 DEF Lcp, ToSet
  <1>5. {Lcp.filterSize, Lcp.stride, Lcp.numFilters, Lcp.radius} \subseteq Nat
    BY <1>1, <1>4 DEF MeasureInv
  <1>6. ASSUME GroupFound PROVE Weights.rows \in Nat /\ Weights.columns \in Nat
    <2>1. weightFile # <<>>
      BY <1>1 DEF MeasureInv
    <2>2. PICK w \in WeightFiles : weightFile = <<w>>
      BY <2>1 DEF FilesInv
    <2>3. weightFile[1] = w
      BY <2>2
    <2>4. \A g \in DOMAIN w : w[g].rows \in Nat /\ w[g].columns \in Nat
      BY <2>2, NetBuilderAssumption DEF NetBuilderAssumption
    <2> QED BY <1>6, <2>3, <2>4 DEF GroupFound, Weights
  <1> QED BY <1>3, <1>5, <1>6

LEMMA NextMeasure ==
  ASSUME NaturalFields, FilesInv, BuildInv, MeasureInv, [Next]_vars
  PROVE  MeasureInv'
  <1>1. \A how : Ends(how) => /\ at' = how /\ UNCHANGED <<index, layers, model, weightFile>>
    BY DEF Ends
  <1>2. CASE at' \notin {"build", "built"}
    BY <1>2 DEF MeasureInv
  <1>3. CASE NetBuilt
    BY <1>1, <1>3 DEF NetBuilt, MeasureInv, Measured, ExactDifficulty, NaiveDifficulty
  <1>4. ASSUME NEW id, BeginBuild(id), at' = "build"
        PROVE  MeasureInv'
    <2>1. PICK i \in DOMAIN directory :
            /\ model' = directory[i].layers /\ HasLayer(directory[i].layers, 1) /\ weightFile # <<>>
            /\ layers' = <<InputLayer(directory[i].layers[1])>> /\ index' = 1 /\ weightFile' = weightFile
      BY <1>1, <1>4 DEF BeginBuild, Described
    <2> DEFINE list == directory[i].layers
    <2>2. list \in Seq(ToSet(list)) /\ directory[i] \in ToSet(directory) /\ directory \in Directories
      BY DirectoryFacts DEF FilesInv
    <2>3. \A l \in ToSet(list) :
            {l.inputSize, l.inputChannels, l.filterSize, l.stride, l.numFilters, l.radius} \subseteq Nat
      BY <2>2, Zenon DEF NaturalFields
    <2> HIDE DEF list
    <2>4. list[1] \in ToSet(list)
      <3>1. 1 \in 1..Len(list) /\ DOMAIN list = 1..Len(list)
        BY <2>1, <2>2, LenProperties DEF HasLayer, list
      <3> QED BY <3>1 DEF ToSet
    <2> DEFINE x == InputLayer(list[1])
    <2>5. Measured(x)
      <3>1. x.out \in Dimensions /\ x.type = "input"
        <4>1. list[1].inputChannels \in Nat /\ list[1].inputSize \in Int
          BY <2>3, <2>4
        <4>2. x.out = <<list[1].inputChannels, list[1].inputSize, list[1].inputSize>> /\ x.type = "input"
          BY DEF InputLayer
        <4> HIDE DEF x
        <4> QED BY <4>1, <4>2, DimensionsAre
      <3> HIDE DEF x
      <3>2. ExactDifficulty(x) = 1
        BY <3>1 DEF ExactDifficulty, NaiveDifficulty
      <3> QED BY <3>1, <3>2 DEF Measured
    <2>6. layers[1]' = x
      BY <2>1 DEF list
    <2> HIDE DEF x
    <2>7. Measured(layers[1])'
      BY <2>5, <2>6 DEF Measured, ExactDifficulty, NaiveDifficulty
    <2>8. \A k \in 1..index' : Measured(layers[k])'
      BY <2>1, <2>7
    <2>9. model' = list /\ weightFile' # <<>>
      BY <2>1 DEF list
    <2> QED BY <2>3, <2>8, <2>9 DEF MeasureInv
  <1>5. CASE AddPlainLayer
    <2> DEFINE layer == [type |-> IF Lcp.type \in {"activation", "LRN"} THEN Lcp.type ELSE "losslayer",
                         in |-> Dims, out |-> Dims, group |-> "none", params |-> Params(Lcp)]
    <2>1. Grows(layer) /\ weightFile' = weightFile /\ Building
      BY <1>5 DEF AddPlainLayer, AddLayer, Building, Grows
    <2>2. Dims \in Dimensions /\ Lcp.radius \in Nat
      BY <2>1, BuildsFrom
    <2>3. /\ layer.type \in {"activation", "LRN", "losslayer"} /\ layer.in = Dims
          /\ layer.out = Dims /\ layer.params.radius = Lcp.radius
      BY DEF Params
    <2> HIDE DEF layer
    <2>4. Elements(Dims) \in Nat /\ 2 * Lcp.radius \in Nat
      BY <2>2, ElementsNat
    <2>5. \A a, b \in Nat : a * b \in Nat
      OBVIOUS
    <2>6. ExactDifficulty(layer) \in Nat
      <3>1. CASE layer.type = "LRN"
        <4>1. ExactDifficulty(layer) = 2 * Lcp.radius * Elements(Dims)
          BY <2>3, <3>1 DEF ExactDifficulty
        <4> QED BY <2>4, <2>5, <4>1
      <3>2. CASE layer.type # "LRN"
        <4>1. ExactDifficulty(layer) = Elements(Dims)
          BY <2>3, <3>2 DEF ExactDifficulty
        <4> QED BY <2>4, <4>1
      <3> QED BY <3>1, <3>2
    <2> QED BY <2>1, <2>2, <2>3, <2>6, MeasureStep DEF Measured
  <1>6. CASE AddPoolingLayer
    <2> DEFINE layer == [type |-> "maxpooling", in |-> Dims, out |-> PoolDims(Lcp), group |-> "none",
                         params |-> Params(Lcp)]
    <2>1. Grows(layer) /\ weightFile' = weightFile /\ Building
      BY <1>6 DEF AddPoolingLayer, AddLayer, Building, Grows
    <2>2. Dims \in Dimensions /\ Lcp.filterSize \in Nat /\ Lcp.stride \in Nat
      BY <2>1, BuildsFrom
    <2>3. /\ layer.type = "maxpooling" /\ layer.out = PoolDims(Lcp)
          /\ layer.params.filterSize = Lcp.filterSize
      BY DEF Params
    <2> HIDE DEF layer
    <2>4. OutputWidth(Lcp) \in Int
      BY <1>6, <2>2, WidthIsInt DEF AddPoolingLayer
    <2>5. Dims[1] \in Nat
      BY <2>2 DEF Dimensions
    <2>6. layer.out \in Dimensions
      BY <2>3, <2>4, <2>5 DEF PoolDims, Dimensions
    <2>7. Elements(layer.out) \in Nat
      BY <2>6, ElementsNat
    <2>8. \A a, b \in Nat : a * a * b \in Nat
      <3>1. \A a, b \in Nat : a * b \in Nat
        OBVIOUS
      <3> QED BY <3>1
    <2>9. ExactDifficulty(layer) = Lcp.filterSize * Lcp.filterSize * Elements(layer.out)
      BY <2>3 DEF ExactDifficulty
    <2>10. ExactDifficulty(layer) \in Nat
      BY <2>2, <2>7, <2>8, <2>9
    <2> QED BY <2>1, <2>6, <2>10, MeasureStep DEF Measured
  <1>7. CASE AddConvLayer
    <2> DEFINE layer == [type |-> "conv", in |-> Dims, out |-> ConvDims(Lcp), group |-> Group,
                         params |-> Params(Lcp)]
    <2>1. Grows(layer) /\ weightFile' = weightFile /\ Building
      BY <1>7 DEF AddConvLayer, AddLayer, Building, Grows
    <2>2. /\ Dims \in Dimensions /\ Lcp.filterSize \in Nat /\ Lcp.stride \in Nat
          /\ Lcp.numFilters \in Nat
      BY <2>1, BuildsFrom
    <2>3. /\ layer.type = "conv" /\ layer.out = ConvDims(Lcp) /\ layer.in = Dims
          /\ layer.params.filterSize = Lcp.filterSize
      BY DEF Params
    <2> HIDE DEF layer
    <2>4. OutputWidth(Lcp) \in Int
      BY <1>7, <2>2, WidthIsInt DEF AddConvLayer
    <2>5. Len(Dims) = 3 => Dims[1] \in Nat /\ Dims[3] \in Int
      BY <2>2 DEF Dimensions
    <2>6. layer.out \in Dimensions /\ Dims[1] \in Nat
      BY <1>7, <2>2, <2>3, <2>4, <2>5 DEF AddConvLayer, ConvDims, Dimensions
    <2>7. Elements(layer.out) \in Nat
      BY <2>6, ElementsNat
    <2>8. \A e, f, c \in Nat : e * f * f * c \in Nat
      <3>1. \A a, b \in Nat : a * b \in Nat
        OBVIOUS
      <3> QED BY <3>1
    <2>9. ExactDifficulty(layer) = Elements(layer.out) * Lcp.filterSize * Lcp.filterSize * Dims[1]
      BY <2>3 DEF ExactDifficulty
    <2>10. ExactDifficulty(layer) \in Nat
      BY <2>2, <2>6, <2>7, <2>8, <2>9
    <2> QED BY <2>1, <2>6, <2>10, MeasureStep DEF Measured
  <1>8. CASE AddFCLayer
    <2> DEFINE layer == [type |-> "fullyConnected", in |-> Dims, out |-> <<Weights.rows>>,
                         group |-> Group, elements |-> Weights.rows * Weights.columns]
    <2>1. Grows(layer) /\ weightFile' = weightFile /\ Building /\ GroupFound
      BY <1>8 DEF AddFCLayer, AddLayer, Building, Grows
    <2>2. Weights.rows \in Nat /\ Weights.columns \in Nat
      BY <2>1, BuildsFrom
    <2>3. /\ layer.type = "fullyConnected" /\ layer.out = <<Weights.rows>>
          /\ layer.elements = Weights.rows * Weights.columns
      OBVIOUS
    <2> HIDE DEF layer
    <2>4. ExactDifficulty(layer) = Weights.rows * Weights.columns
      BY <2>3 DEF ExactDifficulty
    <2>5. ExactDifficulty(layer) \in Nat
      BY <2>2, <2>4
    <2>6. layer.out \in Dimensions
      BY <2>2, <2>3, DimensionsAre
    <2> QED BY <2>1, <2>5, <2>6, MeasureStep DEF Measured
  <1>9. CASE UNCHANGED vars
    BY <1>9 DEF vars, MeasureInv, Measured, ExactDifficulty, NaiveDifficulty
  <1>10. ASSUME CrawlFile \/ CrawlEnds \/ LayerMissing \/ WeightsMissing
                \/ WeightsAssertionFails \/ DimensionsUndefined
         PROVE  at' \notin {"build", "built"}
    BY <1>1, <1>10 DEF CrawlFile, CrawlEnds, LayerMissing, WeightsMissing, WeightsAssertionFails,
       DimensionsUndefined
  <1>11. ASSUME NEW id, BeginBuild(id) PROVE at' # "built"
    BY <1>1, <1>11 DEF BeginBuild
  <1> QED BY <1>2, <1>3, <1>4, <1>5, <1>6, <1>7, <1>8, <1>9, <1>10, <1>11 DEF Next, Stopped

(* The net that is built has an input layer of difficulty 1.               *)
LEMMA MeasuredIsPositive ==
  ASSUME BuildInv, MeasureInv
  PROVE  DifficultyIsPositive
  <1> SUFFICES ASSUME at = "built", \A i \in DOMAIN layers : ExactDifficulty(layers[i]) < IntLimit
               PROVE  TotalDifficulty > 0
    BY DEF DifficultyIsPositive
  <1> DEFINE n == Len(layers)
             d == Difficulties
             total == FoldLeft(+, 0, d)
  <1>1. DOMAIN layers = 1..n /\ n \in Nat /\ n > 0 /\ n = index /\ layers[1].type = "input"
    <2>1. PICK S : layers \in Seq(S)
      BY DEF BuildInv, IsList
    <2>2. index \in 1..(LastLayer + 1) /\ LastLayer \in Nat
      BY NetBuilderAssumption DEF BuildInv, NetBuilderAssumption
    <2> QED BY <2>1, <2>2, LenProperties DEF BuildInv
  <1>2. IntLimit \in Nat
    BY NetBuilderAssumption DEF NetBuilderAssumption
  <1>3. \A m \in Nat : m < IntLimit => ToInt(m) = m
    <2> SUFFICES ASSUME NEW m \in Nat, m < IntLimit PROVE ToInt(m) = m
      OBVIOUS
    <2>1. m + IntLimit \in 0..(2 * IntLimit - 1) /\ 2 * IntLimit \in Nat \ {0}
      BY <1>2
    <2>2. \A a, b \in Nat : a < b => a % b = a
      OBVIOUS
    <2>3. (m + IntLimit) % (2 * IntLimit) = m + IntLimit
      BY <1>2, <2>1, <2>2
    <2> QED BY <1>2, <2>3 DEF ToInt
  <1>4. \A i \in 1..n : ExactDifficulty(layers[i]) \in Nat /\ ExactDifficulty(layers[i]) < IntLimit
    BY <1>1 DEF MeasureInv, Measured
  <1>5. DOMAIN d = 1..n /\ \A i \in 1..n : d[i] = ExactDifficulty(layers[i]) /\ d[i] \in Nat
    BY <1>1, <1>3, <1>4 DEF Difficulties
  <1>6. d \in Seq(Nat) /\ Len(d) = n
    <2>1. d \in [1..n -> Nat]
      <3>1. d = [i \in DOMAIN d |-> d[i]]
        BY DEF Difficulties
      <3> HIDE DEF d
      <3> QED BY <1>5, <3>1
    <2> HIDE DEF d, n
    <2>2. d \in UNION {[1..k -> Nat] : k \in Nat}
      BY <1>1, <2>1, Zenon
    <2>3. d \in Seq(Nat)
      BY <2>2, SeqDef, Zenon
    <2> QED BY <1>1, <1>5, <2>3, LenProperties
  <1>7. d[1] = 1
    <2>1. ExactDifficulty(layers[1]) = 1
      BY <1>1 DEF ExactDifficulty, NaiveDifficulty
    <2> QED BY <1>1, <1>5, <2>1
  <1> HIDE DEF d, n
  <1>8. PICK g : IsSum(g, d, 1..n) /\ total = g[1..n]
    <2>1. PICK g : IsSum(g, d, 1..Len(d)) /\ total = g[1..Len(d)]
      BY <1>6, FoldLeftIsSum
    <2> HIDE DEF total
    <2> QED BY <1>6, <2>1
  <1> HIDE DEF total
  <1>9. g[1..n] = d[1] + g[(1..n) \ {1}] /\ g[(1..n) \ {1}] \in Nat
    <2>1. 1 \in 1..n /\ 1..n \in SUBSET (1..n) /\ (1..n) \ {1} \in SUBSET (1..n)
      BY <1>1
    <2> QED BY <1>8, <2>1 DEF IsSum
  <1>10. total > 0
    BY <1>7, <1>8, <1>9
  <1> QED BY <1>10 DEF TotalDifficulty, total, d

-----------------------------------------------------------------------------
LEMMA InitInv ==
  ASSUME Init
  PROVE  FilesInv /\ CrawlInv /\ BuildInv /\ MeasureInv
  <1>1. <<>> \in Seq({}) /\ ToSet(<<>>) = {}
    BY DEF ToSet
  <1>2. FilesInv
    BY <1>1 DEF Init, FilesInv, IsList
  <1>3. CrawlInv
    BY <1>1 DEF Init, CrawlInv, IsList
  <1> QED BY <1>2, <1>3 DEF Init, BuildInv, MeasureInv

BuilderInv == FilesInv /\ CrawlInv /\ BuildInv

LEMMA BuilderInvariant == Spec => []BuilderInv
  <1>1. Init => BuilderInv
    BY InitInv DEF BuilderInv
  <1>2. BuilderInv /\ [Next]_vars => BuilderInv'
    BY NextFiles, NextCrawl, NextBuild DEF BuilderInv
  <1> QED BY <1>1, <1>2, PTL DEF Spec

(* A net that is built has the layers that are described, in order, and    *)
(* its k-th layer with weights has the k-th group of the weight file.      *)
THEOREM BuildsWhatIsDescribed == Spec => []BuiltAsDescribed
  <1>1. BuilderInv => BuiltAsDescribed
    BY DEF BuilderInv, BuildInv, BuiltAsDescribed, IsAsDescribed, KnownType
  <1> QED BY <1>1, BuilderInvariant, PTL

(* The file of every net on offer is found when the net is to be built.    *)
THEOREM OffersWhatOpens == Spec => []OfferedNetsCanBeOpened
  <1>1. BuilderInv => OfferedNetsCanBeOpened
    BY OfferedAreFound DEF BuilderInv
  <1> QED BY <1>1, BuilderInvariant, PTL

(* With descriptions of natural numbers, the total difficulty that the     *)
(* placement divides by is positive for every net that can be built.       *)
THEOREM DividesByTheDifficulty ==
  ASSUME NaturalFields
  PROVE  Spec => []DifficultyIsPositive
  <1>1. Init => MeasureInv
    BY InitInv
  <1>2. BuilderInv /\ MeasureInv /\ [Next]_vars => MeasureInv'
    BY NextMeasure DEF BuilderInv
  <1>3. BuilderInv /\ MeasureInv => DifficultyIsPositive
    BY MeasuredIsPositive DEF BuilderInv
  <1> QED BY <1>1, <1>2, <1>3, BuilderInvariant, PTL DEF Spec
=============================================================================
