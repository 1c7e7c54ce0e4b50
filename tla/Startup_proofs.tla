--------------------------- MODULE Startup_proofs ---------------------------
(***************************************************************************)
(* What the start of the manager guarantees for every pair of models       *)
(* directories, whichever of its calls fail.  The invariant follows the    *)
(* three loops: what is left of the hosts while their nets are asked for   *)
(* (QueryInv), what is left of the nets while they are compared            *)
(* (IntersectInv, and ExactInv if at most one net is to go), and the hosts *)
(* whose platforms have been fetched (PlatformsInv).                       *)
(***************************************************************************)
EXTENDS Startup, SequenceTheorems, TLAPS

-----------------------------------------------------------------------------
(* Sequences with an element taken out.                                    *)

(* RemoveAt drops one element; those behind it move up. *)
LEMMA RemoveAtProperties ==
  ASSUME NEW S, NEW s \in Seq(S), NEW k \in 1..Len(s)
  PROVE  /\ RemoveAt(s, k) \in Seq(S)
         /\ Len(RemoveAt(s, k)) = Len(s) - 1
         /\ \A j \in 1..(Len(s) - 1) : RemoveAt(s, k)[j] = IF j < k THEN s[j] ELSE s[j + 1]
  <1> DEFINE front == SubSeq(s, 1, k - 1)
             back == SubSeq(s, k + 1, Len(s))
  <1>1. Len(s) \in Nat /\ \A j \in 1..Len(s) : s[j] \in S
    BY LenProperties, ElementOfSeq
  <1>2. /\ front \in Seq(S) /\ Len(front) = k - 1
        /\ \A j \in 1..(k - 1) : front[j] = s[j]
    <2>1. 1 \in Int /\ k - 1 \in Int /\ \A j \in 1..(k - 1) : s[j] \in S
      BY <1>1
    <2>2. /\ front \in Seq(S)
          /\ Len(front) = IF 1 <= k - 1 THEN k - 1 - 1 + 1 ELSE 0
          /\ \A j \in 1..(k - 1 - 1 + 1) : front[j] = s[1 + j - 1]
      BY <2>1, SubSeqProperties
    <2> QED BY <2>2, <1>1
  <1>3. /\ back \in Seq(S) /\ Len(back) = Len(s) - k
        /\ \A j \in 1..(Len(s) - k) : back[j] = s[k + j]
    <2>1. k + 1 \in Int /\ Len(s) \in Int /\ \A j \in (k + 1)..Len(s) : s[j] \in S
      BY <1>1
    <2>2. /\ back \in Seq(S)
          /\ Len(back) = IF k + 1 <= Len(s) THEN Len(s) - (k + 1) + 1 ELSE 0
          /\ \A j \in 1..(Len(s) - (k + 1) + 1) : back[j] = s[k + 1 + j - 1]
      BY <2>1, SubSeqProperties
    <2> QED BY <2>2, <1>1
  <1>4. RemoveAt(s, k) = front \o back
    BY DEF RemoveAt
  <1> HIDE DEF front, back
  <1>5. /\ front \o back \in Seq(S)
        /\ Len(front \o back) = Len(front) + Len(back)
        /\ \A j \in 1..(Len(front) + Len(back)) :
             (front \o back)[j] = IF j <= Len(front) THEN front[j] ELSE back[j - Len(front)]
    BY <1>2, <1>3, ConcatProperties
  <1>6. Len(front) + Len(back) = Len(s) - 1
    BY <1>1, <1>2, <1>3
  <1>7. ASSUME NEW j \in 1..(Len(s) - 1)
        PROVE  (front \o back)[j] = IF j < k THEN s[j] ELSE s[j + 1]
    <2>1. CASE j < k
      BY <2>1, <1>1, <1>2, <1>5, <1>6
    <2>2. CASE ~(j < k)
      <3>1. j - (k - 1) \in 1..(Len(s) - k) /\ k + (j - (k - 1)) = j + 1
        BY <2>2, <1>1
      <3>2. back[j - (k - 1)] = s[k + (j - (k - 1))]
        BY <3>1, <1>3
      <3>3. j \in 1..(Len(front) + Len(back)) /\ ~(j <= Len(front)) /\ Len(front) = k - 1
        BY <2>2, <1>1, <1>2, <1>6
      <3>4. (front \o back)[j] = back[j - (k - 1)]
        BY <3>3, <1>5
      <3> QED BY <2>2, <3>1, <3>2, <3>4
    <2> QED BY <2>1, <2>2
  <1> QED BY <1>4, <1>5, <1>6, <1>7

(* A sequence without repetition keeps none, and the element is gone. *)
LEMMA RemoveAtSet ==
  ASSUME NEW S, NEW s \in Seq(S), IsInjective(s), NEW k \in 1..Len(s)
  PROVE  /\ IsInjective(RemoveAt(s, k))
         /\ ToSet(RemoveAt(s, k)) = ToSet(s) \ {s[k]}
  <1> DEFINE r == RemoveAt(s, k)
  <1>1. /\ Len(s) \in Nat /\ DOMAIN s = 1..Len(s)
        /\ \A a, b \in 1..Len(s) : s[a] = s[b] => a = b
    BY LenProperties DEF IsInjective
  <1>2. /\ r \in Seq(S) /\ DOMAIN r = 1..(Len(s) - 1)
        /\ \A j \in 1..(Len(s) - 1) : r[j] = IF j < k THEN s[j] ELSE s[j + 1]
    BY RemoveAtProperties, LenProperties
  <1> HIDE DEF r
  <1>3. IsInjective(r)
    <2> SUFFICES ASSUME NEW a \in 1..(Len(s) - 1), NEW b \in 1..(Len(s) - 1), r[a] = r[b]
                 PROVE  a = b
      BY <1>2 DEF IsInjective
    <2>1. r[a] = IF a < k THEN s[a] ELSE s[a + 1]
      BY <1>2
    <2>2. r[b] = IF b < k THEN s[b] ELSE s[b + 1]
      BY <1>2
    <2>3. \A c, d \in 1..Len(s) : s[c] = s[d] => c = d
      BY <1>1
    <2>4. Len(s) \in Nat
      BY <1>1
    <2>5. CASE a < k /\ b < k
      <3>1. a \in 1..Len(s) /\ b \in 1..Len(s)
        BY <2>4
      <3> QED BY <3>1, <2>1, <2>2, <2>3, <2>5
    <2>6. CASE a < k /\ ~(b < k)
      <3>1. a \in 1..Len(s) /\ b + 1 \in 1..Len(s) /\ a # b + 1
        BY <2>4, <2>6
      <3> QED BY <3>1, <2>1, <2>2, <2>3, <2>6
    <2>7. CASE ~(a < k) /\ b < k
      <3>1. b \in 1..Len(s) /\ a + 1 \in 1..Len(s) /\ b # a + 1
        BY <2>4, <2>7
      <3> QED BY <3>1, <2>1, <2>2, <2>3, <2>7
    <2>8. CASE ~(a < k) /\ ~(b < k)
      <3>1. a + 1 \in 1..Len(s) /\ b + 1 \in 1..Len(s)
        BY <2>4
      <3>2. a + 1 = b + 1
        BY <3>1, <2>1, <2>2, <2>3, <2>8
      <3> QED BY <3>2
    <2> QED BY <2>5, <2>6, <2>7, <2>8
  <1>4. ToSet(r) \subseteq ToSet(s) \ {s[k]}
    <2> SUFFICES ASSUME NEW j \in 1..(Len(s) - 1)
                 PROVE  r[j] \in ToSet(s) \ {s[k]}
      BY <1>2 DEF ToSet
    <2>1. CASE j < k
      <3>1. r[j] = s[j] /\ j \in 1..Len(s) /\ j # k
        BY <2>1, <1>1, <1>2
      <3> QED BY <3>1, <1>1 DEF ToSet
    <2>2. CASE ~(j < k)
      <3>1. r[j] = s[j + 1] /\ j + 1 \in 1..Len(s) /\ j + 1 # k
        BY <2>2, <1>1, <1>2
      <3> QED BY <3>1, <1>1 DEF ToSet
    <2> QED BY <2>1, <2>2
  <1>5. ToSet(s) \ {s[k]} \subseteq ToSet(r)
    <2> SUFFICES ASSUME NEW j \in 1..Len(s), j # k
                 PROVE  s[j] \in ToSet(r)
      BY <1>1 DEF ToSet
    <2>1. CASE j < k
      <3>1. j \in 1..(Len(s) - 1) /\ r[j] = s[j]
        BY <2>1, <1>1, <1>2
      <3> QED BY <3>1, <1>2 DEF ToSet
    <2>2. CASE j > k
      <3>1. j - 1 \in 1..(Len(s) - 1) /\ ~(j - 1 < k) /\ (j - 1) + 1 = j
        BY <2>2, <1>1
      <3>2. r[j - 1] = s[j]
        BY <3>1, <1>2
      <3> QED BY <3>1, <3>2, <1>2 DEF ToSet
    <2> QED BY <2>1, <2>2, <1>1
  <1> QED BY <1>3, <1>4, <1>5 DEF r

(* The memory of the vector has the size it had. *)
LEMMA ErasedProperties ==
  ASSUME NEW S, NEW m \in Seq(S), NEW length \in 0..Len(m), NEW k \in 1..Len(m)
  PROVE  /\ Erased(m, length, k) \in Seq(S)
         /\ Len(Erased(m, length, k)) = Len(m)
         /\ \A j \in 1..Len(m) : Erased(m, length, k)[j] =
              IF j \in k..(length - 1) THEN m[j + 1] ELSE m[j]
  <1> DEFINE e(j) == IF j \in k..(length - 1) THEN m[j + 1] ELSE m[j]
  <1>1. Len(m) \in Nat /\ DOMAIN m = 1..Len(m) /\ \A j \in 1..Len(m) : m[j] \in S
    BY LenProperties, ElementOfSeq
  <1>2. \A j \in 1..Len(m) : e(j) \in S
    BY <1>1
  <1>3. Erased(m, length, k) = [j \in 1..Len(m) |-> e(j)]
    BY <1>1 DEF Erased
  <1> HIDE DEF e
  <1>4. [j \in 1..Len(m) |-> e(j)] \in Seq(S)
    BY <1>1, <1>2, IsASeq
  <1>5. Len([j \in 1..Len(m) |-> e(j)]) = Len(m)
    BY <1>1, <1>4, LenProperties
  <1> QED BY <1>3, <1>4, <1>5 DEF e

-----------------------------------------------------------------------------
(* The inductive invariant.                                                *)

AskedHosts == {<<"local">>, <<"fpga", "local">>}

(* There is a list of nets for each host. *)
Asked == /\ hosts \in AskedHosts
         /\ allNets = [j \in DOMAIN hosts |-> netsOf[hosts[j]]]

(* The vector's memory holds hosts in two of the loops, nets in the other. *)
SlotsInv ==
  /\ slots \in Seq(Hosts \cup Nets)
  /\ pc \in {"queryNets", "queryPlatforms"} => slots \in Seq(Hosts)
  /\ pc = "intersect" => slots \in Seq(Nets)

(* Before the first loop. *)
BeginInv ==
  pc \in {"connect", "executor"} =>
    /\ hosts \in {<<>>, <<"fpga">>} /\ ~ exceptionptr
    /\ allNets = <<>> /\ other = 2 /\ nets = <<>> /\ platformsOf = <<>>

(* Which hosts are left, what the vector's memory holds, and which lists   *)
(* there are as long as no exception is to be shown: the server was        *)
(* reached each time, or was erased in the first turn of the loop.         *)
NoHostErased ==
  /\ slots = hosts
  /\ hosts \in {<<>>, <<"fpga">>, <<"local">>, <<"fpga", "local">>}
  /\ ~ exceptionptr =>
       /\ hosts \in AskedHosts
       /\ Len(allNets) = i - 1
       /\ \A j \in 1..(i - 1) : allNets[j] = netsOf[hosts[j]]

ServerErased ==
  /\ i \in {2, 3}
  /\ \/ slots = <<"fpga">> /\ hosts = <<>> /\ exceptionptr
     \/ /\ slots = <<"local", "local">> /\ hosts = <<"local">>
        /\ ~ exceptionptr =>
             /\ Len(allNets) = i - 2
             /\ \A j \in 1..(i - 2) : allNets[j] = netsOf["local"]

QueryInv ==
  pc = "queryNets" =>
    /\ NoHostErased \/ ServerErased
    /\ other = 2 /\ nets = <<>> /\ platformsOf = <<>>

(* The nets left are nets of the first host, those that all have included. *)
CommonKept ==
  /\ IsInjective(nets)
  /\ ToSet(nets) \subseteq ToSet(allNets[1])
  /\ \A n \in ToSet(allNets[1]) :
       (\A j \in DOMAIN hosts : n \in ToSet(netsOf[hosts[j]])) => n \in ToSet(nets)

IntersectInv ==
  pc = "intersect" =>
    /\ ~ exceptionptr /\ Asked /\ CommonKept /\ platformsOf = <<>>
    /\ Len(nets) <= Len(slots)
    /\ other <= Len(allNets) + 1

PlatformsInv ==
  pc = "queryPlatforms" =>
    /\ slots = hosts
    /\ Len(platformsOf) = i - 1
    /\ \A j \in 1..(i - 1) : platformsOf[j] = hosts[j]
    /\ ~ exceptionptr => Asked /\ CommonKept

WindowInv ==
  pc = "window" => Asked /\ CommonKept /\ platformsOf = hosts

UndefinedInv == pc = "undefined" => allNets # <<>>

(* netIntersection with at most one net to erase: until it meets that net  *)
(* nothing has changed, and afterwards all other nets are still to be seen *)
(* or were seen, the last one perhaps twice.                               *)
OneMissingAtMost == \A a, b \in ToSet(allNets[1]) \ ToSet(allNets[2]) : a = b

NothingMissingYet ==
  /\ nets = allNets[1] /\ slots = allNets[1]
  /\ \A j \in 1..(i - 1) : j \in DOMAIN allNets[1] => allNets[1][j] \in ToSet(allNets[2])

MissingErased ==
  \E p \in DOMAIN allNets[1] :
    /\ p < i /\ allNets[1][p] \notin ToSet(allNets[2])
    /\ nets = RemoveAt(allNets[1], p)
    /\ slots = Erased(allNets[1], Len(allNets[1]), p)

ExactInv ==
  Len(allNets) = 2 /\ OneMissingAtMost =>
    /\ pc = "intersect" /\ other = 2 => NothingMissingYet \/ MissingErased
    /\ pc = "intersect" /\ other = 3 => OnlyTheMissingNetIsGone
    /\ pc = "queryPlatforms" /\ ~ exceptionptr => OnlyTheMissingNetIsGone
    /\ pc = "window" => OnlyTheMissingNetIsGone

StartInv ==
  /\ TypeOK /\ SlotsInv /\ BeginInv /\ QueryInv /\ IntersectInv /\ PlatformsInv
  /\ WindowInv /\ UndefinedInv /\ ExactInv

-----------------------------------------------------------------------------
LEMMA NetFacts ==
  \A list \in NetLists : list \in Seq(Nets) /\ IsInjective(list)
  <1> SUFFICES ASSUME NEW list \in NetLists
               PROVE  list \in Seq(Nets) /\ IsInjective(list)
    OBVIOUS
  <1>1. list \in Seq(ToSet(list)) /\ IsInjective(list)
    BY StartupAssumption DEF StartupAssumption
  <1>2. ToSet(list) \subseteq Nets
    BY DEF Nets
  <1> QED BY <1>1, <1>2, SeqMonotonic

(* The lists of hosts there are. *)
LEMMA HostLists ==
  /\ Len(<<>>) = 0
  /\ <<"fpga">> \in Seq(Hosts) /\ Len(<<"fpga">>) = 1 /\ <<"fpga">>[1] = "fpga"
  /\ <<"local">> \in Seq(Hosts) /\ Len(<<"local">>) = 1 /\ <<"local">>[1] = "local"
  /\ <<"fpga", "local">> \in Seq(Hosts) /\ Len(<<"fpga", "local">>) = 2
  /\ <<"fpga", "local">>[1] = "fpga" /\ <<"fpga", "local">>[2] = "local"
  /\ <<"local", "local">> \in Seq(Hosts) /\ Len(<<"local", "local">>) = 2
  /\ <<"local", "local">>[1] = "local" /\ <<"local", "local">>[2] = "local"
  BY DEF Hosts

LEMMA AppendLocal ==
  /\ Append(<<>>, "local") = <<"local">>
  /\ Append(<<"fpga">>, "local") = <<"fpga", "local">>
  <1>1. <<>> \in Seq(Hosts) /\ <<"fpga">> \in Seq(Hosts) /\ "local" \in Hosts
    BY EmptySeq, HostLists DEF Hosts
  <1>2. Append(<<>>, "local") = <<"local">>
    <2> DEFINE a == Append(<<>>, "local")
    <2>1. a \in Seq(Hosts) /\ Len(a) = 1 /\ a[1] = "local"
      BY <1>1, AppendProperties, HostLists
    <2> HIDE DEF a
    <2>2. \A j \in 1..Len(a) : a[j] = <<"local">>[j]
      BY <2>1
    <2> QED BY <2>1, <2>2, HostLists, SeqEqual DEF a
  <1>3. Append(<<"fpga">>, "local") = <<"fpga", "local">>
    <2> DEFINE a == Append(<<"fpga">>, "local")
    <2>1. a \in Seq(Hosts) /\ Len(a) = 2 /\ a[1] = "fpga" /\ a[2] = "local"
      BY <1>1, AppendProperties, HostLists
    <2> HIDE DEF a
    <2>2. \A j \in 1..Len(a) : a[j] = <<"fpga", "local">>[j]
      BY <2>1
    <2> QED BY <2>1, <2>2, HostLists, SeqEqual DEF a
  <1> QED BY <1>2, <1>3

(* What there is one list of nets for each host means. *)
LEMMA AskedFacts ==
  ASSUME TypeOK, Asked
  PROVE  /\ Len(hosts) \in {1, 2} /\ hosts # <<>>
         /\ Len(allNets) = Len(hosts) /\ allNets # <<>>
         /\ \A j \in 1..Len(hosts) : allNets[j] = netsOf[hosts[j]] /\ allNets[j] \in NetLists
  <1>1. Len(hosts) \in {1, 2} /\ hosts # <<>>
    BY HostLists DEF Asked, AskedHosts
  <1>2. hosts \in Seq(Hosts) /\ DOMAIN hosts = 1..Len(hosts)
    BY LenProperties DEF TypeOK
  <1>3. DOMAIN allNets = 1..Len(hosts)
    BY <1>2 DEF Asked
  <1>4. DOMAIN allNets = 1..Len(allNets) /\ Len(allNets) \in Nat
    BY LenProperties DEF TypeOK
  <1>5. Len(allNets) = Len(hosts)
    BY <1>1, <1>3, <1>4
  <1>6. \A j \in 1..Len(hosts) : allNets[j] = netsOf[hosts[j]] /\ allNets[j] \in NetLists
    BY <1>2, <1>5, ElementOfSeq DEF Asked, TypeOK
  <1>7. allNets # <<>>
    BY <1>1, <1>5, HostLists
  <1> QED BY <1>1, <1>5, <1>6, <1>7

(* The same read element by element, as the first loop builds it. *)
LEMMA AskedOf ==
  ASSUME TypeOK, hosts \in AskedHosts, Len(allNets) = Len(hosts),
         \A j \in 1..Len(hosts) : allNets[j] = netsOf[hosts[j]]
  PROVE  Asked
  <1>1. DOMAIN hosts = 1..Len(hosts)
    BY LenProperties DEF TypeOK
  <1>2. allNets \in [1..Len(hosts) -> NetLists]
    BY LenProperties DEF TypeOK
  <1>3. allNets = [j \in 1..Len(hosts) |-> netsOf[hosts[j]]]
    BY <1>2
  <1> QED BY <1>1, <1>3 DEF Asked

LEMMA Lengths ==
  ASSUME TypeOK, SlotsInv
  PROVE  /\ Len(slots) \in Nat /\ DOMAIN slots = 1..Len(slots)
         /\ Len(hosts) \in Nat /\ DOMAIN hosts = 1..Len(hosts)
         /\ Len(nets) \in Nat /\ DOMAIN nets = 1..Len(nets)
         /\ Len(allNets) \in Nat /\ DOMAIN allNets = 1..Len(allNets)
         /\ Len(platformsOf) \in Nat
         /\ i \in Nat /\ i >= 1 /\ i <= Len(slots) + 1
  BY LenProperties DEF TypeOK, SlotsInv

-----------------------------------------------------------------------------
LEMMA StartsSo == Init => StartInv
  <1> SUFFICES ASSUME Init PROVE StartInv
    OBVIOUS
  <1> USE DEF Init
  <1>1. TypeOK
    <2>1. i \in 1..(Len(slots) + 1)
      BY HostLists
    <2>2. <<>> \in Seq(Hosts) /\ <<>> \in Seq(Nets) /\ <<>> \in Seq(NetLists)
      BY EmptySeq
    <2>3. serverUp \in BOOLEAN /\ exceptionptr \in BOOLEAN
      OBVIOUS
    <2>4. netsOf \in [Hosts -> NetLists] /\ other \in 2..3 /\ pc = "connect"
      BY DEF Hosts
    <2>5. hosts \in Seq(Hosts) /\ platformsOf \in Seq(Hosts) /\ allNets \in Seq(NetLists)
          /\ nets \in Seq(Nets)
      BY <2>2
    <2> QED BY <2>1, <2>3, <2>4, <2>5 DEF TypeOK
  <1>2. SlotsInv
    BY EmptySeq DEF SlotsInv
  <1>3. BeginInv
    BY DEF BeginInv
  <1>4. QueryInv /\ IntersectInv /\ PlatformsInv /\ WindowInv /\ UndefinedInv
    BY DEF QueryInv, IntersectInv, PlatformsInv, WindowInv, UndefinedInv
  <1>5. ExactInv
    BY DEF ExactInv
  <1> QED BY <1>1, <1>2, <1>3, <1>4, <1>5 DEF StartInv

(* The invariants of the places a step does not reach hold after it. *)
LEMMA Elsewhere ==
  ASSUME pc' \in {"error", "terminated", "undefined"}, TypeOK', SlotsInv', UndefinedInv'
  PROVE  StartInv'
  <1>1. BeginInv' /\ QueryInv' /\ IntersectInv' /\ PlatformsInv' /\ WindowInv'
    BY DEF BeginInv, QueryInv, IntersectInv, PlatformsInv, WindowInv
  <1>2. ExactInv'
    BY DEF ExactInv
  <1> QED BY <1>1, <1>2 DEF StartInv

(* The server goes, or nothing changes. *)
LEMMA ServerStep == StartInv /\ (ServerVanishes \/ UNCHANGED vars) => StartInv'
  <1> SUFFICES ASSUME StartInv, ServerVanishes \/ UNCHANGED vars
               PROVE  StartInv'
    OBVIOUS
  <1>0. /\ UNCHANGED <<pc, netsOf, hosts, exceptionptr, slots, i, allNets, other, nets,
                       platformsOf>>
        /\ serverUp' \in BOOLEAN
    BY DEF StartInv, TypeOK, ServerVanishes, vars
  <1>1. TypeOK'
    BY <1>0 DEF StartInv, TypeOK
  <1>2. SlotsInv' /\ BeginInv' /\ UndefinedInv'
    BY <1>0 DEF StartInv, SlotsInv, BeginInv, UndefinedInv
  <1>3. QueryInv'
    BY <1>0 DEF StartInv, QueryInv, NoHostErased, ServerErased
  <1>4. Asked' = Asked /\ CommonKept' = CommonKept
    BY <1>0 DEF Asked, CommonKept
  <1>5. IntersectInv' /\ PlatformsInv' /\ WindowInv'
    BY <1>0, <1>4 DEF StartInv, IntersectInv, PlatformsInv, WindowInv
  <1>6. ExactInv'
    BY <1>0 DEF StartInv, ExactInv, OneMissingAtMost, NothingMissingYet, MissingErased,
                OnlyTheMissingNetIsGone
  <1> QED BY <1>1, <1>2, <1>3, <1>5, <1>6 DEF StartInv

LEMMA ConnectStep == StartInv /\ Connect => StartInv'
  <1> SUFFICES ASSUME StartInv, Connect PROVE StartInv'
    OBVIOUS
  <1> USE DEF Connect
  <1>1. TypeOK'
    BY EmptySeq, HostLists DEF StartInv, TypeOK
  <1>2. SlotsInv' /\ BeginInv'
    BY DEF StartInv, SlotsInv, BeginInv
  <1>3. QueryInv' /\ IntersectInv' /\ PlatformsInv' /\ WindowInv' /\ UndefinedInv'
    BY DEF QueryInv, IntersectInv, PlatformsInv, WindowInv, UndefinedInv
  <1>4. ExactInv'
    BY DEF ExactInv
  <1> QED BY <1>1, <1>2, <1>3, <1>4 DEF StartInv

LEMMA CreateStep == StartInv /\ CreateExecutor => StartInv'
  <1> SUFFICES ASSUME StartInv, CreateExecutor PROVE StartInv'
    OBVIOUS
  <1> USE DEF CreateExecutor
  <1>1. hosts \in {<<>>, <<"fpga">>} /\ ~ exceptionptr /\ allNets = <<>> /\ other = 2
        /\ nets = <<>> /\ platformsOf = <<>>
    BY DEF StartInv, BeginInv
  <1>2. \/ hosts' \in AskedHosts /\ ~ exceptionptr'
        \/ hosts' \in {<<>>, <<"fpga">>} /\ exceptionptr'
    <2>1. CASE hosts' = Append(hosts, "local") /\ UNCHANGED exceptionptr
      <3> QED BY <1>1, <2>1, AppendLocal DEF AskedHosts
    <2> QED BY <1>1, <2>1
  <1>3. hosts' \in Seq(Hosts)
    BY <1>2, HostLists, EmptySeq DEF AskedHosts
  <1>4. Len(slots') \in Nat /\ i' = 1
    BY <1>3, LenProperties
  <1>5. TypeOK'
    <2>1. i' \in 1..(Len(slots') + 1)
      BY <1>4
    <2>2. exceptionptr' \in BOOLEAN
      BY DEF StartInv, TypeOK
    <2> QED BY <1>3, <2>1, <2>2 DEF StartInv, TypeOK
  <1>6. slots' \in Seq(Hosts \cup Nets)
    BY <1>3, SeqMonotonic
  <1>7. SlotsInv'
    BY <1>3, <1>6 DEF SlotsInv
  <1>8. QueryInv'
    <2>1. Len(allNets') = i' - 1 /\ 1..(i' - 1) = {}
      BY <1>1, HostLists
    <2>2. NoHostErased'
      BY <1>2, <2>1 DEF NoHostErased, AskedHosts
    <2> QED BY <1>1, <2>2 DEF QueryInv
  <1>9. BeginInv' /\ IntersectInv' /\ PlatformsInv' /\ WindowInv' /\ UndefinedInv'
    BY DEF BeginInv, IntersectInv, PlatformsInv, WindowInv, UndefinedInv
  <1>10. ExactInv'
    BY DEF ExactInv
  <1> QED BY <1>5, <1>7, <1>8, <1>9, <1>10 DEF StartInv

LEMMA TypeErrorStep == StartInv /\ TypeError => StartInv'
  <1> SUFFICES ASSUME StartInv, TypeError PROVE StartInv'
    OBVIOUS
  <1>1. TypeOK' /\ SlotsInv'
    BY DEF StartInv, TypeError, TypeOK, SlotsInv
  <1>2. UndefinedInv' /\ pc' = "terminated"
    BY DEF TypeError, UndefinedInv
  <1> QED BY <1>1, <1>2, Elsewhere

-----------------------------------------------------------------------------
(* The first loop: the hosts are asked for their nets.                     *)

(* With the server erased there is one turn left. *)
LEMMA TurnAfterErasing ==
  ASSUME ServerErased, i <= Len(slots)
  PROVE  slots = <<"local", "local">> /\ hosts = <<"local">> /\ i = 2
  <1>1. slots = <<"fpga">> \/ (slots = <<"local", "local">> /\ hosts = <<"local">>)
    BY DEF ServerErased
  <1>2. i \in {2, 3}
    BY DEF ServerErased
  <1>3. slots # <<"fpga">>
    <2> SUFFICES ASSUME slots = <<"fpga">> PROVE FALSE
      OBVIOUS
    <2>1. Len(slots) = 1
      BY HostLists
    <2> QED BY <2>1, <1>2
  <1>4. Len(slots) = 2
    BY <1>1, <1>3, HostLists
  <1> QED BY <1>1, <1>2, <1>3, <1>4

(* What all steps of the loop leave alone or make vacuous. *)
LEMMA QueryElsewhere ==
  ASSUME pc' = "queryNets"
  PROVE  BeginInv' /\ IntersectInv' /\ PlatformsInv' /\ WindowInv' /\ UndefinedInv' /\ ExactInv'
  <1>1. BeginInv' /\ IntersectInv' /\ PlatformsInv' /\ WindowInv' /\ UndefinedInv'
    BY DEF BeginInv, IntersectInv, PlatformsInv, WindowInv, UndefinedInv
  <1>2. ExactInv'
    BY DEF ExactInv
  <1> QED BY <1>1, <1>2

LEMMA AskNetsStep == StartInv /\ AskNets => StartInv'
  <1> SUFFICES ASSUME StartInv, AskNets PROVE StartInv'
    OBVIOUS
  <1>0. TypeOK /\ SlotsInv /\ QueryInv
    BY DEF StartInv
  <1>1. /\ pc = "queryNets" /\ i <= Len(slots)
        /\ allNets' = Append(allNets, netsOf[slots[i]]) /\ i' = i + 1
        /\ UNCHANGED <<pc, serverUp, netsOf, hosts, exceptionptr, slots, other, nets, platformsOf>>
    BY DEF AskNets
  <1>2. i \in 1..Len(slots) /\ Len(slots) \in Nat /\ Len(allNets) \in Nat
    BY <1>0, <1>1, Lengths
  <1>3. slots[i] \in Hosts /\ netsOf[slots[i]] \in NetLists
    BY <1>0, <1>1, <1>2, ElementOfSeq DEF SlotsInv, TypeOK
  <1>4. /\ allNets' \in Seq(NetLists) /\ Len(allNets') = Len(allNets) + 1
        /\ \A j \in 1..Len(allNets) : allNets'[j] = allNets[j]
        /\ allNets'[Len(allNets) + 1] = netsOf[slots[i]]
    BY <1>0, <1>1, <1>3, AppendProperties DEF TypeOK
  <1>5. i' \in 1..(Len(slots') + 1)
    BY <1>1, <1>2
  <1>6. TypeOK'
    BY <1>0, <1>1, <1>4, <1>5 DEF TypeOK
  <1>7. SlotsInv'
    BY <1>0, <1>1 DEF SlotsInv
  <1>8. QueryInv'
    <2>1. CASE NoHostErased
      <3>1. CASE ~ exceptionptr
        <4>1. Len(allNets) = i - 1 /\ slots = hosts /\ hosts \in AskedHosts
              /\ \A j \in 1..(i - 1) : allNets[j] = netsOf[hosts[j]]
          BY <2>1, <3>1 DEF NoHostErased
        <4>2. Len(allNets') = i' - 1
          BY <4>1, <1>1, <1>2, <1>4
        <4>3. \A j \in 1..(i' - 1) : allNets'[j] = netsOf[hosts[j]]
          <5> TAKE j \in 1..(i' - 1)
          <5>1. CASE j = i
            BY <5>1, <4>1, <1>2, <1>4
          <5>2. CASE j # i
            <6>1. j \in 1..(i - 1)
              BY <5>2, <1>1, <1>2
            <6> QED BY <6>1, <4>1, <1>2, <1>4
          <5> QED BY <5>1, <5>2
        <4> QED BY <1>0, <1>1, <2>1, <4>1, <4>2, <4>3 DEF QueryInv, NoHostErased
      <3>2. CASE exceptionptr
        BY <1>0, <1>1, <2>1, <3>2 DEF QueryInv, NoHostErased
      <3> QED BY <3>1, <3>2
    <2>2. CASE ServerErased
      <3>1. slots = <<"local", "local">> /\ hosts = <<"local">> /\ i = 2
        BY <2>2, <1>1, TurnAfterErasing
      <3>2. ~ exceptionptr => Len(allNets) = 0
        BY <2>2, <3>1, HostLists DEF ServerErased
      <3>3. ~ exceptionptr' =>
              Len(allNets') = i' - 2 /\ \A j \in 1..(i' - 2) : allNets'[j] = netsOf'["local"]
        <4> SUFFICES ASSUME ~ exceptionptr'
                     PROVE  Len(allNets') = i' - 2
                            /\ \A j \in 1..(i' - 2) : allNets'[j] = netsOf["local"]
          BY <1>1
        <4>1. Len(allNets') = 1 /\ i' = 3 /\ allNets'[1] = netsOf["local"]
          BY <1>1, <1>4, <3>1, <3>2, HostLists
        <4>2. \A j \in 1..(i' - 2) : j = 1
          BY <4>1
        <4> QED BY <4>1, <4>2
      <3>4. ServerErased'
        BY <1>1, <3>1, <3>3 DEF ServerErased
      <3> QED BY <1>0, <1>1, <3>4 DEF QueryInv
    <2> QED BY <1>0, <1>1, <2>1, <2>2 DEF QueryInv
  <1> QED BY <1>1, <1>6, <1>7, <1>8, QueryElsewhere DEF StartInv

(* Only the server can be missing, and it is the first host. *)
LEMMA OnlyTheServerFails ==
  ASSUME StartInv, AskNetsFails
  PROVE  /\ i = 1 /\ ~ ServerErased
         /\ \/ slots = <<"fpga">> /\ hosts = <<"fpga">> /\ exceptionptr
            \/ /\ slots = <<"fpga", "local">> /\ hosts = <<"fpga", "local">>
               /\ ~ exceptionptr => Len(allNets) = 0
  <1>0. TypeOK /\ SlotsInv /\ QueryInv
    BY DEF StartInv
  <1>1. pc = "queryNets" /\ i <= Len(slots) /\ slots[i] # "local"
    BY DEF AskNetsFails, Up
  <1>2. i \in 1..Len(slots) /\ Len(slots) \in Nat
    BY <1>0, <1>1, Lengths
  <1>3. ~ ServerErased
    <2> SUFFICES ASSUME ServerErased PROVE FALSE
      OBVIOUS
    <2>1. slots = <<"local", "local">> /\ i = 2
      BY <1>1, TurnAfterErasing
    <2> QED BY <2>1, <1>1, HostLists
  <1>4. NoHostErased
    BY <1>0, <1>1, <1>3 DEF QueryInv
  <1>5. CASE hosts = <<>>
    BY <1>2, <1>4, <1>5, HostLists DEF NoHostErased
  <1>6. CASE hosts = <<"fpga">>
    <2>1. i = 1 /\ slots = hosts
      BY <1>2, <1>4, <1>6, HostLists DEF NoHostErased
    <2>2. <<"fpga">> \notin AskedHosts
      BY HostLists DEF AskedHosts
    <2>3. exceptionptr
      BY <2>2, <1>4, <1>6 DEF NoHostErased
    <2> QED BY <2>1, <2>3, <1>3, <1>6
  <1>7. CASE hosts = <<"local">>
    <2>1. i = 1 /\ slots = hosts
      BY <1>2, <1>4, <1>7, HostLists DEF NoHostErased
    <2> QED BY <2>1, <1>1, <1>7, HostLists
  <1>8. CASE hosts = <<"fpga", "local">>
    <2>1. slots = hosts /\ i \in {1, 2}
      BY <1>2, <1>4, <1>8, HostLists DEF NoHostErased
    <2>2. i # 2
      BY <2>1, <1>1, <1>8, HostLists
    <2>3. ~ exceptionptr => Len(allNets) = 0
      BY <2>1, <2>2, <1>4 DEF NoHostErased
    <2> QED BY <2>1, <2>2, <2>3, <1>3, <1>8
  <1> QED BY <1>4, <1>5, <1>6, <1>7, <1>8 DEF NoHostErased

(* What is left of the hosts, and of the memory they were in. *)
LEMMA FirstTakenOut ==
  ASSUME NEW h \in Seq(Hosts)
  PROVE  /\ Len(h) = 1 => RemoveAt(h, 1) = <<>> /\ Erased(h, 1, 1) = h
         /\ Len(h) = 2 /\ h[2] = "local" =>
              RemoveAt(h, 1) = <<"local">> /\ Erased(h, 2, 1) = <<"local", "local">>
  <1> DEFINE r == RemoveAt(h, 1)
  <1>1. ASSUME Len(h) = 1
        PROVE  RemoveAt(h, 1) = <<>> /\ Erased(h, 1, 1) = h
    <2>1. 1 \in 1..Len(h) /\ Len(h) \in 0..Len(h)
      BY <1>1
    <2>2. r \in Seq(Hosts) /\ Len(r) = 0
      <3>1. r \in Seq(Hosts) /\ Len(r) = Len(h) - 1
        BY <2>1, RemoveAtProperties
      <3> HIDE DEF r
      <3> QED BY <3>1, <1>1
    <2>3. RemoveAt(h, 1) = <<>>
      BY <2>2, EmptySeq
    <2> DEFINE e == Erased(h, Len(h), 1)
    <2>4. /\ e \in Seq(Hosts) /\ Len(e) = Len(h)
          /\ \A j \in 1..Len(h) : e[j] = IF j \in 1..(Len(h) - 1) THEN h[j + 1] ELSE h[j]
      BY <2>1, ErasedProperties
    <2> HIDE DEF e
    <2>5. \A j \in 1..Len(e) : e[j] = h[j]
      BY <1>1, <2>4
    <2>6. e = h
      BY <2>4, <2>5, SeqEqual
    <2> QED BY <1>1, <2>3, <2>6 DEF e
  <1>2. ASSUME Len(h) = 2, h[2] = "local"
        PROVE  RemoveAt(h, 1) = <<"local">> /\ Erased(h, 2, 1) = <<"local", "local">>
    <2>1. 1 \in 1..Len(h) /\ Len(h) \in 0..Len(h)
      BY <1>2
    <2>2. r \in Seq(Hosts) /\ Len(r) = 1 /\ r[1] = "local"
      <3>1. /\ r \in Seq(Hosts) /\ Len(r) = Len(h) - 1
            /\ \A j \in 1..(Len(h) - 1) : r[j] = IF j < 1 THEN h[j] ELSE h[j + 1]
        BY <2>1, RemoveAtProperties
      <3> HIDE DEF r
      <3> QED BY <3>1, <1>2
    <2> HIDE DEF r
    <2>3. \A j \in 1..Len(r) : r[j] = <<"local">>[j]
      BY <2>2
    <2>4. r = <<"local">>
      BY <2>2, <2>3, HostLists, SeqEqual
    <2> DEFINE e == Erased(h, Len(h), 1)
    <2>5. /\ e \in Seq(Hosts) /\ Len(e) = Len(h)
          /\ \A j \in 1..Len(h) : e[j] = IF j \in 1..(Len(h) - 1) THEN h[j + 1] ELSE h[j]
      BY <2>1, ErasedProperties
    <2> HIDE DEF e
    <2>6. Len(e) = 2 /\ e[1] = "local" /\ e[2] = "local"
      BY <1>2, <2>5
    <2>7. \A j \in 1..Len(e) : e[j] = <<"local", "local">>[j]
      BY <2>6
    <2>8. e = <<"local", "local">>
      BY <2>5, <2>6, <2>7, HostLists, SeqEqual
    <2> QED BY <1>2, <2>4, <2>8 DEF r, e
  <1> QED BY <1>1, <1>2

LEMMA AskNetsFailsStep == StartInv /\ AskNetsFails => StartInv'
  <1> SUFFICES ASSUME StartInv, AskNetsFails PROVE StartInv'
    OBVIOUS
  <1>0. TypeOK /\ SlotsInv /\ QueryInv
    BY DEF StartInv
  <1>1. /\ pc = "queryNets"
        /\ slots' = Erased(slots, Len(hosts), i) /\ hosts' = RemoveAt(hosts, i) /\ i' = i + 1
        /\ UNCHANGED <<pc, serverUp, netsOf, exceptionptr, allNets, other, nets, platformsOf>>
    BY DEF AskNetsFails
  <1>2. /\ i' = 2
        /\ \/ slots' = <<"fpga">> /\ hosts' = <<>> /\ exceptionptr
           \/ /\ slots' = <<"local", "local">> /\ hosts' = <<"local">>
              /\ ~ exceptionptr => Len(allNets) = 0
    <2>1. /\ i = 1
          /\ \/ slots = <<"fpga">> /\ hosts = <<"fpga">> /\ exceptionptr
             \/ /\ slots = <<"fpga", "local">> /\ hosts = <<"fpga", "local">>
                /\ ~ exceptionptr => Len(allNets) = 0
      BY OnlyTheServerFails
    <2>2. i' = 2 /\ slots = hosts /\ hosts \in Seq(Hosts)
      BY <1>0, <1>1, <2>1 DEF TypeOK
    <2>3. CASE hosts = <<"fpga">> /\ exceptionptr
      <3>1. Len(hosts) = 1
        BY <2>3, HostLists
      <3>2. RemoveAt(hosts, 1) = <<>> /\ Erased(hosts, 1, 1) = hosts
        BY <2>2, <3>1, FirstTakenOut
      <3> QED BY <1>1, <2>1, <2>2, <2>3, <3>1, <3>2
    <2>4. CASE hosts = <<"fpga", "local">> /\ (~ exceptionptr => Len(allNets) = 0)
      <3>1. Len(hosts) = 2 /\ hosts[2] = "local"
        BY <2>4, HostLists
      <3>2. RemoveAt(hosts, 1) = <<"local">> /\ Erased(hosts, 2, 1) = <<"local", "local">>
        BY <2>2, <3>1, FirstTakenOut
      <3> QED BY <1>1, <2>1, <2>2, <2>4, <3>1, <3>2
    <2> QED BY <2>1, <2>3, <2>4
  <1>3. hosts' \in Seq(Hosts) /\ slots' \in Seq(Hosts) /\ Len(slots') \in {1, 2}
    BY <1>2, HostLists, EmptySeq
  <1>4. TypeOK'
    <2>1. i' \in 1..(Len(slots') + 1)
      BY <1>2, <1>3
    <2> QED BY <1>0, <1>1, <1>3, <2>1 DEF TypeOK
  <1>5. SlotsInv'
    <2>1. slots' \in Seq(Hosts \cup Nets)
      BY <1>3, SeqMonotonic
    <2> QED BY <1>1, <1>3, <2>1 DEF SlotsInv
  <1>6. QueryInv'
    <2>1. ~ exceptionptr' /\ hosts' = <<"local">> =>
            Len(allNets') = i' - 2 /\ \A j \in 1..(i' - 2) : allNets'[j] = netsOf'["local"]
      <3>1. 1..(i' - 2) = {} /\ i' - 2 = 0
        BY <1>2
      <3>2. <<>> # <<"local">>
        BY HostLists
      <3> QED BY <1>1, <1>2, <3>1, <3>2
    <2>2. ServerErased'
      BY <1>1, <1>2, <2>1 DEF ServerErased
    <2> QED BY <1>0, <1>1, <2>2 DEF QueryInv
  <1> QED BY <1>1, <1>4, <1>5, <1>6, QueryElsewhere DEF StartInv

LEMMA ReadNetsFailsStep == StartInv /\ ReadNetsFails => StartInv'
  <1> SUFFICES ASSUME StartInv, ReadNetsFails PROVE StartInv'
    OBVIOUS
  <1>0. TypeOK /\ SlotsInv /\ QueryInv
    BY DEF StartInv
  <1>1. /\ pc = "queryNets" /\ i <= Len(slots) /\ exceptionptr' = TRUE /\ i' = i + 1
        /\ UNCHANGED <<pc, serverUp, netsOf, hosts, slots, allNets, other, nets, platformsOf>>
    BY DEF ReadNetsFails
  <1>2. i \in 1..Len(slots) /\ Len(slots) \in Nat
    BY <1>0, <1>1, Lengths
  <1>3. TypeOK'
    <2>1. i' \in 1..(Len(slots') + 1)
      BY <1>1, <1>2
    <2>2. exceptionptr' \in BOOLEAN
      BY <1>1
    <2> QED BY <1>0, <1>1, <2>1, <2>2 DEF TypeOK
  <1>4. SlotsInv'
    BY <1>0, <1>1 DEF SlotsInv
  <1>5. QueryInv'
    <2>1. CASE NoHostErased
      BY <1>0, <1>1, <2>1 DEF QueryInv, NoHostErased
    <2>2. CASE ServerErased
      <3>1. slots = <<"local", "local">> /\ hosts = <<"local">> /\ i = 2
        BY <2>2, <1>1, TurnAfterErasing
      <3>2. ServerErased'
        BY <1>1, <3>1 DEF ServerErased
      <3> QED BY <1>0, <1>1, <3>2 DEF QueryInv
    <2> QED BY <1>0, <1>1, <2>1, <2>2 DEF QueryInv
  <1> QED BY <1>1, <1>3, <1>4, <1>5, QueryElsewhere DEF StartInv

(* All hosts asked and no exception: the lists are there, and the first of *)
(* them is to be compared.                                                 *)
LEMMA AllAsked ==
  ASSUME StartInv, NetsAsked, ~ exceptionptr
  PROVE  Asked
  <1>0. TypeOK /\ SlotsInv /\ QueryInv
    BY DEF StartInv
  <1>1. pc = "queryNets" /\ i > Len(slots)
    BY DEF NetsAsked
  <1>2. i = Len(slots) + 1 /\ Len(slots) \in Nat
    BY <1>0, <1>1, Lengths
  <1>3. CASE NoHostErased
    <2>1. slots = hosts /\ hosts \in AskedHosts /\ Len(allNets) = i - 1
          /\ \A j \in 1..(i - 1) : allNets[j] = netsOf[hosts[j]]
      BY <1>3 DEF NoHostErased
    <2>2. i - 1 = Len(hosts)
      BY <1>2, <2>1
    <2> QED BY <1>0, <2>1, <2>2, AskedOf
  <1>4. CASE ServerErased
    <2>1. slots = <<"local", "local">> /\ hosts = <<"local">> /\ Len(allNets) = i - 2
          /\ \A j \in 1..(i - 2) : allNets[j] = netsOf["local"]
      BY <1>4 DEF ServerErased
    <2>2. i = 3 /\ Len(hosts) = 1 /\ hosts[1] = "local"
      BY <1>2, <2>1, HostLists
    <2>3. \A j \in 1..Len(hosts) : allNets[j] = netsOf[hosts[j]]
      BY <2>1, <2>2
    <2>4. hosts \in AskedHosts /\ Len(allNets) = Len(hosts)
      BY <2>1, <2>2 DEF AskedHosts
    <2> QED BY <1>0, <2>3, <2>4, AskedOf
  <1> QED BY <1>0, <1>1, <1>3, <1>4 DEF QueryInv

LEMMA NetsAskedStep == StartInv /\ NetsAsked => StartInv'
  <1> SUFFICES ASSUME StartInv, NetsAsked PROVE StartInv'
    OBVIOUS
  <1>0. TypeOK /\ SlotsInv /\ QueryInv
    BY DEF StartInv
  <1>1. /\ pc = "queryNets" /\ i' = 1
        /\ UNCHANGED <<serverUp, netsOf, hosts, exceptionptr, allNets, other, platformsOf>>
    BY DEF NetsAsked
  <1>2. other = 2 /\ nets = <<>> /\ platformsOf = <<>>
    BY <1>0, <1>1 DEF QueryInv
  <1>3. CASE exceptionptr
    <2>1. pc' = "queryPlatforms" /\ slots' = hosts /\ UNCHANGED nets
      BY <1>3 DEF NetsAsked, Intersects
    <2>2. slots' \in Seq(Hosts) /\ Len(slots') \in Nat
      BY <1>0, <2>1, LenProperties DEF TypeOK
    <2>3. TypeOK'
      <3>1. i' \in 1..(Len(slots') + 1)
        BY <1>1, <2>2
      <3> QED BY <1>0, <1>1, <2>1, <3>1 DEF TypeOK
    <2>4. SlotsInv'
      <3>1. slots' \in Seq(Hosts \cup Nets)
        BY <2>2, SeqMonotonic
      <3> QED BY <2>1, <2>2, <3>1 DEF SlotsInv
    <2>5. PlatformsInv'
      <3>1. 1..(i' - 1) = {} /\ Len(platformsOf') = i' - 1
        BY <1>1, <1>2, HostLists
      <3> QED BY <1>1, <1>3, <2>1, <3>1 DEF PlatformsInv
    <2>6. BeginInv' /\ QueryInv' /\ IntersectInv' /\ WindowInv' /\ UndefinedInv'
      BY <2>1 DEF BeginInv, QueryInv, IntersectInv, WindowInv, UndefinedInv
    <2>7. ExactInv'
      BY <1>1, <1>3, <2>1 DEF ExactInv
    <2> QED BY <2>3, <2>4, <2>5, <2>6, <2>7 DEF StartInv
  <1>4. CASE ~ exceptionptr
    <2>1. Asked
      BY <1>4, AllAsked
    <2>2. allNets # <<>> /\ Len(allNets) \in {1, 2} /\ allNets[1] \in NetLists
      <3>1. /\ Len(hosts) \in {1, 2} /\ Len(allNets) = Len(hosts) /\ allNets # <<>>
            /\ \A j \in 1..Len(hosts) : allNets[j] \in NetLists
        BY <1>0, <2>1, AskedFacts
      <3>2. 1 \in 1..Len(hosts)
        BY <3>1
      <3> QED BY <3>1, <3>2
    <2>3. pc' = "intersect" /\ nets' = allNets[1] /\ slots' = allNets[1]
      BY <1>4, <2>2 DEF NetsAsked, Intersects
    <2>4. nets' \in Seq(Nets) /\ slots' \in Seq(Nets) /\ IsInjective(nets')
      BY <2>2, <2>3, NetFacts
    <2>5. Len(slots') \in Nat
      BY <2>4, LenProperties
    <2>6. TypeOK'
      <3>1. i' \in 1..(Len(slots') + 1)
        BY <1>1, <2>5
      <3> QED BY <1>0, <1>1, <2>3, <2>4, <3>1 DEF TypeOK
    <2>7. SlotsInv'
      <3>1. slots' \in Seq(Hosts \cup Nets)
        BY <2>4, SeqMonotonic
      <3> QED BY <2>3, <2>4, <3>1 DEF SlotsInv
    <2>8. IntersectInv'
      <3>1. Asked'
        BY <1>1, <2>1 DEF Asked
      <3>2. CommonKept'
        BY <1>1, <2>3, <2>4 DEF CommonKept
      <3>3. Len(nets') <= Len(slots') /\ other' <= Len(allNets') + 1
        BY <1>1, <1>2, <2>2, <2>3, <2>5
      <3> QED BY <1>1, <1>2, <1>4, <3>1, <3>2, <3>3 DEF IntersectInv
    <2>9. BeginInv' /\ QueryInv' /\ PlatformsInv' /\ WindowInv' /\ UndefinedInv'
      BY <2>3 DEF BeginInv, QueryInv, PlatformsInv, WindowInv, UndefinedInv
    <2>10. ExactInv'
      <3>1. 1..(i' - 1) = {}
        BY <1>1
      <3>2. NothingMissingYet'
        BY <1>1, <2>3, <3>1 DEF NothingMissingYet
      <3> QED BY <1>1, <1>2, <2>3, <3>2 DEF ExactInv
    <2> QED BY <2>6, <2>7, <2>8, <2>9, <2>10 DEF StartInv
  <1> QED BY <1>3, <1>4

-----------------------------------------------------------------------------
(* The second loop, netIntersection.                                       *)

(* The only list to compare with is the second. *)
LEMMA ComparingFacts ==
  ASSUME StartInv, Comparing
  PROVE  /\ TypeOK /\ SlotsInv /\ ~ exceptionptr /\ Asked /\ CommonKept /\ platformsOf = <<>>
         /\ pc = "intersect" /\ other = 2 /\ Len(allNets) = 2 /\ Len(hosts) = 2
         /\ Len(nets) \in Nat /\ Len(slots) \in Nat /\ Len(nets) <= Len(slots)
         /\ i \in 1..Len(slots) /\ slots \in Seq(Nets)
         /\ allNets[1] \in NetLists /\ allNets[2] = netsOf[hosts[2]]
  <1>1. TypeOK /\ SlotsInv /\ IntersectInv
    BY DEF StartInv
  <1>2. pc = "intersect" /\ other <= Len(allNets) /\ i <= Len(slots)
    BY DEF Comparing
  <1>3. /\ ~ exceptionptr /\ Asked /\ CommonKept /\ platformsOf = <<>>
        /\ Len(nets) <= Len(slots)
    BY <1>1, <1>2 DEF IntersectInv
  <1>4. /\ Len(hosts) \in {1, 2} /\ Len(allNets) = Len(hosts)
        /\ \A j \in 1..Len(hosts) : allNets[j] = netsOf[hosts[j]] /\ allNets[j] \in NetLists
    BY <1>1, <1>3, AskedFacts
  <1>5. other \in 2..3
    BY <1>1 DEF TypeOK
  <1>6. other = 2 /\ Len(hosts) = 2
    BY <1>2, <1>4, <1>5
  <1>7. allNets[1] \in NetLists /\ allNets[2] = netsOf[hosts[2]]
    BY <1>4, <1>6
  <1>8. Len(nets) \in Nat /\ Len(slots) \in Nat /\ i \in 1..Len(slots)
    BY <1>1, <1>2, Lengths
  <1> QED BY <1>1, <1>2, <1>3, <1>4, <1>6, <1>7, <1>8 DEF SlotsInv

LEMMA IntersectElsewhere ==
  ASSUME pc' = "intersect"
  PROVE  BeginInv' /\ QueryInv' /\ PlatformsInv' /\ WindowInv' /\ UndefinedInv'
  BY DEF BeginInv, QueryInv, PlatformsInv, WindowInv, UndefinedInv

LEMMA KeepCommonNetStep == StartInv /\ KeepCommonNet => StartInv'
  <1> SUFFICES ASSUME StartInv, KeepCommonNet PROVE StartInv'
    OBVIOUS
  <1>0. /\ TypeOK /\ SlotsInv /\ ~ exceptionptr /\ Asked /\ CommonKept /\ platformsOf = <<>>
        /\ pc = "intersect" /\ other = 2 /\ Len(allNets) = 2 /\ Len(slots) \in Nat
        /\ Len(nets) <= Len(slots) /\ i \in 1..Len(slots)
    BY ComparingFacts DEF KeepCommonNet
  <1>1. /\ slots[i] \in ToSet(allNets[2]) /\ i' = i + 1
        /\ UNCHANGED <<pc, serverUp, netsOf, hosts, exceptionptr, slots, allNets, other, nets,
                       platformsOf>>
    BY <1>0 DEF KeepCommonNet, OtherListHasIt
  <1>2. TypeOK'
    <2>1. i' \in 1..(Len(slots') + 1)
      BY <1>0, <1>1
    <2> QED BY <1>0, <1>1, <2>1 DEF TypeOK
  <1>3. SlotsInv'
    BY <1>0, <1>1 DEF SlotsInv
  <1>4. IntersectInv'
    <2>1. Asked' /\ CommonKept'
      BY <1>0, <1>1 DEF Asked, CommonKept
    <2> QED BY <1>0, <1>1, <2>1 DEF IntersectInv
  <1>5. ExactInv'
    <2> SUFFICES ASSUME OneMissingAtMost
                 PROVE  NothingMissingYet' \/ MissingErased'
      BY <1>0, <1>1 DEF ExactInv, OneMissingAtMost
    <2>1. NothingMissingYet \/ MissingErased
      BY <1>0 DEF StartInv, ExactInv
    <2>2. CASE NothingMissingYet
      <3>1. nets = allNets[1] /\ slots = allNets[1]
            /\ \A j \in 1..(i - 1) : j \in DOMAIN allNets[1] => allNets[1][j] \in ToSet(allNets[2])
        BY <2>2 DEF NothingMissingYet
      <3>2. \A j \in 1..(i' - 1) : j \in 1..(i - 1) \/ j = i
        BY <1>0, <1>1
      <3>3. allNets[1][i] \in ToSet(allNets[2])
        BY <1>1, <3>1
      <3> QED BY <1>1, <3>1, <3>2, <3>3 DEF NothingMissingYet
    <2>3. CASE MissingErased
      <3>1. PICK p \in DOMAIN allNets[1] :
              /\ p < i /\ allNets[1][p] \notin ToSet(allNets[2])
              /\ nets = RemoveAt(allNets[1], p)
              /\ slots = Erased(allNets[1], Len(allNets[1]), p)
        BY <2>3 DEF MissingErased
      <3>2. p \in Nat
        <4>1. allNets[1] \in NetLists
          BY ComparingFacts DEF KeepCommonNet
        <4> QED BY <4>1, NetFacts, LenProperties
      <3>3. p < i'
        BY <1>0, <1>1, <3>1, <3>2
      <3> QED BY <1>1, <3>1, <3>3 DEF MissingErased
    <2> QED BY <2>1, <2>2, <2>3
  <1> QED BY <1>0, <1>1, <1>2, <1>3, <1>4, <1>5, IntersectElsewhere DEF StartInv

(* What an erasure does to the nets and the memory of their vector. *)
LEMMA EraseFacts ==
  ASSUME StartInv, EraseNet
  PROVE  \E j \in 1..Len(nets) :
           /\ nets[j] = slots[i] /\ slots[i] \notin ToSet(allNets[2])
           /\ slots' = Erased(slots, Len(nets), j) /\ nets' = RemoveAt(nets, j)
           /\ slots' \in Seq(Nets) /\ Len(slots') = Len(slots)
           /\ nets' \in Seq(Nets) /\ Len(nets') = Len(nets) - 1
           /\ IsInjective(nets') /\ ToSet(nets') = ToSet(nets) \ {slots[i]}
  <1>0. /\ TypeOK /\ CommonKept /\ other = 2 /\ slots \in Seq(Nets)
        /\ Len(nets) \in Nat /\ Len(slots) \in Nat /\ Len(nets) <= Len(slots)
    BY ComparingFacts DEF EraseNet
  <1>1. nets \in Seq(Nets) /\ DOMAIN nets = 1..Len(nets) /\ IsInjective(nets)
    BY <1>0, LenProperties DEF TypeOK, CommonKept
  <1>2. PICK j \in DOMAIN nets :
          nets[j] = slots[i] /\ slots' = Erased(slots, Len(nets), j) /\ nets' = RemoveAt(nets, j)
    BY DEF EraseNet
  <1>3. slots[i] \notin ToSet(allNets[2])
    BY <1>0 DEF EraseNet, OtherListHasIt
  <1>4. j \in 1..Len(nets) /\ j \in 1..Len(slots) /\ Len(nets) \in 0..Len(slots)
    BY <1>0, <1>1
  <1>5. nets' \in Seq(Nets) /\ Len(nets') = Len(nets) - 1
    BY <1>1, <1>2, <1>4, RemoveAtProperties
  <1>6. IsInjective(nets') /\ ToSet(nets') = ToSet(nets) \ {slots[i]}
    BY <1>1, <1>2, <1>4, RemoveAtSet
  <1>7. slots' \in Seq(Nets) /\ Len(slots') = Len(slots)
    BY <1>0, <1>2, <1>4, ErasedProperties
  <1> QED BY <1>2, <1>3, <1>4, <1>5, <1>6, <1>7

(* A net that every host has is in the second list, so it is not the one   *)
(* that goes.                                                              *)
LEMMA CommonNetStays ==
  ASSUME StartInv, EraseNet
  PROVE  CommonKept'
  <1>0. /\ TypeOK /\ SlotsInv /\ CommonKept /\ Len(hosts) = 2 /\ allNets[2] = netsOf[hosts[2]]
        /\ UNCHANGED <<netsOf, hosts, allNets>>
    BY ComparingFacts DEF EraseNet
  <1>1. /\ IsInjective(nets') /\ ToSet(nets') = ToSet(nets) \ {slots[i]}
        /\ slots[i] \notin ToSet(allNets[2])
    BY EraseFacts
  <1>2. 2 \in DOMAIN hosts
    BY <1>0, Lengths
  <1>3. ASSUME NEW n \in ToSet(allNets[1]), \A j \in DOMAIN hosts : n \in ToSet(netsOf[hosts[j]])
        PROVE  n \in ToSet(nets')
    <2>1. n \in ToSet(nets)
      BY <1>0, <1>3 DEF CommonKept
    <2>2. n \in ToSet(allNets[2])
      BY <1>0, <1>2, <1>3
    <2> QED BY <1>1, <2>1, <2>2
  <1>4. ToSet(nets') \subseteq ToSet(allNets[1])
    BY <1>0, <1>1 DEF CommonKept
  <1> QED BY <1>0, <1>1, <1>3, <1>4 DEF CommonKept

(* If at most one net is to go, it is found where it was.  The loop cannot *)
(* come to a second: every slot before and behind holds a common net.      *)
LEMMA MissingNetFound ==
  ASSUME StartInv, EraseNet, OneMissingAtMost
  PROVE  MissingErased'
  <1> DEFINE a == allNets[1]
  <1>0. /\ Len(allNets) = 2 /\ pc = "intersect" /\ other = 2 /\ i \in 1..Len(slots)
        /\ Len(slots) \in Nat /\ a \in NetLists
        /\ UNCHANGED allNets /\ i' = i + 1
    BY ComparingFacts DEF EraseNet
  <1>1. a \in Seq(Nets) /\ DOMAIN a = 1..Len(a) /\ Len(a) \in Nat
        /\ \A x, y \in DOMAIN a : a[x] = a[y] => x = y
    BY <1>0, NetFacts, LenProperties DEF IsInjective
  <1>2. PICK j \in 1..Len(nets) :
          /\ nets[j] = slots[i] /\ slots[i] \notin ToSet(allNets[2])
          /\ slots' = Erased(slots, Len(nets), j) /\ nets' = RemoveAt(nets, j)
    BY EraseFacts
  <1>3. NothingMissingYet \/ MissingErased
    BY <1>0 DEF StartInv, ExactInv
  <1> HIDE DEF a
  <1>4. CASE NothingMissingYet
    <2>1. nets = a /\ slots = a
      BY <1>4 DEF NothingMissingYet, a
    <2>2. j \in DOMAIN a /\ i \in DOMAIN a /\ a[j] = a[i]
      BY <2>1, <1>0, <1>1, <1>2
    <2>3. j = i
      BY <2>2, <1>1
    <2>4. i < i' /\ a[i] \notin ToSet(allNets[2]) /\ nets' = RemoveAt(a, i)
          /\ slots' = Erased(a, Len(a), i)
      BY <2>1, <2>3, <1>0, <1>2
    <2> QED BY <2>2, <2>4, <1>0 DEF MissingErased, a
  <1>5. CASE MissingErased
    <2>1. PICK p \in DOMAIN a :
            p < i /\ a[p] \notin ToSet(allNets[2]) /\ slots = Erased(a, Len(a), p)
      BY <1>5 DEF MissingErased, a
    <2>2. /\ Len(slots) = Len(a)
          /\ \A q \in 1..Len(a) : slots[q] = IF q \in p..(Len(a) - 1) THEN a[q + 1] ELSE a[q]
      <3>1. p \in 1..Len(a) /\ Len(a) \in 0..Len(a)
        BY <1>1, <2>1
      <3> QED BY <3>1, <1>1, <2>1, ErasedProperties
    <2>3. \E q \in DOMAIN a : q # p /\ slots[i] = a[q]
      <3>1. CASE i <= Len(a) - 1
        <4>1. slots[i] = a[i + 1] /\ i + 1 \in DOMAIN a /\ i + 1 # p
          BY <3>1, <1>0, <1>1, <2>1, <2>2
        <4> QED BY <4>1
      <3>2. CASE i > Len(a) - 1
        <4>1. slots[i] = a[i] /\ i \in DOMAIN a /\ i # p
          BY <3>2, <1>0, <1>1, <2>1, <2>2
        <4> QED BY <4>1
      <3> QED BY <3>1, <3>2, <1>0, <1>1
    <2>4. PICK q \in DOMAIN a : q # p /\ slots[i] = a[q]
      BY <2>3
    <2>5. a[p] \in ToSet(a) \ ToSet(allNets[2]) /\ a[q] \in ToSet(a) \ ToSet(allNets[2])
      BY <2>1, <2>4, <1>2 DEF ToSet
    <2>6. a[p] = a[q]
      BY <2>5 DEF OneMissingAtMost, a
    <2> QED BY <2>4, <2>6, <1>1
  <1> QED BY <1>3, <1>4, <1>5

LEMMA EraseNetStep == StartInv /\ EraseNet => StartInv'
  <1> SUFFICES ASSUME StartInv, EraseNet PROVE StartInv'
    OBVIOUS
  <1>0. /\ TypeOK /\ ~ exceptionptr /\ Asked /\ platformsOf = <<>>
        /\ pc = "intersect" /\ other = 2 /\ Len(allNets) = 2 /\ i \in 1..Len(slots)
        /\ Len(slots) \in Nat /\ Len(nets) \in Nat /\ Len(nets) <= Len(slots)
    BY ComparingFacts DEF EraseNet
  <1>1. /\ i' = i + 1
        /\ UNCHANGED <<pc, serverUp, netsOf, hosts, exceptionptr, allNets, other, platformsOf>>
    BY DEF EraseNet
  <1>2. /\ slots' \in Seq(Nets) /\ Len(slots') = Len(slots)
        /\ nets' \in Seq(Nets) /\ Len(nets') = Len(nets) - 1
    BY EraseFacts
  <1>3. TypeOK'
    <2>1. i' \in 1..(Len(slots') + 1)
      BY <1>0, <1>1, <1>2
    <2> QED BY <1>0, <1>1, <1>2, <2>1 DEF TypeOK
  <1>4. SlotsInv'
    <2>1. slots' \in Seq(Hosts \cup Nets)
      BY <1>2, SeqMonotonic
    <2> QED BY <1>0, <1>1, <1>2, <2>1 DEF SlotsInv
  <1>5. IntersectInv'
    <2>1. Asked' /\ CommonKept'
      BY <1>0, <1>1, CommonNetStays DEF Asked
    <2>2. Len(nets') <= Len(slots')
      BY <1>0, <1>2
    <2> QED BY <1>0, <1>1, <2>1, <2>2 DEF IntersectInv
  <1>6. ExactInv'
    <2> SUFFICES ASSUME OneMissingAtMost
                 PROVE  MissingErased'
      BY <1>0, <1>1 DEF ExactInv, OneMissingAtMost
    <2> QED BY MissingNetFound
  <1> QED BY <1>0, <1>1, <1>3, <1>4, <1>5, <1>6, IntersectElsewhere DEF StartInv

LEMMA EraseEndStep == StartInv /\ EraseEnd => StartInv'
  <1> SUFFICES ASSUME StartInv, EraseEnd PROVE StartInv'
    OBVIOUS
  <1>1. TypeOK' /\ SlotsInv'
    BY DEF StartInv, EraseEnd, TypeOK, SlotsInv
  <1>2. TypeOK /\ Asked
    BY ComparingFacts DEF EraseEnd
  <1>3. UndefinedInv' /\ pc' = "undefined"
    BY <1>2, AskedFacts DEF EraseEnd, UndefinedInv
  <1> QED BY <1>1, <1>3, Elsewhere

LEMMA NextListStep == StartInv /\ NextList => StartInv'
  <1> SUFFICES ASSUME StartInv, NextList PROVE StartInv'
    OBVIOUS
  <1>0. TypeOK /\ SlotsInv /\ IntersectInv /\ ExactInv
    BY DEF StartInv
  <1>1. /\ pc = "intersect" /\ other <= Len(allNets) /\ i > Len(slots)
        /\ other' = other + 1 /\ slots' = nets /\ i' = 1
        /\ UNCHANGED <<pc, serverUp, netsOf, hosts, exceptionptr, allNets, nets, platformsOf>>
    BY DEF NextList
  <1>2. ~ exceptionptr /\ Asked /\ CommonKept /\ platformsOf = <<>>
    BY <1>0, <1>1 DEF IntersectInv
  <1>3. Len(allNets) = 2 /\ other = 2 /\ allNets[1] \in NetLists
    <2>1. /\ Len(hosts) \in {1, 2} /\ Len(allNets) = Len(hosts)
          /\ \A j \in 1..Len(hosts) : allNets[j] \in NetLists
      BY <1>0, <1>2, AskedFacts
    <2>2. other \in 2..3
      BY <1>0 DEF TypeOK
    <2> QED BY <1>1, <2>1, <2>2
  <1>4. nets \in Seq(Nets) /\ Len(nets) \in Nat
    BY <1>0, LenProperties DEF TypeOK
  <1>5. TypeOK'
    <2>1. i' \in 1..(Len(slots') + 1) /\ other' \in 2..3
      BY <1>1, <1>3, <1>4
    <2> QED BY <1>0, <1>1, <1>4, <2>1 DEF TypeOK
  <1>6. SlotsInv'
    <2>1. slots' \in Seq(Hosts \cup Nets)
      BY <1>1, <1>4, SeqMonotonic
    <2> QED BY <1>1, <1>4, <2>1 DEF SlotsInv
  <1>7. IntersectInv'
    <2>1. Asked' /\ CommonKept'
      BY <1>1, <1>2 DEF Asked, CommonKept
    <2>2. Len(nets') <= Len(slots') /\ other' <= Len(allNets') + 1
      BY <1>1, <1>3, <1>4
    <2> QED BY <1>1, <1>2, <2>1, <2>2 DEF IntersectInv
  <1>8. ExactInv'
    <2> SUFFICES ASSUME OneMissingAtMost
                 PROVE  OnlyTheMissingNetIsGone
      BY <1>1, <1>3 DEF ExactInv, OneMissingAtMost, OnlyTheMissingNetIsGone
    <2>1. NothingMissingYet \/ MissingErased
      BY <1>0, <1>1, <1>3 DEF ExactInv
    <2>2. CASE NothingMissingYet
      <3>1. nets = allNets[1] /\ slots = allNets[1]
            /\ \A j \in 1..(i - 1) : j \in DOMAIN allNets[1] => allNets[1][j] \in ToSet(allNets[2])
        BY <2>2 DEF NothingMissingYet
      <3>2. DOMAIN allNets[1] = 1..Len(allNets[1]) /\ Len(allNets[1]) \in Nat
        BY <1>3, NetFacts, LenProperties
      <3>3. \A j \in DOMAIN allNets[1] : j \in 1..(i - 1)
        BY <1>0, <1>1, <3>1, <3>2, Lengths
      <3>4. ToSet(allNets[1]) \subseteq ToSet(allNets[2])
        BY <3>1, <3>3 DEF ToSet
      <3> QED BY <3>1, <3>4 DEF OnlyTheMissingNetIsGone
    <2>3. CASE MissingErased
      BY <2>3 DEF MissingErased, OnlyTheMissingNetIsGone
    <2> QED BY <2>1, <2>2, <2>3
  <1> QED BY <1>1, <1>5, <1>6, <1>7, <1>8, IntersectElsewhere DEF StartInv

LEMMA IntersectionDoneStep == StartInv /\ IntersectionDone => StartInv'
  <1> SUFFICES ASSUME StartInv, IntersectionDone PROVE StartInv'
    OBVIOUS
  <1>0. TypeOK /\ IntersectInv /\ ExactInv
    BY DEF StartInv
  <1>1. /\ pc = "intersect" /\ other > Len(allNets)
        /\ pc' = "queryPlatforms" /\ slots' = hosts /\ i' = 1
        /\ UNCHANGED <<serverUp, netsOf, hosts, exceptionptr, allNets, other, nets, platformsOf>>
    BY DEF IntersectionDone
  <1>2. ~ exceptionptr /\ Asked /\ CommonKept /\ platformsOf = <<>>
    BY <1>0, <1>1 DEF IntersectInv
  <1>3. hosts \in Seq(Hosts) /\ Len(hosts) \in Nat
    BY <1>0, LenProperties DEF TypeOK
  <1>4. TypeOK'
    <2>1. i' \in 1..(Len(slots') + 1)
      BY <1>1, <1>3
    <2> QED BY <1>0, <1>1, <2>1 DEF TypeOK
  <1>5. SlotsInv'
    <2>1. slots' \in Seq(Hosts \cup Nets)
      BY <1>1, <1>3, SeqMonotonic
    <2> QED BY <1>1, <1>3, <2>1 DEF SlotsInv
  <1>6. PlatformsInv'
    <2>1. Asked' /\ CommonKept'
      BY <1>1, <1>2 DEF Asked, CommonKept
    <2>2. 1..(i' - 1) = {} /\ Len(platformsOf') = i' - 1
      BY <1>1, <1>2, HostLists
    <2> QED BY <1>1, <2>1, <2>2 DEF PlatformsInv
  <1>7. ExactInv'
    <2> SUFFICES ASSUME Len(allNets) = 2, OneMissingAtMost
                 PROVE  OnlyTheMissingNetIsGone
      BY <1>1 DEF ExactInv, OneMissingAtMost, OnlyTheMissingNetIsGone
    <2>1. other = 3
      BY <1>0, <1>1 DEF TypeOK
    <2> QED BY <1>0, <1>1, <2>1 DEF ExactInv
  <1>8. BeginInv' /\ QueryInv' /\ IntersectInv' /\ WindowInv' /\ UndefinedInv'
    BY <1>1 DEF BeginInv, QueryInv, IntersectInv, WindowInv, UndefinedInv
  <1> QED BY <1>4, <1>5, <1>6, <1>7, <1>8 DEF StartInv

-----------------------------------------------------------------------------
(* The third loop, and the window.                                         *)

LEMMA AskPlatformsStep == StartInv /\ AskPlatforms => StartInv'
  <1> SUFFICES ASSUME StartInv, AskPlatforms PROVE StartInv'
    OBVIOUS
  <1>0. TypeOK /\ SlotsInv /\ PlatformsInv /\ ExactInv
    BY DEF StartInv
  <1>1. /\ pc = "queryPlatforms" /\ i <= Len(slots)
        /\ platformsOf' = Append(platformsOf, slots[i]) /\ i' = i + 1
        /\ UNCHANGED <<pc, serverUp, netsOf, hosts, exceptionptr, slots, allNets, other, nets>>
    BY DEF AskPlatforms
  <1>2. /\ slots = hosts /\ Len(platformsOf) = i - 1
        /\ \A j \in 1..(i - 1) : platformsOf[j] = hosts[j]
        /\ ~ exceptionptr => Asked /\ CommonKept
    BY <1>0, <1>1 DEF PlatformsInv
  <1>3. i \in 1..Len(slots) /\ Len(slots) \in Nat
    BY <1>0, <1>1, Lengths
  <1>4. slots[i] \in Hosts
    BY <1>0, <1>1, <1>3, ElementOfSeq DEF SlotsInv
  <1>5. /\ platformsOf' \in Seq(Hosts) /\ Len(platformsOf') = Len(platformsOf) + 1
        /\ \A j \in 1..Len(platformsOf) : platformsOf'[j] = platformsOf[j]
        /\ platformsOf'[Len(platformsOf) + 1] = slots[i]
    BY <1>0, <1>1, <1>4, AppendProperties DEF TypeOK
  <1>6. TypeOK'
    <2>1. i' \in 1..(Len(slots') + 1)
      BY <1>1, <1>3
    <2> QED BY <1>0, <1>1, <1>5, <2>1 DEF TypeOK
  <1>7. SlotsInv'
    BY <1>0, <1>1 DEF SlotsInv
  <1>8. PlatformsInv'
    <2>1. Len(platformsOf') = i' - 1
      BY <1>1, <1>2, <1>3, <1>5
    <2>2. \A j \in 1..(i' - 1) : platformsOf'[j] = hosts[j]
      <3> TAKE j \in 1..(i' - 1)
      <3>1. CASE j = i
        BY <3>1, <1>2, <1>3, <1>5
      <3>2. CASE j # i
        <4>1. j \in 1..(i - 1)
          BY <3>2, <1>1, <1>3
        <4> QED BY <4>1, <1>2, <1>3, <1>5
      <3> QED BY <3>1, <3>2
    <2>3. ~ exceptionptr' => Asked' /\ CommonKept'
      BY <1>1, <1>2 DEF Asked, CommonKept
    <2> QED BY <1>1, <1>2, <2>1, <2>2, <2>3 DEF PlatformsInv
  <1>9. ExactInv'
    BY <1>0, <1>1 DEF ExactInv, OneMissingAtMost, OnlyTheMissingNetIsGone
  <1>10. BeginInv' /\ QueryInv' /\ IntersectInv' /\ WindowInv' /\ UndefinedInv'
    BY <1>1 DEF BeginInv, QueryInv, IntersectInv, WindowInv, UndefinedInv
  <1> QED BY <1>6, <1>7, <1>8, <1>9, <1>10 DEF StartInv

LEMMA AskPlatformsFailsStep == StartInv /\ AskPlatformsFails => StartInv'
  <1> SUFFICES ASSUME StartInv, AskPlatformsFails PROVE StartInv'
    OBVIOUS
  <1>1. TypeOK' /\ SlotsInv'
    BY DEF StartInv, AskPlatformsFails, TypeOK, SlotsInv
  <1>2. UndefinedInv' /\ pc' = "terminated"
    BY DEF AskPlatformsFails, UndefinedInv
  <1> QED BY <1>1, <1>2, Elsewhere

LEMMA OpenWindowStep == StartInv /\ OpenWindow => StartInv'
  <1> SUFFICES ASSUME StartInv, OpenWindow PROVE StartInv'
    OBVIOUS
  <1>0. TypeOK /\ SlotsInv /\ PlatformsInv /\ ExactInv
    BY DEF StartInv
  <1>1. /\ pc = "queryPlatforms" /\ i > Len(slots) /\ exceptionptr' = FALSE
        /\ pc' = IF ~ exceptionptr THEN "window" ELSE "error"
        /\ UNCHANGED <<serverUp, netsOf, hosts, slots, i, allNets, other, nets, platformsOf>>
    BY DEF OpenWindow, WindowIsUsable
  <1>2. /\ slots = hosts /\ Len(platformsOf) = i - 1
        /\ \A j \in 1..(i - 1) : platformsOf[j] = hosts[j]
        /\ ~ exceptionptr => Asked /\ CommonKept
    BY <1>0, <1>1 DEF PlatformsInv
  <1>3. TypeOK' /\ SlotsInv'
    <2>1. exceptionptr' \in BOOLEAN /\ pc' \in {"window", "error"}
      BY <1>1
    <2> QED BY <1>0, <1>1, <2>1 DEF TypeOK, SlotsInv
  <1>4. platformsOf = hosts
    <2>1. i = Len(hosts) + 1 /\ Len(hosts) \in Nat
      BY <1>0, <1>1, <1>2, Lengths
    <2>2. Len(platformsOf) = Len(hosts) /\ \A j \in 1..Len(platformsOf) : platformsOf[j] = hosts[j]
      BY <1>2, <2>1
    <2> QED BY <1>0, <2>2, SeqEqual DEF TypeOK
  <1>5. CASE exceptionptr
    <2>1. pc' = "error"
      BY <1>1, <1>5
    <2>2. UndefinedInv'
      BY <2>1 DEF UndefinedInv
    <2> QED BY <1>3, <2>1, <2>2, Elsewhere
  <1>6. CASE ~ exceptionptr
    <2>1. pc' = "window"
      BY <1>1, <1>6
    <2>2. WindowInv'
      <3>1. Asked' /\ CommonKept'
        BY <1>1, <1>2, <1>6 DEF Asked, CommonKept
      <3> QED BY <1>1, <1>4, <3>1 DEF WindowInv
    <2>3. ExactInv'
      BY <1>0, <1>1, <1>6, <2>1 DEF ExactInv, OneMissingAtMost, OnlyTheMissingNetIsGone
    <2>4. BeginInv' /\ QueryInv' /\ IntersectInv' /\ PlatformsInv' /\ UndefinedInv'
      BY <2>1 DEF BeginInv, QueryInv, IntersectInv, PlatformsInv, UndefinedInv
    <2> QED BY <1>3, <2>2, <2>3, <2>4 DEF StartInv
  <1> QED BY <1>5, <1>6

-----------------------------------------------------------------------------
LEMMA StartSteps == StartInv /\ [Next]_vars => StartInv'
  <1> SUFFICES ASSUME StartInv, [Next]_vars PROVE StartInv'
    OBVIOUS
  <1>1. CASE ServerVanishes \/ UNCHANGED vars
    BY <1>1, ServerStep
  <1>2. CASE Connect \/ CreateExecutor \/ TypeError
    BY <1>2, ConnectStep, CreateStep, TypeErrorStep
  <1>3. CASE AskNets \/ AskNetsFails \/ ReadNetsFails \/ NetsAsked
    BY <1>3, AskNetsStep, AskNetsFailsStep, ReadNetsFailsStep, NetsAskedStep
  <1>4. CASE KeepCommonNet \/ EraseNet \/ EraseEnd \/ NextList \/ IntersectionDone
    BY <1>4, KeepCommonNetStep, EraseNetStep, EraseEndStep, NextListStep, IntersectionDoneStep
  <1>5. CASE AskPlatforms \/ AskPlatformsFails \/ OpenWindow
    BY <1>5, AskPlatformsStep, AskPlatformsFailsStep, OpenWindowStep
  <1> QED BY <1>1, <1>2, <1>3, <1>4, <1>5 DEF Next

LEMMA AlwaysStartInv == Spec => []StartInv
  BY StartsSo, StartSteps, PTL DEF Spec

(* Every variable of the start keeps its type; the loop index never leaves *)
(* the memory the vector had, however many of its elements were erased     *)
(* (Manager.cpp:119-131, 366-384).                                         *)
THEOREM TypeCorrect == Spec => []TypeOK
  <1>1. StartInv => TypeOK
    BY DEF StartInv
  <1> QED BY <1>1, AlwaysStartInv, PTL

(* netIntersection is only called with one list for each host that is      *)
(* left, and with at least one list, although the loop that fills allNets  *)
(* erases from the hosts it runs over (Manager.cpp:119-137).               *)
THEOREM ListsFitHosts == Spec => []OneListPerHost
  <1>1. StartInv => OneListPerHost
    <2> SUFFICES ASSUME StartInv, pc = "intersect" \/ (pc = "undefined" /\ allNets = <<>>)
                 PROVE  hosts # <<>> /\ allNets = [j \in DOMAIN hosts |-> netsOf[hosts[j]]]
      BY DEF OneListPerHost
    <2>1. pc = "intersect"
      BY DEF StartInv, UndefinedInv
    <2>2. TypeOK /\ Asked
      BY <2>1 DEF StartInv, IntersectInv
    <2> QED BY <2>2, AskedFacts DEF Asked
  <1> QED BY <1>1, AlwaysStartInv, PTL

(* Whatever nets the two loops of netIntersection skip or see twice, every *)
(* net that all hosts have is offered, and none twice (Manager.cpp:366-384). *)
THEOREM CommonNetsAreOffered == Spec => []NoCommonNetLost
  <1>1. StartInv => NoCommonNetLost
    BY DEF StartInv, WindowInv, CommonKept, NoCommonNetLost
  <1> QED BY <1>1, AlwaysStartInv, PTL

(* With at most one net missing on the other host the loop that erases     *)
(* from the vector it runs over does what netIntersection is for.          *)
THEOREM OneMissingNetIsTakenOut == Spec => []ExactForOneMissingNet
  <1>1. StartInv => ExactForOneMissingNet
    BY DEF StartInv, ExactInv, OneMissingAtMost, ExactForOneMissingNet
  <1> QED BY <1>1, AlwaysStartInv, PTL

(* A usable window has the local host as the last of its hosts, the        *)
(* platforms of those hosts in their order and nets of the first host:     *)
(* where the module Manager begins (Manager.cpp:139-160).                  *)
THEOREM WindowIsRight == Spec => []WindowFitsHosts
  <1>1. StartInv => WindowFitsHosts
    <2> SUFFICES ASSUME StartInv, pc = "window"
                 PROVE  /\ hosts \in {<<"local">>, <<"fpga", "local">>} /\ platformsOf = hosts
                        /\ ToSet(nets) \subseteq ToSet(netsOf[hosts[1]])
      BY DEF WindowFitsHosts
    <2>1. TypeOK /\ Asked /\ CommonKept /\ platformsOf = hosts
      BY DEF StartInv, WindowInv
    <2>2. Len(hosts) \in {1, 2} /\ \A j \in 1..Len(hosts) : allNets[j] = netsOf[hosts[j]]
      BY <2>1, AskedFacts
    <2>3. 1 \in 1..Len(hosts)
      BY <2>2
    <2>4. ToSet(nets) \subseteq ToSet(netsOf[hosts[1]])
      BY <2>1, <2>2, <2>3 DEF CommonKept
    <2> QED BY <2>1, <2>4 DEF Asked, AskedHosts
  <1> QED BY <1>1, AlwaysStartInv, PTL

=============================================================================
