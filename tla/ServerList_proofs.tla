------------------------- MODULE ServerList_proofs ---------------------------
(***************************************************************************)
(* What the server list guarantees for any subnets, ports, typed hosts and *)
(* any number of scans, workers and saves: the window and the cursor are   *)
(* in the list, a scan's end leaves what that scan found and what people   *)
(* put there, and a list that is complete shows no host of an old port.    *)
(***************************************************************************)
EXTENDS ServerList, FiniteSetTheorems, SequenceTheorems, WellFoundedInduction, TLAPS

(* The addresses there may be: of the subnets, and typed in.               *)
Addr == Scanned \cup Known

Loops == {"none", "check", "acquire", "wait", "closed"}

ScanType == [loop : Loops, cidr : Subnets, port : Ports \ {DefaultRDPPort}, next : Nat \ {0},
             busy : SUBSET Addr, scanned : Nat, ch : Seq(Event), cancelled : BOOLEAN,
             hits : SUBSET {AddrRDP(h) : h \in Host}]
SaveType == [st : {"none", "saving", "applied"}, port : Ports \ {DefaultRDPPort}, saved : BOOLEAN]

TypeInv ==
  /\ hosts \in Seq(Host) /\ sel \in Int /\ scroll \in Int
  /\ subnet \in Subnets /\ lan \in Subnets
  /\ scanPort \in Ports \ {DefaultRDPPort}
  /\ save \in [Saves -> SaveType]
  /\ scan \in [Scans -> ScanType] /\ scanCh \in Scans \cup {0}

(* The endpoints that are still in a channel.                              *)
Announced(ch) == {AddrRDP(ch[i].host) : i \in {j \in DOMAIN ch : ch[j].type = "found"}}

(* A scan dials an address of its subnet, and all it sends is of its port; *)
(* its last event is its last indeed.                                      *)
ScanOk(r) ==
  /\ r.loop = "acquire" => r.next <= Len(Expand[r.cidr])
  /\ r.loop \in {"none", "closed"} => r.busy = {}
  /\ \A i \in DOMAIN r.ch :
       /\ r.ch[i].type = "found" => r.ch[i].host[2] = r.port
       /\ r.ch[i].type = "complete" => i = Len(r.ch) /\ r.loop = "closed"
ScansInv == \A s \in Scans : ScanOk(scan[s])

(* With a subnet to show, the scan that is read scans the port that is     *)
(* set, and what it has found is of that port.                             *)
PortInv ==
  subnet # "" => /\ scanCh # 0 => scan[scanCh].port = scanPort
                 /\ \A e \in found : e = AddrRDP(<<e[1], scanPort>>)

(* What the scan that is read has sent has been read, or is in the         *)
(* channel, until its last event is read.                                  *)
HitsOk(r, fs) == r.loop # "closed" \/ Len(r.ch) > 0 => r.hits = fs \cup Announced(r.ch)
HitsInv == scanCh # 0 => HitsOk(scan[scanCh], found)

(* A row that a list for port p may show: put there, or of that port.      *)
RowOk(h, ks, p) == AddrRDP(h) \in ks \cup {AddrRDP(<<h[1], p>>)}

IInv == /\ TypeInv /\ ScansInv /\ PortInv /\ HitsInv
        /\ WindowInList /\ PortRespected
-----------------------------------------------------------------------------
(* A set of natural numbers has a least one.                               *)
LEMMA Least == ASSUME NEW T \in SUBSET Nat, T # {} PROVE \E m \in T : \A k \in T : m <= k
  <1> DEFINE R == OpToRel(<, Nat)
  <1>1. IsWellFoundedOn(R, Nat) BY NatLessThanWellFounded
  <1>2. \A x, y \in Nat : x < y => <<x, y>> \in R BY DEF OpToRel
  <1> HIDE DEF R
  <1>3. PICK x \in T : \A y \in T : ~(<<y, x>> \in R) BY <1>1, WFMin
  <1>4. \A k \in T : ~(k < x) BY <1>2, <1>3
  <1>5. \A k \in T : x <= k BY <1>4
  <1> QED BY <1>5

(* Counting rows from the top: each row adds one.                          *)
LEMMA Counting ==
  ASSUME NEW n \in Nat, NEW rows \in SUBSET (1..n)
  PROVE  /\ Cardinality(rows) \in Nat
         /\ UpTo(rows, 0) = 0 /\ UpTo(rows, n) = Cardinality(rows)
         /\ \A i \in 0..n : UpTo(rows, i) \in Nat /\ UpTo(rows, i) <= Cardinality(rows)
         /\ \A i \in 1..n : UpTo(rows, i) = IF i \in rows THEN UpTo(rows, i - 1) + 1
                                            ELSE UpTo(rows, i - 1)
         /\ \A i, j \in rows : i < j => UpTo(rows, i) < UpTo(rows, j)
  <1> DEFINE Upper(i) == {j \in rows : j <= i}
  <1>0. \A j \in rows : j \in Nat /\ 1 <= j /\ j <= n OBVIOUS
  <1>1. IsFiniteSet(rows) /\ Cardinality(rows) \in Nat
    <2>1. IsFiniteSet(1..n) BY FS_Interval
    <2> QED BY <2>1, FS_Subset, FS_CardinalityType
  <1>2. \A i : IsFiniteSet(Upper(i)) /\ Cardinality(Upper(i)) \in Nat
                 /\ Cardinality(Upper(i)) <= Cardinality(rows)
    <2> TAKE i
    <2>1. Upper(i) \in SUBSET rows OBVIOUS
    <2> HIDE DEF Upper
    <2> QED BY <1>1, <2>1, FS_Subset, FS_CardinalityType
  <1>3. UpTo(rows, 0) = 0
    <2>1. \A j \in rows : ~(j <= 0) BY <1>0
    <2>2. Upper(0) = {} BY <2>1, Zenon
    <2> QED BY <2>2, FS_EmptySet DEF UpTo
  <1>4. UpTo(rows, n) = Cardinality(rows)
    <2>1. Upper(n) = rows BY <1>0
    <2> QED BY <2>1 DEF UpTo
  <1>5. ASSUME NEW i \in 1..n
        PROVE  UpTo(rows, i) = IF i \in rows THEN UpTo(rows, i - 1) + 1 ELSE UpTo(rows, i - 1)
    <2>1. CASE i \in rows
      <3>0. ~(i <= i - 1) /\ \A j \in rows : j <= i <=> (j <= i - 1 \/ j = i) BY <1>0
      <3>1. Upper(i) = Upper(i - 1) \cup {i} /\ i \notin Upper(i - 1) BY <2>1, <3>0, Zenon
      <3> HIDE DEF Upper
      <3>2. Cardinality(Upper(i)) = Cardinality(Upper(i - 1)) + 1 BY <1>2, <3>1, FS_AddElement
      <3> QED BY <2>1, <3>2 DEF UpTo, Upper
    <2>2. CASE i \notin rows
      <3>0. \A j \in rows : j <= i <=> j <= i - 1 BY <1>0, <2>2
      <3>1. Upper(i) = Upper(i - 1) BY <3>0, Zenon
      <3> QED BY <2>2, <3>1 DEF UpTo
    <2> QED BY <2>1, <2>2
  <1>6. ASSUME NEW i \in rows, NEW j \in rows, i < j PROVE UpTo(rows, i) < UpTo(rows, j)
    <2>0. j <= j /\ ~(j <= i) /\ \A l \in rows : l <= i => l <= j BY <1>0, <1>6
    <2>1. Upper(i) \in SUBSET Upper(j) /\ j \in Upper(j) /\ j \notin Upper(i) BY <2>0, Zenon
    <2>2. Upper(i) # Upper(j) BY <2>1
    <2> HIDE DEF Upper
    <2>3. Cardinality(Upper(i)) < Cardinality(Upper(j)) BY <1>2, <2>1, <2>2, FS_Subset
    <2> QED BY <2>3 DEF UpTo, Upper
  <1>7. \A i \in 0..n : UpTo(rows, i) \in Nat /\ UpTo(rows, i) <= Cardinality(rows)
    BY <1>2 DEF UpTo
  <1> QED BY <1>1, <1>3, <1>4, <1>5, <1>6, <1>7

(* There is a k-th row for every k there should be.                        *)
LEMMA NthRow ==
  ASSUME NEW n \in Nat, NEW rows \in SUBSET (1..n), NEW k \in 1..Cardinality(rows)
  PROVE  \E i \in rows : UpTo(rows, i) = k
  <1> DEFINE T == {i \in 0..n : UpTo(rows, i) >= k}
  <1>1. n \in T BY Counting
  <1>2. PICK m \in T : \A i \in T : m <= i
    <2>1. T \in SUBSET Nat /\ T # {} BY <1>1
    <2> HIDE DEF T
    <2> QED BY <2>1, Least
  <1>3. m # 0 BY <1>2, Counting
  <1>4. m - 1 \in 0..n /\ m - 1 \notin T BY <1>2, <1>3
  <1>5. UpTo(rows, m - 1) < k BY <1>4, Counting
  <1>6. m \in 1..n /\ UpTo(rows, m) >= k BY <1>2, <1>3
  <1>7. m \in rows /\ UpTo(rows, m) = UpTo(rows, m - 1) + 1
    <2>1. UpTo(rows, m) = IF m \in rows THEN UpTo(rows, m - 1) + 1 ELSE UpTo(rows, m - 1)
      BY <1>6, Counting
    <2>2. UpTo(rows, m - 1) \in Nat BY <1>4, Counting
    <2> QED BY <1>5, <1>6, <2>1, <2>2
  <1> QED BY <1>4, <1>5, <1>6, <1>7, Counting

(* What stays of a list: the rows with an endpoint of eps, each of them.   *)
LEMMA StayingLaws ==
  ASSUME NEW hs \in Seq(Host), NEW eps
  PROVE  /\ Staying(hs, eps) \in Seq(Host)
         /\ Endpoints(Staying(hs, eps)) = Endpoints(hs) \cap eps
         /\ \A k \in DOMAIN Staying(hs, eps) :
              \E i \in DOMAIN hs : Staying(hs, eps)[k] = hs[i] /\ AddrRDP(hs[i]) \in eps
  <1> DEFINE rows == Rows(hs, eps)
             N == Cardinality(rows)
             nth(k) == CHOOSE i \in rows : UpTo(rows, i) = k
             rest == Staying(hs, eps)
  <1>1. Len(hs) \in Nat /\ DOMAIN hs = 1..Len(hs) /\ \A i \in 1..Len(hs) : hs[i] \in Host
    BY LenProperties, ElementOfSeq
  <1>2. rows \in SUBSET (1..Len(hs)) /\ \A i \in rows : AddrRDP(hs[i]) \in eps
    BY <1>1 DEF Rows
  <1>3. rest = [k \in 1..N |-> hs[nth(k)]] BY DEF Staying
  <1>4. \A i \in 1..Len(hs) : AddrRDP(hs[i]) \in eps => i \in rows BY <1>1 DEF Rows
  <1> HIDE DEF rows, rest
  <1>5. N \in Nat BY <1>1, <1>2, Counting
  <1>6. ASSUME NEW k \in 1..N PROVE nth(k) \in rows /\ UpTo(rows, nth(k)) = k
    <2>1. \E i \in rows : UpTo(rows, i) = k BY <1>1, <1>2, NthRow
    <2> QED BY <2>1
  <1> HIDE DEF N, nth
  <1>7. DOMAIN rest = 1..N /\ \A k \in 1..N : rest[k] = hs[nth(k)] BY <1>3
  <1>8. rest \in Seq(Host)
    <2>1. \A k \in 1..N : hs[nth(k)] \in Host BY <1>1, <1>2, <1>6
    <2>2. rest \in [1..N -> Host] BY <1>3, <2>1
    <2> QED BY <1>5, <2>2, SeqDef
  <1>9. \A k \in DOMAIN rest : \E i \in DOMAIN hs : rest[k] = hs[i] /\ AddrRDP(hs[i]) \in eps
    BY <1>1, <1>2, <1>6, <1>7
  <1>10. ASSUME NEW i \in rows PROVE \E k \in 1..N : nth(k) = i
    <2>1. UpTo(rows, i) \in 1..N
      <3>1. i \in 1..Len(hs) /\ i - 1 \in 0..Len(hs) /\ i \in 0..Len(hs) BY <1>1, <1>2
      <3> QED BY <1>1, <1>2, <1>5, <3>1, Counting DEF N
    <2>2. PICK k \in 1..N : k = UpTo(rows, i) BY <2>1
    <2>3. nth(k) \in rows /\ UpTo(rows, nth(k)) = UpTo(rows, i) BY <1>6, <2>2
    <2>4. i \in Nat /\ nth(k) \in Nat /\ UpTo(rows, i) \in Nat
      <3>1. rows \in SUBSET Nat BY <1>1, <1>2
      <3>2. UpTo(rows, i) \in Nat BY <1>5, <2>1
      <3> QED BY <2>3, <3>1, <3>2
    <2>5. \A j \in rows, l \in rows : j < l => UpTo(rows, j) < UpTo(rows, l) BY <1>1, <1>2, Counting
    <2>6. nth(k) = i BY <2>3, <2>4, <2>5
    <2> QED BY <2>6
  <1>11. Endpoints(rest) = Endpoints(hs) \cap eps
    <2>1. ASSUME NEW e \in Endpoints(rest) PROVE e \in Endpoints(hs) \cap eps
      BY <1>9 DEF Endpoints
    <2>2. ASSUME NEW e \in Endpoints(hs) \cap eps PROVE e \in Endpoints(rest)
      <3>1. PICK i \in 1..Len(hs) : e = AddrRDP(hs[i]) BY <1>1 DEF Endpoints
      <3>2. PICK k \in 1..N : nth(k) = i BY <1>4, <1>10, <3>1
      <3> QED BY <1>7, <3>1, <3>2 DEF Endpoints
    <2> QED BY <2>1, <2>2
  <1> QED BY <1>8, <1>9, <1>11 DEF rest
-----------------------------------------------------------------------------
(* Where a host is in the list.                                            *)
LEMMA IndexLaws ==
  ASSUME NEW hs \in Seq(Host), NEW h
  PROVE  /\ Len(hs) \in Nat /\ DOMAIN hs = 1..Len(hs) /\ IndexOf(hs, h) \in 0..Len(hs)
         /\ IF AddrRDP(h) \in Endpoints(hs)
            THEN IndexOf(hs, h) + 1 \in DOMAIN hs /\ AddrRDP(hs[IndexOf(hs, h) + 1]) = AddrRDP(h)
            ELSE IndexOf(hs, h) = Len(hs)
  <1>1. Len(hs) \in Nat /\ DOMAIN hs = 1..Len(hs) BY LenProperties
  <1>2. CASE AddrRDP(h) \in Endpoints(hs)
    <2> DEFINE at == CHOOSE i \in DOMAIN hs : Same(hs[i], h)
    <2>1. \E i \in DOMAIN hs : Same(hs[i], h) BY <1>2 DEF Endpoints, Same
    <2>2. at \in DOMAIN hs /\ AddrRDP(hs[at]) = AddrRDP(h) BY <2>1 DEF Same
    <2>3. IndexOf(hs, h) = at - 1 BY <1>2 DEF IndexOf
    <2> HIDE DEF at
    <2>4. at \in 1..Len(hs) BY <1>1, <2>2
    <2>5. at - 1 + 1 = at /\ at - 1 \in 0..Len(hs) BY <1>1, <2>4
    <2> QED BY <1>1, <1>2, <2>2, <2>3, <2>5
  <1>3. CASE AddrRDP(h) \notin Endpoints(hs)
    BY <1>1, <1>3 DEF IndexOf
  <1> QED BY <1>2, <1>3

LEMMA TopLaw ==
  ASSUME NEW hs \in Seq(Host)
  PROVE  /\ Top(hs) \in Nat /\ Len(hs) \in Nat
         /\ Len(hs) = 0 => Top(hs) = 0
         /\ Len(hs) > 0 => Top(hs) = Len(hs) - 1
  <1>1. Len(hs) \in Nat /\ (hs = <<>> <=> Len(hs) = 0) BY LenProperties, EmptySeq
  <1> QED BY <1>1 DEF Top

LEMMA TopGrows ==
  ASSUME NEW hs \in Seq(Host), NEW gs \in Seq(Host), Len(hs) <= Len(gs), NEW n \in Int, n <= Top(hs)
  PROVE  n <= Top(gs)
  <1> DEFINE a == Len(hs)
             b == Len(gs)
             s == Top(hs)
             t == Top(gs)
  <1>1. s \in Nat /\ a \in Nat /\ (a = 0 => s = 0) /\ (a > 0 => s = a - 1) BY TopLaw
  <1>2. t \in Nat /\ b \in Nat /\ (b = 0 => t = 0) /\ (b > 0 => t = b - 1) BY TopLaw
  <1>3. a <= b /\ n <= s OBVIOUS
  <1> HIDE DEF a, b, s, t
  <1>4. n <= t BY <1>1, <1>2, <1>3
  <1> QED BY <1>4 DEF t

(* A host joins the list, or takes the row it has.                         *)
LEMMA PutLaws ==
  ASSUME NEW hs \in Seq(Host), NEW h \in Host, NEW replace \in BOOLEAN
  PROVE  /\ Put(hs, h, replace) \in Seq(Host)
         /\ Len(hs) <= Len(Put(hs, h, replace))
         /\ IndexOf(hs, h) < Len(Put(hs, h, replace))
         /\ \A i \in DOMAIN Put(hs, h, replace) :
              \/ Put(hs, h, replace)[i] = h
              \/ \E j \in DOMAIN hs : Put(hs, h, replace)[i] = hs[j]
  <1> DEFINE n == IndexOf(hs, h)
  <1>1. Len(hs) \in Nat /\ DOMAIN hs = 1..Len(hs) /\ n \in 0..Len(hs) BY IndexLaws
  <1> HIDE DEF n
  <1>0. n # Len(hs) => n + 1 \in 1..Len(hs) /\ n < Len(hs) /\ Len(hs) <= Len(hs)
    <2>1. \A a \in Nat : \A b \in 0..a : b # a => b + 1 \in 1..a /\ b < a /\ a <= a OBVIOUS
    <2> QED BY <1>1, <2>1, Zenon
  <1>2. CASE n = Len(hs)
    <2>1. Put(hs, h, replace) = Append(hs, h) BY <1>2 DEF Put, n
    <2>2. /\ Append(hs, h) \in Seq(Host) /\ Len(Append(hs, h)) = Len(hs) + 1
          /\ \A i \in 1..Len(hs) : Append(hs, h)[i] = hs[i]
          /\ Append(hs, h)[Len(hs) + 1] = h
      BY AppendProperties
    <2>3. DOMAIN Append(hs, h) = 1..(Len(hs) + 1) BY <2>2, LenProperties
    <2>4. \A i \in 1..(Len(hs) + 1) : i = Len(hs) + 1 \/ i \in 1..Len(hs) BY <1>1
    <2>5. \A i \in 1..(Len(hs) + 1) : Append(hs, h)[i] = h \/ \E j \in DOMAIN hs : Append(hs, h)[i] = hs[j]
      BY <1>1, <2>2, <2>4, Zenon
    <2>6. Len(hs) <= Len(hs) + 1 /\ n < Len(hs) + 1 BY <1>1, <1>2
    <2> QED BY <2>1, <2>2, <2>3, <2>5, <2>6 DEF n
  <1>3. CASE n # Len(hs) /\ replace
    <2>1. Put(hs, h, replace) = [hs EXCEPT ![n + 1] = h] BY <1>3 DEF Put, n
    <2>2. n + 1 \in 1..Len(hs) BY <1>0, <1>3, Zenon
    <2>3. /\ [hs EXCEPT ![n + 1] = h] \in Seq(Host)
          /\ Len([hs EXCEPT ![n + 1] = h]) = Len(hs)
          /\ \A i \in 1..Len(hs) : [hs EXCEPT ![n + 1] = h][i] = IF i = n + 1 THEN h ELSE hs[i]
      BY <2>2, ExceptSeq
    <2>4. DOMAIN [hs EXCEPT ![n + 1] = h] = 1..Len(hs) BY <1>1
    <2>5. Len(hs) <= Len(hs) /\ n < Len(hs) BY <1>0, <1>3, Zenon
    <2>6. \A i \in 1..Len(hs) : [hs EXCEPT ![n + 1] = h][i] = h \/ \E j \in DOMAIN hs : [hs EXCEPT ![n + 1] = h][i] = hs[j]
      BY <1>1, <2>3, Zenon
    <2> QED BY <2>1, <2>3, <2>4, <2>5, <2>6 DEF n
  <1>4. CASE n # Len(hs) /\ ~replace
    <2>1. Put(hs, h, replace) = hs BY <1>4 DEF Put, n
    <2>2. Len(hs) <= Len(hs) /\ n < Len(hs) BY <1>0, <1>4, Zenon
    <2> QED BY <2>1, <2>2, Zenon DEF n
  <1> QED BY <1>2, <1>3, <1>4, Zenon

(* Events, and what a channel still announces when one is sent or read.    *)
LEMMA EventLaws ==
  /\ \A h \in Host : [type |-> "found", host |-> h] \in Event
  /\ [type |-> "progress"] \in Event /\ [type |-> "complete"] \in Event
  /\ \A e \in Event : e.type \in {"found", "progress", "complete"}
                      /\ (e.type = "found" => e.host \in Host)
  BY DEF Event

LEMMA SendLaws ==
  ASSUME NEW ch \in Seq(Event), NEW e \in Event
  PROVE  /\ Append(ch, e) \in Seq(Event) /\ Len(Append(ch, e)) = Len(ch) + 1 /\ Len(ch) \in Nat
         /\ DOMAIN ch = 1..Len(ch) /\ DOMAIN Append(ch, e) = 1..(Len(ch) + 1)
         /\ Append(ch, e)[Len(ch) + 1] = e
         /\ \A i \in 1..Len(ch) : Append(ch, e)[i] = ch[i]
         /\ Announced(Append(ch, e)) = Announced(ch) \cup (IF e.type = "found" THEN {AddrRDP(e.host)} ELSE {})
  <1> DEFINE q == Append(ch, e)
  <1>1. /\ q \in Seq(Event) /\ Len(q) = Len(ch) + 1 /\ Len(ch) \in Nat
        /\ DOMAIN ch = 1..Len(ch) /\ q[Len(ch) + 1] = e /\ \A i \in 1..Len(ch) : q[i] = ch[i]
    BY AppendProperties, LenProperties
  <1>2. DOMAIN q = 1..(Len(ch) + 1) BY <1>1, LenProperties
  <1> HIDE DEF q
  <1>3. \A i \in 1..(Len(ch) + 1) : i \in 1..Len(ch) \/ i = Len(ch) + 1 BY <1>1
  <1>4. \A i \in 1..Len(ch) : i \in 1..(Len(ch) + 1) BY <1>1
  <1>5. Len(ch) + 1 \in 1..(Len(ch) + 1) BY <1>1
  <1>6. Announced(q) \subseteq Announced(ch) \cup (IF e.type = "found" THEN {AddrRDP(e.host)} ELSE {})
    BY <1>1, <1>2, <1>3 DEF Announced
  <1>7. Announced(ch) \subseteq Announced(q) BY <1>1, <1>2, <1>4 DEF Announced
  <1>8. e.type = "found" => AddrRDP(e.host) \in Announced(q) BY <1>1, <1>2, <1>5 DEF Announced
  <1> QED BY <1>1, <1>2, <1>6, <1>7, <1>8 DEF q

LEMMA ReadLaws ==
  ASSUME NEW ch \in Seq(Event), ch # <<>>
  PROVE  /\ Tail(ch) \in Seq(Event) /\ Len(Tail(ch)) = Len(ch) - 1 /\ Len(ch) \in Nat \ {0}
         /\ DOMAIN ch = 1..Len(ch) /\ DOMAIN Tail(ch) = 1..(Len(ch) - 1)
         /\ Head(ch) = ch[1] /\ Head(ch) \in Event
         /\ \A i \in 1..(Len(ch) - 1) : Tail(ch)[i] = ch[i + 1]
         /\ Announced(ch) = Announced(Tail(ch)) \cup (IF Head(ch).type = "found" THEN {AddrRDP(Head(ch).host)} ELSE {})
  <1> DEFINE q == Tail(ch)
  <1>1. /\ q \in Seq(Event) /\ Len(q) = Len(ch) - 1 /\ Head(ch) \in Event
        /\ \A i \in 1..Len(q) : q[i] = ch[i + 1]
    BY HeadTailProperties
  <1>2. Len(ch) \in Nat /\ Len(ch) # 0 /\ DOMAIN ch = 1..Len(ch) BY LenProperties, EmptySeq
  <1>3. DOMAIN q = 1..(Len(ch) - 1) BY <1>1, LenProperties
  <1>4. Head(ch) = ch[1] OBVIOUS
  <1> HIDE DEF q
  <1>5. \A i \in 1..Len(ch) : i = 1 \/ (i - 1 \in 1..(Len(ch) - 1) /\ i = (i - 1) + 1) BY <1>2
  <1>6. \A i \in 1..(Len(ch) - 1) : i + 1 \in 1..Len(ch) BY <1>2
  <1>7. 1 \in 1..Len(ch) BY <1>2
  <1>8. Announced(ch) \subseteq Announced(q) \cup (IF Head(ch).type = "found" THEN {AddrRDP(Head(ch).host)} ELSE {})
    BY <1>1, <1>2, <1>3, <1>4, <1>5 DEF Announced
  <1>9. Announced(q) \subseteq Announced(ch) BY <1>1, <1>2, <1>3, <1>6 DEF Announced
  <1>10. Head(ch).type = "found" => AddrRDP(Head(ch).host) \in Announced(ch)
    BY <1>2, <1>4, <1>7 DEF Announced
  <1> QED BY <1>1, <1>2, <1>3, <1>4, <1>8, <1>9, <1>10 DEF q
-----------------------------------------------------------------------------
LEMMA PortLaws ==
  /\ 0 \in Ports \ {DefaultRDPPort}
  /\ \A f \in Fields : ~BadPort(f) => ParsePort(f) \in Ports \ {DefaultRDPPort}
  /\ \A p \in Ports \ {DefaultRDPPort} : ParsePort(p) = p
  BY FieldsAssumption DEF Ports, ParsePort, BadPort, DefaultRDPPort

LEMMA AddrLaws ==
  /\ Host = Addr \X Ports
  /\ \A h \in Typed : h[1] \in Addr
  /\ \A c \in Subnets : \A i \in DOMAIN Expand[c] : Expand[c][i] \in Addr
  <1>1. Host = Addr \X Ports BY DEF Host, Addr
  <1>2. \A h \in Typed : h[1] \in Known BY DEF Known
  <1>3. \A c \in Subnets : \A i \in DOMAIN Expand[c] : Expand[c][i] \in Scanned BY DEF Scanned
  <1> QED BY <1>1, <1>2, <1>3 DEF Addr

LEMMA ExpandLaw ==
  \A c \in Subnets : Len(Expand[c]) \in Nat /\ DOMAIN Expand[c] = 1..Len(Expand[c])
  BY ExpandAssumption, LenProperties

LEMMA NoScanOk ==
  /\ NoScan \in ScanType /\ ScanOk(NoScan)
  /\ \A c \in Subnets, p \in Ports \ {DefaultRDPPort} :
       /\ NewScan(c, p) \in ScanType /\ ScanOk(NewScan(c, p)) /\ HitsOk(NewScan(c, p), {})
       /\ NewScan(c, p).port = p
  <1> DEFINE q == <<>>
             E == {AddrRDP(h) : h \in Host}
             P == Ports \ {DefaultRDPPort}
             rec(l, c, p) == [loop |-> l, cidr |-> c, port |-> p, next |-> 1, busy |-> {},
                              scanned |-> 0, ch |-> q, cancelled |-> FALSE, hits |-> {}]
  <1>1. "" \in Subnets /\ 0 \in P /\ \A p \in P : ParsePort(p) = p BY ExpandAssumption, PortLaws
  <1>2. q \in Seq(Event) /\ DOMAIN q = {} OBVIOUS
  <1>3. Announced(q) = {} BY <1>2 DEF Announced
  <1>4. ScanType = [loop : Loops, cidr : Subnets, port : P, next : Nat \ {0}, busy : SUBSET Addr,
                    scanned : Nat, ch : Seq(Event), cancelled : BOOLEAN, hits : SUBSET E]
    BY DEF ScanType
  <1>5. NoScan = rec("none", "", 0) BY DEF NoScan
  <1> HIDE DEF q, P, E
  <1>6. ASSUME NEW c \in Subnets, NEW p \in P PROVE NewScan(c, p) = rec("check", c, p)
    <2>1. NewScan(c, p) = [rec("none", "", 0) EXCEPT !.loop = "check", !.cidr = c, !.port = p]
      BY <1>1, <1>5, Zenon DEF NewScan
    <2> QED BY <2>1
  <1>7. ASSUME NEW l \in {"none", "check"}, NEW c \in Subnets, NEW p \in P
        PROVE  /\ rec(l, c, p) \in ScanType /\ ScanOk(rec(l, c, p)) /\ HitsOk(rec(l, c, p), {})
               /\ rec(l, c, p).port = p
    <2>1. rec(l, c, p) \in ScanType BY <1>2, <1>4 DEF Loops
    <2>2. ScanOk(rec(l, c, p)) BY <1>2 DEF ScanOk
    <2>3. HitsOk(rec(l, c, p), {}) BY <1>3 DEF HitsOk
    <2> QED BY <2>1, <2>2, <2>3
  <1> HIDE DEF rec
  <1>8. NoScan \in ScanType /\ ScanOk(NoScan)
    <2>1. "none" \in {"none", "check"} OBVIOUS
    <2> QED BY <1>1, <1>5, <1>7, <2>1, Zenon
  <1>9. ASSUME NEW c \in Subnets, NEW p \in P
        PROVE  /\ NewScan(c, p) \in ScanType /\ ScanOk(NewScan(c, p)) /\ HitsOk(NewScan(c, p), {})
               /\ NewScan(c, p).port = p
    <2>1. "check" \in {"none", "check"} OBVIOUS
    <2>2. NewScan(c, p) = rec("check", c, p) BY <1>6
    <2> QED BY <1>7, <2>1, <2>2, Zenon
  <1> QED BY <1>8, <1>9, Zenon DEF P

(* Steps of people and of the settings: the list, the scans and what they  *)
(* found are left alone.                                                   *)
LEMMA UiStep ==
  ASSUME IInv, hosts' = hosts, found' = found, kept' = kept, subnet' = subnet,
         scanPort' = scanPort, done' => done, scan' = scan, scanCh' = scanCh,
         sel' \in Int, sel' <= Top(hosts), scroll' \in Int, scroll' <= Top(hosts),
         lan' \in Subnets, save' \in [Saves -> SaveType]
  PROVE  IInv'
  <1>1. TypeInv' BY DEF IInv, TypeInv
  <1>2. ScansInv' /\ PortInv' /\ HitsInv' BY DEF IInv, ScansInv, PortInv, HitsInv
  <1>3. WindowInList' BY DEF WindowInList
  <1>4. PortRespected' BY DEF IInv, PortRespected
  <1> QED BY <1>1, <1>2, <1>3, <1>4 DEF IInv

(* Steps of a scan's goroutines.                                           *)
LEMMA GoStep ==
  ASSUME IInv, NEW s \in Scans, NEW r \in ScanType, ScanOk(r), scan' = [scan EXCEPT ![s] = r],
         UNCHANGED UI, r.port = scan[s].port \/ scanCh # s, scanCh = s => HitsOk(r, found)
  PROVE  IInv'
  <1>1. /\ hosts' = hosts /\ found' = found /\ kept' = kept /\ sel' = sel /\ scroll' = scroll
        /\ subnet' = subnet /\ scanPort' = scanPort /\ save' = save /\ scanCh' = scanCh /\ lan' = lan
    BY Zenon DEF UI, list
  <1>2. done' => done BY Zenon DEF UI
  <1>3. TypeInv BY DEF IInv
  <1>4. scan'[s] = r /\ \A t \in Scans : t # s => scan'[t] = scan[t] BY <1>3 DEF TypeInv
  <1>5. TypeInv' BY <1>1, <1>3 DEF TypeInv
  <1>6. ScansInv' BY <1>4 DEF IInv, ScansInv
  <1>7. scanCh # 0 => scanCh \in Scans BY <1>3 DEF TypeInv
  <1>8. PortInv' BY <1>1, <1>4, <1>7 DEF IInv, PortInv
  <1>9. HitsInv' BY <1>1, <1>4, <1>7 DEF IInv, HitsInv
  <1>10. WindowInList' BY <1>1 DEF IInv, WindowInList
  <1>11. PortRespected' BY <1>1, <1>2 DEF IInv, PortRespected
  <1> QED BY <1>5, <1>6, <1>8, <1>9, <1>10, <1>11 DEF IInv

(* F5 and the network ticker.                                              *)
LEMMA StartStep ==
  ASSUME IInv, NEW s \in Scans, Rescan, subnet' = lan, Start(s, lan, scanPort),
         scanPort' = scanPort, lan' = lan, save' = save
  PROVE  IInv'
  <1>1. hosts' = hosts /\ found' = {} /\ kept' = kept /\ sel' = sel /\ scroll' = scroll /\ scanCh' = s
    BY DEF Rescan, Start
  <1>2. ~done' BY DEF Rescan
  <1>3. TypeInv /\ ScansInv BY DEF IInv
  <1>4. lan \in Subnets /\ scanPort \in Ports \ {DefaultRDPPort} BY <1>3 DEF TypeInv
  <1> DEFINE new == NewScan(lan, scanPort)
             old(t) == [scan[t] EXCEPT !.cancelled = TRUE, !.hits = {}]
  <1>5. new \in ScanType /\ ScanOk(new) /\ HitsOk(new, {}) /\ new.port = scanPort
    BY <1>4, NoScanOk
  <1>6. \A t \in Scans : old(t) \in ScanType /\ ScanOk(old(t))
    <2> TAKE t \in Scans
    <2>1. scan[t] \in ScanType /\ ScanOk(scan[t]) BY <1>3 DEF TypeInv, ScansInv
    <2>2. old(t) \in ScanType BY <2>1 DEF ScanType
    <2>3. /\ old(t).loop = scan[t].loop /\ old(t).next = scan[t].next /\ old(t).cidr = scan[t].cidr
          /\ old(t).busy = scan[t].busy /\ old(t).ch = scan[t].ch /\ old(t).port = scan[t].port
      BY <2>1 DEF ScanType
    <2> HIDE DEF old
    <2>4. ScanOk(old(t)) BY <2>1, <2>3 DEF ScanOk
    <2> QED BY <2>2, <2>4
  <1>7. scan' = [t \in Scans |-> IF t = s THEN new
                                 ELSE IF scan[t].loop \in {"none", "closed"} THEN NoScan ELSE old(t)]
    BY DEF Start
  <1> HIDE DEF new, old
  <1>8. scan' \in [Scans -> ScanType] BY <1>5, <1>6, <1>7, NoScanOk
  <1>9. TypeInv' BY <1>1, <1>3, <1>8 DEF TypeInv
  <1>10. ScansInv' BY <1>5, <1>6, <1>7, NoScanOk DEF ScansInv
  <1>11. scan'[s] = new BY <1>7
  <1>12. PortInv' /\ HitsInv' BY <1>1, <1>5, <1>11 DEF PortInv, HitsInv
  <1>13. WindowInList' BY <1>1 DEF IInv, WindowInList
  <1>14. PortRespected' BY <1>2 DEF PortRespected
  <1> QED BY <1>9, <1>10, <1>12, <1>13, <1>14 DEF IInv
-----------------------------------------------------------------------------
LEMMA InitIInv == Init => IInv
  <1> SUFFICES ASSUME Init PROVE IInv
    OBVIOUS
  <1> DEFINE s == CHOOSE t \in Scans : \A u \in Scans : t <= u
  <1>1. s \in Scans
    <2>1. Scans \in SUBSET Nat /\ Scans # {} BY ScansAssumption
    <2>2. \E m \in Scans : \A k \in Scans : m <= k BY <2>1, Least
    <2> QED BY <2>2
  <1>2. scan = [t \in Scans |-> IF t = s THEN NewScan(lan, 0) ELSE NoScan] /\ scanCh = s
    BY DEF Init
  <1> HIDE DEF s
  <1>3. lan \in Subnets /\ subnet = lan /\ 0 \in Ports \ {DefaultRDPPort} BY PortLaws DEF Init
  <1>4. /\ NewScan(lan, 0) \in ScanType /\ ScanOk(NewScan(lan, 0)) /\ HitsOk(NewScan(lan, 0), {})
        /\ NewScan(lan, 0).port = 0
    BY <1>3, NoScanOk
  <1>5. scan \in [Scans -> ScanType] /\ ScansInv /\ scan[s] = NewScan(lan, 0)
    BY <1>1, <1>2, <1>4, NoScanOk DEF ScansInv
  <1>6. hosts \in Seq(Host)
    <2>1. \A h \in Typed : h \in Host
      <3> TAKE h \in Typed
      <3>1. h[2] \in Ports BY DEF Ports
      <3>2. h = <<h[1], h[2]>> BY TypedAssumption
      <3> QED BY <3>1, <3>2, AddrLaws
    <2>2. <<>> \in Seq(Host) /\ \A h \in Host : <<h>> \in Seq(Host) OBVIOUS
    <2> QED BY <2>1, <2>2, Zenon DEF Init
  <1>7. save \in [Saves -> SaveType]
    <2>1. NoSave \in SaveType BY <1>3 DEF NoSave, SaveType
    <2> QED BY <2>1 DEF Init
  <1>8. TypeInv BY <1>1, <1>2, <1>3, <1>5, <1>6, <1>7 DEF Init, TypeInv
  <1>9. PortInv /\ HitsInv
    <2>1. found = {} /\ scanPort = 0 BY DEF Init
    <2> QED BY <1>2, <1>4, <1>5, <2>1 DEF PortInv, HitsInv
  <1>10. WindowInList
    <2>1. sel = 0 /\ scroll = 0 BY DEF Init
    <2> QED BY <1>6, <2>1, TopLaw DEF WindowInList
  <1>11. PortRespected BY DEF Init, PortRespected
  <1> QED BY <1>5, <1>8, <1>9, <1>10, <1>11 DEF IInv

(* Leaving and coming back, the settings while they are saved, the network. *)
LEMMA QuietStep ==
  ASSUME IInv,
         \/ Leave \/ OpenNetwork
         \/ \E tail \in BOOLEAN : Home(tail)
         \/ \E v \in Saves, f \in Fields : SaveNetwork(v, f)
         \/ \E v \in Saves, saved \in BOOLEAN, c \in Subnets : Applied(v, saved, c)
         \/ \E c \in Subnets : LanChanges(c)
  PROVE  IInv'
  <1>1. /\ UNCHANGED <<list, subnet, scanPort, scan, scanCh>>
        /\ done' => done
    <2> DEFINE Still == UNCHANGED <<list, subnet, scanPort, scan, scanCh>> /\ (done' => done)
    <2>0. ASSUME Leave PROVE Still BY <2>0, Zenon DEF Leave
    <2>1. ASSUME OpenNetwork PROVE Still BY <2>1, Zenon DEF OpenNetwork
    <2>2. ASSUME NEW tail \in BOOLEAN, Home(tail) PROVE Still BY <2>2, Zenon DEF Home
    <2>3. ASSUME NEW v \in Saves, NEW f \in Fields, SaveNetwork(v, f) PROVE Still
      BY <2>3, Zenon DEF SaveNetwork
    <2>4. ASSUME NEW v \in Saves, NEW saved \in BOOLEAN, NEW c \in Subnets, Applied(v, saved, c) PROVE Still
      BY <2>4, Zenon DEF Applied
    <2>5. ASSUME NEW c \in Subnets, LanChanges(c) PROVE Still BY <2>5, Zenon DEF LanChanges
    <2> HIDE DEF Still
    <2>6. Still BY <2>0, <2>1, <2>2, <2>3, <2>4, <2>5, Zenon
    <2> QED BY <2>6, Zenon DEF Still
  <1>2. /\ hosts' = hosts /\ found' = found /\ kept' = kept /\ sel' = sel /\ scroll' = scroll
        /\ subnet' = subnet /\ scanPort' = scanPort /\ scan' = scan /\ scanCh' = scanCh
    BY <1>1, Zenon DEF list
  <1>3. sel \in Int /\ scroll \in Int /\ sel <= Top(hosts) /\ scroll <= Top(hosts)
    BY DEF IInv, TypeInv, WindowInList
  <1>4. lan \in Subnets /\ save \in [Saves -> SaveType] BY DEF IInv, TypeInv
  <1>5. lan' \in Subnets
    BY <1>4 DEF Leave, OpenNetwork, Home, SaveNetwork, Applied, LanChanges
  <1>6. save' \in [Saves -> SaveType]
    <2>1. CASE save' = save BY <1>4, <2>1
    <2>2. ASSUME NEW v \in Saves, NEW f \in Fields, SaveNetwork(v, f) PROVE save' \in [Saves -> SaveType]
      <3> DEFINE r == [st |-> "saving", port |-> ParsePort(f), saved |-> FALSE]
      <3>1. ParsePort(f) \in Ports \ {DefaultRDPPort} BY <2>2, PortLaws DEF SaveNetwork
      <3>2. r \in SaveType BY <3>1 DEF SaveType
      <3>3. save' = [save EXCEPT ![v] = r] BY <2>2 DEF SaveNetwork
      <3> HIDE DEF r
      <3> QED BY <1>4, <3>2, <3>3
    <2>3. ASSUME NEW v \in Saves, NEW saved \in BOOLEAN, NEW c \in Subnets, Applied(v, saved, c)
          PROVE  save' \in [Saves -> SaveType]
      BY <1>4, <2>3 DEF Applied, SaveType
    <2>4. (Leave \/ OpenNetwork \/ (\E tail \in BOOLEAN : Home(tail)) \/ (\E c \in Subnets : LanChanges(c)))
            => save' = save
      BY Zenon DEF Leave, OpenNetwork, Home, LanChanges
    <2> QED BY <2>1, <2>2, <2>3, <2>4, Zenon
  <1> QED BY <1>1, <1>2, <1>3, <1>5, <1>6, UiStep

(* The cursor, by the keys and by the mouse.                               *)
LEMMA CursorStep ==
  ASSUME IInv,
         \/ \E delta \in {-1, 1, -MaxRows, MaxRows} : MoveSelection(delta)
         \/ \E row \in 0..(MaxRows - 1), double \in BOOLEAN : Click(row, double)
  PROVE  IInv'
  <1>1. /\ hosts' = hosts /\ found' = found /\ kept' = kept
        /\ subnet' = subnet /\ scanPort' = scanPort /\ scan' = scan /\ scanCh' = scanCh
        /\ lan' = lan /\ save' = save /\ (done' => done)
    <2> DEFINE Still == UNCHANGED <<hosts, found, kept, subnet, scanPort, scan, scanCh, lan, save>>
                        /\ (done' => done)
    <2>1. ASSUME NEW delta \in {-1, 1, -MaxRows, MaxRows}, MoveSelection(delta) PROVE Still
      BY <2>1, Zenon DEF MoveSelection
    <2>2. ASSUME NEW row \in 0..(MaxRows - 1), NEW double \in BOOLEAN, Click(row, double) PROVE Still
      BY <2>2, Zenon DEF Click
    <2> HIDE DEF Still
    <2>3. Still BY <2>1, <2>2, Zenon
    <2> QED BY <2>3, Zenon DEF Still
  <1>2. sel \in Int /\ scroll \in Int /\ sel <= Top(hosts) /\ scroll <= Top(hosts)
    BY DEF IInv, TypeInv, WindowInList
  <1>3. lan' \in Subnets /\ save' \in [Saves -> SaveType] BY <1>1 DEF IInv, TypeInv
  <1>4. hosts \in Seq(Host) BY DEF IInv, TypeInv
  <1>5. /\ Len(hosts) \in Nat /\ Top(hosts) \in Nat
        /\ Len(hosts) = 0 => Top(hosts) = 0
        /\ Len(hosts) > 0 => Top(hosts) = Len(hosts) - 1
    BY <1>4, TopLaw
  <1>6. sel' \in Int /\ scroll' \in Int /\ sel' <= Top(hosts) /\ scroll' <= Top(hosts)
    <2>1. ASSUME NEW delta \in {-1, 1, -MaxRows, MaxRows}, MoveSelection(delta)
          PROVE  sel' \in Int /\ scroll' \in Int /\ sel' <= Top(hosts) /\ scroll' <= Top(hosts)
      <3>1. delta \in Int /\ MaxRows \in Nat /\ MaxRows # 0 BY BoundsAssumption
      <3>2. sel' \in Int /\ sel' <= Top(hosts) BY <1>2, <1>5, <2>1, <3>1 DEF MoveSelection
      <3>3. scroll' \in Int /\ scroll' <= sel' BY <1>2, <2>1, <3>1, <3>2 DEF MoveSelection
      <3> QED BY <1>5, <3>2, <3>3
    <2>2. ASSUME NEW row \in 0..(MaxRows - 1), NEW double \in BOOLEAN, Click(row, double)
          PROVE  sel' \in Int /\ scroll' \in Int /\ sel' <= Top(hosts) /\ scroll' <= Top(hosts)
      <3>1. sel' \in 0..(Len(hosts) - 1) /\ scroll' = scroll BY <2>2, Zenon DEF Click
      <3> QED BY <1>2, <1>5, <3>1
    <2> QED BY <2>1, <2>2
  <1> QED BY <1>1, <1>3, <1>6, UiStep

LEMMA ConnectStep ==
  ASSUME IInv, NEW h \in Typed, Connect(h)
  PROVE  IInv'
  <1>1. /\ found' = found /\ scroll' = scroll /\ subnet' = subnet /\ scanPort' = scanPort
        /\ scan' = scan /\ scanCh' = scanCh /\ lan' = lan /\ save' = save
        /\ sel' = IndexOf(hosts, h) /\ hosts' = Put(hosts, h, FALSE) /\ kept' = kept \cup {AddrRDP(h)}
    BY DEF Connect, AddHost
  <1>2. done' => done BY Zenon DEF Connect
  <1>3. TypeInv /\ hosts \in Seq(Host) BY DEF IInv, TypeInv
  <1>4. h \in Host
    <2>1. h[2] \in Ports BY DEF Ports
    <2> QED BY <2>1, TypedAssumption, AddrLaws
  <1>5. /\ hosts' \in Seq(Host) /\ Len(hosts) <= Len(hosts') /\ IndexOf(hosts, h) < Len(hosts')
        /\ \A i \in DOMAIN hosts' : hosts'[i] = h \/ \E j \in DOMAIN hosts : hosts'[i] = hosts[j]
    BY <1>1, <1>3, <1>4, PutLaws
  <1>6. IndexOf(hosts, h) \in Int BY <1>3, IndexLaws
  <1>7. TypeInv' BY <1>1, <1>3, <1>5, <1>6 DEF TypeInv
  <1>8. ScansInv' /\ PortInv' /\ HitsInv' BY <1>1 DEF IInv, ScansInv, PortInv, HitsInv
  <1>9. WindowInList'
    <2>1. /\ Top(hosts) \in Nat /\ Len(hosts) \in Nat
          /\ Len(hosts) = 0 => Top(hosts) = 0
          /\ Len(hosts) > 0 => Top(hosts) = Len(hosts) - 1
      BY <1>3, TopLaw
    <2>2. /\ Len(hosts') \in Nat
          /\ Len(hosts') > 0 => Top(hosts') = Len(hosts') - 1
      BY <1>5, TopLaw
    <2>3. scroll \in Int /\ scroll <= Top(hosts) BY <1>3 DEF IInv, TypeInv, WindowInList
    <2>4. IndexOf(hosts, h) <= Top(hosts') /\ scroll <= Top(hosts') /\ IndexOf(hosts, h) \in Nat
      <3>1. IndexOf(hosts, h) \in Nat BY <1>3, IndexLaws
      <3>2. IndexOf(hosts, h) < Len(hosts') /\ Len(hosts) <= Len(hosts') BY <1>5
      <3> QED BY <2>1, <2>2, <2>3, <3>1, <3>2
    <2> QED BY <1>1, <2>4 DEF WindowInList
  <1>10. PortRespected'
    <2> SUFFICES ASSUME subnet' # "", done', NEW i \in DOMAIN hosts'
                 PROVE  RowOk(hosts'[i], kept', scanPort')
      BY DEF PortRespected, RowOk
    <2>1. \A j \in DOMAIN hosts : RowOk(hosts[j], kept, scanPort)
      BY <1>1, <1>2 DEF IInv, PortRespected, RowOk
    <2>2. CASE hosts'[i] = h BY <1>1, <2>2 DEF RowOk
    <2>3. ASSUME NEW j \in DOMAIN hosts, hosts'[i] = hosts[j] PROVE RowOk(hosts'[i], kept', scanPort')
      BY <1>1, <2>1, <2>3 DEF RowOk
    <2> QED BY <1>5, <2>2, <2>3
  <1> QED BY <1>7, <1>8, <1>9, <1>10 DEF IInv

LEMMA SavedStep ==
  ASSUME IInv, NEW v \in Saves, Saved(v)
  PROVE  IInv'
  <1>1. /\ found' = found /\ kept' = kept /\ subnet' = "" /\ scan' = scan /\ scanCh' = scanCh
        /\ lan' = lan /\ save' = [save EXCEPT ![v] = NoSave] /\ ~done'
    BY DEF Saved
  <1>2. TypeInv BY DEF IInv
  <1>3. /\ scanPort' \in Ports \ {DefaultRDPPort} /\ hosts' \in Seq(Host)
        /\ sel' \in Int /\ scroll' \in Int /\ sel' <= Top(hosts') /\ scroll' <= Top(hosts')
    <2>1. CASE save[v].saved /\ save[v].port # scanPort
      <3>1. save[v] \in SaveType BY <1>2 DEF TypeInv
      <3>2. scanPort' = save[v].port /\ hosts' = <<>> /\ sel' = 0 /\ scroll' = 0 BY <2>1 DEF Saved
      <3>3. scanPort' \in Ports \ {DefaultRDPPort} BY <3>1, <3>2 DEF SaveType
      <3>4. hosts' \in Seq(Host) BY <3>2
      <3>5. Top(hosts') \in Nat BY <3>4, TopLaw
      <3> QED BY <3>2, <3>3, <3>4, <3>5
    <2>2. CASE ~(save[v].saved /\ save[v].port # scanPort)
      <3>1. UNCHANGED <<scanPort, hosts, sel, scroll>> BY <2>2, Zenon DEF Saved
      <3> QED BY <1>2, <3>1 DEF IInv, TypeInv, WindowInList
    <2> QED BY <2>1, <2>2
  <1>4. save' \in [Saves -> SaveType]
    <2>1. NoSave \in SaveType BY PortLaws DEF NoSave, SaveType
    <2> QED BY <1>1, <1>2, <2>1 DEF TypeInv
  <1>5. TypeInv' BY <1>1, <1>2, <1>3, <1>4, ExpandAssumption DEF TypeInv
  <1>6. ScansInv' /\ PortInv' /\ HitsInv' BY <1>1 DEF IInv, ScansInv, PortInv, HitsInv
  <1>7. WindowInList' BY <1>3 DEF WindowInList
  <1>8. PortRespected' BY <1>1 DEF PortRespected
  <1> QED BY <1>5, <1>6, <1>7, <1>8 DEF IInv
-----------------------------------------------------------------------------
(* What is known of a scan.                                                *)
LEMMA ScanFacts ==
  ASSUME IInv, NEW s \in Scans
  PROVE  /\ scan \in [Scans -> ScanType] /\ scan[s] \in ScanType /\ ScanOk(scan[s])
         /\ scanCh = s => HitsOk(scan[s], found)
         /\ scan[s].next \in Nat \ {0} /\ scan[s].ch \in Seq(Event) /\ scan[s].cidr \in Subnets
  <1>1. scan \in [Scans -> ScanType] /\ scan[s] \in ScanType /\ ScanOk(scan[s])
    BY DEF IInv, TypeInv, ScansInv
  <1>2. s # 0 BY ScansAssumption
  <1>3. scanCh = s => HitsOk(scan[s], found) BY <1>2 DEF IInv, HitsInv
  <1> QED BY <1>1, <1>3 DEF ScanType

LEMMA CheckStep ==
  ASSUME IInv, NEW s \in Scans, Check(s)
  PROVE  IInv'
  <1> DEFINE o == scan[s]
             l == IF o.cancelled \/ o.next > Len(Expand[o.cidr]) THEN "wait" ELSE "acquire"
             r == [o EXCEPT !.loop = l]
  <1>1. /\ scan \in [Scans -> ScanType] /\ o \in ScanType /\ ScanOk(o) /\ (scanCh = s => HitsOk(o, found))
        /\ o.next \in Nat \ {0} /\ o.cidr \in Subnets
    BY ScanFacts
  <1>2. o.loop = "check" /\ scan' = [scan EXCEPT ![s] = r] /\ UNCHANGED UI
    BY DEF Check
  <1>3. Len(Expand[o.cidr]) \in Nat /\ (l = "acquire" => o.next <= Len(Expand[o.cidr]))
    <2>1. Len(Expand[o.cidr]) \in Nat BY <1>1, ExpandLaw
    <2> QED BY <1>1, <2>1
  <1>4. l \in {"wait", "acquire"} OBVIOUS
  <1> HIDE DEF o, l
  <1>5. r \in ScanType BY <1>1, <1>4 DEF ScanType, Loops
  <1>6. /\ r.loop = l /\ r.next = o.next /\ r.cidr = o.cidr /\ r.busy = o.busy /\ r.ch = o.ch
        /\ r.port = o.port /\ r.hits = o.hits
    BY <1>1 DEF ScanType
  <1> HIDE DEF r
  <1>7. ScanOk(r) BY <1>1, <1>2, <1>3, <1>4, <1>6 DEF ScanOk
  <1>8. scanCh = s => HitsOk(r, found) BY <1>1, <1>2, <1>6 DEF HitsOk
  <1> QED BY <1>2, <1>5, <1>6, <1>7, <1>8, GoStep DEF o

LEMMA AcquireStep ==
  ASSUME IInv, NEW s \in Scans, Acquire(s)
  PROVE  IInv'
  <1> DEFINE o == scan[s]
             ip == Expand[o.cidr][o.next]
  <1>1. /\ scan \in [Scans -> ScanType] /\ o \in ScanType /\ ScanOk(o) /\ (scanCh = s => HitsOk(o, found))
        /\ o.next \in Nat \ {0} /\ o.cidr \in Subnets
    BY ScanFacts
  <1>2. o.loop = "acquire" /\ UNCHANGED UI BY DEF Acquire
  <1>3. CASE scan' = [scan EXCEPT ![s].loop = "check", ![s].next = @ + 1, ![s].busy = @ \cup {ip}]
    <2> DEFINE r == [o EXCEPT !.loop = "check", !.next = @ + 1, !.busy = @ \cup {ip}]
    <2>1. scan' = [scan EXCEPT ![s] = r] BY <1>1, <1>3
    <2>2. ip \in Addr
      <3>1. o.next <= Len(Expand[o.cidr]) BY <1>1, <1>2 DEF ScanOk
      <3>2. DOMAIN Expand[o.cidr] = 1..Len(Expand[o.cidr]) /\ Len(Expand[o.cidr]) \in Nat
        BY <1>1, ExpandLaw
      <3>3. o.next \in 1..Len(Expand[o.cidr]) BY <1>1, <3>1, <3>2
      <3> QED BY <1>1, <3>2, <3>3, AddrLaws
    <2>3. o.next + 1 \in Nat \ {0} BY <1>1
    <2> HIDE DEF ip, o
    <2>4. r \in ScanType BY <1>1, <2>2, <2>3 DEF ScanType, Loops
    <2>5. /\ r.loop = "check" /\ r.cidr = o.cidr /\ r.ch = o.ch /\ r.port = o.port /\ r.hits = o.hits
      BY <1>1 DEF ScanType
    <2> HIDE DEF r
    <2>6. ScanOk(r) BY <1>1, <1>2, <2>5 DEF ScanOk
    <2>7. scanCh = s => HitsOk(r, found) BY <1>1, <1>2, <2>5 DEF HitsOk
    <2> QED BY <1>2, <2>1, <2>4, <2>5, <2>6, <2>7, GoStep DEF o
  <1>4. CASE scan' = [scan EXCEPT ![s].loop = "wait"]
    <2> DEFINE r == [o EXCEPT !.loop = "wait"]
    <2>1. scan' = [scan EXCEPT ![s] = r] BY <1>1, <1>4
    <2> HIDE DEF o
    <2>2. r \in ScanType BY <1>1 DEF ScanType, Loops
    <2>3. /\ r.loop = "wait" /\ r.cidr = o.cidr /\ r.ch = o.ch /\ r.port = o.port /\ r.hits = o.hits
      BY <1>1 DEF ScanType
    <2> HIDE DEF r
    <2>4. ScanOk(r) BY <1>1, <1>2, <2>3 DEF ScanOk
    <2>5. scanCh = s => HitsOk(r, found) BY <1>1, <1>2, <2>3 DEF HitsOk
    <2> QED BY <1>2, <2>1, <2>2, <2>3, <2>4, <2>5, GoStep DEF o
  <1> QED BY <1>3, <1>4 DEF Acquire

(* Sending an event that is not the last keeps a scan in order.            *)
ChOk(ch, port) == \A i \in DOMAIN ch : /\ ch[i].type = "found" => ch[i].host[2] = port
                                       /\ ch[i].type # "complete"
LEMMA SendOk ==
  ASSUME NEW ch \in Seq(Event), NEW port, ChOk(ch, port), NEW e \in Event,
         e.type # "complete", e.type = "found" => e.host[2] = port
  PROVE  ChOk(Append(ch, e), port)
  <1> DEFINE q == Append(ch, e)
  <1>1. /\ Len(ch) \in Nat /\ DOMAIN ch = 1..Len(ch) /\ DOMAIN q = 1..(Len(ch) + 1)
        /\ q[Len(ch) + 1] = e /\ \A i \in 1..Len(ch) : q[i] = ch[i]
    BY SendLaws
  <1> HIDE DEF q
  <1>2. \A i \in DOMAIN q : i \in DOMAIN ch \/ i = Len(ch) + 1 BY <1>1
  <1>3. ASSUME NEW i \in DOMAIN q
        PROVE  (q[i].type = "found" => q[i].host[2] = port) /\ q[i].type # "complete"
    <2>1. CASE i \in DOMAIN ch BY <1>1, <2>1 DEF ChOk
    <2>2. CASE i = Len(ch) + 1 BY <1>1, <2>2
    <2> QED BY <1>2, <2>1, <2>2
  <1>4. ChOk(q, port) BY <1>3 DEF ChOk
  <1> QED BY <1>4 DEF q

LEMMA WorkStep ==
  ASSUME IInv, NEW s \in Scans, NEW ip \in scan[s].busy, Work(s, ip)
  PROVE  IInv'
  <1> DEFINE o == scan[s]
             h == <<ip, o.port>>
             ev == [type |-> "found", host |-> h]
  <1>1. /\ scan \in [Scans -> ScanType] /\ o \in ScanType /\ ScanOk(o) /\ (scanCh = s => HitsOk(o, found))
        /\ o.ch \in Seq(Event) /\ o.next \in Nat \ {0}
    BY ScanFacts
  <1>2. o.loop \notin {"none", "closed"} BY <1>1 DEF ScanOk
  <1>3. ip \in Addr /\ o.port \in Ports /\ o.busy \in SUBSET Addr /\ o.scanned \in Nat
    BY <1>1 DEF ScanType
  <1>4. h \in Host /\ h[2] = o.port BY <1>3, AddrLaws
  <1>5. ev \in Event /\ ev.type = "found" /\ ev.host = h BY <1>4, EventLaws
  <1>6. UNCHANGED UI BY Zenon DEF Work
  <1>7. PICK sent \in BOOLEAN :
          LET ch == IF sent THEN Append(o.ch, ev) ELSE o.ch
              n == o.scanned + 1
          IN  scan' = [scan EXCEPT
                ![s].busy = @ \ {ip}, ![s].scanned = n,
                ![s].ch = IF n % Every = 0 /\ Room(ch) THEN Append(ch, [type |-> "progress"]) ELSE ch,
                ![s].hits = IF sent /\ scanCh = s THEN @ \cup {AddrRDP(h)} ELSE @]
    BY DEF Work
  <1> DEFINE n == o.scanned + 1
             ch == IF sent THEN Append(o.ch, ev) ELSE o.ch
             q == IF n % Every = 0 /\ Room(ch) THEN Append(ch, [type |-> "progress"]) ELSE ch
             hits == IF sent /\ scanCh = s THEN o.hits \cup {AddrRDP(h)} ELSE o.hits
             r == [o EXCEPT !.busy = @ \ {ip}, !.scanned = n, !.ch = q, !.hits = hits]
  <1>8. scan' = [scan EXCEPT ![s] = r] BY <1>1, <1>7
  <1>9. n \in Nat BY <1>3
  <1> HIDE DEF o, h, ev, n
  <1>10. ChOk(o.ch, o.port) BY <1>1, <1>2 DEF ScanOk, ChOk
  <1>11. /\ ch \in Seq(Event) /\ ChOk(ch, o.port)
         /\ Announced(ch) = IF sent THEN Announced(o.ch) \cup {AddrRDP(h)} ELSE Announced(o.ch)
    <2>1. CASE sent
      <3>1. ch = Append(o.ch, ev) BY <2>1
      <3> HIDE DEF ch
      <3>2. ch \in Seq(Event) /\ Announced(ch) = Announced(o.ch) \cup {AddrRDP(h)}
        BY <1>1, <1>5, <3>1, SendLaws
      <3>3. ChOk(ch, o.port) BY <1>1, <1>4, <1>5, <1>10, <3>1, SendOk
      <3> QED BY <2>1, <3>2, <3>3
    <2>2. CASE ~sent BY <1>1, <1>10, <2>2
    <2> QED BY <2>1, <2>2
  <1> HIDE DEF ch
  <1>12. q \in Seq(Event) /\ ChOk(q, o.port) /\ Announced(q) = Announced(ch)
    <2>1. CASE n % Every = 0 /\ Room(ch)
      <3> DEFINE p == [type |-> "progress"]
      <3>1. q = Append(ch, p) BY <2>1
      <3>2. p \in Event /\ p.type = "progress" BY EventLaws
      <3> HIDE DEF q, p
      <3>3. q \in Seq(Event) /\ Announced(q) = Announced(ch)
        <4>1. Announced(q) = Announced(ch) \cup {} BY <1>11, <3>1, <3>2, SendLaws
        <4> QED BY <1>11, <3>1, <3>2, <4>1, SendLaws
      <3>4. ChOk(q, o.port) BY <1>11, <3>1, <3>2, SendOk
      <3> QED BY <3>3, <3>4
    <2>2. CASE ~(n % Every = 0 /\ Room(ch)) BY <1>11, <2>2
    <2> QED BY <2>1, <2>2
  <1> HIDE DEF q
  <1>13. hits \in SUBSET {AddrRDP(g) : g \in Host}
    <2>1. o.hits \in SUBSET {AddrRDP(g) : g \in Host} BY <1>1 DEF ScanType
    <2>2. AddrRDP(h) \in {AddrRDP(g) : g \in Host} BY <1>4
    <2> QED BY <2>1, <2>2, Zenon
  <1>14. scanCh = s => hits = found \cup Announced(q)
    <2>1. scanCh = s => o.hits = found \cup Announced(o.ch) BY <1>1, <1>2 DEF HitsOk
    <2> QED BY <1>11, <1>12, <2>1
  <1> HIDE DEF hits
  <1>15. r \in ScanType
    <2>1. o.busy \ {ip} \in SUBSET Addr BY <1>3
    <2> QED BY <1>1, <1>9, <1>12, <1>13, <2>1 DEF ScanType
  <1>16. /\ r.loop = o.loop /\ r.cidr = o.cidr /\ r.ch = q /\ r.port = o.port /\ r.hits = hits
         /\ r.next = o.next
    BY <1>1 DEF ScanType
  <1> HIDE DEF r
  <1>17. ScanOk(r) BY <1>1, <1>2, <1>12, <1>16 DEF ScanOk, ChOk
  <1>18. scanCh = s => HitsOk(r, found) BY <1>14, <1>16 DEF HitsOk
  <1> QED BY <1>6, <1>8, <1>15, <1>16, <1>17, <1>18, GoStep DEF o

LEMMA FinishStep ==
  ASSUME IInv, NEW s \in Scans, Finish(s)
  PROVE  IInv'
  <1> DEFINE o == scan[s]
             ev == [type |-> "complete"]
             q == Append(o.ch, ev)
             r == [o EXCEPT !.loop = "closed", !.ch = Append(@, ev)]
  <1>1. /\ scan \in [Scans -> ScanType] /\ o \in ScanType /\ ScanOk(o) /\ (scanCh = s => HitsOk(o, found))
        /\ o.ch \in Seq(Event) /\ o.next \in Nat \ {0}
    BY ScanFacts
  <1>2. o.loop = "wait" /\ o.busy = {} /\ UNCHANGED UI BY DEF Finish
  <1>3. CASE scanCh # s
    <2>1. scan' = [scan EXCEPT ![s] = NoScan] BY <1>3, Zenon DEF Finish
    <2> QED BY <1>2, <1>3, <2>1, NoScanOk, GoStep
  <1>4. CASE scanCh = s
    <2>1. scan' = [scan EXCEPT ![s] = r]
      <3>1. scan' = [scan EXCEPT ![s] = IF scanCh = s THEN r ELSE NoScan] BY Zenon DEF Finish
      <3> HIDE DEF r
      <3> QED BY <1>4, <3>1, Zenon
    <2>2. ev \in Event /\ ev.type = "complete" BY EventLaws
    <2> HIDE DEF o, ev
    <2>3. /\ q \in Seq(Event) /\ Len(q) = Len(o.ch) + 1 /\ Len(o.ch) \in Nat
          /\ DOMAIN o.ch = 1..Len(o.ch) /\ DOMAIN q = 1..(Len(o.ch) + 1)
          /\ q[Len(o.ch) + 1] = ev /\ \A i \in 1..Len(o.ch) : q[i] = o.ch[i]
      BY <1>1, <2>2, SendLaws
    <2>4. Announced(q) = Announced(o.ch)
      <3>1. Announced(q) = Announced(o.ch) \cup {} BY <1>1, <2>2, SendLaws
      <3> QED BY <3>1
    <2>5. r = [o EXCEPT !.loop = "closed", !.ch = q] BY <1>1
    <2> HIDE DEF q, r
    <2>6. r \in ScanType BY <1>1, <2>3, <2>5 DEF ScanType, Loops
    <2>7. /\ r.loop = "closed" /\ r.cidr = o.cidr /\ r.ch = q /\ r.port = o.port /\ r.hits = o.hits
          /\ r.busy = {}
      BY <1>1, <1>2, <2>5 DEF ScanType
    <2>8. ChOk(o.ch, o.port) BY <1>1, <1>2 DEF ScanOk, ChOk
    <2>9. ASSUME NEW i \in DOMAIN q
          PROVE  /\ q[i].type = "found" => q[i].host[2] = o.port
                 /\ q[i].type = "complete" => i = Len(q)
      <3>1. i \in 1..Len(o.ch) \/ i = Len(o.ch) + 1 BY <2>3
      <3>2. CASE i \in 1..Len(o.ch) BY <2>3, <2>8, <3>2 DEF ChOk
      <3>3. CASE i = Len(o.ch) + 1 BY <2>2, <2>3, <3>3
      <3> QED BY <3>1, <3>2, <3>3
    <2>10. ScanOk(r) BY <2>7, <2>9 DEF ScanOk
    <2>11. HitsOk(r, found)
      <3>1. o.hits = found \cup Announced(o.ch) BY <1>1, <1>2, <1>4 DEF HitsOk
      <3> QED BY <2>4, <2>7, <3>1 DEF HitsOk
    <2> QED BY <1>2, <2>1, <2>6, <2>7, <2>10, <2>11, GoStep DEF o
  <1> QED BY <1>3, <1>4
-----------------------------------------------------------------------------
LEMMA ClampLaws ==
  ASSUME NEW n \in Int, NEW hi \in Nat
  PROVE  Clamp(n, 0, hi) \in Nat /\ Clamp(n, 0, hi) <= hi /\ (n \in 0..hi => Clamp(n, 0, hi) = n)
  BY DEF Clamp

(* The end of a scan: what stays, and where the cursor and the window go.  *)
LEMMA DropLaws ==
  ASSUME IInv, DropUnfound
  PROVE  /\ found' = {} /\ kept' = kept /\ hosts' \in Seq(Host)
         /\ sel' \in Int /\ sel' <= Top(hosts') /\ scroll' \in Int /\ scroll' <= Top(hosts')
         /\ Endpoints(hosts') = Endpoints(hosts) \cap (found \cup kept)
         /\ \A k \in DOMAIN hosts' : AddrRDP(hosts'[k]) \in found \cup kept
         /\ hosts # <<>> /\ AddrRDP(SelectedHost) \in found \cup kept
              => AddrRDP(SelectedHost') = AddrRDP(SelectedHost)
  <1> DEFINE stay == found \cup kept
             rest == Staying(hosts, stay)
             at == SelectedHost
             row == IF hosts # <<>> /\ AddrRDP(at) \in stay THEN IndexOf(rest, at) ELSE sel
  <1>1. hosts \in Seq(Host) /\ sel \in Int /\ scroll \in Int BY DEF IInv, TypeInv
  <1>2. /\ hosts' = rest /\ found' = {} /\ kept' = kept
        /\ sel' = Clamp(row, 0, Top(rest)) /\ scroll' = Clamp(scroll, 0, sel')
    BY DEF DropUnfound
  <1>3. /\ rest \in Seq(Host) /\ Endpoints(rest) = Endpoints(hosts) \cap stay
        /\ \A k \in DOMAIN rest : \E i \in DOMAIN hosts : rest[k] = hosts[i] /\ AddrRDP(hosts[i]) \in stay
    BY <1>1, StayingLaws
  <1> HIDE DEF rest, stay, at
  <1>4. \A k \in DOMAIN rest : AddrRDP(rest[k]) \in stay BY <1>3
  <1>5. IndexOf(rest, at) \in Int BY <1>3, IndexLaws
  <1>6. row \in Int BY <1>1, <1>5
  <1>7. /\ Top(rest) \in Nat /\ Len(rest) \in Nat
        /\ Len(rest) > 0 => Top(rest) = Len(rest) - 1
    BY <1>3, TopLaw
  <1>8. ASSUME hosts # <<>>, AddrRDP(at) \in stay
        PROVE  AddrRDP(SelectedHost') = AddrRDP(at)
    <2>1. row = IndexOf(rest, at) BY <1>8
    <2> HIDE DEF row
    <2>2. AddrRDP(at) \in Endpoints(hosts)
      <3>1. Len(hosts) \in Nat /\ Len(hosts) # 0 /\ DOMAIN hosts = 1..Len(hosts)
        BY <1>1, <1>8, LenProperties, EmptySeq
      <3>2. Top(hosts) = Len(hosts) - 1 /\ Top(hosts) \in Nat BY <1>1, <3>1, TopLaw
      <3> DEFINE c == Clamp(sel, 0, Top(hosts))
      <3>3. c \in Nat /\ c <= Top(hosts) BY <1>1, <3>2, ClampLaws
      <3>4. at = hosts[c + 1] BY DEF at, SelectedHost
      <3> HIDE DEF c
      <3>5. c + 1 \in DOMAIN hosts BY <3>1, <3>2, <3>3
      <3> QED BY <3>4, <3>5 DEF Endpoints
    <2>3. AddrRDP(at) \in Endpoints(rest) BY <1>3, <1>8, <2>2
    <2>4. /\ DOMAIN rest = 1..Len(rest) /\ row \in 0..Len(rest) /\ row + 1 \in DOMAIN rest
          /\ AddrRDP(rest[row + 1]) = AddrRDP(at)
      BY <1>3, <2>1, <2>3, IndexLaws
    <2>5. row \in 0..Top(rest) BY <1>7, <2>4
    <2>6. sel' = row BY <1>2, <1>7, <2>5, <1>6, ClampLaws DEF row
    <2>7. Clamp(sel', 0, Top(hosts')) = row BY <1>2, <1>6, <1>7, <2>5, <2>6, ClampLaws DEF row
    <2>8. SelectedHost' = rest[row + 1] BY <1>2, <2>7 DEF SelectedHost
    <2> QED BY <2>4, <2>8
  <1>9. sel' \in Nat /\ sel' <= Top(rest) BY <1>2, <1>6, <1>7, ClampLaws
  <1>10. scroll' \in Int /\ scroll' <= Top(rest)
    <2>1. scroll' \in Nat /\ scroll' <= sel' BY <1>1, <1>2, <1>9, ClampLaws
    <2> QED BY <1>7, <1>9, <2>1
  <1> HIDE DEF row
  <1> QED BY <1>2, <1>3, <1>4, <1>8, <1>9, <1>10 DEF stay, at

(* A scan, one event of which is read.                                     *)
Fresh(ev) == IF ev.type = "found" THEN {AddrRDP(ev.host)} ELSE {}
LEMMA ReadRecord ==
  ASSUME NEW o \in ScanType, ScanOk(o), NEW fs, HitsOk(o, fs), o.ch # <<>>, NEW gs,
         gs = fs \cup Fresh(Head(o.ch)) \/ Head(o.ch).type = "complete",
         NEW r, r = [o EXCEPT !.ch = Tail(o.ch)]
  PROVE  /\ r \in ScanType /\ ScanOk(r) /\ HitsOk(r, gs) /\ r.port = o.port
         /\ Head(o.ch) \in Event
         /\ Head(o.ch).type = "found" => Head(o.ch).host[2] = o.port
         /\ Head(o.ch).type = "complete" => o.hits = fs
  <1> DEFINE c == o.ch
             n == Len(c)
             q == Tail(c)
             ev == Head(c)
             new == Fresh(ev)
  <1>1. c \in Seq(Event) /\ c # <<>> BY DEF ScanType
  <1>2. /\ q \in Seq(Event) /\ Len(q) = n - 1 /\ n \in Nat /\ n # 0 /\ DOMAIN c = 1..n
        /\ DOMAIN q = 1..(n - 1) /\ ev = c[1] /\ ev \in Event
        /\ (\A i \in 1..(n - 1) : q[i] = c[i + 1]) /\ Announced(c) = Announced(q) \cup new
    BY <1>1, ReadLaws DEF Fresh
  <1>3. r \in ScanType BY <1>2 DEF ScanType
  <1>4. /\ r.loop = o.loop /\ r.next = o.next /\ r.cidr = o.cidr /\ r.busy = o.busy
        /\ r.ch = q /\ r.port = o.port /\ r.hits = o.hits
    BY DEF ScanType
  <1>5. /\ o.loop = "acquire" => o.next <= Len(Expand[o.cidr])
        /\ o.loop \in {"none", "closed"} => o.busy = {}
        /\ \A i \in DOMAIN c : /\ c[i].type = "found" => c[i].host[2] = o.port
                               /\ c[i].type = "complete" => i = n /\ o.loop = "closed"
    BY DEF ScanOk
  <1>6. o.loop # "closed" \/ n > 0 => o.hits = fs \cup Announced(c) BY DEF HitsOk
  <1>7. gs = fs \cup new \/ ev.type = "complete" OBVIOUS
  <1> HIDE DEF c, n, q, ev, new
  <1>8. o.hits = (fs \cup Announced(q)) \cup new
    <2>1. n > 0 BY <1>2
    <2> QED BY <1>2, <1>6, <2>1
  <1>9. 1 \in DOMAIN c /\ (1 = n => Len(q) = 0 /\ DOMAIN q = {})
    <2>1. 1 \in DOMAIN c BY <1>2
    <2>2. ASSUME 1 = n PROVE Len(q) = 0 /\ DOMAIN q = {} BY <1>2, <2>2
    <2> QED BY <2>1, <2>2
  <1>10. ASSUME NEW i \in DOMAIN q
         PROVE  /\ q[i].type = "found" => q[i].host[2] = o.port
                /\ q[i].type = "complete" => i = Len(q) /\ o.loop = "closed"
    <2>1. i \in Nat /\ i + 1 \in DOMAIN c /\ q[i] = c[i + 1] BY <1>2
    <2>2. i + 1 = n => i = Len(q) BY <1>2, <2>1
    <2> QED BY <1>5, <2>1, <2>2
  <1>11. ScanOk(r) BY <1>4, <1>5, <1>10 DEF ScanOk
  <1>12. ev.type = "complete" => 1 = n /\ o.loop = "closed" BY <1>2, <1>5, <1>9
  <1>13. HitsOk(r, gs)
    <2>1. CASE gs = fs \cup new BY <1>4, <1>8, <2>1 DEF HitsOk
    <2>2. CASE ev.type = "complete"
      <3>1. r.loop = "closed" /\ Len(r.ch) = 0 BY <1>4, <1>9, <1>12, <2>2
      <3>2. ~(0 > 0) OBVIOUS
      <3> QED BY <3>1, <3>2, Zenon DEF HitsOk
    <2> QED BY <1>7, <2>1, <2>2
  <1>14. ASSUME ev.type = "complete" PROVE o.hits = fs
    <2>1. DOMAIN q = {} BY <1>9, <1>12, <1>14
    <2>2. Announced(q) = {} BY <2>1 DEF Announced
    <2>3. new = {} BY <1>14 DEF new, Fresh
    <2> QED BY <1>8, <2>2, <2>3
  <1>15. ev.type = "found" => ev.host[2] = o.port BY <1>2, <1>5, <1>9
  <1> QED BY <1>2, <1>3, <1>4, <1>11, <1>13, <1>14, <1>15 DEF ev, c

(* A host that has the port, and one whose endpoint has it.                *)
LEMMA RowLaws ==
  ASSUME NEW h \in Host, NEW ks, NEW p
  PROVE  /\ AddrRDP(h) \in ks => RowOk(h, ks, p)
         /\ h[2] = p => RowOk(h, ks, p) /\ AddrRDP(h) = AddrRDP(<<AddrRDP(h)[1], p>>)
         /\ AddrRDP(h) = AddrRDP(<<AddrRDP(h)[1], p>>) => RowOk(h, ks, p)
  BY DEF RowOk, AddrRDP

(* A host found: it joins the list, or takes the row it has.               *)
LEMMA FoundLaws ==
  ASSUME IInv, NEW h \in Host, HostFound(h), scanPort' = scanPort, subnet' = subnet,
         subnet # "" => h[2] = scanPort
  PROVE  /\ hosts' \in Seq(Host) /\ sel' \in Int /\ scroll' \in Int
         /\ found' = found \cup {AddrRDP(h)} /\ (done' => done)
         /\ WindowInList' /\ PortRespected'
         /\ subnet # "" => \A e \in found' : e = AddrRDP(<<e[1], scanPort>>)
  <1>1. /\ hosts' = Put(hosts, h, TRUE) /\ found' = found \cup {AddrRDP(h)} /\ kept' = kept
        /\ sel' = sel /\ scroll' = scroll
    BY DEF HostFound
  <1>2. done' => done BY Zenon DEF HostFound
  <1>3. hosts \in Seq(Host) /\ sel \in Int /\ scroll \in Int BY DEF IInv, TypeInv
  <1>4. /\ hosts' \in Seq(Host) /\ Len(hosts) <= Len(hosts')
        /\ \A i \in DOMAIN hosts' : hosts'[i] = h \/ \E j \in DOMAIN hosts : hosts'[i] = hosts[j]
    <2>1. TRUE \in BOOLEAN OBVIOUS
    <2> QED BY <1>1, <1>3, <2>1, PutLaws
  <1>5. WindowInList'
    <2>1. scroll <= Top(hosts) /\ sel <= Top(hosts) BY DEF IInv, WindowInList
    <2>2. scroll <= Top(hosts') /\ sel <= Top(hosts') BY <1>3, <1>4, <2>1, TopGrows
    <2> QED BY <1>1, <2>2 DEF WindowInList
  <1>6. PortRespected'
    <2> SUFFICES ASSUME subnet # "", done, NEW i \in DOMAIN hosts'
                 PROVE  RowOk(hosts'[i], kept, scanPort)
      BY <1>1, <1>2 DEF PortRespected, RowOk
    <2>1. \A j \in DOMAIN hosts : RowOk(hosts[j], kept, scanPort)
      BY DEF IInv, PortRespected, RowOk
    <2>2. CASE hosts'[i] = h
      <3>1. RowOk(h, kept, scanPort) BY RowLaws
      <3> QED BY <2>2, <3>1
    <2>3. ASSUME NEW j \in DOMAIN hosts, hosts'[i] = hosts[j] PROVE RowOk(hosts'[i], kept, scanPort)
      BY <2>1, <2>3
    <2> QED BY <1>4, <2>2, <2>3
  <1>7. ASSUME subnet # "" PROVE \A e \in found' : e = AddrRDP(<<e[1], scanPort>>)
    <2>1. \A e \in found : e = AddrRDP(<<e[1], scanPort>>) BY <1>7 DEF IInv, PortInv
    <2>2. AddrRDP(h) = AddrRDP(<<AddrRDP(h)[1], scanPort>>) BY <1>7, RowLaws
    <2> QED BY <1>1, <2>1, <2>2
  <1> QED BY <1>1, <1>2, <1>3, <1>4, <1>5, <1>6, <1>7

(* The scan's part of the invariant when an event is read.                 *)
LEMMA ReadStep ==
  ASSUME IInv, NEW s \in Scans, scanCh = s, NEW r \in ScanType, ScanOk(r), HitsOk(r, found'),
         r.port = scan[s].port, scan' = [scan EXCEPT ![s] = r],
         subnet' = subnet, scanPort' = scanPort, save' = save, scanCh' = scanCh, lan' = lan,
         hosts' \in Seq(Host), sel' \in Int, scroll' \in Int,
         subnet # "" => \A e \in found' : e = AddrRDP(<<e[1], scanPort>>)
  PROVE  TypeInv' /\ ScansInv' /\ PortInv' /\ HitsInv'
  <1>1. TypeInv /\ s # 0 BY ScansAssumption DEF IInv
  <1>2. scan'[s] = r /\ (\A t \in Scans : t # s => scan'[t] = scan[t]) /\ scan' \in [Scans -> ScanType]
    BY <1>1 DEF TypeInv
  <1>3. TypeInv' BY <1>1, <1>2 DEF TypeInv
  <1>4. ScansInv' BY <1>2 DEF IInv, ScansInv
  <1>5. PortInv'
    <2>1. subnet # "" => r.port = scanPort BY <1>1 DEF IInv, PortInv
    <2> QED BY <1>2, <2>1 DEF PortInv
  <1>6. HitsInv' BY <1>2 DEF HitsInv
  <1> QED BY <1>3, <1>4, <1>5, <1>6

(* An event read, and what is so of a scan that ends.                      *)
LEMMA ReadEventStep ==
  ASSUME IInv, ReadEvent
  PROVE  /\ IInv'
         /\ (done' => done) \/ (DropUnfound /\ scanCh \in Scans /\ scan[scanCh].hits = found)
  <1> DEFINE s == scanCh
             o == scan[s]
             ev == Head(o.ch)
             r == [o EXCEPT !.ch = Tail(o.ch)]
  <1>1. /\ s # 0 /\ o.ch # <<>> /\ scan' = [scan EXCEPT ![s] = r]
        /\ subnet' = subnet /\ scanPort' = scanPort /\ save' = save /\ scanCh' = scanCh /\ lan' = lan
    BY DEF ReadEvent
  <1>2. s \in Scans BY <1>1 DEF IInv, TypeInv
  <1>3. o \in ScanType /\ ScanOk(o) /\ HitsOk(o, found) BY <1>2, ScanFacts
  <1>4. subnet # "" => o.port = scanPort BY <1>1 DEF IInv, PortInv
  <1>5. \/ ev.type = "found" /\ HostFound(ev.host)
        \/ ev.type = "complete" /\ ScanComplete
        \/ ev.type \notin {"found", "complete"} /\ UNCHANGED <<list, done>>
    BY Zenon DEF ReadEvent
  <1>6. r = [o EXCEPT !.ch = Tail(o.ch)] OBVIOUS
  <1> HIDE DEF s, o, ev, r
  <1>7. /\ ev \in Event /\ r \in ScanType /\ ScanOk(r) /\ r.port = o.port
        /\ ev.type = "found" => ev.host[2] = o.port
        /\ ev.type = "complete" => o.hits = found
    <2>1. Head(o.ch) = ev BY DEF ev
    <2>2. \E gs : gs = found \cup Fresh(ev) OBVIOUS
    <2> QED BY <1>1, <1>3, <1>6, <2>1, <2>2, ReadRecord
  <1>8. found' = found \cup Fresh(ev) \/ ev.type = "complete" => HitsOk(r, found')
    BY <1>1, <1>3, <1>6, ReadRecord DEF ev
  <1>9. CASE ev.type = "found" /\ HostFound(ev.host)
    <2>1. ev.host \in Host BY <1>7, <1>9, EventLaws
    <2>2. subnet # "" => ev.host[2] = scanPort BY <1>4, <1>7, <1>9
    <2>3. /\ hosts' \in Seq(Host) /\ sel' \in Int /\ scroll' \in Int
          /\ found' = found \cup {AddrRDP(ev.host)} /\ (done' => done)
          /\ WindowInList' /\ PortRespected'
          /\ subnet # "" => \A e \in found' : e = AddrRDP(<<e[1], scanPort>>)
      BY <1>1, <1>9, <2>1, <2>2, FoundLaws
    <2>4. HitsOk(r, found') BY <1>8, <1>9, <2>3 DEF Fresh
    <2>5. TypeInv' /\ ScansInv' /\ PortInv' /\ HitsInv'
      BY <1>1, <1>2, <1>7, <2>3, <2>4, ReadStep DEF s, o
    <2> QED BY <2>3, <2>5 DEF IInv
  <1>10. CASE ev.type = "complete" /\ ScanComplete
    <2>1. DropUnfound BY <1>10 DEF ScanComplete
    <2>2. /\ found' = {} /\ kept' = kept /\ hosts' \in Seq(Host)
          /\ sel' \in Int /\ sel' <= Top(hosts') /\ scroll' \in Int /\ scroll' <= Top(hosts')
          /\ \A k \in DOMAIN hosts' : AddrRDP(hosts'[k]) \in found \cup kept
      BY <2>1, DropLaws
    <2>3. HitsOk(r, found') BY <1>8, <1>10
    <2>4. TypeInv' /\ ScansInv' /\ PortInv' /\ HitsInv'
      BY <1>1, <1>2, <1>7, <2>2, <2>3, ReadStep DEF s, o
    <2>5. WindowInList' BY <2>2 DEF WindowInList
    <2>6. PortRespected'
      <3> SUFFICES ASSUME subnet # "", NEW k \in DOMAIN hosts' PROVE RowOk(hosts'[k], kept, scanPort)
        BY <1>1, <2>2 DEF PortRespected, RowOk
      <3>1. hosts'[k] \in Host BY <2>2, ElementOfSeq, LenProperties
      <3>2. CASE AddrRDP(hosts'[k]) \in kept BY <3>1, <3>2, RowLaws
      <3>3. CASE AddrRDP(hosts'[k]) \in found
        <4>1. \A e \in found : e = AddrRDP(<<e[1], scanPort>>) BY DEF IInv, PortInv
        <4> QED BY <3>1, <3>3, <4>1, RowLaws
      <3> QED BY <2>2, <3>2, <3>3
    <2>7. scan[scanCh].hits = found BY <1>7, <1>10 DEF o, s
    <2> QED BY <1>2, <2>1, <2>4, <2>5, <2>6, <2>7 DEF IInv, s
  <1>11. CASE ev.type \notin {"found", "complete"} /\ UNCHANGED <<list, done>>
    <2>1. hosts' = hosts /\ found' = found /\ kept' = kept /\ sel' = sel /\ scroll' = scroll
      BY <1>11, Zenon DEF list
    <2>2. done' => done BY <1>11, Zenon
    <2>3. hosts' \in Seq(Host) /\ sel' \in Int /\ scroll' \in Int BY <2>1 DEF IInv, TypeInv
    <2>4. found' = found \cup Fresh(ev) BY <1>11, <2>1 DEF Fresh
    <2>5. HitsOk(r, found') BY <1>8, <2>4
    <2>6. subnet # "" => \A e \in found' : e = AddrRDP(<<e[1], scanPort>>)
      BY <2>1 DEF IInv, PortInv
    <2>7. TypeInv' /\ ScansInv' /\ PortInv' /\ HitsInv'
      BY <1>1, <1>2, <1>7, <2>3, <2>5, <2>6, ReadStep DEF s, o
    <2>8. WindowInList' BY <2>1 DEF IInv, WindowInList
    <2>9. PortRespected' BY <1>1, <2>1, <2>2 DEF IInv, PortRespected
    <2> QED BY <2>2, <2>7, <2>8, <2>9 DEF IInv
  <1> QED BY <1>5, <1>9, <1>10, <1>11, Zenon

LEMMA ReadClosedStep ==
  ASSUME IInv, ReadClosed
  PROVE  IInv'
  <1>1. /\ scanCh # 0 /\ scan' = [scan EXCEPT ![scanCh] = NoScan] /\ scanCh' = 0
        /\ UNCHANGED <<list, subnet, scanPort, save, lan>> /\ (done' => done)
    BY Zenon DEF ReadClosed
  <1>2. /\ hosts' = hosts /\ found' = found /\ kept' = kept /\ sel' = sel /\ scroll' = scroll
        /\ subnet' = subnet /\ scanPort' = scanPort /\ save' = save /\ lan' = lan
    BY <1>1, Zenon DEF list
  <1>3. TypeInv /\ scanCh \in Scans BY <1>1 DEF IInv, TypeInv
  <1>4. scan' \in [Scans -> ScanType] /\ ScansInv' BY <1>1, <1>3, NoScanOk DEF IInv, TypeInv, ScansInv
  <1>5. TypeInv' BY <1>1, <1>2, <1>3, <1>4 DEF TypeInv
  <1>6. PortInv' /\ HitsInv' BY <1>1, <1>2 DEF IInv, PortInv, HitsInv
  <1>7. WindowInList' BY <1>2 DEF IInv, WindowInList
  <1>8. PortRespected' BY <1>1, <1>2 DEF IInv, PortRespected
  <1> QED BY <1>4, <1>5, <1>6, <1>7, <1>8 DEF IInv

(* Every step keeps the invariant, and only the end of the scan that is    *)
(* read completes the list.                                                *)
Completes == DropUnfound /\ scanCh \in Scans /\ scan[scanCh].hits = found
LEMMA NextStep ==
  ASSUME IInv, [Next]_vars
  PROVE  IInv' /\ ((done' => done) \/ Completes)
  <1> DEFINE Goal == IInv' /\ ((done' => done) \/ Completes)
  <1>1. ASSUME ReadEvent PROVE Goal BY <1>1, ReadEventStep, Zenon DEF Completes
  <1>2. ASSUME ReadClosed PROVE Goal
    <2>1. done' => done BY <1>2, Zenon DEF ReadClosed
    <2> QED BY <1>2, <2>1, ReadClosedStep, Zenon
  <1>3. ASSUME NEW s \in Scans, NetTicker(s) \/ F5(s) PROVE Goal
    <2>1. /\ Rescan /\ subnet' = lan /\ Start(s, lan, scanPort)
          /\ scanPort' = scanPort /\ lan' = lan /\ save' = save
      <3>1. CASE NetTicker(s) BY <3>1, Zenon DEF NetTicker
      <3>2. CASE F5(s) BY <3>2, Zenon DEF F5
      <3> QED BY <1>3, <3>1, <3>2, Zenon
    <2>2. ~done' BY <2>1 DEF Rescan
    <2> QED BY <2>1, <2>2, StartStep, Zenon
  <1>4. ASSUME NEW s \in Scans, Check(s) \/ Acquire(s) \/ Finish(s) PROVE Goal
    <2>1. UNCHANGED UI
      <3>1. CASE Check(s) BY <3>1, Zenon DEF Check
      <3>2. CASE Acquire(s) BY <3>2, Zenon DEF Acquire
      <3>3. CASE Finish(s) BY <3>3, Zenon DEF Finish
      <3> QED BY <1>4, <3>1, <3>2, <3>3, Zenon
    <2>2. done' => done BY <2>1, Zenon DEF UI
    <2>3. IInv' BY <1>4, CheckStep, AcquireStep, FinishStep, Zenon
    <2> QED BY <2>2, <2>3, Zenon
  <1>5. ASSUME NEW s \in Scans, NEW ip \in scan[s].busy, Work(s, ip) PROVE Goal
    <2>1. UNCHANGED UI BY <1>5, Zenon DEF Work
    <2>2. done' => done BY <2>1, Zenon DEF UI
    <2>3. IInv' BY <1>5, WorkStep, Zenon
    <2> QED BY <2>2, <2>3, Zenon
  <1>6. ASSUME NEW v \in Saves, Saved(v) PROVE Goal
    <2>1. ~done' BY <1>6 DEF Saved
    <2> QED BY <1>6, <2>1, SavedStep, Zenon
  <1>7. ASSUME NEW h \in Typed, Connect(h) PROVE Goal
    <2>1. done' => done BY <1>7, Zenon DEF Connect
    <2> QED BY <1>7, <2>1, ConnectStep, Zenon
  <1>8. ASSUME NEW delta \in {-1, 1, -MaxRows, MaxRows}, MoveSelection(delta) PROVE Goal
    <2>1. done' => done BY <1>8, Zenon DEF MoveSelection
    <2> QED BY <1>8, <2>1, CursorStep, Zenon
  <1>9. ASSUME NEW row \in 0..(MaxRows - 1), NEW double \in BOOLEAN, Click(row, double) PROVE Goal
    <2>1. done' => done BY <1>9, Zenon DEF Click
    <2> QED BY <1>9, <2>1, CursorStep, Zenon
  <1>10. ASSUME Leave PROVE Goal
    <2>1. done' => done BY <1>10, Zenon DEF Leave
    <2> QED BY <1>10, <2>1, QuietStep, Zenon
  <1>11. ASSUME OpenNetwork PROVE Goal
    <2>1. done' => done BY <1>11, Zenon DEF OpenNetwork
    <2> QED BY <1>11, <2>1, QuietStep, Zenon
  <1>12. ASSUME NEW tail \in BOOLEAN, Home(tail) PROVE Goal
    <2>1. done' => done BY <1>12, Zenon DEF Home
    <2> QED BY <1>12, <2>1, QuietStep, Zenon
  <1>13. ASSUME NEW v \in Saves, NEW f \in Fields, SaveNetwork(v, f) PROVE Goal
    <2>1. done' => done BY <1>13, Zenon DEF SaveNetwork
    <2> QED BY <1>13, <2>1, QuietStep, Zenon
  <1>14. ASSUME NEW v \in Saves, NEW saved \in BOOLEAN, NEW c \in Subnets, Applied(v, saved, c)
         PROVE  Goal
    <2>1. done' => done BY <1>14, Zenon DEF Applied
    <2> QED BY <1>14, <2>1, QuietStep, Zenon
  <1>15. ASSUME NEW c \in Subnets, LanChanges(c) PROVE Goal
    <2>1. done' => done BY <1>15, Zenon DEF LanChanges
    <2> QED BY <1>15, <2>1, QuietStep, Zenon
  <1>16. ASSUME UNCHANGED vars PROVE Goal
    <2>1. /\ hosts' = hosts /\ found' = found /\ kept' = kept /\ sel' = sel /\ scroll' = scroll
          /\ subnet' = subnet /\ scanPort' = scanPort /\ scan' = scan /\ scanCh' = scanCh
          /\ lan' = lan /\ save' = save
      BY <1>16, Zenon DEF vars, list
    <2>2. done' => done BY <1>16, Zenon DEF vars
    <2>3. /\ sel \in Int /\ scroll \in Int /\ sel <= Top(hosts) /\ scroll <= Top(hosts)
          /\ lan \in Subnets /\ save \in [Saves -> SaveType]
      BY DEF IInv, TypeInv, WindowInList
    <2>4. IInv' BY <2>1, <2>2, <2>3, UiStep
    <2> QED BY <2>2, <2>4, Zenon
  <1> HIDE DEF Goal
  <1>17. ASSUME Loop PROVE Goal BY <1>1, <1>2, <1>3, <1>17, Zenon DEF Loop
  <1>18. ASSUME Goroutines PROVE Goal BY <1>4, <1>5, <1>6, <1>14, <1>18, Zenon DEF Goroutines
  <1>19. ASSUME People PROVE Goal
    BY <1>3, <1>7, <1>8, <1>9, <1>10, <1>11, <1>12, <1>13, <1>15, <1>19, Zenon DEF People
  <1>20. Goal BY <1>16, <1>17, <1>18, <1>19, Zenon DEF Next
  <1> QED BY <1>20, Zenon DEF Goal

-----------------------------------------------------------------------------
LEMMA AlwaysIInv == Spec => []IInv
  <1>1. IInv /\ [Next]_vars => IInv' BY NextStep
  <1> QED BY <1>1, InitIInv, PTL DEF Spec

(* The window never begins, and the cursor never stands, past the end of   *)
(* the list, whatever scans end, settings are saved, keys are pressed and  *)
(* servers are typed in between (dropUnfound, saveNetwork, MoveSelection,  *)
(* AddHost).                                                               *)
THEOREM WindowStays == Spec => []WindowInList
  <1>1. IInv => WindowInList BY DEF IInv
  <1> QED BY <1>1, AlwaysIInv, PTL

(* A list that says it is complete for a subnet shows no host of another   *)
(* port than the one set, but those people put there, though a scan of the *)
(* old port goes on after the settings are saved (saveNetwork, the network *)
(* ticker).                                                                *)
THEOREM OldPortGone == Spec => []PortRespected
  <1>1. IInv => PortRespected BY DEF IInv
  <1> QED BY <1>1, AlwaysIInv, PTL

(* When a scan ends, the list is what it was less what this scan did not   *)
(* find and nobody put there, and the cursor stays on its host if that     *)
(* stayed (dropUnfound, Rescan).                                           *)
THEOREM EndMatchesScan == Spec => ListMatchesScan
  <1> DEFINE told == kept \cup scan[scanCh].hits
             Matches == ~done /\ done' =>
                          /\ Endpoints(hosts') = Endpoints(hosts) \cap told
                          /\ hosts # <<>> /\ AddrRDP(SelectedHost) \in told
                             => AddrRDP(SelectedHost') = AddrRDP(SelectedHost)
  <1>1. IInv /\ [Next]_vars => [Matches]_vars
    <2> SUFFICES ASSUME IInv, [Next]_vars, ~done, done'
                 PROVE  /\ Endpoints(hosts') = Endpoints(hosts) \cap told
                        /\ hosts # <<>> /\ AddrRDP(SelectedHost) \in told
                           => AddrRDP(SelectedHost') = AddrRDP(SelectedHost)
      BY Zenon
    <2>1. Completes BY NextStep, Zenon
    <2>2. told = found \cup kept BY <2>1 DEF Completes
    <2> HIDE DEF told
    <2>3. DropUnfound BY <2>1 DEF Completes
    <2>4. /\ Endpoints(hosts') = Endpoints(hosts) \cap (found \cup kept)
          /\ hosts # <<>> /\ AddrRDP(SelectedHost) \in found \cup kept
             => AddrRDP(SelectedHost') = AddrRDP(SelectedHost)
      BY <2>3, DropLaws
    <2> QED BY <2>2, <2>4, Zenon
  <1> QED BY <1>1, AlwaysIInv, PTL DEF Spec, ListMatchesScan
=============================================================================
