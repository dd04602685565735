------------------------- MODULE InputReader_proofs --------------------------
(***************************************************************************)
(* No key or button is stuck, for any devices, any number of them, and a   *)
(* channel and a kernel buffer of any size.                                *)
(***************************************************************************)
EXTENDS InputReader, SequenceTheorems, WellFoundedInduction, TLAPS

KeySet == {"key", "button"}
Typed(n) == [n : {n}, k : KeySet, v : {"press", "release", "repeat"}]
InBuf(n) == {Move} \cup Typed(n)
Sent == [n : Nodes, k : KeySet, pressed : BOOLEAN] \cup {HandleKey(Move)}
InHand(n) == [n : {n}, k : KeySet, pressed : BOOLEAN]
Hands == (UNION {InHand(n) : n \in Nodes}) \cup {None}
ReaderT == [pc : {"none", "read", "emit"}, alive : BOOLEAN, ev : Hands]

(* A reader has a key in hand only while it waits to send it, and a node   *)
(* is on the list exactly while it has a reader.                           *)
ReaderOk(n) ==
  /\ rd[n].pc \in {"none", "read", "emit"} /\ rd[n].alive \in BOOLEAN
  /\ rd[n].pc = "emit" => rd[n].ev \in InHand(n)
  /\ rd[n].pc # "emit" => rd[n].ev = None
  /\ n \in open <=> rd[n].pc # "none"
  /\ rd[n].pc = "none" => ~rd[n].alive

HotOk ==
  /\ hot.pc \in {"wait", "look", "register", "none"} /\ hot.alive \in BOOLEAN
  /\ hot.pc = "register" => hot.n \in Nodes /\ hot.n \notin open
  /\ hot.pc # "register" => ~hot.alive

TypeInv ==
  /\ down \in [Nodes -> SUBSET KeySet] /\ told \in [Nodes -> SUBSET KeySet]
  /\ DOMAIN buf = Nodes /\ \A n \in Nodes : buf[n] \in Seq(InBuf(n))
  /\ rd \in [Nodes -> ReaderT]
  /\ hot \in [pc : {"wait", "look", "register", "none"}, todo : SUBSET Nodes, n : Nodes \cup {0}, alive : BOOLEAN]
  /\ events \in Seq(Sent)
  /\ plugged \in SUBSET Nodes
  /\ quit \in BOOLEAN

ReadersInv == HotOk /\ \A n \in Nodes : ReaderOk(n)

(* What nobody hears the kernel does not keep.                             *)
HeardInv == \A n \in Nodes : ~Heard(n) => Len(buf[n]) = 0

(* What handleButton passes over.                                          *)
Over(e) == e.k = "button" /\ e.v = "repeat"

(* The place of what is said last of a key, in the kernel's buffer as far  *)
(* as it will be passed on, and in the channel.                            *)
Says(e, n, k) == e.n = n /\ e.k = k
LastBuf(b, k, i) == /\ i \in DOMAIN b /\ b[i].k = k /\ ~Over(b[i])
                    /\ \A j \in DOMAIN b : b[j].k = k /\ ~Over(b[j]) => j <= i
NoBuf(b, k) == \A i \in DOMAIN b : b[i].k = k => Over(b[i])
LastSent(q, n, k, i) == /\ i \in DOMAIN q /\ Says(q[i], n, k)
                        /\ \A j \in DOMAIN q : Says(q[j], n, k) => j <= i
NoSent(q, n, k) == \A i \in DOMAIN q : ~Says(q[i], n, k)

(* A key is as it is said to be by the last that will be heard of it; held *)
(* and to are the keys that are held and that the loop takes to be.        *)
Pressed(e) == e.pressed = TRUE
Stands(held, b, ev, q, to, n, k) ==
  /\ \A i \in DOMAIN b : LastBuf(b, k, i) => (k \in held <=> b[i].v # "release")
  /\ NoBuf(b, k) /\ Says(ev, n, k) => (k \in held <=> Pressed(ev))
  /\ NoBuf(b, k) /\ ~Says(ev, n, k) =>
       /\ \A i \in DOMAIN q : LastSent(q, n, k, i) => (k \in held <=> Pressed(q[i]))
       /\ NoSent(q, n, k) => (k \in held <=> k \in to)

(* A key repeats while it is held.                                         *)
Repeats(held, b, k) ==
  \A i \in DOMAIN b :
    /\ b[i].k = k /\ b[i].v = "repeat"
    /\ \A j \in DOMAIN b : b[j].k = k /\ b[j].v # "repeat" => j < i
    => k \in held

KeyOk(n, k) == <<n, k>> \notin astray => /\ Stands(down[n], buf[n], rd[n].ev, events, told[n], n, k)
                                         /\ Repeats(down[n], buf[n], k)
KeysInv == \A n \in Nodes : \A k \in Keys(n) : KeyOk(n, k)

IInv == TypeInv /\ ReadersInv /\ (~quit => HeardInv /\ KeysInv)
-----------------------------------------------------------------------------
(* Sequences: one more at the end, one less at the front.                  *)
LEMMA AppendLaws ==
  ASSUME NEW S, NEW q \in Seq(S), NEW e \in S
  PROVE  /\ Append(q, e) \in Seq(S) /\ Len(q) \in Nat /\ Len(Append(q, e)) = Len(q) + 1
         /\ Len(q) + 1 \in DOMAIN Append(q, e) /\ Append(q, e)[Len(q) + 1] = e
         /\ \A i \in DOMAIN q : i \in DOMAIN Append(q, e) /\ Append(q, e)[i] = q[i] /\ i < Len(q) + 1
         /\ \A i \in DOMAIN Append(q, e) : i \in DOMAIN q \/ i = Len(q) + 1
         /\ \A i \in DOMAIN Append(q, e) : i \in Nat /\ i <= Len(q) + 1
  <1> DEFINE a == Append(q, e)
             l == Len(q)
  <1>1. /\ a \in Seq(S) /\ Len(a) = l + 1 /\ l \in Nat /\ DOMAIN q = 1..l /\ a[l + 1] = e
        /\ \A i \in 1..l : a[i] = q[i]
    BY AppendProperties, LenProperties
  <1>2. DOMAIN a = 1..(l + 1) BY <1>1, LenProperties
  <1> HIDE DEF a, l
  <1>3. l + 1 \in DOMAIN a BY <1>1, <1>2
  <1>4. \A i \in DOMAIN q : i \in DOMAIN a /\ a[i] = q[i] /\ i < l + 1 BY <1>1, <1>2
  <1>5. \A i \in DOMAIN a : (i \in DOMAIN q \/ i = l + 1) /\ i \in Nat /\ i <= l + 1 BY <1>1, <1>2
  <1> QED BY <1>1, <1>3, <1>4, <1>5 DEF a, l

LEMMA TailLaws ==
  ASSUME NEW S, NEW q \in Seq(S), q # <<>>
  PROVE  /\ Tail(q) \in Seq(S) /\ Head(q) \in S /\ 1 \in DOMAIN q /\ Head(q) = q[1]
         /\ \A i \in DOMAIN q : i \in Nat /\ 1 <= i
         /\ \A i \in DOMAIN Tail(q) : i \in Nat /\ i + 1 \in DOMAIN q /\ Tail(q)[i] = q[i + 1]
         /\ \A i \in DOMAIN q : i = 1 \/ (\E j \in DOMAIN Tail(q) : i = j + 1)
  <1> DEFINE t == Tail(q)
             l == Len(q)
  <1>1. t \in Seq(S) /\ Len(t) = l - 1 /\ Head(q) \in S /\ \A i \in 1..Len(t) : t[i] = q[i + 1]
    BY HeadTailProperties
  <1>2. l \in Nat /\ l # 0 /\ DOMAIN q = 1..l BY LenProperties, EmptySeq
  <1>3. DOMAIN t = 1..(l - 1) BY <1>1, LenProperties
  <1>4. Head(q) = q[1] OBVIOUS
  <1> HIDE DEF t, l
  <1>5. 1 \in DOMAIN q /\ \A i \in DOMAIN q : i \in Nat /\ 1 <= i BY <1>2
  <1>6. \A i \in DOMAIN t : i \in Nat /\ i + 1 \in DOMAIN q /\ t[i] = q[i + 1] BY <1>1, <1>2, <1>3
  <1>7. ASSUME NEW i \in DOMAIN q, i # 1 PROVE \E j \in DOMAIN t : i = j + 1
    <2>1. i - 1 \in DOMAIN t /\ i = (i - 1) + 1 BY <1>2, <1>3, <1>7
    <2> QED BY <2>1
  <1> QED BY <1>1, <1>4, <1>5, <1>6, <1>7 DEF t

(* A key that is typed: what was said before does not matter.              *)
LEMMA PushTyped ==
  ASSUME NEW n, NEW b \in Seq(InBuf(n)), NEW e \in InBuf(n), NEW k, e.k = k,
         e.v \in {"press", "release"}, NEW held, k \in held <=> e.v = "press",
         NEW ev, NEW q, NEW to
  PROVE  Stands(held, Append(b, e), ev, q, to, n, k) /\ Repeats(held, Append(b, e), k)
  <1> DEFINE a == Append(b, e)
             l == Len(b) + 1
  <1>1. /\ l \in DOMAIN a /\ a[l] = e
        /\ \A i \in DOMAIN a : i \in Nat /\ i <= l
    BY AppendLaws
  <1>2. l \in Nat BY <1>1
  <1> HIDE DEF a, l
  <1>3. ~Over(a[l]) /\ a[l].k = k BY <1>1 DEF Over
  <1>4. ASSUME NEW i \in DOMAIN a, LastBuf(a, k, i) PROVE i = l BY <1>1, <1>2, <1>3, <1>4 DEF LastBuf
  <1>5. ~NoBuf(a, k) BY <1>1, <1>3 DEF NoBuf
  <1>6. k \in held <=> a[l].v # "release" BY <1>1
  <1>7. Stands(held, a, ev, q, to, n, k) BY <1>4, <1>5, <1>6 DEF Stands
  <1>8. Repeats(held, a, k)
    <2> SUFFICES ASSUME NEW i \in DOMAIN a, \A j \in DOMAIN a : a[j].k = k /\ a[j].v # "repeat" => j < i
                 PROVE  FALSE
      BY DEF Repeats
    <2>1. l < i BY <1>1
    <2> QED BY <1>1, <1>2, <2>1
  <1> QED BY <1>7, <1>8 DEF a

(* What is said of another key, and a repeat of a key that is held.        *)
LEMMA PushOther ==
  ASSUME NEW n, NEW b \in Seq(InBuf(n)), NEW e \in InBuf(n), NEW k,
         e.k # k \/ e.v = "repeat", NEW held, NEW before, k \in held <=> k \in before,
         e.k = k => k \in held,
         NEW ev, NEW q, NEW to, Stands(before, b, ev, q, to, n, k), Repeats(before, b, k)
  PROVE  Stands(held, Append(b, e), ev, q, to, n, k) /\ Repeats(held, Append(b, e), k)
  <1> DEFINE a == Append(b, e)
             l == Len(b) + 1
  <1>1. /\ l \in DOMAIN a /\ a[l] = e
        /\ \A i \in DOMAIN b : i \in DOMAIN a /\ a[i] = b[i] /\ i < l
        /\ \A i \in DOMAIN a : i \in DOMAIN b \/ i = l
        /\ \A i \in DOMAIN a : i \in Nat /\ i <= l
    BY AppendLaws
  <1>2. l \in Nat BY <1>1
  <1> HIDE DEF a, l
  <1>3. NoBuf(a, k) => NoBuf(b, k) BY <1>1 DEF NoBuf
  <1>4. ASSUME NEW i \in DOMAIN a, LastBuf(a, k, i) PROVE k \in held <=> a[i].v # "release"
    <2>1. CASE i = l
      <3>1. e.k = k /\ e.v = "repeat" BY <1>1, <1>4, <2>1 DEF LastBuf
      <3> QED BY <1>1, <2>1, <3>1
    <2>2. CASE i \in DOMAIN b
      <3>1. LastBuf(b, k, i) BY <1>1, <1>4, <2>2 DEF LastBuf
      <3> QED BY <1>1, <2>2, <3>1 DEF Stands
    <2> QED BY <1>1, <2>1, <2>2
  <1>5. Stands(held, a, ev, q, to, n, k) BY <1>3, <1>4 DEF Stands
  <1>6. Repeats(held, a, k)
    <2> SUFFICES ASSUME NEW i \in DOMAIN a, a[i].k = k, a[i].v = "repeat",
                        \A j \in DOMAIN a : a[j].k = k /\ a[j].v # "repeat" => j < i
                 PROVE  k \in held
      BY DEF Repeats
    <2>1. CASE i = l BY <1>1, <2>1
    <2>2. CASE i \in DOMAIN b
      <3>1. b[i].k = k /\ b[i].v = "repeat" /\ \A j \in DOMAIN b : b[j].k = k /\ b[j].v # "repeat" => j < i
        BY <1>1, <2>2
      <3> QED BY <2>2, <3>1 DEF Repeats
    <2> QED BY <1>1, <2>1, <2>2
  <1> QED BY <1>5, <1>6 DEF a

(* The front of the buffer, read: passed over, or of another key.          *)
LEMMA PopOther ==
  ASSUME NEW n, NEW b \in Seq(InBuf(n)), b # <<>>, NEW k, Head(b).k # k \/ Over(Head(b)),
         NEW held, NEW ev, NEW q, NEW to, Stands(held, b, ev, q, to, n, k)
  PROVE  Stands(held, Tail(b), ev, q, to, n, k)
  <1> DEFINE t == Tail(b)
  <1>1. /\ Head(b) = b[1]
        /\ \A i \in DOMAIN t : i \in Nat /\ i + 1 \in DOMAIN b /\ t[i] = b[i + 1]
        /\ \A i \in DOMAIN b : i = 1 \/ (\E j \in DOMAIN t : i = j + 1)
    BY TailLaws
  <1> HIDE DEF t
  <1>2. NoBuf(t, k) => NoBuf(b, k) BY <1>1 DEF NoBuf
  <1>3. ASSUME NEW i \in DOMAIN t, LastBuf(t, k, i) PROVE k \in held <=> t[i].v # "release"
    <2>1. i + 1 \in DOMAIN b /\ b[i + 1].k = k /\ ~Over(b[i + 1]) BY <1>1, <1>3 DEF LastBuf
    <2>2. ASSUME NEW j \in DOMAIN b, b[j].k = k, ~Over(b[j]) PROVE j <= i + 1
      <3>1. PICK h \in DOMAIN t : j = h + 1 BY <1>1, <2>2
      <3>2. h <= i BY <1>1, <1>3, <2>2, <3>1 DEF LastBuf
      <3>3. h \in Nat /\ i \in Nat BY <1>1
      <3> QED BY <3>1, <3>2, <3>3
    <2>3. LastBuf(b, k, i + 1) BY <2>1, <2>2 DEF LastBuf
    <2> QED BY <1>1, <2>1, <2>3 DEF Stands
  <1>4. Stands(held, t, ev, q, to, n, k) BY <1>2, <1>3 DEF Stands
  <1> QED BY <1>4 DEF t

(* Whatever is read, what is left repeats as it did.                       *)
LEMMA PopRepeats ==
  ASSUME NEW n, NEW b \in Seq(InBuf(n)), b # <<>>, NEW k, NEW held, Repeats(held, b, k)
  PROVE  Repeats(held, Tail(b), k)
  <1> DEFINE t == Tail(b)
  <1>1. /\ \A i \in DOMAIN t : i \in Nat /\ i + 1 \in DOMAIN b /\ t[i] = b[i + 1]
        /\ \A i \in DOMAIN b : i = 1 \/ (\E j \in DOMAIN t : i = j + 1)
        /\ \A i \in DOMAIN b : i \in Nat /\ 1 <= i
    BY TailLaws
  <1> HIDE DEF t
  <1> SUFFICES ASSUME NEW i \in DOMAIN t, t[i].k = k, t[i].v = "repeat",
                      \A j \in DOMAIN t : t[j].k = k /\ t[j].v # "repeat" => j < i
               PROVE  k \in held
    BY DEF Repeats, t
  <1>2. i + 1 \in DOMAIN b /\ b[i + 1].k = k /\ b[i + 1].v = "repeat" BY <1>1
  <1>3. ASSUME NEW j \in DOMAIN b, b[j].k = k, b[j].v # "repeat" PROVE j < i + 1
    <2>0. i \in Nat /\ i # 0
      <3>1. Tail(b) \in Seq(InBuf(n)) BY TailLaws
      <3>2. DOMAIN t = 1..Len(t) /\ Len(t) \in Nat BY <3>1, LenProperties DEF t
      <3> QED BY <3>2
    <2>1. CASE j = 1 BY <2>0, <2>1
    <2>2. ASSUME NEW h \in DOMAIN t, j = h + 1 PROVE j < i + 1
      <3>1. h < i BY <1>1, <1>3, <2>2
      <3>2. h \in Nat BY <1>1
      <3> QED BY <2>0, <2>2, <3>1, <3>2
    <2> QED BY <1>1, <2>1, <2>2
  <1> QED BY <1>2, <1>3 DEF Repeats

(* The front of the buffer, taken in hand: the reader had nothing there.   *)
LEMMA PopSays ==
  ASSUME NEW n, NEW b \in Seq(InBuf(n)), b # <<>>, NEW k, Head(b).k = k, ~Over(Head(b)),
         NEW held, NEW ev, NEW h, NEW q, NEW to, Stands(held, b, ev, q, to, n, k),
         Says(h, n, k), Pressed(h) <=> Head(b).v # "release"
  PROVE  Stands(held, Tail(b), h, q, to, n, k)
  <1> DEFINE t == Tail(b)
  <1>1. /\ Head(b) = b[1] /\ 1 \in DOMAIN b
        /\ \A i \in DOMAIN t : i \in Nat /\ i + 1 \in DOMAIN b /\ t[i] = b[i + 1]
        /\ \A i \in DOMAIN b : i = 1 \/ (\E j \in DOMAIN t : i = j + 1)
    BY TailLaws
  <1> HIDE DEF t
  <1>2. ASSUME NoBuf(t, k) PROVE k \in held <=> Pressed(h)
    <2>1. ASSUME NEW j \in DOMAIN b, b[j].k = k, ~Over(b[j]) PROVE j = 1
      BY <1>1, <1>2, <2>1 DEF NoBuf
    <2>2. 1 <= 1 OBVIOUS
    <2>3. LastBuf(b, k, 1) BY <1>1, <2>1, <2>2 DEF LastBuf
    <2> QED BY <1>1, <2>3 DEF Stands
  <1>3. ASSUME NEW i \in DOMAIN t, LastBuf(t, k, i) PROVE k \in held <=> t[i].v # "release"
    <2>1. i \in Nat /\ i + 1 \in DOMAIN b /\ b[i + 1].k = k /\ ~Over(b[i + 1]) BY <1>1, <1>3 DEF LastBuf
    <2>2. ASSUME NEW j \in DOMAIN b, b[j].k = k, ~Over(b[j]) PROVE j <= i + 1
      <3>1. CASE j = 1 BY <2>1, <3>1
      <3>2. ASSUME NEW m \in DOMAIN t, j = m + 1 PROVE j <= i + 1
        <4>1. m <= i BY <1>1, <1>3, <2>2, <3>2 DEF LastBuf
        <4>2. m \in Nat BY <1>1
        <4> QED BY <2>1, <3>2, <4>1, <4>2
      <3> QED BY <1>1, <3>1, <3>2
    <2>3. LastBuf(b, k, i + 1) BY <2>1, <2>2 DEF LastBuf
    <2> QED BY <1>1, <2>1, <2>3 DEF Stands
  <1>4. Stands(held, t, h, q, to, n, k) BY <1>2, <1>3 DEF Stands
  <1> QED BY <1>4 DEF t

(* What is in hand matters only to the key it is of.                       *)
LEMMA HandOther ==
  ASSUME NEW held, NEW b, NEW ev, NEW h, NEW q, NEW to, NEW n, NEW k,
         Stands(held, b, ev, q, to, n, k), ~Says(ev, n, k), ~Says(h, n, k)
  PROVE  Stands(held, b, h, q, to, n, k)
  BY DEF Stands

(* An event is sent: of another key, or of this one and from the hand.     *)
LEMMA SendOther ==
  ASSUME NEW q \in Seq(Sent), NEW e \in Sent, NEW n, NEW k, ~Says(e, n, k),
         NEW held, NEW b, NEW ev, NEW to, Stands(held, b, ev, q, to, n, k)
  PROVE  Stands(held, b, ev, Append(q, e), to, n, k)
  <1> DEFINE a == Append(q, e)
             l == Len(q) + 1
  <1>1. /\ a[l] = e
        /\ \A i \in DOMAIN q : i \in DOMAIN a /\ a[i] = q[i] /\ i < l
        /\ \A i \in DOMAIN a : i \in DOMAIN q \/ i = l
    BY AppendLaws
  <1> HIDE DEF a, l
  <1>2. NoSent(a, n, k) => NoSent(q, n, k) BY <1>1 DEF NoSent
  <1>3. ASSUME NEW i \in DOMAIN a, LastSent(a, n, k, i)
        PROVE  i \in DOMAIN q /\ LastSent(q, n, k, i) /\ a[i] = q[i]
    <2>1. i \in DOMAIN q BY <1>1, <1>3 DEF LastSent
    <2> QED BY <1>1, <1>3, <2>1 DEF LastSent
  <1>4. Stands(held, b, ev, a, to, n, k) BY <1>2, <1>3 DEF Stands
  <1> QED BY <1>4 DEF a

LEMMA SendSays ==
  ASSUME NEW q \in Seq(Sent), NEW e \in Sent, NEW n, NEW k, Says(e, n, k),
         NEW held, NEW b, NEW h, ~Says(h, n, k), NEW to, Stands(held, b, e, q, to, n, k)
  PROVE  Stands(held, b, h, Append(q, e), to, n, k)
  <1> DEFINE a == Append(q, e)
             l == Len(q) + 1
  <1>1. /\ l \in DOMAIN a /\ a[l] = e
        /\ \A i \in DOMAIN a : i \in Nat /\ i <= l
    BY AppendLaws
  <1> HIDE DEF a, l
  <1>2. ~NoSent(a, n, k) BY <1>1 DEF NoSent
  <1>3. ASSUME NEW i \in DOMAIN a, LastSent(a, n, k, i) PROVE i = l
    <2>1. l <= i BY <1>1, <1>3 DEF LastSent
    <2>2. l \in Nat BY <1>1
    <2> QED BY <1>1, <2>1, <2>2
  <1>4. Stands(held, b, h, a, to, n, k) BY <1>1, <1>2, <1>3 DEF Stands
  <1> QED BY <1>4 DEF a

(* The loop takes an event.                                                *)
LEMMA TakeLaw ==
  ASSUME NEW q \in Seq(Sent), q # <<>>, NEW n, NEW k, NEW held, NEW b, NEW ev, NEW to, NEW now,
         Stands(held, b, ev, q, to, n, k),
         Says(Head(q), n, k) => (k \in now <=> Pressed(Head(q))),
         ~Says(Head(q), n, k) => (k \in now <=> k \in to)
  PROVE  Stands(held, b, ev, Tail(q), now, n, k)
  <1> DEFINE t == Tail(q)
  <1>1. /\ Head(q) = q[1] /\ 1 \in DOMAIN q
        /\ \A i \in DOMAIN t : i \in Nat /\ i + 1 \in DOMAIN q /\ t[i] = q[i + 1]
        /\ \A i \in DOMAIN q : i = 1 \/ (\E j \in DOMAIN t : i = j + 1)
    BY TailLaws
  <1> HIDE DEF t
  <1> SUFFICES ASSUME NoBuf(b, k), ~Says(ev, n, k)
               PROVE  /\ \A i \in DOMAIN t : LastSent(t, n, k, i) => (k \in held <=> Pressed(t[i]))
                      /\ NoSent(t, n, k) => (k \in held <=> k \in now)
    BY DEF Stands, t
  <1>2. ASSUME NoSent(t, n, k) PROVE k \in held <=> k \in now
    <2>1. \A j \in DOMAIN q : Says(q[j], n, k) => j = 1 BY <1>1, <1>2 DEF NoSent
    <2>2. CASE Says(Head(q), n, k)
      <3>1. 1 <= 1 OBVIOUS
      <3>2. LastSent(q, n, k, 1) BY <1>1, <2>1, <2>2, <3>1 DEF LastSent
      <3> QED BY <1>1, <2>2, <3>2 DEF Stands
    <2>3. CASE ~Says(Head(q), n, k)
      <3>1. NoSent(q, n, k) BY <1>1, <2>1, <2>3 DEF NoSent
      <3> QED BY <2>3, <3>1 DEF Stands
    <2> QED BY <2>2, <2>3
  <1>3. ASSUME NEW i \in DOMAIN t, LastSent(t, n, k, i) PROVE k \in held <=> Pressed(t[i])
    <2>1. i \in Nat /\ i + 1 \in DOMAIN q /\ Says(q[i + 1], n, k) BY <1>1, <1>3 DEF LastSent
    <2>2. ASSUME NEW j \in DOMAIN q, Says(q[j], n, k) PROVE j <= i + 1
      <3>1. CASE j = 1 BY <2>1, <3>1
      <3>2. ASSUME NEW m \in DOMAIN t, j = m + 1 PROVE j <= i + 1
        <4>1. m <= i BY <1>1, <1>3, <2>2, <3>2 DEF LastSent
        <4>2. m \in Nat BY <1>1
        <4> QED BY <2>1, <3>2, <4>1, <4>2
      <3> QED BY <1>1, <3>1, <3>2
    <2>3. LastSent(q, n, k, i + 1) BY <2>1, <2>2 DEF LastSent
    <2> QED BY <1>1, <2>1, <2>3 DEF Stands
  <1> QED BY <1>2, <1>3
-----------------------------------------------------------------------------
(* What is last in a sequence: there is a greatest place, since the        *)
(* distances to the end have a least one.                                  *)
LEMMA Greatest ==
  ASSUME NEW l \in Nat, NEW T \in SUBSET (1..l), T # {}
  PROVE  \E m \in T : \A i \in T : i <= m
  <1> DEFINE U == {l - i : i \in T}
             R == OpToRel(<, Nat)
  <1>1. \A i \in T : i \in Nat /\ l - i \in Nat OBVIOUS
  <1>2. IsWellFoundedOn(R, Nat) BY NatLessThanWellFounded
  <1>3. \A x, y \in Nat : x < y => <<x, y>> \in R BY DEF OpToRel
  <1>4. U \in SUBSET Nat /\ U # {} BY <1>1
  <1> HIDE DEF R
  <1>5. PICK x \in U : \A y \in U : ~(<<y, x>> \in R)
    <2> HIDE DEF U
    <2> QED BY <1>2, <1>4, WFMin
  <1>6. PICK m \in T : x = l - m OBVIOUS
  <1>7. ASSUME NEW i \in T PROVE i <= m
    <2>1. ~(l - i < l - m) BY <1>1, <1>3, <1>5, <1>6
    <2> QED BY <1>1, <2>1
  <1> QED BY <1>7

LEMMA LastLaws ==
  ASSUME NEW S, NEW q \in Seq(S), NEW n, NEW k
  PROVE  /\ \A i \in DOMAIN q : LastSent(q, n, k, i) => Last(q, n, k) = {q[i].pressed}
         /\ NoSent(q, n, k) => Last(q, n, k) = {}
         /\ NoSent(q, n, k) \/ \E i \in DOMAIN q : LastSent(q, n, k, i)
  <1> DEFINE at == {i \in 1..Len(q) : q[i].n = n /\ q[i].k = k}
  <1>1. Len(q) \in Nat /\ DOMAIN q = 1..Len(q) BY LenProperties
  <1>2. \A i : i \in at <=> i \in DOMAIN q /\ Says(q[i], n, k) BY <1>1 DEF Says
  <1>3. Last(q, n, k) = {q[i].pressed : i \in {j \in at : \A h \in at : h <= j}} BY DEF Last
  <1>4. at \in SUBSET (1..Len(q)) OBVIOUS
  <1> HIDE DEF at
  <1>5. \A i \in at : i \in Nat BY <1>1, <1>4
  <1>6. ASSUME NEW i \in DOMAIN q, LastSent(q, n, k, i) PROVE Last(q, n, k) = {q[i].pressed}
    <2>1. i \in at /\ \A h \in at : h <= i BY <1>2, <1>6 DEF LastSent
    <2>2. ASSUME NEW j \in at, \A h \in at : h <= j PROVE j = i BY <1>5, <2>1, <2>2
    <2>3. {j \in at : \A h \in at : h <= j} = {i} BY <2>1, <2>2
    <2> QED BY <1>3, <2>3
  <1>7. ASSUME NoSent(q, n, k) PROVE Last(q, n, k) = {}
    <2>1. at = {} BY <1>2, <1>7 DEF NoSent
    <2> QED BY <1>3, <2>1
  <1>8. ASSUME ~NoSent(q, n, k) PROVE \E i \in DOMAIN q : LastSent(q, n, k, i)
    <2>1. at # {} BY <1>2, <1>8 DEF NoSent
    <2>2. PICK m \in at : \A i \in at : i <= m BY <1>1, <1>4, <2>1, Greatest
    <2>3. LastSent(q, n, k, m) BY <1>2, <2>2 DEF LastSent
    <2> QED BY <1>2, <2>3
  <1> QED BY <1>6, <1>7, <1>8

(* What is said last in m, or in p when m says nothing, is so in c.        *)
LastOf(m, c, n, k) ==
  \A i \in DOMAIN m : LastSent(m, n, k, i) => \E j \in DOMAIN c : LastSent(c, n, k, j) /\ c[j] = m[i]
LastBefore(p, m, c, n, k) ==
  \A i \in DOMAIN p : NoSent(m, n, k) /\ LastSent(p, n, k, i) => LastSent(c, n, k, i) /\ c[i] = p[i]

LEMMA ConcatLaws ==
  ASSUME NEW S, NEW p \in Seq(S), NEW m \in Seq(S), NEW n, NEW k, NEW c, c = p \o m
  PROVE  /\ c \in Seq(S)
         /\ LastOf(m, c, n, k) /\ LastBefore(p, m, c, n, k)
         /\ NoSent(m, n, k) /\ NoSent(p, n, k) => NoSent(c, n, k)
  <1> DEFINE a == Len(p)
             b == Len(m)
  <1>1. /\ c \in Seq(S) /\ Len(c) = a + b /\ a \in Nat /\ b \in Nat
        /\ \A i \in 1..(a + b) : c[i] = IF i <= a THEN p[i] ELSE m[i - a]
    BY ConcatProperties, LenProperties
  <1>2. DOMAIN p = 1..a /\ DOMAIN m = 1..b BY LenProperties
  <1>3. DOMAIN c = 1..(a + b) BY <1>1, LenProperties
  <1> HIDE DEF a, b
  <1>4. \A i \in DOMAIN p : i \in DOMAIN c /\ c[i] = p[i] /\ i \in Nat /\ i <= a BY <1>1, <1>2, <1>3
  <1>5. ASSUME NEW i \in DOMAIN m PROVE a + i \in DOMAIN c /\ c[a + i] = m[i] /\ i \in Nat /\ 1 <= i
    <2>1. i \in Nat /\ 1 <= i /\ i <= b BY <1>1, <1>2
    <2>2. a + i \in 1..(a + b) /\ ~(a + i <= a) /\ (a + i) - a = i BY <1>1, <2>1
    <2> QED BY <1>1, <1>3, <2>1, <2>2
  <1>6. ASSUME NEW i \in DOMAIN c PROVE i \in DOMAIN p \/ \E j \in DOMAIN m : i = a + j
    <2>1. CASE i <= a BY <1>1, <1>2, <1>3, <2>1
    <2>2. CASE ~(i <= a)
      <3>1. i - a \in DOMAIN m /\ i = a + (i - a) BY <1>1, <1>2, <1>3, <2>2
      <3> QED BY <3>1
    <2> QED BY <2>1, <2>2
  <1>7. ASSUME NEW i \in DOMAIN m, LastSent(m, n, k, i)
        PROVE  \E j \in DOMAIN c : LastSent(c, n, k, j) /\ c[j] = m[i]
    <2>1. a + i \in DOMAIN c /\ Says(c[a + i], n, k) BY <1>5, <1>7 DEF LastSent
    <2>2. ASSUME NEW j \in DOMAIN c, Says(c[j], n, k) PROVE j <= a + i
      <3>1. CASE j \in DOMAIN p
        <4>1. j \in Nat /\ j <= a BY <1>4, <3>1
        <4>2. i \in Nat BY <1>5
        <4> QED BY <1>1, <4>1, <4>2
      <3>2. ASSUME NEW h \in DOMAIN m, j = a + h PROVE j <= a + i
        <4>1. h <= i BY <1>5, <1>7, <2>2, <3>2 DEF LastSent
        <4>2. h \in Nat /\ i \in Nat BY <1>5
        <4> QED BY <1>1, <3>2, <4>1, <4>2
      <3> QED BY <1>6, <3>1, <3>2
    <2>3. LastSent(c, n, k, a + i) BY <2>1, <2>2 DEF LastSent
    <2> QED BY <1>5, <2>1, <2>3
  <1>8. ASSUME NEW i \in DOMAIN p, NoSent(m, n, k), LastSent(p, n, k, i)
        PROVE  LastSent(c, n, k, i) /\ c[i] = p[i]
    <2>1. ASSUME NEW j \in DOMAIN c, Says(c[j], n, k) PROVE j <= i
      <3>1. j \in DOMAIN p BY <1>5, <1>6, <1>8, <2>1 DEF NoSent
      <3> QED BY <1>4, <1>8, <2>1, <3>1 DEF LastSent
    <2> QED BY <1>4, <1>8, <2>1 DEF LastSent
  <1>9. ASSUME NoSent(m, n, k), NoSent(p, n, k) PROVE NoSent(c, n, k)
    BY <1>4, <1>5, <1>6, <1>9 DEF NoSent
  <1> QED BY <1>1, <1>7, <1>8, <1>9 DEF LastOf, LastBefore

(* What handleKey makes of a key.                                          *)
LEMMA HandleLaws ==
  ASSUME NEW n \in Nodes, NEW e \in InBuf(n)
  PROVE  /\ HandleKey(e).k = e.k
         /\ e.k \in KeySet => /\ e \in Typed(n) /\ HandleKey(e) \in InHand(n)
                              /\ HandleKey(e).n = n /\ Says(HandleKey(e), n, e.k)
                              /\ (Pressed(HandleKey(e)) <=> e.v # "release")
         /\ e.k \notin KeySet => e = Move
         /\ HandleKey(e) \in Sent
  <1>1. CASE e = Move
    <2>1. e.k = "move" BY <1>1 DEF Move
    <2> QED BY <1>1, <2>1 DEF HandleKey, Move, KeySet, Sent
  <1>2. CASE e \in Typed(n)
    <2>1. e.n = n /\ e.k \in KeySet /\ e.v \in {"press", "release", "repeat"} BY <1>2 DEF Typed
    <2>2. HandleKey(e) = [n |-> n, k |-> e.k, pressed |-> e.v # "release"] BY <2>1 DEF HandleKey
    <2>3. (e.v # "release") \in BOOLEAN OBVIOUS
    <2>4. HandleKey(e) \in InHand(n) /\ HandleKey(e) \in [n : Nodes, k : KeySet, pressed : BOOLEAN]
      BY <2>1, <2>2, <2>3 DEF InHand
    <2>5. HandleKey(e).n = n /\ HandleKey(e).k = e.k /\ HandleKey(e).pressed = (e.v # "release") BY <2>2
    <2>6. Pressed(HandleKey(e)) <=> e.v # "release" BY <2>5 DEF Pressed
    <2> QED BY <1>2, <2>1, <2>4, <2>5, <2>6 DEF Says, Sent
  <1> QED BY <1>1, <1>2 DEF InBuf

(* The invariant says what is said last.                                   *)
SaidOf(q, ev, b, n, k) ==
  Last(q \o (IF ev.n = n THEN <<ev>> ELSE <<>>) \o [i \in DOMAIN b |-> HandleKey(b[i])], n, k)

SaidOk(said, held, to, k) ==
  (said = {} => (k \in held <=> k \in to)) /\ (said # {} => (k \in held <=> TRUE \in said))

LEMMA SaidLaw ==
  ASSUME NEW n \in Nodes, NEW k \in KeySet, NEW b \in Seq(InBuf(n)), NEW ev \in InHand(n) \cup {None},
         NEW q \in Seq(Sent), NEW held, NEW to, Stands(held, b, ev, q, to, n, k), Repeats(held, b, k),
         NEW said, said = SaidOf(q, ev, b, n, k)
  PROVE  SaidOk(said, held, to, k)
  <1> DEFINE hand == IF ev.n = n THEN <<ev>> ELSE <<>>
             m == [i \in DOMAIN b |-> HandleKey(b[i])]
             p == q \o hand
             all == p \o m
  <1>1. Len(b) \in Nat /\ DOMAIN b = 1..Len(b) /\ \A i \in DOMAIN b : b[i] \in InBuf(n)
    BY LenProperties, ElementOfSeq
  <1>2. /\ m \in Seq(Sent) /\ DOMAIN m = DOMAIN b
        /\ \A i \in DOMAIN b : m[i] = HandleKey(b[i])
    <2>1. \A i \in 1..Len(b) : HandleKey(b[i]) \in Sent BY <1>1, HandleLaws
    <2>2. m \in [1..Len(b) -> Sent] BY <1>1, <2>1
    <2> QED BY <1>1, <2>2, SeqDef
  <1>3. hand \in Seq(Sent)
    <2>1. n # 0 BY NodesAssumption
    <2>2. None.n = 0 BY DEF None
    <2>3. CASE ev.n = n
      <3>1. ev \in InHand(n) BY <2>1, <2>2, <2>3
      <3>2. ev \in Sent BY <3>1 DEF InHand, Sent
      <3> QED BY <2>3, <3>2
    <2>4. CASE ev.n # n BY <2>4
    <2> QED BY <2>3, <2>4
  <1>4. said = Last(all, n, k) BY DEF SaidOf
  <1>5. \/ Says(ev, n, k) /\ hand = <<ev>>
        \/ ~Says(ev, n, k) /\ NoSent(hand, n, k)
    <2>1. CASE ev.n = n
      <3>1. hand = <<ev>> BY <2>1
      <3>2. DOMAIN <<ev>> = {1} /\ <<ev>>[1] = ev OBVIOUS
      <3> QED BY <3>1, <3>2 DEF NoSent
    <2>2. CASE ev.n # n
      <3>1. hand = <<>> BY <2>2
      <3>2. DOMAIN <<>> = {} OBVIOUS
      <3> QED BY <2>2, <3>1, <3>2 DEF NoSent, Says
    <2> QED BY <2>1, <2>2
  <1> HIDE DEF hand, m
  <1>b. p = q \o hand OBVIOUS
  <1> HIDE DEF p
  <1>6. p \in Seq(Sent) BY <1>3, <1>b, ConcatLaws
  <1>a. all = p \o m OBVIOUS
  <1> HIDE DEF all
  <1>7. all \in Seq(Sent) BY <1>2, <1>6, <1>a, ConcatLaws
  <1>c. LastOf(m, all, n, k) /\ LastBefore(p, m, all, n, k) BY <1>2, <1>6, <1>a, ConcatLaws
  <1>d. LastOf(hand, p, n, k) /\ LastBefore(q, hand, p, n, k) BY <1>3, <1>b, ConcatLaws
  <1>8. ASSUME NEW i \in DOMAIN b PROVE Says(m[i], n, k) <=> b[i].k = k
    <2>1. b[i] \in InBuf(n) /\ m[i] = HandleKey(b[i]) BY <1>1, <1>2
    <2>2. HandleKey(b[i]).k = b[i].k /\ (b[i].k \in KeySet => Says(HandleKey(b[i]), n, b[i].k))
      BY <2>1, HandleLaws
    <2> QED BY <2>1, <2>2 DEF Says
  <1>9. ASSUME NEW s \in Seq(Sent), NEW i \in DOMAIN s, LastSent(s, n, k, i), said = Last(s, n, k),
               k \in held <=> Pressed(s[i])
        PROVE  said # {} /\ (k \in held <=> TRUE \in said)
    <2>1. said = {s[i].pressed} BY <1>9, LastLaws
    <2> QED BY <1>9, <2>1 DEF Pressed
  <1>10. ASSUME NEW i \in DOMAIN m, LastSent(m, n, k, i) PROVE said # {} /\ (k \in held <=> TRUE \in said)
    <2>1. PICK l \in DOMAIN all : LastSent(all, n, k, l) /\ all[l] = m[i]
      BY <1>c, <1>10 DEF LastOf
    <2>3. /\ i \in DOMAIN b /\ b[i].k = k /\ m[i] = HandleKey(b[i]) /\ b[i] \in InBuf(n)
          /\ \A j \in DOMAIN b : b[j].k = k => j <= i
      BY <1>1, <1>2, <1>8, <1>10 DEF LastSent
    <2>4. Pressed(m[i]) <=> b[i].v # "release" BY <2>3, HandleLaws
    <2>5. k \in held <=> b[i].v # "release"
      <3>1. CASE Over(b[i])
        <4>1. b[i].v = "repeat" BY <3>1 DEF Over
        <4>2. \A j \in DOMAIN b : j \in Nat BY <1>1
        <4>3. \A j \in DOMAIN b : b[j].k = k /\ b[j].v # "repeat" => j < i BY <2>3, <4>1, <4>2
        <4>4. k \in held BY <2>3, <4>1, <4>3 DEF Repeats
        <4> QED BY <4>1, <4>4
      <3>2. CASE ~Over(b[i])
        <4>1. LastBuf(b, k, i) BY <2>3, <3>2 DEF LastBuf
        <4> QED BY <2>3, <4>1 DEF Stands
      <3> QED BY <3>1, <3>2
    <2>6. k \in held <=> Pressed(all[l]) BY <2>1, <2>4, <2>5
    <2> QED BY <1>4, <1>7, <1>9, <2>1, <2>6
  <1>11. ASSUME NoSent(m, n, k)
         PROVE  IF said = {} THEN k \in held <=> k \in to ELSE k \in held <=> TRUE \in said
    <2>1. NoBuf(b, k) BY <1>2, <1>8, <1>11 DEF NoSent, NoBuf
    <2>2. ASSUME NEW i \in DOMAIN p, LastSent(p, n, k, i), k \in held <=> Pressed(p[i])
          PROVE  said # {} /\ (k \in held <=> TRUE \in said)
      <3>1. LastSent(all, n, k, i) /\ all[i] = p[i] BY <1>c, <1>11, <2>2 DEF LastBefore
      <3>2. i \in DOMAIN all BY <3>1 DEF LastSent
      <3> QED BY <1>4, <1>7, <1>9, <2>2, <3>1, <3>2
    <2>3. CASE Says(ev, n, k) /\ hand = <<ev>>
      <3>1. DOMAIN hand = {1} /\ hand[1] = ev BY <2>3
      <3>2. 1 <= 1 OBVIOUS
      <3>3. LastSent(hand, n, k, 1) BY <2>3, <3>1, <3>2 DEF LastSent
      <3>4. 1 \in DOMAIN hand BY <3>1
      <3>5. PICK l \in DOMAIN p : LastSent(p, n, k, l) /\ p[l] = ev
        BY <1>d, <3>1, <3>3, <3>4 DEF LastOf
      <3>6. k \in held <=> Pressed(ev) BY <2>1, <2>3 DEF Stands
      <3> QED BY <2>2, <3>5, <3>6
    <2>4. CASE ~Says(ev, n, k) /\ NoSent(hand, n, k)
      <3>1. ASSUME NEW i \in DOMAIN q, LastSent(q, n, k, i) PROVE said # {} /\ (k \in held <=> TRUE \in said)
        <4>1. LastSent(p, n, k, i) /\ p[i] = q[i] BY <1>d, <2>4, <3>1 DEF LastBefore
        <4>2. i \in DOMAIN p BY <4>1 DEF LastSent
        <4>3. k \in held <=> Pressed(q[i]) BY <2>1, <2>4, <3>1 DEF Stands
        <4> QED BY <2>2, <4>1, <4>2, <4>3
      <3>2. ASSUME NoSent(q, n, k) PROVE said = {} /\ (k \in held <=> k \in to)
        <4>1. NoSent(p, n, k) BY <1>3, <2>4, <3>2, <1>b, ConcatLaws
        <4>2. NoSent(all, n, k) BY <1>2, <1>6, <1>11, <4>1, <1>a, ConcatLaws
        <4>3. said = {} BY <1>4, <1>7, <4>2, LastLaws
        <4>4. k \in held <=> k \in to BY <2>1, <2>4, <3>2 DEF Stands
        <4> QED BY <4>3, <4>4
      <3>3. NoSent(q, n, k) \/ \E i \in DOMAIN q : LastSent(q, n, k, i) BY LastLaws
      <3> QED BY <3>1, <3>2, <3>3
    <2> QED BY <1>5, <2>3, <2>4
  <1>12. NoSent(m, n, k) \/ \E i \in DOMAIN m : LastSent(m, n, k, i) BY <1>2, LastLaws
  <1> QED BY <1>10, <1>11, <1>12 DEF SaidOk
-----------------------------------------------------------------------------
(* What the invariant says of a node and its keys.                         *)
LEMMA KeysTyped ==
  ASSUME NEW n \in Nodes, NEW k \in Keys(n) PROVE k \in KeySet
  BY DEF Keys, KeySet

LEMMA HandsLaws ==
  /\ None \in Hands
  /\ \A n \in Nodes : \A e \in InHand(n) : e \in Hands /\ e \in Sent /\ e.n = n /\ e.k \in KeySet
  /\ \A n \in Nodes : \A k : ~Says(None, n, k)
  <1>1. \A n \in Nodes : n # 0 BY NodesAssumption
  <1>2. None.n = 0 BY DEF None
  <1>3. ASSUME NEW n \in Nodes, NEW e \in InHand(n) PROVE e \in Hands BY DEF Hands
  <1>4. ASSUME NEW n \in Nodes, NEW e \in InHand(n) PROVE e \in Sent /\ e.n = n /\ e.k \in KeySet
    BY DEF InHand, Sent
  <1>5. None \in Hands BY DEF Hands
  <1>6. \A n \in Nodes : \A k : ~Says(None, n, k) BY <1>1, <1>2 DEF Says
  <1> QED BY <1>3, <1>4, <1>5, <1>6

LEMMA NodeTyped ==
  ASSUME TypeInv, NEW n \in Nodes
  PROVE  /\ buf[n] \in Seq(InBuf(n)) /\ Len(buf[n]) \in Nat
         /\ down[n] \in SUBSET KeySet /\ told[n] \in SUBSET KeySet
         /\ events \in Seq(Sent)
  <1>1. buf[n] \in Seq(InBuf(n)) BY DEF TypeInv
  <1>2. Len(buf[n]) \in Nat BY <1>1, LenProperties
  <1> QED BY <1>1, <1>2 DEF TypeInv

(* Nothing about the keys changes.                                         *)
LEMMA KeysFrame ==
  ASSUME KeysInv, UNCHANGED <<down, events, told, astray>>,
         \A n \in Nodes : buf'[n] = buf[n] /\ rd'[n].ev = rd[n].ev
  PROVE  KeysInv'
  <1> SUFFICES ASSUME NEW n \in Nodes, NEW k \in Keys(n) PROVE KeyOk(n, k)'
    BY DEF KeysInv, Keys
  <1>1. KeyOk(n, k) BY DEF KeysInv
  <1> QED BY <1>1 DEF KeyOk

(* Nothing about the keys of one node does.                                *)
LEMMA KeyFrame ==
  ASSUME KeysInv, NEW n \in Nodes, NEW k \in Keys(n),
         down'[n] = down[n], buf'[n] = buf[n], rd'[n].ev = rd[n].ev, events' = events,
         told'[n] = told[n], <<n, k>> \in astray => <<n, k>> \in astray'
  PROVE  KeyOk(n, k)'
  <1>1. KeyOk(n, k) BY DEF KeysInv
  <1> QED BY <1>1 DEF KeyOk

LEMMA ReaderFrame ==
  ASSUME NEW m \in Nodes, ReaderOk(m), rd'[m].pc = rd[m].pc, rd'[m].ev = rd[m].ev,
         rd'[m].alive => rd[m].alive, rd'[m].alive \in BOOLEAN, m \in open' <=> m \in open
  PROVE  ReaderOk(m)'
  <1>1. rd'[m].pc \in {"none", "read", "emit"} BY DEF ReaderOk
  <1>2. (rd'[m].pc = "emit" => rd'[m].ev \in InHand(m)) /\ (rd'[m].pc # "emit" => rd'[m].ev = None) BY DEF ReaderOk
  <1>3. (m \in open' <=> rd'[m].pc # "none") /\ (rd'[m].pc = "none" => ~rd'[m].alive) BY DEF ReaderOk
  <1> QED BY <1>1, <1>2, <1>3, Zenon DEF ReaderOk

LEMMA EmptyLaws ==
  ASSUME NEW n \in Nodes, NEW k
  PROVE  Stands({}, <<>>, None, <<>>, {}, n, k) /\ Repeats({}, <<>>, k)
  <1>1. DOMAIN <<>> = {} OBVIOUS
  <1>2. ~Says(None, n, k) BY HandsLaws
  <1> QED BY <1>1, <1>2 DEF Stands, Repeats

LEMMA HeldLaws ==
  ASSUME NEW held, NEW before, NEW b, NEW ev, NEW q, NEW to, NEW n, NEW k, k \in held <=> k \in before,
         Stands(before, b, ev, q, to, n, k), Repeats(before, b, k)
  PROVE  Stands(held, b, ev, q, to, n, k) /\ Repeats(held, b, k)
  BY DEF Stands, Repeats

LEMMA InitIInv ==
  ASSUME Init PROVE IInv
  <1>1. TypeInv
    <2>1. buf = [n \in Nodes |-> <<>>] /\ events = <<>> /\ hot = Waiting /\ rd = [n \in Nodes |-> NoReader] BY DEF Init
    <2>2. down \in [Nodes -> SUBSET KeySet] /\ told \in [Nodes -> SUBSET KeySet] BY DEF Init
    <2>3. DOMAIN buf = Nodes /\ \A n \in Nodes : buf[n] \in Seq(InBuf(n)) BY <2>1
    <2>4. NoReader \in ReaderT BY HandsLaws DEF NoReader, ReaderT
    <2>5. Waiting \in [pc : {"wait", "look", "register", "none"}, todo : SUBSET Nodes, n : Nodes \cup {0}, alive : BOOLEAN]
      BY DEF Waiting
    <2>6. events \in Seq(Sent) BY <2>1
    <2>7. plugged \in SUBSET Nodes /\ quit \in BOOLEAN BY Zenon DEF Init
    <2> QED BY <2>1, <2>2, <2>3, <2>4, <2>5, <2>6, <2>7 DEF TypeInv
  <1>2. ReadersInv BY DEF Init, ReadersInv, HotOk, ReaderOk, Waiting, NoReader
  <1>3. HeardInv
    <2>1. \A n \in Nodes : buf[n] = <<>> BY DEF Init
    <2>2. Len(<<>>) = 0 OBVIOUS
    <2> QED BY <2>1, <2>2 DEF HeardInv
  <1>4. KeysInv
    <2> SUFFICES ASSUME NEW n \in Nodes, NEW k \in Keys(n) PROVE KeyOk(n, k) BY DEF KeysInv
    <2>1. down[n] = {} /\ buf[n] = <<>> /\ rd[n].ev = None /\ events = <<>> /\ told[n] = {}
      BY DEF Init, NoReader
    <2>2. Stands({}, <<>>, None, <<>>, {}, n, k) /\ Repeats({}, <<>>, k) BY EmptyLaws
    <2> QED BY <2>1, <2>2 DEF KeyOk
  <1> QED BY <1>1, <1>2, <1>3, <1>4 DEF IInv
-----------------------------------------------------------------------------
(* The devices.                                                            *)
LEMMA PlugStep ==
  ASSUME IInv, NEW n \in Nodes, Plug(n) PROVE IInv'
  <1>1. UNCHANGED <<down, buf, open, rd, hot, quit, events, told, astray>> BY DEF Plug, reader
  <1>2. plugged' \in SUBSET Nodes BY DEF Plug, IInv, TypeInv
  <1>3. TypeInv' BY <1>1, <1>2 DEF IInv, TypeInv
  <1>4. ReadersInv' BY <1>1 DEF IInv, ReadersInv, HotOk, ReaderOk
  <1>5. ~quit' => HeardInv' BY <1>1 DEF IInv, HeardInv, Heard
  <1>6. ~quit' => KeysInv'
    <2>1. KeysInv => KeysInv' BY <1>1, KeysFrame
    <2> QED BY <1>1, <2>1 DEF IInv
  <1> QED BY <1>3, <1>4, <1>5, <1>6 DEF IInv

LEMMA UnplugStep ==
  ASSUME IInv, NEW n \in Nodes, Unplug(n) PROVE IInv'
  <1>0. TypeInv /\ ReadersInv /\ ~quit /\ HeardInv /\ KeysInv BY Zenon DEF IInv, Unplug
  <1>1. UNCHANGED <<open, quit, events, told>> BY DEF Unplug
  <1>2. \A m \in Nodes : /\ m # n => down'[m] = down[m] /\ buf'[m] = buf[m] /\ rd'[m] = rd[m]
                         /\ rd'[m].pc = rd[m].pc /\ rd'[m].ev = rd[m].ev
    BY <1>0 DEF Unplug, TypeInv, ReaderT
  <1>3. buf'[n] = <<>> /\ ~rd'[n].alive BY <1>0 DEF Unplug, TypeInv, ReaderT
  <1>4. hot'.pc = hot.pc /\ hot'.n = hot.n /\ (hot'.alive => hot.alive) /\ (hot.n # n => hot' = hot) /\ hot'.alive \in BOOLEAN
    BY <1>0 DEF Unplug, TypeInv
  <1>5. TypeInv'
    <2>1. down' \in [Nodes -> SUBSET KeySet] BY <1>0 DEF Unplug, TypeInv
    <2>2. rd' \in [Nodes -> ReaderT]
      <3>1. rd \in [Nodes -> ReaderT] BY <1>0 DEF TypeInv
      <3>2. rd' = [rd EXCEPT ![n] = [rd[n] EXCEPT !.alive = FALSE]] BY DEF Unplug
      <3>3. [rd[n] EXCEPT !.alive = FALSE] \in ReaderT BY <3>1 DEF ReaderT
      <3> QED BY <3>1, <3>2, <3>3
    <2>3. hot' \in [pc : {"wait", "look", "register", "none"}, todo : SUBSET Nodes, n : Nodes \cup {0}, alive : BOOLEAN]
      BY <1>0 DEF Unplug, TypeInv
    <2>4. DOMAIN buf' = Nodes BY <1>0 DEF Unplug, TypeInv
    <2>5. ASSUME NEW m \in Nodes PROVE buf'[m] \in Seq(InBuf(m))
      <3>1. <<>> \in Seq(InBuf(m)) OBVIOUS
      <3> QED BY <1>0, <1>2, <1>3, <3>1 DEF TypeInv
    <2>6. plugged' \in SUBSET Nodes BY <1>0 DEF Unplug, TypeInv
    <2> QED BY <1>0, <1>1, <2>1, <2>2, <2>3, <2>4, <2>5, <2>6 DEF TypeInv
  <1>6. ReadersInv'
    <2>1. HotOk' BY <1>0, <1>1, <1>4 DEF ReadersInv, HotOk
    <2>2. ASSUME NEW m \in Nodes PROVE ReaderOk(m)'
      <3>1. ReaderOk(m) BY <1>0 DEF ReadersInv
      <3>2. rd'[m].alive => rd[m].alive BY <1>2, <1>3
      <3>3. rd'[m].alive \in BOOLEAN BY <1>5 DEF TypeInv, ReaderT
      <3>4. rd'[m].pc = rd[m].pc /\ rd'[m].ev = rd[m].ev /\ open' = open BY <1>1, <1>2
      <3> QED BY <3>1, <3>2, <3>3, <3>4, ReaderFrame
    <2> QED BY <2>1, <2>2 DEF ReadersInv
  <1>7. HeardInv'
    <2>1. Len(<<>>) = 0 OBVIOUS
    <2>2. ASSUME NEW m \in Nodes, m # n, ~Heard(m)' PROVE ~Heard(m) BY <1>2, <1>4, <2>2 DEF Heard
    <2> QED BY <1>0, <1>2, <1>3, <2>1, <2>2 DEF HeardInv
  <1>8. KeysInv'
    <2> SUFFICES ASSUME NEW m \in Nodes, NEW k \in Keys(m) PROVE KeyOk(m, k)'
      BY DEF KeysInv, Keys
    <2>1. astray' = astray \cup ({n} \X Keys(n)) BY DEF Unplug
    <2>2. CASE m = n
      <3>1. <<m, k>> \in astray' BY <2>1, <2>2
      <3> QED BY <3>1 DEF KeyOk
    <2>3. CASE m # n
      <3>1. <<m, k>> \in astray => <<m, k>> \in astray' BY <2>1
      <3> QED BY <1>0, <1>1, <1>2, <2>3, <3>1, KeyFrame
    <2> QED BY <2>2, <2>3
  <1> QED BY <1>5, <1>6, <1>7, <1>8 DEF IInv

(* The kernel keeps one more.                                              *)
LEMMA PushBuf ==
  ASSUME TypeInv, HeardInv, NEW n \in Nodes, Heard(n), NEW e \in InBuf(n),
         buf' = [buf EXCEPT ![n] = Append(@, e)], rd' = rd, hot' = hot
  PROVE  /\ DOMAIN buf' = Nodes /\ \A m \in Nodes : buf'[m] \in Seq(InBuf(m))
         /\ buf'[n] = Append(buf[n], e) /\ \A m \in Nodes : m # n => buf'[m] = buf[m]
         /\ HeardInv'
  <1>1. DOMAIN buf' = Nodes /\ buf'[n] = Append(buf[n], e) /\ \A m \in Nodes : m # n => buf'[m] = buf[m]
    BY DEF TypeInv
  <1>2. buf[n] \in Seq(InBuf(n)) /\ \A m \in Nodes : buf[m] \in Seq(InBuf(m)) BY DEF TypeInv
  <1>3. Append(buf[n], e) \in Seq(InBuf(n)) BY <1>2, AppendLaws
  <1>4. HeardInv' BY <1>1 DEF HeardInv, Heard
  <1> QED BY <1>1, <1>2, <1>3, <1>4

LEMMA ReadersFrame ==
  ASSUME ReadersInv, UNCHANGED <<open, rd, hot>> PROVE ReadersInv'
  BY DEF ReadersInv, HotOk, ReaderOk

LEMMA TypeStep ==
  ASSUME IInv, NEW n \in Nodes, NEW c \in Keys(n), Type(n, c) PROVE IInv'
  <1> DEFINE e == [n |-> n, k |-> c, v |-> IF c \notin down[n] THEN "press" ELSE "release"]
  <1>0. TypeInv /\ ReadersInv /\ ~quit /\ HeardInv /\ KeysInv BY Zenon DEF IInv, Type
  <1>1. UNCHANGED <<plugged, open, rd, hot, quit, events, told>> BY DEF Type, reader
  <1>2. down' = [down EXCEPT ![n] = IF c \notin down[n] THEN @ \cup {c} ELSE @ \ {c}] BY DEF Type
  <1>3. Heard(n) => buf' = [buf EXCEPT ![n] = Append(@, e)] /\ astray' = astray \ {<<n, c>>} BY DEF Type
  <1>4. ~Heard(n) => buf' = buf /\ astray' = astray \cup {<<n, c>>} BY DEF Type
  <1>5. e \in InBuf(n) /\ e.k = c /\ e.v \in {"press", "release"} /\ (c \notin down[n] <=> e.v = "press")
    BY KeysTyped DEF InBuf, Typed
  <1> HIDE DEF e
  <1>6. c \in KeySet BY KeysTyped
  <1>7. down' \in [Nodes -> SUBSET KeySet] /\ \A m \in Nodes : m # n => down'[m] = down[m]
    BY <1>0, <1>2, <1>6 DEF TypeInv
  <1>8. \A k : k # c => (k \in down'[n] <=> k \in down[n]) BY <1>0, <1>2 DEF TypeInv
  <1>9. c \in down'[n] <=> c \notin down[n] BY <1>0, <1>2 DEF TypeInv
  <1>10. ASSUME Heard(n)
         PROVE  /\ DOMAIN buf' = Nodes /\ \A m \in Nodes : buf'[m] \in Seq(InBuf(m))
                /\ buf'[n] = Append(buf[n], e) /\ \A m \in Nodes : m # n => buf'[m] = buf[m]
                /\ HeardInv'
    <2>1. rd' = rd /\ hot' = hot /\ buf' = [buf EXCEPT ![n] = Append(@, e)] BY <1>1, <1>3, <1>10
    <2> QED BY <1>0, <1>5, <1>10, <2>1, PushBuf
  <1>11. TypeInv'
    <2>1. DOMAIN buf' = Nodes /\ \A m \in Nodes : buf'[m] \in Seq(InBuf(m)) BY <1>0, <1>4, <1>10 DEF TypeInv
    <2> QED BY <1>0, <1>1, <1>7, <2>1 DEF TypeInv
  <1>12. ReadersInv' BY <1>0, <1>1, ReadersFrame
  <1>13. HeardInv'
    <2>1. ~Heard(n) => HeardInv' BY <1>0, <1>1, <1>4 DEF HeardInv, Heard
    <2> QED BY <1>10, <2>1
  <1>14. KeysInv'
    <2> SUFFICES ASSUME NEW m \in Nodes, NEW k \in Keys(m), <<m, k>> \notin astray'
                 PROVE  Stands(down'[m], buf'[m], rd'[m].ev, events', told'[m], m, k) /\ Repeats(down'[m], buf'[m], k)
      BY DEF KeysInv, Keys, KeyOk
    <2>1. rd' = rd /\ events' = events /\ told' = told BY <1>1
    <2>2. CASE m # n
      <3>1. <<m, k>> \notin astray BY <1>3, <1>4, <2>2
      <3>2. down'[m] = down[m] /\ buf'[m] = buf[m] BY <1>4, <1>7, <1>10, <2>2
      <3> QED BY <1>0, <2>1, <3>1, <3>2 DEF KeysInv, KeyOk
    <2>3. CASE m = n /\ k = c
      <3>1. Heard(n) BY <1>4, <2>3
      <3>2. buf'[n] = Append(buf[n], e) BY <1>10, <3>1
      <3>3. buf[n] \in Seq(InBuf(n)) BY <1>0, NodeTyped
      <3>4. c \in down'[n] <=> e.v = "press" BY <1>5, <1>9
      <3>5. Stands(down'[n], Append(buf[n], e), rd[n].ev, events, told[n], n, c) /\ Repeats(down'[n], Append(buf[n], e), c)
        BY <1>5, <3>3, <3>4, PushTyped
      <3> QED BY <2>1, <2>3, <3>2, <3>5
    <2>4. CASE m = n /\ k # c
      <3>1. <<n, k>> \notin astray
        <4>1. <<n, k>> # <<n, c>> BY <2>4
        <4> QED BY <1>3, <1>4, <2>4, <4>1
      <3>2. Stands(down[n], buf[n], rd[n].ev, events, told[n], n, k) /\ Repeats(down[n], buf[n], k)
        BY <1>0, <2>4, <3>1 DEF KeysInv, KeyOk
      <3>3. k \in down'[n] <=> k \in down[n] BY <1>8, <2>4
      <3>4. CASE Heard(n)
        <4>1. buf'[n] = Append(buf[n], e) BY <1>10, <3>4
        <4>2. buf[n] \in Seq(InBuf(n)) BY <1>0, NodeTyped
        <4>3. Stands(down'[n], Append(buf[n], e), rd[n].ev, events, told[n], n, k) /\ Repeats(down'[n], Append(buf[n], e), k)
          BY <1>5, <2>4, <3>2, <3>3, <4>2, PushOther
        <4> QED BY <2>1, <2>4, <4>1, <4>3
      <3>5. CASE ~Heard(n)
        <4>1. buf' = buf BY <1>4, <3>5
        <4>2. Stands(down'[n], buf[n], rd[n].ev, events, told[n], n, k) /\ Repeats(down'[n], buf[n], k)
          BY <3>2, <3>3, HeldLaws
        <4> QED BY <2>1, <2>4, <4>1, <4>2
      <3> QED BY <3>4, <3>5
    <2> QED BY <2>2, <2>3, <2>4
  <1> QED BY <1>11, <1>12, <1>13, <1>14 DEF IInv

(* What is kept of a node says nothing new of any key.                     *)
LEMMA SaysNothing ==
  ASSUME IInv, ~quit, NEW n \in Nodes, Heard(n), NEW e \in InBuf(n), e.v = "repeat" \/ e.k \notin KeySet,
         e.v = "repeat" => e.k \in down[n],
         buf' = [buf EXCEPT ![n] = Append(@, e)], UNCHANGED <<plugged, down, astray, open, rd, hot, quit, events, told>>
  PROVE  IInv'
  <1>0. TypeInv /\ ReadersInv /\ HeardInv /\ KeysInv BY DEF IInv
  <1>1. /\ DOMAIN buf' = Nodes /\ \A m \in Nodes : buf'[m] \in Seq(InBuf(m))
        /\ buf'[n] = Append(buf[n], e) /\ \A m \in Nodes : m # n => buf'[m] = buf[m]
        /\ HeardInv'
    <2>1. rd' = rd /\ hot' = hot OBVIOUS
    <2> QED BY <1>0, <2>1, PushBuf
  <1>2. TypeInv' BY <1>0, <1>1 DEF TypeInv
  <1>3. ReadersInv' BY <1>0, ReadersFrame
  <1>4. KeysInv'
    <2> SUFFICES ASSUME NEW m \in Nodes, NEW k \in Keys(m), <<m, k>> \notin astray'
                 PROVE  Stands(down'[m], buf'[m], rd'[m].ev, events', told'[m], m, k) /\ Repeats(down'[m], buf'[m], k)
      BY DEF KeysInv, Keys, KeyOk
    <2>1. rd' = rd /\ events' = events /\ told' = told /\ down' = down /\ <<m, k>> \notin astray OBVIOUS
    <2>2. Stands(down[m], buf[m], rd[m].ev, events, told[m], m, k) /\ Repeats(down[m], buf[m], k)
      BY <1>0, <2>1 DEF KeysInv, KeyOk
    <2>3. CASE m # n BY <1>1, <2>1, <2>2, <2>3
    <2>4. CASE m = n
      <3>1. k \in KeySet BY KeysTyped
      <3>2. (e.k # k \/ e.v = "repeat") /\ (e.k = k => k \in down[n]) BY <3>1
      <3>3. buf[n] \in Seq(InBuf(n)) BY <1>0, NodeTyped
      <3>4. Stands(down[n], Append(buf[n], e), rd[n].ev, events, told[n], n, k) /\ Repeats(down[n], Append(buf[n], e), k)
        BY <2>2, <2>4, <3>2, <3>3, PushOther
      <3> QED BY <1>1, <2>1, <2>4, <3>4
    <2> QED BY <2>3, <2>4
  <1> QED BY <1>1, <1>2, <1>3, <1>4 DEF IInv

LEMMA RepeatStep ==
  ASSUME IInv, NEW n \in Nodes, NEW c \in Keys(n), Repeat(n, c) PROVE IInv'
  <1> DEFINE e == [n |-> n, k |-> c, v |-> "repeat"]
  <1>1. c \in down[n] /\ ~quit /\ Heard(n) /\ buf' = [buf EXCEPT ![n] = Append(@, e)] BY DEF Repeat
  <1>2. UNCHANGED <<plugged, down, astray, open, rd, hot, quit, events, told>> BY DEF Repeat, reader
  <1>3. e \in InBuf(n) /\ e.v = "repeat" /\ e.k = c BY KeysTyped DEF InBuf, Typed
  <1> HIDE DEF e
  <1> QED BY <1>1, <1>2, <1>3, SaysNothing

LEMMA SlideStep ==
  ASSUME IInv, NEW n \in Nodes, Slide(n) PROVE IInv'
  <1>1. ~quit /\ Heard(n) /\ buf' = [buf EXCEPT ![n] = Append(@, Move)] BY DEF Slide
  <1>2. UNCHANGED <<plugged, down, astray, open, rd, hot, quit, events, told>> BY DEF Slide, reader
  <1>3. Move \in InBuf(n) /\ Move.v # "repeat" /\ Move.k \notin KeySet BY DEF InBuf, Move, KeySet
  <1> QED BY <1>1, <1>2, <1>3, SaysNothing
-----------------------------------------------------------------------------
(* The readers.                                                            *)

LEMMA Taken ==
  ASSUME rd \in [Nodes -> ReaderT], NEW n \in Nodes, NEW p \in {"none", "read", "emit"}, NEW h \in Hands,
         rd' = [rd EXCEPT ![n].pc = p, ![n].ev = h]
  PROVE  /\ rd' \in [Nodes -> ReaderT] /\ \A m \in Nodes : m # n => rd'[m] = rd[m]
         /\ rd'[n].pc = p /\ rd'[n].ev = h /\ (rd'[n].alive <=> rd[n].alive)
  <1>1. rd[n] \in ReaderT OBVIOUS
  <1>2. [rd[n] EXCEPT !.pc = p, !.ev = h] \in ReaderT BY <1>1 DEF ReaderT
  <1>3. rd' = [rd EXCEPT ![n] = [rd[n] EXCEPT !.pc = p, !.ev = h]] OBVIOUS
  <1>4. rd' \in [Nodes -> ReaderT] /\ (\A m \in Nodes : m # n => rd'[m] = rd[m]) /\ rd'[n] = [rd[n] EXCEPT !.pc = p, !.ev = h]
    BY <1>2, <1>3
  <1>5. rd'[n].pc = p /\ rd'[n].ev = h /\ rd'[n].alive = rd[n].alive BY <1>1, <1>4 DEF ReaderT
  <1> QED BY <1>4, <1>5

(* What readDevice does with what it reads: a movement, a button that      *)
(* repeats, or a key.                                                      *)
LEMMA ReadDoes ==
  ASSUME TypeInv, ReadersInv, NEW n \in Nodes, Read(n), NEW e, e = Head(buf[n])
  PROVE  /\ buf[n] # <<>> /\ buf[n] \in Seq(InBuf(n)) /\ e \in InBuf(n)
         /\ DOMAIN buf' = Nodes /\ buf'[n] = Tail(buf[n]) /\ \A m \in Nodes : m # n => buf'[m] = buf[m]
         /\ \A m \in Nodes : buf'[m] \in Seq(InBuf(m))
         /\ \/ /\ e = Move /\ rd' = rd
               /\ events' = Append(events, HandleKey(Move)) \/ events' = events
            \/ e # Move /\ Over(e) /\ rd' = rd /\ events' = events
            \/ /\ e # Move /\ ~Over(e) /\ events' = events
               /\ rd' = [rd EXCEPT ![n].pc = "emit", ![n].ev = HandleKey(e)]
  <1>1. buf[n] # <<>> /\ buf' = [buf EXCEPT ![n] = Tail(buf[n])] BY DEF Read
  <1>2. \A m \in Nodes : buf[m] \in Seq(InBuf(m)) BY DEF TypeInv
  <1>3. e \in InBuf(n) /\ Tail(buf[n]) \in Seq(InBuf(n)) BY <1>1, <1>2, TailLaws
  <1>4. DOMAIN buf = Nodes BY DEF TypeInv
  <1>5. DOMAIN buf' = Nodes /\ buf'[n] = Tail(buf[n]) /\ \A m \in Nodes : m # n => buf'[m] = buf[m]
    BY <1>1, <1>4
  <1>6. \A m \in Nodes : buf'[m] \in Seq(InBuf(m)) BY <1>2, <1>3, <1>5
  <1>8. CASE e = Move
    <2>1. rd' = rd /\ (events' = Append(events, HandleKey(Move)) \/ events' = events) BY <1>8 DEF Read
    <2> QED BY <1>1, <1>2, <1>3, <1>5, <1>6, <1>8, <2>1
  <1>9. CASE e # Move /\ Over(e)
    <2>1. rd' = rd /\ events' = events BY <1>9 DEF Read, Over, HandleButton
    <2> QED BY <1>1, <1>2, <1>3, <1>5, <1>6, <1>9, <2>1
  <1>10. CASE e # Move /\ ~Over(e)
    <2>1. events' = events /\ rd' = [rd EXCEPT ![n].pc = "emit", ![n].ev = HandleKey(e)]
      BY <1>10 DEF Read, Over, HandleButton
    <2> QED BY <1>1, <1>2, <1>3, <1>5, <1>6, <1>10, <2>1
  <1> QED BY <1>8, <1>9, <1>10

LEMMA ReadStep ==
  ASSUME IInv, NEW n \in Nodes, Read(n) PROVE IInv'
  <1> DEFINE e == Head(buf[n])
             moved == e = Move /\ rd' = rd /\ (events' = Append(events, HandleKey(Move)) \/ events' = events)
             over == e # Move /\ Over(e) /\ rd' = rd /\ events' = events
             taken == /\ e # Move /\ ~Over(e) /\ events' = events
                      /\ rd' = [rd EXCEPT ![n].pc = "emit", ![n].ev = HandleKey(e)]
  <1>0. TypeInv /\ ReadersInv /\ (~quit => HeardInv /\ KeysInv) BY DEF IInv
  <1>1. UNCHANGED <<plugged, down, astray, open, hot, quit, told>> BY DEF Read, world
  <1>2. rd[n].pc = "read" /\ rd[n].alive BY DEF Read
  <1>3. /\ buf[n] # <<>> /\ buf[n] \in Seq(InBuf(n)) /\ e \in InBuf(n)
        /\ DOMAIN buf' = Nodes /\ buf'[n] = Tail(buf[n]) /\ \A m \in Nodes : m # n => buf'[m] = buf[m]
        /\ \A m \in Nodes : buf'[m] \in Seq(InBuf(m))
    BY <1>0, ReadDoes
  <1>4. moved \/ over \/ taken BY <1>0, ReadDoes
  <1>5. e # Move => e.k \in KeySet /\ HandleKey(e) \in InHand(n) BY <1>3, HandleLaws
  <1>6. HandleKey(Move) \in Sent /\ \A m \in Nodes : \A k \in KeySet : ~Says(HandleKey(Move), m, k)
    BY DEF Sent, HandleKey, Move, KeySet, Says
  <1>7. rd \in [Nodes -> ReaderT] /\ events \in Seq(Sent) BY <1>0 DEF TypeInv
  <1>8. rd[n].ev = None BY <1>0, <1>2 DEF ReadersInv, ReaderOk
  <1> HIDE DEF e
  <1>9. taken => /\ \A m \in Nodes : m # n => rd'[m] = rd[m]
                 /\ rd'[n].pc = "emit" /\ rd'[n].ev = HandleKey(e) /\ rd'[n].ev \in InHand(n)
                 /\ rd' \in [Nodes -> ReaderT] /\ rd'[n].alive
    <2> SUFFICES ASSUME taken PROVE /\ \A m \in Nodes : m # n => rd'[m] = rd[m]
                                    /\ rd'[n].pc = "emit" /\ rd'[n].ev = HandleKey(e) /\ rd'[n].ev \in InHand(n)
                                    /\ rd' \in [Nodes -> ReaderT] /\ rd'[n].alive
      OBVIOUS
    <2>1. HandleKey(e) \in InHand(n) /\ HandleKey(e) \in Hands BY <1>5, HandsLaws
    <2>2. rd' = [rd EXCEPT ![n].pc = "emit", ![n].ev = HandleKey(e)] OBVIOUS
    <2> HIDE DEF taken
    <2>3. "emit" \in {"none", "read", "emit"} OBVIOUS
    <2>4. /\ rd' \in [Nodes -> ReaderT] /\ \A m \in Nodes : m # n => rd'[m] = rd[m]
          /\ rd'[n].pc = "emit" /\ rd'[n].ev = HandleKey(e) /\ (rd'[n].alive <=> rd[n].alive)
      BY <1>7, <2>1, <2>2, <2>3, Taken
    <2> QED BY <1>2, <2>1, <2>4
  <1>10. rd'[n].alive BY <1>2, <1>4, <1>9
  <1>11. \A m \in Nodes : m # n => rd'[m] = rd[m] BY <1>4, <1>9
  <1>12. TypeInv'
    <2>1. rd' \in [Nodes -> ReaderT] BY <1>4, <1>7, <1>9
    <2>2. events' \in Seq(Sent)
      <3>1. Append(events, HandleKey(Move)) \in Seq(Sent) BY <1>6, <1>7, AppendLaws
      <3> QED BY <1>4, <1>7, <3>1
    <2> HIDE DEF moved, over, taken
    <2> QED BY <1>0, <1>1, <1>3, <2>1, <2>2 DEF TypeInv
  <1>13. ReadersInv'
    <2>1. HotOk' BY <1>0, <1>1 DEF ReadersInv, HotOk
    <2>2. ASSUME NEW m \in Nodes PROVE ReaderOk(m)'
      <3>1. ReaderOk(m) /\ open' = open BY <1>0, <1>1 DEF ReadersInv
      <3>2. CASE rd'[m] = rd[m] BY <3>1, <3>2 DEF ReaderOk
      <3>3. CASE m = n /\ taken
        <4>1. rd'[n].alive \in BOOLEAN BY <1>9, <3>3 DEF ReaderT
        <4>2. rd'[n].pc = "emit" /\ rd'[n].ev \in InHand(n) /\ n \in open' BY <1>2, <1>9, <3>1, <3>3 DEF ReaderOk
        <4> HIDE DEF taken
        <4> QED BY <3>3, <4>1, <4>2 DEF ReaderOk
      <3> QED BY <1>4, <1>11, <3>2, <3>3
    <2> QED BY <2>1, <2>2 DEF ReadersInv
  <1>14. ~quit' => HeardInv'
    <2> SUFFICES ASSUME ~quit, NEW m \in Nodes, ~Heard(m)' PROVE Len(buf'[m]) = 0 BY <1>1 DEF HeardInv
    <2>1. m # n BY <1>10 DEF Heard
    <2>2. hot' = hot /\ rd'[m] = rd[m] /\ buf'[m] = buf[m] BY <1>1, <1>3, <1>11, <2>1
    <2>3. ~Heard(m) BY <2>2 DEF Heard
    <2> QED BY <1>0, <2>2, <2>3 DEF HeardInv
  <1>15. ~quit' => KeysInv'
    <2> SUFFICES ASSUME ~quit, NEW m \in Nodes, NEW k \in Keys(m), <<m, k>> \notin astray
                 PROVE  Stands(down[m], buf'[m], rd'[m].ev, events', told[m], m, k) /\ Repeats(down[m], buf'[m], k)
      BY <1>1 DEF KeysInv, Keys, KeyOk
    <2>1. Stands(down[m], buf[m], rd[m].ev, events, told[m], m, k) /\ Repeats(down[m], buf[m], k)
      BY <1>0 DEF KeysInv, KeyOk
    <2>2. k \in KeySet BY KeysTyped
    <2>3. Stands(down[m], buf[m], rd[m].ev, events', told[m], m, k)
      <3>1. Stands(down[m], buf[m], rd[m].ev, Append(events, HandleKey(Move)), told[m], m, k)
        BY <1>6, <1>7, <2>1, <2>2, SendOther
      <3> QED BY <1>4, <2>1, <3>1
    <2>4. CASE m # n BY <1>3, <1>11, <2>1, <2>3, <2>4
    <2>5. CASE m = n
      <3>1. Repeats(down[n], Tail(buf[n]), k) BY <1>3, <2>1, <2>5, PopRepeats
      <3>2. CASE e.k # k \/ Over(e)
        <4>1. Stands(down[n], Tail(buf[n]), rd[n].ev, events', told[n], n, k)
          BY <1>3, <2>3, <2>5, <3>2, PopOther DEF e
        <4>2. CASE rd' = rd BY <1>3, <2>5, <3>1, <4>1, <4>2
        <4>3. CASE taken
          <5>1. e.k # k /\ rd'[n].ev = HandleKey(e) BY <1>9, <3>2, <4>3
          <5>2. HandleKey(e).k = e.k BY <1>3, HandleLaws
          <5>3. ~Says(rd'[n].ev, n, k) BY <5>1, <5>2 DEF Says
          <5>4. ~Says(rd[n].ev, n, k) BY <1>8, HandsLaws
          <5>5. Stands(down[n], Tail(buf[n]), rd'[n].ev, events', told[n], n, k) BY <4>1, <5>3, <5>4, HandOther
          <5> HIDE DEF taken
          <5> QED BY <1>3, <2>5, <3>1, <5>5
        <4> QED BY <1>4, <4>2, <4>3
      <3>3. CASE e.k = k /\ ~Over(e)
        <4>1. e # Move BY <2>2, <3>3 DEF Move, KeySet
        <4>2. taken BY <1>4, <3>3, <4>1
        <4>3. rd'[n].ev = HandleKey(e) BY <1>9, <4>2
        <4>4. Says(HandleKey(e), n, k) /\ (Pressed(HandleKey(e)) <=> e.v # "release") BY <1>3, <2>2, <3>3, HandleLaws
        <4>5. Stands(down[n], Tail(buf[n]), HandleKey(e), events', told[n], n, k)
          BY <1>3, <2>3, <2>5, <3>3, <4>4, PopSays DEF e
        <4> HIDE DEF taken
        <4> QED BY <1>3, <2>5, <3>1, <4>3, <4>5
      <3> QED BY <3>2, <3>3
    <2> QED BY <2>4, <2>5
  <1> QED BY <1>12, <1>13, <1>14, <1>15 DEF IInv

LEMMA EmitStep ==
  ASSUME IInv, NEW n \in Nodes, Emit(n) PROVE IInv'
  <1> DEFINE e == rd[n].ev
  <1>0. TypeInv /\ ReadersInv /\ (~quit => HeardInv /\ KeysInv) BY DEF IInv
  <1>1. UNCHANGED <<plugged, down, astray, buf, open, hot, quit, told>> BY DEF Emit, world
  <1>2. rd[n].pc = "emit" /\ events' = Append(events, e) /\ rd' = [rd EXCEPT ![n].pc = "read", ![n].ev = None] BY DEF Emit
  <1>3. rd \in [Nodes -> ReaderT] /\ events \in Seq(Sent) BY <1>0 DEF TypeInv
  <1>4. e \in InHand(n) BY <1>0, <1>2 DEF ReadersInv, ReaderOk
  <1>5. e \in Sent /\ e.n = n BY <1>4, HandsLaws
  <1>6. /\ rd' \in [Nodes -> ReaderT] /\ \A m \in Nodes : m # n => rd'[m] = rd[m]
        /\ rd'[n].pc = "read" /\ rd'[n].ev = None /\ (rd'[n].alive <=> rd[n].alive)
    <2>1. "read" \in {"none", "read", "emit"} /\ None \in Hands BY HandsLaws
    <2> QED BY <1>2, <1>3, <2>1, Taken
  <1> HIDE DEF e
  <1>7. events' \in Seq(Sent) BY <1>2, <1>3, <1>5, AppendLaws
  <1>8. TypeInv' BY <1>0, <1>1, <1>6, <1>7 DEF TypeInv
  <1>9. ReadersInv'
    <2>1. HotOk' BY <1>0, <1>1 DEF ReadersInv, HotOk
    <2>2. ASSUME NEW m \in Nodes PROVE ReaderOk(m)'
      <3>1. ReaderOk(m) /\ open' = open BY <1>0, <1>1 DEF ReadersInv
      <3>2. CASE m # n
        <4>1. rd'[m] = rd[m] BY <1>6, <3>2
        <4> QED BY <3>1, <4>1 DEF ReaderOk
      <3>3. CASE m = n
        <4>1. rd'[n].alive \in BOOLEAN BY <1>6 DEF ReaderT
        <4>2. rd'[n].pc = "read" /\ rd'[n].ev = None /\ n \in open' BY <1>2, <1>6, <3>1, <3>3 DEF ReaderOk
        <4> QED BY <3>3, <4>1, <4>2 DEF ReaderOk
      <3> QED BY <3>2, <3>3
    <2> QED BY <2>1, <2>2 DEF ReadersInv
  <1>10. ~quit' => HeardInv'
    <2> SUFFICES ASSUME ~quit, NEW m \in Nodes, ~Heard(m)' PROVE Len(buf[m]) = 0 BY <1>1 DEF HeardInv
    <2>1. rd'[m].alive <=> rd[m].alive BY <1>6
    <2>2. ~Heard(m) BY <1>1, <2>1 DEF Heard
    <2> QED BY <1>0, <2>2 DEF HeardInv
  <1>11. ~quit' => KeysInv'
    <2> SUFFICES ASSUME ~quit, NEW m \in Nodes, NEW k \in Keys(m), <<m, k>> \notin astray
                 PROVE  Stands(down[m], buf[m], rd'[m].ev, events', told[m], m, k) /\ Repeats(down[m], buf[m], k)
      BY <1>1 DEF KeysInv, Keys, KeyOk
    <2>1. Stands(down[m], buf[m], rd[m].ev, events, told[m], m, k) /\ Repeats(down[m], buf[m], k)
      BY <1>0 DEF KeysInv, KeyOk
    <2>2. CASE Says(e, m, k)
      <3>1. m = n BY <1>5, <2>2 DEF Says
      <3>2. ~Says(None, n, k) BY HandsLaws
      <3>3. Stands(down[n], buf[n], e, events, told[n], n, k) BY <2>1, <3>1 DEF e
      <3>4. Stands(down[n], buf[n], None, Append(events, e), told[n], n, k)
        BY <1>3, <1>5, <2>2, <3>1, <3>2, <3>3, SendSays
      <3> QED BY <1>2, <1>6, <2>1, <3>1, <3>4
    <2>3. CASE ~Says(e, m, k)
      <3>1. Stands(down[m], buf[m], rd[m].ev, Append(events, e), told[m], m, k)
        BY <1>3, <1>5, <2>1, <2>3, SendOther
      <3>2. CASE m # n BY <1>2, <1>6, <2>1, <3>1, <3>2
      <3>3. CASE m = n
        <4>1. ~Says(None, n, k) BY HandsLaws
        <4>2. Stands(down[n], buf[n], None, Append(events, e), told[n], n, k)
          BY <2>3, <3>1, <3>3, <4>1, HandOther DEF e
        <4> QED BY <1>2, <1>6, <2>1, <3>3, <4>2
      <3> QED BY <3>2, <3>3
    <2> QED BY <2>2, <2>3
  <1> QED BY <1>8, <1>9, <1>10, <1>11 DEF IInv

LEMMA ReaderEndsStep ==
  ASSUME IInv, NEW n \in Nodes, ReaderEnds(n) PROVE IInv'
  <1>0. TypeInv /\ ReadersInv /\ (~quit => HeardInv /\ KeysInv) BY DEF IInv
  <1>1. UNCHANGED <<plugged, down, astray, hot, quit, events, told>> BY DEF ReaderEnds, world
  <1>2. rd[n].pc # "none" /\ (~quit => rd[n].pc = "read" /\ ~rd[n].alive) BY DEF ReaderEnds
  <1>3. rd' = [rd EXCEPT ![n] = NoReader] /\ buf' = [buf EXCEPT ![n] = <<>>] /\ open' = open \ {n} BY DEF ReaderEnds
  <1>4. NoReader \in ReaderT /\ NoReader.pc = "none" /\ ~NoReader.alive /\ NoReader.ev = None /\ NoReader.alive \in BOOLEAN
    BY HandsLaws DEF NoReader, ReaderT
  <1>5. /\ rd' \in [Nodes -> ReaderT] /\ rd'[n] = NoReader /\ \A m \in Nodes : m # n => rd'[m] = rd[m]
        /\ DOMAIN buf' = Nodes /\ buf'[n] = <<>> /\ \A m \in Nodes : m # n => buf'[m] = buf[m]
    BY <1>0, <1>3, <1>4 DEF TypeInv
  <1>6. TypeInv'
    <2>1. <<>> \in Seq(InBuf(n)) OBVIOUS
    <2>2. \A m \in Nodes : buf'[m] \in Seq(InBuf(m)) BY <1>0, <1>5, <2>1 DEF TypeInv
    <2> QED BY <1>0, <1>1, <1>5, <2>2 DEF TypeInv
  <1>7. ReadersInv'
    <2>1. HotOk' BY <1>0, <1>1, <1>3 DEF ReadersInv, HotOk
    <2>2. ASSUME NEW m \in Nodes PROVE ReaderOk(m)'
      <3>1. ReaderOk(m) BY <1>0 DEF ReadersInv
      <3>2. CASE m # n
        <4>1. rd'[m] = rd[m] /\ (m \in open' <=> m \in open) BY <1>3, <1>5, <3>2
        <4> QED BY <3>1, <4>1 DEF ReaderOk
      <3>3. CASE m = n
        <4>1. n \notin open' BY <1>3
        <4> QED BY <1>4, <1>5, <3>3, <4>1 DEF ReaderOk
      <3> QED BY <3>2, <3>3
    <2> QED BY <2>1, <2>2 DEF ReadersInv
  <1>8. ~quit' => HeardInv'
    <2> SUFFICES ASSUME ~quit, NEW m \in Nodes, ~Heard(m)' PROVE Len(buf'[m]) = 0 BY <1>1 DEF HeardInv
    <2>1. CASE m = n BY <1>5, <2>1
    <2>2. CASE m # n
      <3>1. hot' = hot /\ rd'[m] = rd[m] /\ buf'[m] = buf[m] BY <1>1, <1>5, <2>2
      <3>2. ~Heard(m) BY <3>1 DEF Heard
      <3> QED BY <1>0, <3>1, <3>2 DEF HeardInv
    <2> QED BY <2>1, <2>2
  <1>9. ~quit' => KeysInv'
    <2> SUFFICES ASSUME ~quit PROVE KeysInv' BY <1>1
    <2>1. ~Heard(n)
      <3>1. n \in open BY <1>0, <1>2 DEF ReadersInv, ReaderOk
      <3>2. ~(hot.pc = "register" /\ hot.n = n) BY <1>0, <3>1 DEF ReadersInv, HotOk
      <3> QED BY <1>2, <3>2 DEF Heard
    <2>2. buf[n] = <<>>
      <3>1. Len(buf[n]) = 0 BY <1>0, <2>1 DEF HeardInv
      <3>2. buf[n] \in Seq(InBuf(n)) BY <1>0, NodeTyped
      <3> QED BY <3>1, <3>2, EmptySeq
    <2>3. rd[n].ev = None BY <1>0, <1>2 DEF ReadersInv, ReaderOk
    <2>4. \A m \in Nodes : buf'[m] = buf[m] /\ rd'[m].ev = rd[m].ev BY <1>4, <1>5, <2>2, <2>3
    <2> QED BY <1>0, <1>1, <2>4, KeysFrame
  <1> QED BY <1>6, <1>7, <1>8, <1>9 DEF IInv
-----------------------------------------------------------------------------
(* hotplug                                                                 *)
HotT == [pc : {"wait", "look", "register", "none"}, todo : SUBSET Nodes, n : Nodes \cup {0}, alive : BOOLEAN]

(* Every step but the one that starts a reader.                            *)
LEMMA HotStep ==
  ASSUME IInv, UNCHANGED <<plugged, down, astray, buf, open, rd, quit, events, told>>,
         hot' \in HotT, HotOk', ~quit => \A n \in Nodes : Heard(n) => Heard(n)'
  PROVE  IInv'
  <1>0. TypeInv /\ ReadersInv /\ (~quit => HeardInv /\ KeysInv) BY DEF IInv
  <1>1. TypeInv' BY <1>0 DEF TypeInv, HotT
  <1>2. ReadersInv' BY <1>0 DEF ReadersInv, ReaderOk
  <1>3. ~quit' => HeardInv' BY <1>0 DEF HeardInv
  <1>4. ~quit' => KeysInv' BY <1>0, KeysFrame
  <1> QED BY <1>1, <1>2, <1>3, <1>4 DEF IInv

LEMMA RescanStep ==
  ASSUME IInv, Rescan PROVE IInv'
  <1>0. TypeInv /\ ReadersInv BY DEF IInv
  <1>1. UNCHANGED <<plugged, down, astray, buf, open, rd, quit, events, told>> BY DEF Rescan, readers, world
  <1>2. hot.pc = "wait" /\ hot' = [Waiting EXCEPT !.pc = "look", !.todo = plugged] BY DEF Rescan, Listed
  <1>3. hot' \in HotT /\ hot'.pc = "look" /\ ~hot'.alive BY <1>0, <1>2 DEF Waiting, HotT, TypeInv
  <1>4. HotOk' BY <1>3 DEF HotOk, HotT
  <1>5. \A n \in Nodes : Heard(n) => Heard(n)' BY <1>1, <1>2 DEF Heard
  <1> QED BY <1>1, <1>3, <1>4, <1>5, HotStep

LEMMA LookStep ==
  ASSUME IInv, NEW n \in Nodes, Look(n) PROVE IInv'
  <1>0. TypeInv /\ ReadersInv BY DEF IInv
  <1>1. UNCHANGED <<plugged, down, astray, buf, open, rd, quit, events, told>> BY DEF Look, readers, world
  <1>2. hot.pc = "look" BY DEF Look
  <1>3. \/ hot' = [hot EXCEPT !.todo = @ \ {n}]
        \/ n \notin open /\ hot' = [pc |-> "register", todo |-> hot.todo \ {n}, n |-> n, alive |-> TRUE]
    BY DEF Look
  <1>4. hot \in HotT BY <1>0 DEF TypeInv, HotT
  <1>5. \A m \in Nodes : Heard(m) => Heard(m)' BY <1>1, <1>2 DEF Heard
  <1>6. CASE hot' = [hot EXCEPT !.todo = @ \ {n}]
    <2>1. hot' \in HotT /\ hot'.pc = "look" /\ hot'.alive = hot.alive BY <1>2, <1>4, <1>6 DEF HotT
    <2>2. ~hot.alive BY <1>0, <1>2 DEF ReadersInv, HotOk
    <2>3. HotOk' BY <2>1, <2>2 DEF HotOk, HotT
    <2> QED BY <1>1, <1>5, <2>1, <2>3, HotStep
  <1>7. CASE n \notin open /\ hot' = [pc |-> "register", todo |-> hot.todo \ {n}, n |-> n, alive |-> TRUE]
    <2>1. hot' \in HotT BY <1>4, <1>7 DEF HotT
    <2>2. HotOk' BY <1>1, <1>7 DEF HotOk
    <2> QED BY <1>1, <1>5, <2>1, <2>2, HotStep
  <1> QED BY <1>3, <1>6, <1>7

LEMMA LookedStep ==
  ASSUME IInv, Looked PROVE IInv'
  <1>1. UNCHANGED <<plugged, down, astray, buf, open, rd, quit, events, told>> BY DEF Looked, readers, world
  <1>2. hot.pc = "look" /\ hot' = Waiting BY DEF Looked
  <1>3. hot' \in HotT /\ hot'.pc = "wait" /\ ~hot'.alive BY <1>2 DEF Waiting, HotT
  <1>4. HotOk' BY <1>3 DEF HotOk, HotT
  <1>5. \A n \in Nodes : Heard(n) => Heard(n)' BY <1>1, <1>2 DEF Heard
  <1> QED BY <1>1, <1>3, <1>4, <1>5, HotStep

LEMMA HotplugEndsStep ==
  ASSUME IInv, HotplugEnds PROVE IInv'
  <1>1. UNCHANGED <<plugged, down, astray, buf, open, rd, quit, events, told>> BY DEF HotplugEnds, readers, world
  <1>2. quit /\ hot' = [Waiting EXCEPT !.pc = "none"] BY DEF HotplugEnds
  <1>3. hot' \in HotT /\ hot'.pc = "none" /\ ~hot'.alive BY <1>2 DEF Waiting, HotT
  <1>4. HotOk' BY <1>3 DEF HotOk, HotT
  <1> QED BY <1>1, <1>2, <1>3, <1>4, HotStep

LEMMA RegisterStep ==
  ASSUME IInv, Register PROVE IInv'
  <1> DEFINE n == hot.n
             new == [pc |-> "read", alive |-> hot.alive, ev |-> None]
  <1>0. TypeInv /\ ReadersInv /\ (~quit => HeardInv /\ KeysInv) BY DEF IInv
  <1>1. UNCHANGED <<plugged, down, astray, quit, events, told>> BY DEF Register, world
  <1>2. hot.pc = "register" /\ hot' = [hot EXCEPT !.pc = "look", !.n = 0, !.alive = FALSE] BY DEF Register
  <1>3. n \in Nodes /\ n \notin open BY <1>0, <1>2 DEF ReadersInv, HotOk
  <1>4. hot' \in HotT /\ hot'.pc = "look" /\ ~hot'.alive BY <1>0, <1>2 DEF TypeInv, HotT
  <1>5. HotOk' BY <1>4 DEF HotOk, HotT
  <1>6. CASE quit
    <2>1. buf' = [buf EXCEPT ![n] = <<>>] /\ open' = open /\ rd' = rd BY <1>6 DEF Register
    <2>2. DOMAIN buf' = Nodes /\ \A m \in Nodes : buf'[m] = buf[m] \/ buf'[m] = <<>> BY <1>0, <2>1 DEF TypeInv
    <2>3. ASSUME NEW m \in Nodes PROVE buf'[m] \in Seq(InBuf(m))
      <3>1. <<>> \in Seq(InBuf(m)) OBVIOUS
      <3>2. buf[m] \in Seq(InBuf(m)) BY <1>0, NodeTyped
      <3> QED BY <2>2, <3>1, <3>2
    <2>4. TypeInv' BY <1>0, <1>1, <1>4, <2>1, <2>2, <2>3 DEF TypeInv, HotT
    <2>5. ReadersInv' BY <1>0, <1>5, <2>1 DEF ReadersInv, ReaderOk
    <2> QED BY <1>1, <1>6, <2>4, <2>5 DEF IInv
  <1>7. CASE ~quit
    <2>1. open' = open \cup {n} /\ rd' = [rd EXCEPT ![n] = new] /\ buf' = buf BY <1>7 DEF Register
    <2>2. hot.alive \in BOOLEAN BY <1>0 DEF TypeInv
    <2>3. new \in ReaderT /\ new.pc = "read" /\ new.ev = None BY <2>2, HandsLaws DEF ReaderT
    <2>4. new.alive <=> hot.alive OBVIOUS
    <2> HIDE DEF new, n
    <2>5. rd' \in [Nodes -> ReaderT] /\ rd'[n] = new /\ \A m \in Nodes : m # n => rd'[m] = rd[m]
      BY <1>0, <1>3, <2>1, <2>3 DEF TypeInv
    <2>6. TypeInv' BY <1>0, <1>1, <1>4, <2>1, <2>5 DEF TypeInv, HotT
    <2>7. ASSUME NEW m \in Nodes PROVE ReaderOk(m)'
      <3>1. ReaderOk(m) BY <1>0 DEF ReadersInv
      <3>2. CASE m # n
        <4>1. rd'[m] = rd[m] /\ (m \in open' <=> m \in open) BY <2>1, <2>5, <3>2
        <4> QED BY <3>1, <4>1 DEF ReaderOk
      <3>3. CASE m = n
        <4>1. n \in open' /\ rd'[n].pc = "read" /\ rd'[n].ev = None BY <2>1, <2>3, <2>5
        <4>2. rd'[n].alive \in BOOLEAN BY <2>5, <1>3 DEF ReaderT
        <4> QED BY <3>3, <4>1, <4>2 DEF ReaderOk
      <3> QED BY <3>2, <3>3
    <2>8. ReadersInv' BY <1>5, <2>7 DEF ReadersInv
    <2>9. rd[n].pc = "none" /\ rd[n].ev = None
      <3>1. ReaderOk(n) BY <1>0, <1>3 DEF ReadersInv
      <3> QED BY <1>3, <3>1 DEF ReaderOk
    <2>10. HeardInv'
      <3> SUFFICES ASSUME NEW m \in Nodes, ~Heard(m)' PROVE Len(buf[m]) = 0 BY <2>1 DEF HeardInv
      <3>1. ~rd'[m].alive BY DEF Heard
      <3>2. ~Heard(m)
        <4>1. CASE m = n
          <5>1. ~hot.alive BY <2>4, <2>5, <3>1, <4>1
          <5>2. ~rd[n].alive BY <1>0, <1>3, <2>9 DEF ReadersInv, ReaderOk
          <5> QED BY <4>1, <5>1, <5>2 DEF Heard
        <4>2. CASE m # n BY <2>5, <3>1, <4>2 DEF Heard, n
        <4> QED BY <4>1, <4>2
      <3> QED BY <1>0, <1>7, <3>2 DEF HeardInv
    <2>11. KeysInv'
      <3>1. \A m \in Nodes : buf'[m] = buf[m] /\ rd'[m].ev = rd[m].ev BY <2>1, <2>3, <2>5, <2>9
      <3> QED BY <1>0, <1>1, <1>7, <3>1, KeysFrame
    <2> QED BY <2>6, <2>8, <2>10, <2>11 DEF IInv
  <1> QED BY <1>6, <1>7
-----------------------------------------------------------------------------
(* The loop.                                                               *)
LEMMA TakeStep ==
  ASSUME IInv, Take PROVE IInv'
  <1> DEFINE e == Head(events)
  <1>0. TypeInv /\ ReadersInv /\ ~quit /\ HeardInv /\ KeysInv BY Zenon DEF IInv, Take
  <1>1. UNCHANGED <<plugged, down, astray, buf, open, rd, hot, quit>> BY DEF Take, world
  <1>2. events # <<>> /\ events' = Tail(events) BY DEF Take
  <1>3. events \in Seq(Sent) BY <1>0 DEF TypeInv
  <1>4. e \in Sent /\ events' \in Seq(Sent) BY <1>2, <1>3, TailLaws
  <1>5. \/ e.k = "move" /\ told' = told
        \/ e.k # "move" /\ told' = [told EXCEPT ![e.n] = IF e.pressed THEN @ \cup {e.k} ELSE @ \ {e.k}]
    BY DEF Take
  <1>6. e.k # "move" => e \in [n : Nodes, k : KeySet, pressed : BOOLEAN]
    BY <1>4 DEF Sent, HandleKey, Move
  <1> HIDE DEF e
  <1>7. /\ told' \in [Nodes -> SUBSET KeySet]
        /\ \A m \in Nodes : \A k \in KeySet : /\ Says(e, m, k) => (k \in told'[m] <=> Pressed(e))
                                              /\ ~Says(e, m, k) => (k \in told'[m] <=> k \in told[m])
    <2>1. told \in [Nodes -> SUBSET KeySet] BY <1>0 DEF TypeInv
    <2>2. CASE e.k = "move"
      <3>1. \A m \in Nodes : \A k \in KeySet : ~Says(e, m, k) BY <2>2 DEF Says, KeySet
      <3> QED BY <1>5, <2>1, <2>2, <3>1
    <2>3. CASE e.k # "move"
      <3>1. e.n \in Nodes /\ e.k \in KeySet /\ e.pressed \in BOOLEAN BY <1>6, <2>3
      <3>2. CASE e.pressed
        <4>1. told' = [told EXCEPT ![e.n] = @ \cup {e.k}] BY <1>5, <2>3, <3>2
        <4>2. Pressed(e) BY <3>1, <3>2 DEF Pressed
        <4>3. told' \in [Nodes -> SUBSET KeySet] BY <2>1, <3>1, <4>1
        <4>4. \A m \in Nodes : \A k \in KeySet : /\ Says(e, m, k) => k \in told'[m]
                                                 /\ ~Says(e, m, k) => (k \in told'[m] <=> k \in told[m])
          BY <2>1, <3>1, <4>1 DEF Says
        <4> QED BY <4>2, <4>3, <4>4
      <3>3. CASE ~e.pressed
        <4>1. told' = [told EXCEPT ![e.n] = @ \ {e.k}] BY <1>5, <2>3, <3>3
        <4>2. ~Pressed(e) BY <3>1, <3>3 DEF Pressed
        <4>3. told' \in [Nodes -> SUBSET KeySet] BY <2>1, <3>1, <4>1
        <4>4. \A m \in Nodes : \A k \in KeySet : /\ Says(e, m, k) => k \notin told'[m]
                                                 /\ ~Says(e, m, k) => (k \in told'[m] <=> k \in told[m])
          BY <2>1, <3>1, <4>1 DEF Says
        <4> QED BY <4>2, <4>3, <4>4
      <3> QED BY <3>2, <3>3
    <2> QED BY <2>2, <2>3
  <1>8. TypeInv' BY <1>0, <1>1, <1>4, <1>7 DEF TypeInv
  <1>9. ReadersInv' BY <1>0, <1>1, ReadersFrame
  <1>10. HeardInv' BY <1>0, <1>1 DEF HeardInv, Heard
  <1>11. KeysInv'
    <2> SUFFICES ASSUME NEW m \in Nodes, NEW k \in Keys(m), <<m, k>> \notin astray
                 PROVE  Stands(down[m], buf[m], rd[m].ev, events', told'[m], m, k) /\ Repeats(down[m], buf[m], k)
      BY <1>1 DEF KeysInv, Keys, KeyOk
    <2>1. Stands(down[m], buf[m], rd[m].ev, events, told[m], m, k) /\ Repeats(down[m], buf[m], k)
      BY <1>0 DEF KeysInv, KeyOk
    <2>2. k \in KeySet BY KeysTyped
    <2>3. Says(e, m, k) => (k \in told'[m] <=> Pressed(e)) BY <1>7, <2>2
    <2>4. ~Says(e, m, k) => (k \in told'[m] <=> k \in told[m]) BY <1>7, <2>2
    <2>5. Stands(down[m], buf[m], rd[m].ev, Tail(events), told'[m], m, k)
      BY <1>2, <1>3, <2>1, <2>3, <2>4, TakeLaw DEF e
    <2> QED BY <1>2, <2>1, <2>5
  <1> QED BY <1>8, <1>9, <1>10, <1>11 DEF IInv

LEMMA CloseStep ==
  ASSUME IInv, Close PROVE IInv'
  <1>0. TypeInv /\ ReadersInv BY DEF IInv
  <1>1. UNCHANGED <<buf, open, hot, events, plugged>> BY DEF Close
  <1>2. quit' = TRUE BY DEF Close
  <1>3. rd' = [n \in Nodes |-> IF n \in open THEN [rd[n] EXCEPT !.alive = FALSE] ELSE rd[n]] BY DEF Close
  <1>4. told' = [n \in Nodes |-> {}] /\ down' = told' BY DEF Close
  <1>5. rd \in [Nodes -> ReaderT] BY <1>0 DEF TypeInv
  <1>6. ASSUME NEW m \in Nodes
        PROVE  /\ rd'[m] \in ReaderT /\ rd'[m].pc = rd[m].pc /\ rd'[m].ev = rd[m].ev
               /\ rd'[m].alive => rd[m].alive
    <2>1. rd[m] \in ReaderT BY <1>5
    <2>2. CASE m \in open
      <3>1. rd'[m] = [rd[m] EXCEPT !.alive = FALSE] BY <1>3, <2>2
      <3> QED BY <2>1, <3>1 DEF ReaderT
    <2>3. CASE m \notin open
      <3>1. rd'[m] = rd[m] BY <1>3, <2>3
      <3> QED BY <2>1, <3>1
    <2> QED BY <2>2, <2>3
  <1>7. rd' \in [Nodes -> ReaderT] BY <1>3, <1>6
  <1>8. TypeInv' BY <1>0, <1>1, <1>2, <1>4, <1>7 DEF TypeInv
  <1>9. ReadersInv'
    <2>1. HotOk' BY <1>0, <1>1 DEF ReadersInv, HotOk
    <2>2. ASSUME NEW m \in Nodes PROVE ReaderOk(m)'
      <3>1. ReaderOk(m) /\ open' = open BY <1>0, <1>1 DEF ReadersInv
      <3>2. rd'[m].alive \in BOOLEAN BY <1>6 DEF ReaderT
      <3> QED BY <1>6, <3>1, <3>2, ReaderFrame
    <2> QED BY <2>1, <2>2 DEF ReadersInv
  <1> QED BY <1>2, <1>8, <1>9 DEF IInv
-----------------------------------------------------------------------------
LEMMA NextIInv ==
  ASSUME IInv, [Next]_vars PROVE IInv'
  <1>1. CASE UNCHANGED vars
    BY <1>1 DEF vars, IInv, TypeInv, ReadersInv, HotOk, ReaderOk, HeardInv, Heard, KeysInv, KeyOk, Keys
  <1>2. CASE Next
    <2>1. CASE Hotplug
      BY <2>1, RescanStep, LookedStep, RegisterStep, HotplugEndsStep, LookStep DEF Hotplug
    <2>2. CASE Take BY <2>2, TakeStep
    <2>3. CASE Close BY <2>3, CloseStep
    <2>4. ASSUME NEW n \in Nodes,
                 \/ Plug(n) \/ Unplug(n) \/ Slide(n) \/ \E k \in Keys(n) : Type(n, k) \/ Repeat(n, k)
                 \/ Read(n) \/ Emit(n) \/ ReaderEnds(n)
          PROVE  IInv'
      BY <2>4, PlugStep, UnplugStep, SlideStep, TypeStep, RepeatStep, ReadStep, EmitStep, ReaderEndsStep
    <2> QED BY <1>2, <2>1, <2>2, <2>3, <2>4 DEF Next
  <1> QED BY <1>1, <1>2

LEMMA AlwaysIInv == Spec => []IInv
  <1>1. Init => IInv BY InitIInv
  <1>2. IInv /\ [Next]_vars => IInv' BY NextIInv
  <1> QED BY <1>1, <1>2, PTL DEF Spec

(* However full the channel, and whenever devices come and go, what is     *)
(* last said of a key of a device that stays is how the key is: no release *)
(* is lost on its way through readDevice, emit and the channel to Run.     *)
THEOREM NoKeyIsStuck == Spec => []NoKeyStuck
  <1>1. ASSUME IInv PROVE NoKeyStuck
    <2> SUFFICES ASSUME ~quit, NEW n \in plugged, NEW k \in Keys(n), <<n, k>> \notin astray
                 PROVE  k \in down[n] <=> IF Said(n, k) = {} THEN k \in told[n] ELSE TRUE \in Said(n, k)
      BY DEF NoKeyStuck
    <2>0. TypeInv /\ ReadersInv /\ KeysInv BY <1>1 DEF IInv
    <2>1. n \in Nodes BY <2>0 DEF TypeInv
    <2>2. k \in KeySet BY <2>1, KeysTyped
    <2>3. buf[n] \in Seq(InBuf(n)) /\ events \in Seq(Sent) BY <2>0, <2>1, NodeTyped
    <2>4. rd[n].ev \in InHand(n) \cup {None} BY <2>0, <2>1 DEF ReadersInv, ReaderOk
    <2>5. Stands(down[n], buf[n], rd[n].ev, events, told[n], n, k) /\ Repeats(down[n], buf[n], k)
      BY <2>0, <2>1 DEF KeysInv, KeyOk
    <2>6. Said(n, k) = SaidOf(events, rd[n].ev, buf[n], n, k) BY DEF Said, SaidOf
    <2>7. SaidOk(Said(n, k), down[n], told[n], k) BY <2>1, <2>2, <2>3, <2>4, <2>5, <2>6, SaidLaw, Zenon
    <2>8. CASE Said(n, k) = {} BY <2>7, <2>8 DEF SaidOk
    <2>9. CASE Said(n, k) # {}
      <3>1. k \in down[n] <=> TRUE \in Said(n, k) BY <2>7, <2>9, Zenon DEF SaidOk
      <3> QED BY <2>9, <3>1, Zenon
    <2> QED BY <2>8, <2>9
  <1> QED BY <1>1, AlwaysIInv, PTL
=============================================================================
