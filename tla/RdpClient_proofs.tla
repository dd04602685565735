-------------------------- MODULE RdpClient_proofs ---------------------------
(***************************************************************************)
(* What the RDP client guarantees for queues of any length, any number of  *)
(* updates and any input: while the session is up no update is lost or out *)
(* of order, and a session is taken for over only if the user ended it.    *)
(***************************************************************************)
EXTENDS RdpClient, SequenceTheorems, TLAPS

Upd == 1..Updates

(* The update in the pump's hand, and the one the reader is about to push. *)
InHand == IF pump = Gone THEN <<>> ELSE pump
Pushed == IF reader = "push" THEN <<sent>> ELSE <<>>

LifeType ==
  /\ new \in {"login", "wait", "up", "refused"} /\ sock \in {"open", "dropped", "closing", "closed"}
  /\ ready \in BOOLEAN /\ readyCh \in BOOLEAN /\ errCh \in BOOLEAN
  /\ done \in BOOLEAN /\ failed \in BOOLEAN
  /\ why \in {"", "network", "logoff", "cut", "asked"}

MouseType ==
  /\ xy \in Points \cup {"none"} /\ last \in Points \cup {"none"} /\ at \in Points \cup {"none"}
  /\ kick \in BOOLEAN /\ sender \in {"none", "wait", "load", "send", "gone"}
  /\ moves \in 0..Moves /\ presses \in 0..Presses

UpdatesType ==
  /\ reader \in {"read", "push", "gone"} /\ sent \in 0..Updates
  /\ raw \in Seq(Upd) /\ Len(raw) <= Backlog
  /\ frames \in Seq(Upd) /\ Len(frames) <= FrameBuf
  /\ pump = <<>> \/ pump = Gone \/ \E u \in Upd : pump = <<u>>
  /\ closed \in BOOLEAN
  /\ painter \in {"none", "range", "through", "left"}
  /\ painted \in Seq(Upd) /\ verdict \in {"", "over", "lost"}

(* Nothing is on its way twice: there is room for what is painted.         *)
CountInv == Len(painted) + Len(frames) + Len(InHand) + Len(raw) + Len(Pushed) <= sent

(* frames is closed by the pump as it returns, once done is closed, and    *)
(* the painter is through with it only then.                               *)
CloseInv == /\ pump = Gone => done
            /\ closed => done
            /\ painter \in {"through", "left"} => closed

(* A client is returned once it is ready, and there is a cause for the end *)
(* of one that was not refused: the first.  One that the network ended is  *)
(* marked as failed, and one that is not marked so the user hung up on.    *)
CauseInv == /\ readyCh => ready
            /\ ready => new # "login"
            /\ new = "up" => ready
            /\ painter # "none" => new = "up"
            /\ done /\ new # "refused" => why # ""
            /\ why = "network" => failed
            /\ done /\ ~failed /\ new # "refused" => sock \in {"closing", "closed"}

IInv == /\ LifeType /\ MouseType /\ UpdatesType
        /\ CountInv /\ CloseInv /\ CauseInv
        /\ NothingLost /\ DeadIsFailed
-----------------------------------------------------------------------------
(* UpTo(n) is the sequences of updates of at most n.                       *)
LEMMA UpToIsSeq ==
  ASSUME NEW n \in Nat, NEW s \in Seq(Upd), Len(s) <= n
  PROVE  s \in UpTo(n)
<1>1. Len(s) \in Nat /\ s \in [1..Len(s) -> Upd]
  BY LenProperties
<1>2. Len(s) \in 0..n
  BY <1>1
<1> QED BY <1>1, <1>2 DEF UpTo, Upd

(* A sequence is its head and its tail.                                    *)
LEMMA HeadTail ==
  ASSUME NEW S, NEW s \in Seq(S), s # <<>>
  PROVE  /\ s = <<Head(s)>> \o Tail(s)
         /\ Head(s) \in S /\ Tail(s) \in Seq(S) /\ Len(Tail(s)) = Len(s) - 1
         /\ <<Head(s)>> \in Seq(S)
<1>1. /\ Head(s) \in S /\ Tail(s) \in Seq(S) /\ Len(Tail(s)) = Len(s) - 1
      /\ \A i \in 1..Len(Tail(s)) : Tail(s)[i] = s[i + 1]
  BY HeadTailProperties
<1>2. <<Head(s)>> \in Seq(S) /\ Len(<<Head(s)>>) = 1 /\ <<Head(s)>>[1] = Head(s)
  BY <1>1
<1>3. Len(s) \in Nat \ {0} /\ Head(s) = s[1]
  BY EmptySeq
<1> DEFINE t == <<Head(s)>> \o Tail(s)
<1>4. /\ t \in Seq(S) /\ Len(t) = 1 + Len(Tail(s))
      /\ \A i \in 1..(1 + Len(Tail(s))) :
            t[i] = IF i <= 1 THEN <<Head(s)>>[i] ELSE Tail(s)[i - 1]
  BY <1>1, <1>2, ConcatProperties
<1>5. \A i \in 1..Len(s) : s[i] = t[i]
  BY <1>1, <1>2, <1>3, <1>4
<1>6. s = t
  BY <1>1, <1>3, <1>4, <1>5, SeqEqual
<1> QED BY <1>1, <1>2, <1>6

(* A sequence of one, and of none.                                         *)
LEMMA Short ==
  /\ \A S : \A x \in S : <<x>> \in Seq(S) /\ Len(<<x>>) = 1 /\ <<x>>[1] = x
  /\ \A S : <<>> \in Seq(S)
  /\ Len(<<>>) = 0
  /\ <<>> # Gone
  /\ \A x \in Upd : <<x>> # Gone
  BY DEF Gone, Upd

(* The lengths of the queues are numbers.                                  *)
LEMMA Lengths ==
  ASSUME UpdatesType
  PROVE  /\ Len(painted) \in Nat /\ Len(frames) \in Nat /\ Len(raw) \in Nat
         /\ sent \in Nat /\ sent <= Updates
<1>1. painted \in Seq(Upd) /\ frames \in Seq(Upd) /\ raw \in Seq(Upd) /\ sent \in 0..Updates
  BY DEF UpdatesType
<1> QED BY <1>1, LenProperties, BoundsAssumption

(* What is in hand or being pushed is a sequence of at most one update.    *)
LEMMA Hands ==
  ASSUME UpdatesType
  PROVE  /\ InHand \in Seq(Upd) /\ Len(InHand) \in {0, 1}
         /\ reader = "push" => Pushed = <<sent>> /\ Len(Pushed) = 1
         /\ reader # "push" => Pushed = <<>> /\ Len(Pushed) = 0
         /\ sent > 0 => Pushed \in Seq(Upd)
         /\ CountInv => Pushed \in Seq(Upd)
<1>1. InHand \in Seq(Upd) /\ Len(InHand) \in {0, 1}
  <2>1. pump = <<>> \/ pump = Gone \/ \E u \in Upd : pump = <<u>>
    BY DEF UpdatesType
  <2>2. CASE pump \in {<<>>, Gone}
    BY <2>2, Short DEF InHand
  <2>3. CASE \E u \in Upd : pump = <<u>>
    BY <2>3, Short DEF InHand
  <2> QED BY <2>1, <2>2, <2>3
<1>2. /\ reader = "push" => Pushed = <<sent>> /\ Len(Pushed) = 1
      /\ reader # "push" => Pushed = <<>> /\ Len(Pushed) = 0
  BY DEF Pushed
<1>3. sent > 0 => Pushed \in Seq(Upd)
  <2>1. sent > 0 => sent \in Upd
    BY Lengths, BoundsAssumption DEF Upd
  <2> QED BY <2>1, Short DEF Pushed
<1>4. CountInv => Pushed \in Seq(Upd)
  <2>1. CountInv /\ reader = "push" => sent > 0
    BY <1>1, <1>2, Lengths DEF CountInv
  <2>2. reader # "push" => Pushed \in Seq(Upd)
    BY <1>2, Short
  <2> QED BY <1>3, <2>1, <2>2
<1> QED BY <1>1, <1>2, <1>3, <1>4

(* The invariant says what the runs check.                                 *)
LEMMA InvImplies == IInv => TypeOK /\ NothingLost /\ DeadIsFailed
<1> SUFFICES ASSUME IInv PROVE TypeOK /\ NothingLost /\ DeadIsFailed
  OBVIOUS
<1> USE DEF IInv
<1>1. raw \in UpTo(Backlog) /\ frames \in UpTo(FrameBuf)
  BY UpToIsSeq, QueuesAssumption DEF UpdatesType
<1>2. painted \in UpTo(Updates)
  <2>1. Len(InHand) \in Nat /\ Len(Pushed) \in Nat
    BY Hands
  <2>2. Len(painted) <= Updates
    BY <2>1, Lengths, BoundsAssumption DEF CountInv
  <2>3. painted \in Seq(Upd)
    BY DEF UpdatesType
  <2> QED BY <2>2, <2>3, UpToIsSeq, BoundsAssumption
<1>3. pump \in UpTo(1) \cup {Gone}
  <2>1. <<>> \in UpTo(1)
    <3>1. <<>> \in Seq(Upd) /\ Len(<<>>) <= 1
      BY Short
    <3> QED BY <3>1, UpToIsSeq
  <2>2. ASSUME NEW u \in Upd PROVE <<u>> \in UpTo(1)
    <3>1. <<u>> \in Seq(Upd) /\ Len(<<u>>) <= 1
      BY Short
    <3> QED BY <3>1, UpToIsSeq
  <2>3. pump = <<>> \/ pump = Gone \/ \E u \in Upd : pump = <<u>>
    BY DEF UpdatesType
  <2> QED BY <2>1, <2>2, <2>3
<1> QED BY <1>1, <1>2, <1>3 DEF TypeOK, LifeType, MouseType, UpdatesType

(* New starts with nothing up, sent or ended.                              *)
LEMMA InitInv == Init => IInv
<1> SUFFICES ASSUME Init PROVE IInv
  OBVIOUS
<1>1. /\ new = "login" /\ ready = FALSE /\ readyCh = FALSE /\ errCh = FALSE
      /\ done = FALSE /\ failed = FALSE /\ sock = "open" /\ why = ""
      /\ xy = "none" /\ kick = FALSE /\ sender = "none" /\ last = "none"
      /\ at = "none" /\ moves = 0 /\ presses = 0
  BY DEF Init
<1>2. /\ reader = "read" /\ sent = 0 /\ raw = <<>> /\ frames = <<>> /\ pump = <<>>
      /\ closed = FALSE /\ painter = "none" /\ painted = <<>> /\ verdict = ""
  BY DEF Init
<1>3. LifeType /\ MouseType
  <2>1. moves = 0 /\ presses = 0
    BY <1>1
  <2>2. moves \in 0..Moves /\ presses \in 0..Presses
    BY <2>1, BoundsAssumption
  <2> QED BY <1>1, <2>2, Zenon DEF LifeType, MouseType
<1>4. /\ InHand = <<>> /\ Pushed = <<>>
      /\ Len(painted) = 0 /\ Len(frames) = 0 /\ Len(raw) = 0
      /\ Len(InHand) = 0 /\ Len(Pushed) = 0
  BY <1>2, Short DEF InHand, Pushed
<1>5. UpdatesType
  <2>1. raw \in Seq(Upd) /\ frames \in Seq(Upd) /\ painted \in Seq(Upd)
    BY <1>2, Short
  <2>2. Len(raw) <= Backlog /\ Len(frames) <= FrameBuf
    BY <1>4, QueuesAssumption
  <2>3. sent \in 0..Updates
    <3>1. sent = 0
      BY <1>2
    <3> QED BY <3>1, BoundsAssumption
  <2> QED BY <1>2, <2>1, <2>2, <2>3, Zenon DEF UpdatesType
<1>6. CountInv
  <2>1. sent = 0
    BY <1>2
  <2> QED BY <2>1, <1>4 DEF CountInv
<1>7. CloseInv /\ CauseInv /\ DeadIsFailed
  BY <1>1, <1>2, Short DEF CloseInv, CauseInv, DeadIsFailed
<1>8. NothingLost
  <2>1. <<>> \o <<>> = <<>>
    BY Short, ConcatEmptySeq
  <2>2. Queued = <<>>
    BY <1>2, <2>1, Short DEF Queued
  <2>3. ASSUME NEW n, n = 0 PROVE [u \in 1..n |-> u] = <<>>
    BY <2>3
  <2> QED BY <1>2, <2>2, <2>3 DEF NothingLost
<1> QED BY <1>3, <1>5, <1>6, <1>7, <1>8 DEF IInv
-----------------------------------------------------------------------------
(* Lines of updates: what changes hands in the middle of one is where it   *)
(* was.                                                                    *)

Cat(a, b) == a \o b
Line(p, f, h, r, l) == Cat(Cat(Cat(Cat(p, f), h), r), l)

(* Queued is the line there is.                                            *)
LEMMA QueuedIsLine ==
  /\ Queued = Line(painted, frames, InHand, raw, Pushed)
  /\ Queued' = Line(painted', frames', InHand', raw', Pushed')
  BY DEF Queued, Line, Cat, InHand, Pushed

(* Concatenation is of sequences, is associative, and an empty one is not  *)
(* seen in it.                                                             *)
LEMMA CatLaws ==
  \A S : /\ \A a, b \in Seq(S) : Cat(a, b) \in Seq(S)
         /\ \A a, b, c \in Seq(S) : Cat(Cat(a, b), c) = Cat(a, Cat(b, c))
         /\ \A a \in Seq(S) : Cat(a, <<>>) = a
<1> SUFFICES ASSUME NEW S
             PROVE  /\ \A a, b \in Seq(S) : Cat(a, b) \in Seq(S)
                    /\ \A a, b, c \in Seq(S) : Cat(Cat(a, b), c) = Cat(a, Cat(b, c))
                    /\ \A a \in Seq(S) : Cat(a, <<>>) = a
  OBVIOUS
<1>1. ASSUME NEW a \in Seq(S), NEW b \in Seq(S) PROVE Cat(a, b) \in Seq(S)
  BY ConcatProperties DEF Cat
<1>2. ASSUME NEW a \in Seq(S), NEW b \in Seq(S), NEW c \in Seq(S)
      PROVE  Cat(Cat(a, b), c) = Cat(a, Cat(b, c))
  BY ConcatAssociative DEF Cat
<1>3. ASSUME NEW a \in Seq(S) PROVE Cat(a, <<>>) = a
  BY ConcatEmptySeq DEF Cat
<1> QED BY <1>1, <1>2, <1>3

(* Take moves the head of raw to the empty hand.                           *)
LEMMA LineTakes ==
  \A S : \A p, f, l, a, b \in Seq(S) : Line(p, f, a, b, l) = Line(p, f, <<>>, Cat(a, b), l)
<1> SUFFICES ASSUME NEW S, NEW p \in Seq(S), NEW f \in Seq(S), NEW l \in Seq(S),
                    NEW a \in Seq(S), NEW b \in Seq(S)
             PROVE  Line(p, f, a, b, l) = Line(p, f, <<>>, Cat(a, b), l)
  BY Zenon
<1>1. Cat(p, f) \in Seq(S)
  BY CatLaws
<1>2. Cat(Cat(Cat(p, f), a), b) = Cat(Cat(p, f), Cat(a, b))
  BY <1>1, CatLaws
<1>3. Cat(Cat(p, f), <<>>) = Cat(p, f)
  BY <1>1, CatLaws
<1> QED BY <1>2, <1>3, Zenon DEF Line

(* Give moves the update in hand to frames, and Push the new one to raw.   *)
LEMMA LineMoves ==
  \A S : \A p, f, h, r, l \in Seq(S) :
    /\ Line(p, Cat(f, h), <<>>, r, l) = Line(p, f, h, r, l)
    /\ Line(p, f, h, Cat(r, l), <<>>) = Line(p, f, h, r, l)
<1> SUFFICES ASSUME NEW S, NEW p \in Seq(S), NEW f \in Seq(S), NEW h \in Seq(S),
                    NEW r \in Seq(S), NEW l \in Seq(S)
             PROVE  /\ Line(p, Cat(f, h), <<>>, r, l) = Line(p, f, h, r, l)
                    /\ Line(p, f, h, Cat(r, l), <<>>) = Line(p, f, h, r, l)
  BY Zenon
<1>1. Line(p, Cat(f, h), <<>>, r, l) = Line(p, f, h, r, l)
  BY CatLaws DEF Line
<1>2. Line(p, f, h, Cat(r, l), <<>>) = Line(p, f, h, r, l)
  <2>1. Cat(Cat(p, f), h) \in Seq(S) /\ Cat(r, l) \in Seq(S)
    BY CatLaws
  <2>2. Cat(Cat(Cat(Cat(p, f), h), r), l) = Cat(Cat(Cat(p, f), h), Cat(r, l))
    BY <2>1, CatLaws
  <2>3. Cat(Cat(Cat(p, f), h), Cat(r, l)) \in Seq(S)
    BY <2>1, CatLaws
  <2>4. Cat(Cat(Cat(Cat(p, f), h), Cat(r, l)), <<>>) = Cat(Cat(Cat(p, f), h), Cat(r, l))
    BY <2>3, CatLaws
  <2> QED BY <2>2, <2>4, Zenon DEF Line
<1> QED BY <1>1, <1>2

(* A new update joins the line at its end.                                 *)
LEMMA LineGrows ==
  ASSUME NEW n \in Nat
  PROVE  [u \in 1..n |-> u] \o <<n + 1>> = [u \in 1..(n + 1) |-> u]
<1> DEFINE s == [u \in 1..n |-> u]
           t == [u \in 1..(n + 1) |-> u]
           e == <<n + 1>>
<1>1. s \in Seq(Nat) /\ Len(s) = n /\ \A i \in 1..n : s[i] = i
  OBVIOUS
<1>2. t \in Seq(Nat) /\ Len(t) = n + 1 /\ \A i \in 1..(n + 1) : t[i] = i
  OBVIOUS
<1>3. e \in Seq(Nat) /\ Len(e) = 1 /\ e[1] = n + 1
  OBVIOUS
<1> HIDE DEF s, t, e
<1>4. /\ s \o e \in Seq(Nat) /\ Len(s \o e) = Len(s) + Len(e)
      /\ \A i \in 1..(Len(s) + Len(e)) :
            (s \o e)[i] = IF i <= Len(s) THEN s[i] ELSE e[i - Len(s)]
  BY <1>1, <1>3, ConcatProperties, Zenon
<1>5. \A i \in 1..(n + 1) : (s \o e)[i] = t[i]
  BY <1>1, <1>2, <1>3, <1>4
<1>6. Len(s \o e) = Len(t) /\ \A i \in 1..Len(t) : (s \o e)[i] = t[i]
  BY <1>1, <1>2, <1>3, <1>4, <1>5
<1>7. s \o e = t
  BY <1>2, <1>4, <1>6, SeqEqual, Zenon
<1> QED BY <1>7 DEF s, t, e
-----------------------------------------------------------------------------
(* Where no update moves, the line is what it was.                         *)
LEMMA LineKept ==
  ASSUME UNCHANGED <<sent, raw, frames, pump, painted>>,
         reader' = "push" <=> reader = "push"
  PROVE  /\ InHand' = InHand /\ Pushed' = Pushed /\ Queued' = Queued
         /\ CountInv => CountInv'
<1>1. /\ sent' = sent /\ raw' = raw /\ frames' = frames /\ pump' = pump /\ painted' = painted
  OBVIOUS
<1>2. InHand' = InHand /\ Pushed' = Pushed
  BY <1>1, Zenon DEF InHand, Pushed
<1>3. Queued' = Queued
  BY <1>1, Zenon DEF Queued
<1> QED BY <1>1, <1>2, <1>3, Zenon DEF CountInv

(* So is all of the client's life, where nothing of it changes.            *)
LEMMA OthersKept ==
  ASSUME IInv, UNCHANGED life, UNCHANGED updates
  PROVE  /\ LifeType' /\ UpdatesType' /\ CountInv' /\ CloseInv' /\ CauseInv'
         /\ DeadIsFailed' /\ NothingLost'
<1> USE DEF IInv
<1>1. CountInv' /\ Queued' = Queued
  <2>1. UNCHANGED <<sent, raw, frames, pump, painted, reader>>
    BY DEF updates
  <2> QED BY <2>1, LineKept
<1>2. NothingLost'
  BY <1>1, Zenon DEF NothingLost, life, updates
<1>3. LifeType'
  BY Zenon DEF LifeType, life
<1>4. UpdatesType'
  BY Zenon DEF UpdatesType, updates
<1>5. CloseInv' /\ DeadIsFailed'
  BY Zenon DEF CloseInv, DeadIsFailed, updates, life
<1>6. CauseInv'
  BY Zenon DEF CauseInv, updates, life
<1> QED BY <1>1, <1>2, <1>3, <1>4, <1>5, <1>6

(* The pointer's steps touch nothing else.                                 *)
LEMMA MouseInv ==
  ASSUME IInv, Sender \/ \E p \in Points : SendMouse(p) \/ Press(p)
  PROVE  IInv'
<1> USE DEF IInv
<1>1. UNCHANGED life /\ UNCHANGED updates
  BY Zenon DEF Sender, Kicked, Load, Send, SenderEnds, SendMouse, Press
<1>2. /\ LifeType' /\ UpdatesType' /\ CountInv' /\ CloseInv' /\ CauseInv'
      /\ DeadIsFailed' /\ NothingLost'
  BY <1>1, OthersKept
<1>3. /\ xy' \in Points \cup {"none"} /\ last' \in Points \cup {"none"}
      /\ at' \in Points \cup {"none"}
      /\ kick' \in BOOLEAN /\ sender' \in {"none", "wait", "load", "send", "gone"}
  BY Zenon DEF MouseType, Sender, Kicked, Load, Send, SenderEnds, SendMouse, Press
<1>4. moves' \in 0..Moves /\ presses' \in 0..Presses
  <2>1. moves \in 0..Moves /\ presses \in 0..Presses
    BY DEF MouseType
  <2>2. \/ moves' = moves /\ presses' = presses
        \/ moves < Moves /\ moves' = moves + 1 /\ presses' = presses
        \/ presses < Presses /\ presses' = presses + 1 /\ moves' = moves
    BY Zenon DEF Sender, Kicked, Load, Send, SenderEnds, SendMouse, Press
  <2> QED BY <2>1, <2>2, BoundsAssumption
<1> QED BY <1>2, <1>3, <1>4, Zenon DEF MouseType

(* The steps of New and of hanging up move no update, and a session they   *)
(* end has its cause.                                                      *)
LEMMA LifeInv ==
  ASSUME IInv, Login \/ ComesUp \/ Refused \/ OnReady \/ ReadFails \/ ReadCut
           \/ Close \/ HangUp
  PROVE  IInv'
<1> USE DEF IInv
<1>1. /\ UNCHANGED <<sent, raw, frames, pump, painted, closed, verdict>>
      /\ reader' = reader \/ (reader = "read" /\ reader' = "gone")
      /\ painter' = painter \/ (ComesUp /\ painter' = "range")
      /\ done => done'
  <2>1. CASE Login \/ Refused \/ OnReady \/ Close \/ HangUp
    <3>1. UNCHANGED updates
      BY <2>1 DEF Login, Refused, OnReady, Close, HangUp
    <3>2. done => done'
      BY <2>1 DEF Login, Refused, OnReady, Close, HangUp
    <3> QED BY <3>1, <3>2 DEF updates
  <2>2. CASE ComesUp
    BY <2>2, Zenon DEF ComesUp
  <2>3. CASE ReadFails
    BY <2>3, Zenon DEF ReadFails, OnError
  <2>4. CASE ReadCut
    BY <2>4, Zenon DEF ReadCut
  <2> QED BY <2>1, <2>2, <2>3, <2>4
<1>2. CountInv' /\ Queued' = Queued
  <2>1. UNCHANGED <<sent, raw, frames, pump, painted>> /\ (reader' = "push" <=> reader = "push")
    BY <1>1
  <2> QED BY <2>1, LineKept
<1>3. NothingLost'
  BY <1>1, <1>2, Zenon DEF NothingLost
<1>4. UpdatesType'
  BY <1>1, Zenon DEF UpdatesType
<1>5. LifeType'
  BY Zenon DEF LifeType, Login, ComesUp, Refused, OnReady, ReadFails, ReadCut, OnError, Close, HangUp
<1>6. MouseType'
  BY Zenon DEF MouseType, Login, ComesUp, Refused, OnReady, ReadFails, ReadCut, Close, HangUp, mouse
<1>7. CloseInv'
  BY <1>1, Zenon DEF CloseInv, ComesUp
<1>8. CauseInv' /\ DeadIsFailed'
  <2> USE DEF CauseInv, DeadIsFailed, CloseInv, LifeType, updates
  <2>1. CASE Login
    <3>1. /\ new = "login" /\ ((done' = done /\ new' = "wait") \/ new' = "refused")
          /\ ready' = ready /\ readyCh' = readyCh /\ why' = why /\ failed' = failed
          /\ painter' = painter /\ reader' = reader /\ verdict' = verdict /\ sock' = sock
      BY <2>1, Zenon DEF Login, updates
    <3>2. ~ready /\ ~readyCh /\ painter = "none" /\ (done => why # "")
      BY <3>1
    <3>3. new' # "up" /\ new' # "login"
      BY <3>1
    <3>4. done' /\ new' # "refused" => why' # "" /\ (~failed' => sock' \in {"closing", "closed"})
      BY <3>1, <3>2
    <3>5. CauseInv'
      BY <3>1, <3>2, <3>3, <3>4, Zenon DEF CauseInv
    <3>6. DeadIsFailed'
      BY <3>1, <3>2, Zenon DEF DeadIsFailed
    <3> QED BY <3>5, <3>6
  <2>2. CASE ComesUp
    <3>1. /\ new = "wait" /\ readyCh /\ new' = "up" /\ readyCh' = FALSE /\ painter' = "range"
          /\ ready' = ready /\ done' = done /\ failed' = failed /\ why' = why /\ reader' = reader
          /\ sock' = sock
      BY <2>2, Zenon DEF ComesUp
    <3>2. ready /\ (done => why # "")
      BY <3>1
    <3> QED BY <3>1, <3>2
  <2>3. CASE Refused
    BY <2>3 DEF Refused
  <2>4. CASE OnReady
    BY <2>4 DEF OnReady
  <2>5. CASE ReadFails
    BY <2>5 DEF ReadFails, OnError
  <2>6. CASE Close
    BY <2>6 DEF Close
  <2>7. CASE HangUp
    BY <2>7 DEF HangUp
  <2>8. CASE ReadCut
    BY <2>8 DEF ReadCut
  <2> QED BY <2>1, <2>2, <2>3, <2>4, <2>5, <2>6, <2>7, <2>8
<1> QED BY <1>2, <1>3, <1>4, <1>5, <1>6, <1>7, <1>8
-----------------------------------------------------------------------------
(* What the reader, the pump and the painter leave alone.                  *)
LEMMA LifeKept ==
  ASSUME IInv, UNCHANGED life, UNCHANGED mouse
  PROVE  LifeType' /\ MouseType'
<1>1. LifeType'
  BY Zenon DEF IInv, LifeType, life
<1>2. MouseType'
  BY Zenon DEF IInv, MouseType, mouse
<1> QED BY <1>1, <1>2

(* The parts of the line are sequences.                                    *)
LEMMA Parts ==
  ASSUME IInv
  PROVE  /\ painted \in Seq(Upd) /\ frames \in Seq(Upd) /\ raw \in Seq(Upd)
         /\ InHand \in Seq(Upd) /\ Pushed \in Seq(Upd)
         /\ Len(painted) \in Nat /\ Len(frames) \in Nat /\ Len(raw) \in Nat
         /\ Len(InHand) \in Nat /\ Len(Pushed) \in Nat
         /\ sent \in Nat /\ sent <= Updates
<1>1. UpdatesType /\ CountInv
  BY DEF IInv
<1>2. painted \in Seq(Upd) /\ frames \in Seq(Upd) /\ raw \in Seq(Upd)
  BY <1>1 DEF UpdatesType
<1>3. Len(InHand) \in Nat /\ Len(Pushed) \in Nat
  BY <1>1, Hands
<1> QED BY <1>1, <1>2, <1>3, Hands, Lengths

(* OnBitmap: the update decoded comes after all that are on their way.     *)
LEMMA OnBitmapInv == ASSUME IInv, OnBitmap PROVE IInv'
<1>1. /\ UNCHANGED life /\ UNCHANGED mouse
      /\ reader = "read" /\ sent < Updates /\ sent' = sent + 1 /\ reader' = "push"
      /\ raw' = raw /\ frames' = frames /\ pump' = pump /\ closed' = closed
      /\ painter' = painter /\ painted' = painted /\ verdict' = verdict
  BY Zenon DEF OnBitmap
<1>2. LifeType' /\ MouseType'
  BY <1>1, LifeKept
<1>3. sent' \in 0..Updates
  BY <1>1, Parts, BoundsAssumption
<1>4. UpdatesType'
  BY <1>1, <1>3, Zenon DEF IInv, UpdatesType
<1>5. InHand' = InHand /\ Pushed = <<>> /\ Pushed' = <<sent + 1>>
  BY <1>1 DEF InHand, Pushed
<1>6. CountInv'
  <2>1. Len(Pushed) = 0 /\ Len(Pushed') = 1
    BY <1>5
  <2>2. Len(painted) + Len(frames) + Len(InHand) + Len(raw) + Len(Pushed) <= sent
    BY DEF IInv, CountInv
  <2>3. Len(painted) + Len(frames) + Len(InHand) + Len(raw) + Len(Pushed') <= sent + 1
    BY <2>1, <2>2, Parts
  <2> QED BY <1>1, <1>5, <2>3, Zenon DEF CountInv
<1>7. CloseInv' /\ DeadIsFailed'
  BY <1>1, Zenon DEF IInv, CloseInv, DeadIsFailed, life
<1>8. CauseInv'
  BY <1>1, Zenon DEF IInv, CauseInv, life
<1>9. NothingLost'
  <2> DEFINE m == Cat(Cat(Cat(painted, frames), InHand), raw)
  <2>1. m \in Seq(Upd)
    BY Parts, CatLaws
  <2>2. Queued = Cat(m, <<>>)
    BY <1>5, QueuedIsLine, Zenon DEF Line
  <2>3. Queued' = Cat(m, <<sent + 1>>)
    <3>1. Queued' = Line(painted', frames', InHand', raw', Pushed')
      BY QueuedIsLine
    <3> QED BY <1>1, <1>5, <3>1, Zenon DEF Line
  <2>4. ASSUME ~done PROVE Queued' = [u \in 1..sent' |-> u]
    <3>1. m = [u \in 1..sent |-> u]
      BY <2>1, <2>2, <2>4, CatLaws DEF IInv, NothingLost
    <3>2. Queued' = [u \in 1..(sent + 1) |-> u]
      BY <2>3, <3>1, LineGrows, Parts, Zenon DEF Cat
    <3> QED BY <1>1, <3>2
  <2>5. done' = done
    BY <1>1 DEF life
  <2> QED BY <2>4, <2>5 DEF NothingLost
<1> QED BY <1>2, <1>4, <1>6, <1>7, <1>8, <1>9 DEF IInv

(* Push: the update joins raw, or is dropped once done is closed; a full   *)
(* queue lets neither happen before.                                       *)
LEMMA PushInv == ASSUME IInv, Push PROVE IInv'
<1>1. /\ UNCHANGED life /\ UNCHANGED mouse
      /\ reader = "push" /\ reader' = "read" /\ sent' = sent
      /\ frames' = frames /\ pump' = pump /\ closed' = closed
      /\ painter' = painter /\ painted' = painted /\ verdict' = verdict
      /\ \/ Len(raw) < Backlog /\ raw' = Append(raw, sent)
         \/ done /\ raw' = raw
  BY Zenon DEF Push
<1>2. LifeType' /\ MouseType'
  BY <1>1, LifeKept
<1>3. InHand' = InHand /\ Pushed = <<sent>> /\ Pushed' = <<>>
  BY <1>1 DEF InHand, Pushed
<1>4. sent \in Upd
  <2>1. Len(Pushed) = 1
    BY <1>3
  <2>2. sent > 0
    BY <2>1, Parts DEF IInv, CountInv
  <2> QED BY <2>2, Parts, BoundsAssumption DEF Upd
<1>5. /\ raw' \in Seq(Upd) /\ Len(raw') <= Backlog
      /\ Len(raw') <= Len(raw) + 1
      /\ raw' = Cat(raw, Pushed) \/ done
  <2>1. CASE Len(raw) < Backlog /\ raw' = Append(raw, sent)
    <3>1. /\ Append(raw, sent) \in Seq(Upd) /\ Len(Append(raw, sent)) = Len(raw) + 1
      BY <1>4, Parts, AppendProperties
    <3>2. Append(raw, sent) = raw \o <<sent>>
      BY <1>4, Parts, AppendIsConcat
    <3>3. raw' = Cat(raw, Pushed)
      BY <1>3, <2>1, <3>2 DEF Cat
    <3> QED BY <2>1, <3>1, <3>3, Parts, QueuesAssumption
  <2>2. CASE done /\ raw' = raw
    <3>1. Len(raw) <= Backlog
      BY DEF IInv, UpdatesType
    <3> QED BY <2>2, <3>1, Parts
  <2> QED BY <1>1, <2>1, <2>2
<1>6. UpdatesType'
  BY <1>1, <1>5, Zenon DEF IInv, UpdatesType
<1>7. CountInv'
  <2>1. Len(Pushed) = 1 /\ Len(Pushed') = 0 /\ Len(raw') \in Nat
    BY <1>3, <1>5, LenProperties
  <2>2. Len(painted) + Len(frames) + Len(InHand) + Len(raw) + Len(Pushed) <= sent
    BY DEF IInv, CountInv
  <2>3. Len(painted) + Len(frames) + Len(InHand) + Len(raw') + Len(Pushed') <= sent
    BY <1>5, <2>1, <2>2, Parts
  <2> QED BY <1>1, <1>3, <2>3, Zenon DEF CountInv
<1>8. CloseInv' /\ DeadIsFailed'
  BY <1>1, Zenon DEF IInv, CloseInv, DeadIsFailed, life
<1>9. CauseInv'
  BY <1>1, Zenon DEF IInv, CauseInv, life
<1>10. NothingLost'
  <2>1. ASSUME ~done PROVE Queued' = Queued
    <3>1. raw' = Cat(raw, Pushed)
      BY <1>5, <2>1
    <3>2. Queued' = Line(painted, frames, InHand, Cat(raw, Pushed), <<>>)
      BY <1>1, <1>3, <3>1, QueuedIsLine, Zenon
    <3>3. Line(painted, frames, InHand, Cat(raw, Pushed), <<>>)
            = Line(painted, frames, InHand, raw, Pushed)
      BY Parts, LineMoves
    <3> QED BY <3>2, <3>3, QueuedIsLine, Zenon
  <2>2. done' = done
    BY <1>1 DEF life
  <2> QED BY <1>1, <2>1, <2>2, Zenon DEF IInv, NothingLost
<1> QED BY <1>2, <1>6, <1>7, <1>8, <1>9, <1>10 DEF IInv

(* Take: the pump's hand is empty, and takes the next update.              *)
LEMMA TakeInv == ASSUME IInv, Take PROVE IInv'
<1>1. /\ UNCHANGED life /\ UNCHANGED mouse
      /\ pump = <<>> /\ raw # <<>> /\ pump' = <<Head(raw)>> /\ raw' = Tail(raw)
      /\ reader' = reader /\ sent' = sent /\ frames' = frames /\ closed' = closed
      /\ painter' = painter /\ painted' = painted /\ verdict' = verdict
  BY Zenon DEF Take
<1>2. LifeType' /\ MouseType'
  BY <1>1, LifeKept
<1>3. /\ raw = Cat(<<Head(raw)>>, Tail(raw)) /\ Head(raw) \in Upd
      /\ <<Head(raw)>> \in Seq(Upd)
      /\ Tail(raw) \in Seq(Upd) /\ Len(Tail(raw)) = Len(raw) - 1
  BY <1>1, HeadTail, Parts DEF Cat
<1>4. /\ InHand = <<>> /\ InHand' = <<Head(raw)>> /\ Pushed' = Pushed
      /\ Len(InHand) = 0 /\ Len(InHand') = 1
  BY <1>1, <1>3, Short DEF InHand, Pushed
<1>5. UpdatesType'
  <2>1. Len(raw) <= Backlog
    BY DEF IInv, UpdatesType
  <2>2. Len(raw') <= Backlog /\ raw' \in Seq(Upd)
    BY <1>1, <1>3, <2>1, Parts, QueuesAssumption
  <2> QED BY <1>1, <1>3, <2>2, Zenon DEF IInv, UpdatesType
<1>6. CountInv'
  <2>1. Len(painted) + Len(frames) + Len(InHand) + Len(raw) + Len(Pushed) <= sent
    BY DEF IInv, CountInv
  <2>2. Len(painted) + Len(frames) + Len(InHand') + Len(Tail(raw)) + Len(Pushed) <= sent
    BY <1>3, <1>4, <2>1, Parts
  <2> QED BY <1>1, <1>4, <2>2, Zenon DEF CountInv
<1>7. CloseInv'
  <2>1. pump' # Gone
    BY <1>1, <1>3, Short
  <2> QED BY <1>1, <2>1, Zenon DEF IInv, CloseInv, life
<1>8. CauseInv' /\ DeadIsFailed'
  BY <1>1, Zenon DEF IInv, CauseInv, DeadIsFailed, life
<1>9. NothingLost'
  <2>1. Queued' = Line(painted, frames, <<Head(raw)>>, Tail(raw), Pushed)
    BY <1>1, <1>4, QueuedIsLine, Zenon
  <2>2. Line(painted, frames, <<Head(raw)>>, Tail(raw), Pushed)
          = Line(painted, frames, <<>>, raw, Pushed)
    <3> DEFINE a == <<Head(raw)>>
               b == Tail(raw)
    <3>1. a \in Seq(Upd) /\ b \in Seq(Upd) /\ raw = Cat(a, b)
      BY <1>3
    <3>2. painted \in Seq(Upd) /\ frames \in Seq(Upd) /\ Pushed \in Seq(Upd)
      BY Parts
    <3> HIDE DEF a, b
    <3>3. Line(painted, frames, a, b, Pushed) = Line(painted, frames, <<>>, Cat(a, b), Pushed)
      BY <3>1, <3>2, LineTakes
    <3> QED BY <3>1, <3>3, Zenon DEF a, b
  <2>3. Queued' = Queued
    BY <1>3, <1>4, <2>1, <2>2, QueuedIsLine, Zenon
  <2> QED BY <1>1, <2>3, Zenon DEF IInv, NothingLost, life
<1> QED BY <1>2, <1>5, <1>6, <1>7, <1>8, <1>9 DEF IInv

(* Give: the update in hand goes to frames, where there is room.           *)
LEMMA GiveInv == ASSUME IInv, Give PROVE IInv'
<1>1. /\ UNCHANGED life /\ UNCHANGED mouse
      /\ Len(pump) = 1 /\ pump # Gone /\ Len(frames) < FrameBuf
      /\ frames' = Append(frames, pump[1]) /\ pump' = <<>>
      /\ reader' = reader /\ sent' = sent /\ raw' = raw /\ closed' = closed
      /\ painter' = painter /\ painted' = painted /\ verdict' = verdict
  BY Zenon DEF Give
<1>2. LifeType' /\ MouseType'
  BY <1>1, LifeKept
<1>3. PICK u \in Upd : pump = <<u>>
  <2>1. pump = <<>> \/ pump = Gone \/ \E u \in Upd : pump = <<u>>
    BY DEF IInv, UpdatesType
  <2>2. pump # <<>>
    BY <1>1, Short
  <2> QED BY <1>1, <2>1, <2>2
<1>4. /\ InHand = <<u>> /\ InHand' = <<>> /\ Pushed' = Pushed
      /\ Len(InHand) = 1 /\ Len(InHand') = 0
  BY <1>1, <1>3, Short DEF InHand, Pushed
<1>5. /\ frames' \in Seq(Upd) /\ Len(frames') = Len(frames) + 1
      /\ frames' = Cat(frames, InHand)
  <2>1. frames' = Append(frames, u)
    <3>1. pump[1] = u
      BY <1>3
    <3> QED BY <1>1, <3>1, Zenon
  <2>2. Append(frames, u) \in Seq(Upd) /\ Len(Append(frames, u)) = Len(frames) + 1
    BY Parts, AppendProperties
  <2>3. Append(frames, u) = frames \o <<u>>
    BY Parts, AppendIsConcat
  <2> QED BY <1>4, <2>1, <2>2, <2>3, Zenon DEF Cat
<1>6. UpdatesType'
  <2>1. Len(frames') <= FrameBuf
    BY <1>1, <1>5, Parts, QueuesAssumption
  <2> QED BY <1>1, <1>5, <2>1, Zenon DEF IInv, UpdatesType
<1>7. CountInv'
  <2>1. Len(painted) + Len(frames) + Len(InHand) + Len(raw) + Len(Pushed) <= sent
    BY DEF IInv, CountInv
  <2>2. Len(painted) + Len(frames') + Len(InHand') + Len(raw) + Len(Pushed) <= sent
    BY <1>4, <1>5, <2>1, Parts
  <2> QED BY <1>1, <1>4, <2>2, Zenon DEF CountInv
<1>8. CloseInv'
  <2>1. pump' # Gone
    BY <1>1, Short
  <2> QED BY <1>1, <2>1, Zenon DEF IInv, CloseInv, life
<1>9. CauseInv' /\ DeadIsFailed'
  BY <1>1, Zenon DEF IInv, CauseInv, DeadIsFailed, life
<1>10. NothingLost'
  <2>1. Queued' = Line(painted, Cat(frames, InHand), <<>>, raw, Pushed)
    BY <1>1, <1>4, <1>5, QueuedIsLine, Zenon
  <2>2. Line(painted, Cat(frames, InHand), <<>>, raw, Pushed)
          = Line(painted, frames, InHand, raw, Pushed)
    BY Parts, LineMoves
  <2>3. Queued' = Queued
    BY <2>1, <2>2, QueuedIsLine, Zenon
  <2> QED BY <1>1, <2>3, Zenon DEF IInv, NothingLost, life
<1> QED BY <1>2, <1>6, <1>7, <1>8, <1>9, <1>10 DEF IInv

(* PumpEnds: what the pump has in hand is dropped, and only after done.    *)
LEMMA PumpEndsInv == ASSUME IInv, PumpEnds PROVE IInv'
<1>1. /\ UNCHANGED life /\ UNCHANGED mouse
      /\ done /\ pump' = Gone /\ closed' = TRUE
      /\ reader' = reader /\ sent' = sent /\ raw' = raw /\ frames' = frames
      /\ painter' = painter /\ painted' = painted /\ verdict' = verdict
  BY Zenon DEF PumpEnds
<1>2. LifeType' /\ MouseType'
  BY <1>1, LifeKept
<1>3. InHand' = <<>> /\ Pushed' = Pushed /\ Len(InHand') = 0
  BY <1>1 DEF InHand, Pushed
<1>4. UpdatesType'
  BY <1>1, Zenon DEF IInv, UpdatesType
<1>5. CountInv'
  <2>1. Len(painted) + Len(frames) + Len(InHand) + Len(raw) + Len(Pushed) <= sent
    BY DEF IInv, CountInv
  <2>2. Len(painted) + Len(frames) + Len(InHand') + Len(raw) + Len(Pushed) <= sent
    BY <1>3, <2>1, Parts
  <2> QED BY <1>1, <1>3, <2>2, Zenon DEF CountInv
<1>6. CloseInv' /\ NothingLost'
  BY <1>1, Zenon DEF CloseInv, NothingLost, life
<1>7. CauseInv' /\ DeadIsFailed'
  BY <1>1, Zenon DEF IInv, CauseInv, DeadIsFailed, life
<1> QED BY <1>2, <1>4, <1>5, <1>6, <1>7 DEF IInv

(* Paint: the head of frames is put on the screen.                         *)
LEMMA PaintInv == ASSUME IInv, Paint PROVE IInv'
<1>1. /\ UNCHANGED life /\ UNCHANGED mouse
      /\ frames # <<>>
      /\ painted' = Append(painted, Head(frames)) /\ frames' = Tail(frames)
      /\ reader' = reader /\ sent' = sent /\ raw' = raw /\ pump' = pump /\ closed' = closed
      /\ painter' = painter /\ verdict' = verdict
  BY Zenon DEF Paint
<1>2. LifeType' /\ MouseType'
  BY <1>1, LifeKept
<1> DEFINE a == <<Head(frames)>>
           b == Tail(frames)
<1>3. /\ frames = Cat(a, b) /\ Head(frames) \in Upd
      /\ a \in Seq(Upd) /\ b \in Seq(Upd) /\ Len(b) = Len(frames) - 1
  BY <1>1, HeadTail, Parts DEF Cat
<1>4. InHand' = InHand /\ Pushed' = Pushed
  BY <1>1, Zenon DEF InHand, Pushed
<1>5. /\ painted' \in Seq(Upd) /\ Len(painted') = Len(painted) + 1
      /\ painted' = Cat(painted, a)
  <2>1. /\ Append(painted, Head(frames)) \in Seq(Upd)
        /\ Len(Append(painted, Head(frames))) = Len(painted) + 1
    BY <1>3, Parts, AppendProperties
  <2>2. Append(painted, Head(frames)) = painted \o a
    BY <1>3, Parts, AppendIsConcat
  <2> QED BY <1>1, <2>1, <2>2, Zenon DEF Cat
<1>6. UpdatesType'
  <2>1. Len(frames) <= FrameBuf
    BY DEF IInv, UpdatesType
  <2>2. Len(frames') <= FrameBuf /\ frames' \in Seq(Upd)
    BY <1>1, <1>3, <2>1, Parts, QueuesAssumption
  <2> QED BY <1>1, <1>5, <2>2, Zenon DEF IInv, UpdatesType
<1>7. CountInv'
  <2>1. Len(painted) + Len(frames) + Len(InHand) + Len(raw) + Len(Pushed) <= sent
    BY DEF IInv, CountInv
  <2>2. Len(painted') + Len(b) + Len(InHand) + Len(raw) + Len(Pushed) <= sent
    BY <1>3, <1>5, <2>1, Parts
  <2> QED BY <1>1, <1>4, <2>2, Zenon DEF CountInv
<1>8. CloseInv' /\ CauseInv' /\ DeadIsFailed'
  BY <1>1, Zenon DEF IInv, CloseInv, CauseInv, DeadIsFailed, life
<1>9. NothingLost'
  <2>1. Queued' = Line(Cat(painted, a), b, InHand, raw, Pushed)
    BY <1>1, <1>4, <1>5, QueuedIsLine, Zenon
  <2> HIDE DEF a, b
  <2>2. Line(Cat(painted, a), b, InHand, raw, Pushed)
          = Line(painted, frames, InHand, raw, Pushed)
    <3>1. Cat(Cat(painted, a), b) = Cat(painted, Cat(a, b))
      BY <1>3, Parts, CatLaws
    <3> QED BY <1>3, <3>1, Zenon DEF Line
  <2>3. Queued' = Queued
    BY <2>1, <2>2, QueuedIsLine, Zenon
  <2> QED BY <1>1, <2>3, Zenon DEF IInv, NothingLost, life
<1> QED BY <1>2, <1>6, <1>7, <1>8, <1>9 DEF IInv

(* The painter goes once frames is closed, and then Failed is asked: of a  *)
(* session the network ended it says so.                                   *)
LEMMA PainterGoesInv == ASSUME IInv, RangeEnds \/ AsksFailed PROVE IInv'
<1>1. /\ UNCHANGED life /\ UNCHANGED mouse
      /\ reader' = reader /\ sent' = sent /\ raw' = raw /\ frames' = frames
      /\ pump' = pump /\ closed' = closed /\ painted' = painted
      /\ \/ painter = "range" /\ closed /\ painter' = "through" /\ verdict' = verdict
         \/ /\ painter = "through" /\ painter' = "left"
            /\ verdict' = IF failed THEN "lost" ELSE "over"
  BY Zenon DEF RangeEnds, AsksFailed
<1>2. LifeType' /\ MouseType'
  BY <1>1, LifeKept
<1>3. UpdatesType'
  <2>1. painter' \in {"none", "range", "through", "left"} /\ verdict' \in {"", "over", "lost"}
    BY <1>1 DEF IInv, UpdatesType
  <2> QED BY <1>1, <2>1, Zenon DEF IInv, UpdatesType
<1>4. CountInv' /\ Queued' = Queued
  BY <1>1, LineKept DEF IInv
<1>5. NothingLost'
  BY <1>1, <1>4, Zenon DEF IInv, NothingLost, life
<1>6. CloseInv' /\ CauseInv'
  <2>1. painter # "none" /\ closed
    BY <1>1 DEF IInv, CloseInv
  <2>2. CloseInv'
    BY <1>1, <2>1, Zenon DEF IInv, CloseInv, life
  <2>3. CauseInv'
    BY <1>1, <2>1, Zenon DEF IInv, CauseInv, life
  <2> QED BY <2>2, <2>3
<1>7. DeadIsFailed'
  <2>1. why' = why /\ sock' = sock
    BY <1>1 DEF life
  <2>2. ASSUME painter' = "left", why = "network" PROVE verdict' = "lost"
    <3>1. painter = "through" /\ verdict' = IF failed THEN "lost" ELSE "over"
      BY <1>1, <2>2
    <3>2. failed
      BY <2>2, <3>1 DEF IInv, CauseInv
    <3> QED BY <3>1, <3>2
  <2>3. ASSUME painter' = "left", verdict' = "over" PROVE sock \in {"closing", "closed"}
    <3>1. painter = "through" /\ ~failed
      BY <1>1, <2>3
    <3>2. done /\ new = "up"
      BY <3>1 DEF IInv, CauseInv, CloseInv
    <3> QED BY <3>1, <3>2 DEF IInv, CauseInv
  <2> QED BY <2>1, <2>2, <2>3 DEF DeadIsFailed
<1> QED BY <1>2, <1>3, <1>4, <1>5, <1>6, <1>7 DEF IInv
-----------------------------------------------------------------------------
(* Every step keeps the invariant.                                         *)
LEMMA NextInv == IInv /\ [Next]_vars => IInv'
<1> SUFFICES ASSUME IInv, [Next]_vars PROVE IInv'
  OBVIOUS
<1>1. CASE UNCHANGED vars
  <2>1. UNCHANGED life /\ UNCHANGED updates /\ UNCHANGED mouse
    BY <1>1 DEF vars
  <2> QED BY <2>1, OthersKept, LifeKept DEF IInv
<1>2. CASE Next
  BY <1>2, MouseInv, LifeInv, OnBitmapInv, PushInv, TakeInv, GiveInv, PumpEndsInv, PaintInv,
     PainterGoesInv, Zenon DEF Next, Reader, Pump, Painter, User
<1> QED BY <1>1, <1>2

(* The invariant holds of every behaviour of the client.                   *)
LEMMA AlwaysIInv == Spec => []IInv
  BY InitInv, NextInv, PTL DEF Spec

(* No queue grows past its bound, whatever the bounds are (raw, frames).   *)
THEOREM TypeCorrect == Spec => []TypeOK
<1>1. IInv => TypeOK
  BY InvImplies
<1> QED BY <1>1, AlwaysIInv, PTL

(* Until the session ends every update is on the screen or on its way      *)
(* there, once and in its order, however long the queues and however the   *)
(* goroutines are scheduled (OnBitmap, the pump, runSession).              *)
THEOREM NoUpdateLost == Spec => []NothingLost
<1>1. IInv => NothingLost
  BY InvImplies
<1> QED BY <1>1, AlwaysIInv, PTL

(* Failed says of every session whose end grdp announced that it was lost, *)
(* so that connect dials again, and of none but those the user hung up on  *)
(* that it is over; the ends grdp keeps silent about are among the steps   *)
(* (OnError, Failed, Close, tpkt's callbacks).                             *)
THEOREM DeadSessionIsLost == Spec => []DeadIsFailed
<1>1. IInv => DeadIsFailed
  BY InvImplies
<1> QED BY <1>1, AlwaysIInv, PTL
=============================================================================
