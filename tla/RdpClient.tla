------------------------------ MODULE RdpClient ------------------------------
(***************************************************************************)
(* The built-in RDP client (internal/rdp/client.go), over grdp: the        *)
(* handshake in New, the screen updates on their way from grdp's reader    *)
(* through raw, the pump and frames to the painter (ui's runSession), the  *)
(* pointer's moves on theirs to the server, and the ways a session ends.   *)
(*                                                                         *)
(* Six goroutines: New's caller, which is the painter afterwards; grdp's   *)
(* reader; the pump; mouseSender; the UI loop; and the one Close starts to *)
(* hang up.  A select with several cases ready takes any of them.          *)
(*                                                                         *)
(* Abstractions: an update is its number, a position a model value, and a  *)
(* key, a button or a wheel notch a "press".                               *)
(***************************************************************************)
EXTENDS Naturals, Sequences

CONSTANTS Updates,   \* bound: the updates a server sends
          Backlog,   \* updateBacklog: 128 in the code
          FrameBuf,  \* cap(frames): 8 in the code
          Points,    \* where the pointer may be
          Moves,     \* bound: the pointer's moves
          Presses    \* bound: the buttons pressed

ASSUME QueuesAssumption == Backlog \in Nat \ {0} /\ FrameBuf \in Nat \ {0}
ASSUME BoundsAssumption == Updates \in Nat /\ Moves \in Nat /\ Presses \in Nat

VARIABLES
  new,      \* New: "login", "wait", "up" (it returned a client), "refused" (an error)
  ready,    \* up, set by OnReady
  readyCh,  \* the two channels New waits on hold something
  errCh,
  done,     \* done is closed
  failed,   \* Client.failed
  sock,     \* the connection: "open", "dropped" by grdp, "closing" (go g.Close()), "closed"
  why,      \* what ended the session first: "network", "logoff", "cut" or "asked"
  reader,   \* grdp's reader: "read", "push" (in OnBitmap), "gone"
  sent,     \* the last update that the reader decoded
  raw, frames,
  pump,     \* <<>>, the update in hand as <<u>>, or <<0>> once it has returned
  closed,   \* frames is closed
  painter,  \* runSession: "none", "range", "through", "left" (Failed was read)
  painted,  \* the updates on the screen
  verdict,  \* what Failed said
  xy,       \* mouseXY
  kick,     \* mouseKick
  sender,   \* mouseSender: "wait", "load", "send", "gone"
  last,     \* its last, the move in hand
  at,       \* where the server has the pointer
  moves,    \* the moves and the presses so far
  presses

life == <<new, ready, readyCh, errCh, done, failed, sock, why>>
updates == <<reader, sent, raw, frames, pump, closed, painter, painted, verdict>>
mouse == <<xy, kick, sender, last, at, moves, presses>>
vars == <<life, updates, mouse>>

Gone == <<0>>

Init ==
  /\ new = "login" /\ ready = FALSE /\ readyCh = FALSE /\ errCh = FALSE
  /\ done = FALSE /\ failed = FALSE /\ sock = "open" /\ why = ""
  /\ reader = "read" /\ sent = 0 /\ raw = <<>> /\ frames = <<>> /\ pump = <<>>
  /\ closed = FALSE /\ painter = "none" /\ painted = <<>> /\ verdict = ""
  /\ xy = "none" /\ kick = FALSE /\ sender = "none" /\ last = "none"
  /\ at = "none" /\ moves = 0 /\ presses = 0
-----------------------------------------------------------------------------
(* New: the handlers are attached only once Login has returned, with the   *)
(* reader already at work; mouseSender starts with them.                   *)
Login ==
  /\ new = "login"
  /\ \/ /\ new' = "refused" /\ done' = TRUE /\ sender' = sender
     \/ /\ new' = "wait" /\ done' = done /\ sender' = "wait"
  /\ UNCHANGED <<ready, readyCh, errCh, failed, sock, why, updates>>
  /\ UNCHANGED <<xy, kick, last, at, moves, presses>>

(* The client is returned, and runSession ranges over its frames.          *)
ComesUp ==
  /\ new = "wait" /\ readyCh
  /\ new' = "up" /\ readyCh' = FALSE
  /\ painter' = "range"
  /\ UNCHANGED <<ready, errCh, done, failed, sock, why, mouse>>
  /\ UNCHANGED <<reader, sent, raw, frames, pump, closed, painted, verdict>>

(* An error, or connectTimeout: hang up.                                   *)
Refused ==
  /\ new = "wait"
  /\ new' = "refused" /\ errCh' = FALSE
  /\ done' = TRUE /\ sock' = "closed"
  /\ UNCHANGED <<ready, readyCh, failed, why, updates, mouse>>
-----------------------------------------------------------------------------
(* grdp's reader, which calls the handlers itself.                         *)

OnReady ==
  /\ reader = "read" /\ sock # "closed" /\ new # "login" /\ ~ready
  /\ ready' = TRUE /\ readyCh' = TRUE
  /\ UNCHANGED <<new, errCh, done, failed, sock, why, updates, mouse>>

OnBitmap ==
  /\ reader = "read" /\ sock # "closed" /\ new # "login" /\ sent < Updates
  /\ sent' = sent + 1
  /\ reader' = "push"
  /\ UNCHANGED <<life, mouse, raw, frames, pump, closed, painter, painted, verdict>>

(* NothingLost: an update that finds the queue full is dropped.  TypeOK:   *)
(* it is queued all the same.                                              *)
PushDrops ==
  /\ reader = "push"
  /\ raw' = IF Len(raw) < Backlog THEN Append(raw, sent) ELSE raw
  /\ reader' = "read"
  /\ UNCHANGED <<life, mouse, sent, frames, pump, closed, painter, painted, verdict>>

PushUnbounded ==
  /\ reader = "push"
  /\ raw' = Append(raw, sent)
  /\ reader' = "read"
  /\ UNCHANGED <<life, mouse, sent, frames, pump, closed, painter, painted, verdict>>

(* A full queue holds the reader, and with it the server, up.              *)
Push ==
  /\ reader = "push"
  /\ \/ Len(raw) < Backlog /\ raw' = Append(raw, sent)
     \/ done /\ raw' = raw
  /\ reader' = "read"
  /\ UNCHANGED <<life, mouse, sent, frames, pump, closed, painter, painted, verdict>>

(* DeadIsFailed: the session is ended, and not marked as failed.           *)
OnErrorMutant ==
  IF ready THEN failed' = failed /\ done' = TRUE /\ errCh' = errCh
  ELSE errCh' = (errCh \/ new # "login") /\ UNCHANGED <<failed, done>>

(* OnError: a dead session once it is up, an answer for New before; before *)
(* there is a handler nobody hears of it.                                  *)
OnError ==
  IF ready THEN failed' = TRUE /\ done' = TRUE /\ errCh' = errCh
  ELSE errCh' = (errCh \/ new # "login") /\ UNCHANGED <<failed, done>>

(* The read of a PDU's header fails: the network went, the server hung up  *)
(* on a user who logged off, or the kiosk hung up itself.  grdp says       *)
(* "error" to all of them and never "close", which OnClose is for.  A PDU  *)
(* that it cannot take is an error too, after which the reader reads on.   *)
ReadFails ==
  /\ reader = "read"
  /\ \E cause \in (IF sock = "closed" THEN {"asked"} ELSE {"network", "logoff"}) :
       /\ cause = "logoff" => ready
       /\ why' = IF why = "" /\ ready THEN cause ELSE why
       /\ reader' \in {"gone", IF cause = "network" THEN "read" ELSE "gone"}
  /\ OnError
  /\ UNCHANGED <<new, ready, readyCh, sock, mouse>>
  /\ UNCHANGED <<sent, raw, frames, pump, closed, painter, painted, verdict>>

(* A read past the header fails, or a parser panics, after which grdp      *)
(* drops the connection: the reader is gone and no handler is told.        *)
ReadCut ==
  /\ reader = "read"
  /\ why' = IF why # "" \/ ~ready THEN why ELSE IF sock = "closed" THEN "asked" ELSE "cut"
  /\ reader' = "gone"
  /\ sock' \in {sock, IF sock = "open" THEN "dropped" ELSE sock}
  /\ UNCHANGED <<new, ready, readyCh, errCh, done, failed, mouse>>
  /\ UNCHANGED <<sent, raw, frames, pump, closed, painter, painted, verdict>>
-----------------------------------------------------------------------------
(* The pump, frames' only sender, and the painter.                         *)

Take ==
  /\ pump = <<>> /\ raw # <<>>
  /\ pump' = <<Head(raw)>> /\ raw' = Tail(raw)
  /\ UNCHANGED <<life, mouse, reader, sent, frames, closed, painter, painted, verdict>>

Give ==
  /\ Len(pump) = 1 /\ pump # Gone
  /\ Len(frames) < FrameBuf
  /\ frames' = Append(frames, pump[1]) /\ pump' = <<>>
  /\ UNCHANGED <<life, mouse, reader, sent, raw, closed, painter, painted, verdict>>

(* FramesEnd: the pump returns and leaves frames open.                     *)
PumpEndsMutant ==
  /\ done /\ pump # Gone
  /\ pump' = Gone
  /\ UNCHANGED <<life, mouse, reader, sent, raw, frames, closed, painter, painted, verdict>>

PumpEnds ==
  /\ done /\ pump # Gone
  /\ pump' = Gone /\ closed' = TRUE
  /\ UNCHANGED <<life, mouse, reader, sent, raw, frames, painter, painted, verdict>>

Paint ==
  /\ painter = "range" /\ frames # <<>>
  /\ painted' = Append(painted, Head(frames)) /\ frames' = Tail(frames)
  /\ UNCHANGED <<life, mouse, reader, sent, raw, pump, closed, painter, verdict>>

RangeEnds ==
  /\ painter = "range" /\ frames = <<>> /\ closed
  /\ painter' = "through"
  /\ UNCHANGED <<life, mouse, reader, sent, raw, frames, pump, closed, painted, verdict>>

(* connect asks whether to dial again.                                     *)
AsksFailed ==
  /\ painter = "through"
  /\ painter' = "left" /\ verdict' = IF failed THEN "lost" ELSE "over"
  /\ UNCHANGED <<life, mouse, reader, sent, raw, frames, pump, closed, painted>>
-----------------------------------------------------------------------------
(* The UI loop: Ctrl+Alt+End and input for the session on the screen.      *)

Close ==
  /\ new = "up" /\ painter = "range" /\ sock \in {"open", "dropped"}
  /\ done' = TRUE /\ sock' = "closing"
  /\ why' = IF why = "" THEN "asked" ELSE why
  /\ UNCHANGED <<new, ready, readyCh, errCh, failed, updates, mouse>>

(* go c.g.Close()                                                          *)
HangUp ==
  /\ sock = "closing"
  /\ sock' = "closed"
  /\ UNCHANGED <<new, ready, readyCh, errCh, done, failed, why, updates, mouse>>

SendMouse(p) ==
  /\ painter = "range" /\ moves < Moves
  /\ moves' = moves + 1
  /\ xy' = p /\ kick' = TRUE
  /\ UNCHANGED <<life, updates, sender, last, at, presses>>

(* SendMouseDown and the like, each with the pointer's position.           *)
Press(p) ==
  /\ painter = "range" /\ presses < Presses
  /\ presses' = presses + 1
  /\ at' = p
  /\ UNCHANGED <<life, updates, xy, kick, sender, last, moves>>

(* mouseSender.                                                            *)
Kicked ==
  /\ sender = "wait" /\ kick
  /\ kick' = FALSE /\ sender' = "load"
  /\ UNCHANGED <<life, updates, xy, last, at, moves, presses>>

Load ==
  /\ sender = "load"
  /\ IF xy = last THEN sender' = "wait" /\ last' = last
     ELSE sender' = "send" /\ last' = xy
  /\ UNCHANGED <<life, updates, xy, kick, at, moves, presses>>

(* PointerArrives: kicks that came meanwhile are taken for this one.       *)
SendMutant ==
  /\ sender = "send"
  /\ at' = last
  /\ sender' = "wait" /\ kick' = FALSE
  /\ UNCHANGED <<life, updates, xy, last, moves, presses>>

(* Under the lock send, as a press is.                                     *)
Send ==
  /\ sender = "send"
  /\ at' = last
  /\ sender' = "wait"
  /\ UNCHANGED <<life, updates, xy, kick, last, moves, presses>>

SenderEnds ==
  /\ sender = "wait" /\ done
  /\ sender' = "gone"
  /\ UNCHANGED <<life, updates, xy, kick, last, at, moves, presses>>
-----------------------------------------------------------------------------
Reader == OnReady \/ OnBitmap \/ Push \/ ReadFails \/ ReadCut
Pump == Take \/ Give \/ PumpEnds
Painter == Paint \/ RangeEnds \/ AsksFailed
Sender == Kicked \/ Load \/ Send \/ SenderEnds
User == Close \/ \E p \in Points : SendMouse(p) \/ Press(p)

Next == Login \/ ComesUp \/ Refused \/ Reader \/ Pump \/ Painter \/ Sender \/ User \/ HangUp

Spec == Init /\ [][Next]_vars

(* The goroutines are scheduled.  Go's select is fair only in that it      *)
(* takes each ready case with some chance, so the pump's end is asked for  *)
(* by name; what the server and the user do is theirs.                     *)
Fairness == /\ WF_vars(Push) /\ WF_vars(Take \/ Give) /\ WF_vars(PumpEnds)
            /\ WF_vars(Painter) /\ WF_vars(Sender) /\ WF_vars(HangUp)

FairSpec == Spec /\ Fairness
-----------------------------------------------------------------------------
UpTo(n) == UNION {[1..k -> 1..Updates] : k \in 0..n}

TypeOK ==
  /\ new \in {"login", "wait", "up", "refused"} /\ sock \in {"open", "dropped", "closing", "closed"}
  /\ {ready, readyCh, errCh, done, failed, closed, kick} \subseteq BOOLEAN
  /\ why \in {"", "network", "logoff", "cut", "asked"} /\ verdict \in {"", "over", "lost"}
  /\ reader \in {"read", "push", "gone"} /\ sent \in 0..Updates
  /\ raw \in UpTo(Backlog) /\ frames \in UpTo(FrameBuf) /\ painted \in UpTo(Updates)
  /\ pump \in UpTo(1) \cup {Gone}
  /\ painter \in {"none", "range", "through", "left"}
  /\ sender \in {"none", "wait", "load", "send", "gone"} /\ {xy, last, at} \subseteq Points \cup {"none"}
  /\ moves \in 0..Moves /\ presses \in 0..Presses

(* RDP never sends a tile again: while the session is up, every update the *)
(* server sent is on the screen or on its way there, in its order.         *)
Queued == painted \o frames \o (IF pump = Gone THEN <<>> ELSE pump) \o raw
           \o (IF reader = "push" THEN <<sent>> ELSE <<>>)
NothingLost == ~done => Queued = [u \in 1..sent |-> u]

(* A session whose death grdp announced is one that connect dials again,   *)
(* even if the user hung up on it meanwhile; and the only one it takes for *)
(* over is one the user hung up on.  A session that was cut in the middle  *)
(* of a PDU is of that kind: nobody leaves it before the user does.        *)
DeadIsFailed ==
  painter = "left" => /\ why = "network" => verdict = "lost"
                      /\ verdict = "over" => sock \in {"closing", "closed"}

(* The painter leaves a session that has ended: the UI does not stay on a  *)
(* dead desktop.                                                           *)
FramesEnd == done /\ painter = "range" ~> painter = "left"

(* The pointer's last position reaches the server, if no press carries     *)
(* another in between.                                                     *)
PointerArrives ==
  \A p \in Points : xy = p ~> at = p \/ xy # p \/ done \/ presses > 0
=============================================================================
