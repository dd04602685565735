------------------------ MODULE KioskSession_proofs --------------------------
(***************************************************************************)
(* What the kiosk's screens and connections guarantee for any number of    *)
(* connections, servers and attempts: the connecting screen always has a   *)
(* goroutine about to take it down, the session screen a session; and      *)
(* until Ctrl+Alt+End is pressed there is one connection, and the screen   *)
(* is where that connection is.                                            *)
(***************************************************************************)
EXTENDS KioskSession, TLAPS

(* A goroutine that has returned has nothing left but perhaps its save,    *)
(* and one that has only just begun has no timer.                          *)
NoneInv ==
  \A c \in Conns : /\ conn[c].pc = "none" => conn[c] = NoConn
                   /\ conn[c].pc = "start" => ~conn[c].timer

(* reconnect has an attempt left while it is at it.                        *)
RedialInv == \A c \in Conns : conn[c].pc = "redial" => conn[c].tries < Redials

Dialling == {"start", "lookup", "dial", "show", "redial"}

(* Until Ctrl+Alt+End is pressed the screen follows the connection.        *)
ScreenInv ==
  presses = 0 =>
    /\ closing = 0
    /\ \A c \in Conns :
         /\ conn[c].pc \in Dialling => screen = "connecting"
         /\ conn[c].pc \in {"run", "ended"} => screen = "session" /\ session = c
         /\ conn[c].pc \in {"keep", "tail"} => screen \in {"connecting", "session"}

(* Until then, too, a connection that the countdown makes has the startup  *)
(* server to go back to: F10 needs the dialog, which is not up.            *)
AutoInv ==
  presses = 0 =>
    /\ unattended => auto # NoAuto /\ \E c \in Conns : conn[c].pc = "start"
    /\ \A c \in Conns : conn[c].alone => auto # NoAuto

IInv == /\ TypeOK /\ presses \in Nat
        /\ NoneInv /\ RedialInv
        /\ ConnectingAttended /\ SessionShown
        /\ ScreenInv /\ OneConnection /\ AutoInv /\ CountdownHasServer
-----------------------------------------------------------------------------
(* Transition, screen by screen: only the connecting screen leads to the   *)
(* session, no dialog is left for the countdown, and F4 is left with Esc.  *)
LEMMA GoesLaws ==
  ASSUME NEW f \in Screens
  PROVE  /\ Goes(f, "discovery") = "discovery"
         /\ Goes(f, "modal") = IF f = "dialog" THEN f ELSE "modal"
         /\ Goes(f, "connecting") = IF f \in {"modal", "session", "auto"} THEN "connecting" ELSE f
         /\ Goes(f, "session") = IF f = "connecting" THEN "session" ELSE f
         /\ Goes(f, "auto") = IF f \in {"modal", "dialog"} THEN f ELSE "auto"
         /\ Goes(f, "dialog") = IF f = "discovery" THEN "dialog" ELSE f
  <1>1. CASE f = "discovery" BY <1>1 DEF Goes, Allowed
  <1>2. CASE f = "modal" BY <1>2 DEF Goes, Allowed
  <1>3. CASE f = "connecting" BY <1>3 DEF Goes, Allowed
  <1>4. CASE f = "session" BY <1>4 DEF Goes, Allowed
  <1>5. CASE f = "auto" BY <1>5 DEF Goes, Allowed
  <1>6. CASE f = "dialog" BY <1>6 DEF Goes, Allowed
  <1> QED BY <1>1, <1>2, <1>3, <1>4, <1>5, <1>6 DEF Screens

(* What there is at first is of its type.                                  *)
LEMMA Nothings ==
  /\ NoAuto \in Config /\ NoSave \in SaveType /\ NoConn \in ConnType
  /\ NoConn.pc = "none" /\ NoConn.alone = FALSE /\ NoConn.timer = FALSE
  <1>1. NoAuto \in Config BY DEF NoAuto, Config, Modes
  <1>2. NoSave \in SaveType BY <1>1 DEF NoSave, SaveType
  <1> QED BY <1>1, <1>2, RedialsAssumption DEF NoConn, ConnType, Pcs, Modes

(* The kiosk starts in the invariant.                                      *)
LEMMA InitInv == Init => IInv
  <1> SUFFICES ASSUME Init PROVE IInv OBVIOUS
  <1> USE Nothings
  <1>1. auto \in Config BY DEF Init, Config, Modes
  <1>2. "discovery" \in Screens BY DEF Screens
  <1>3. screen \in {"discovery", "modal", "auto"} /\ (screen = "auto" => auto # NoAuto)
    BY <1>2, GoesLaws, Zenon DEF Init
  <1>4. modal \in Config BY <1>1 DEF Init
  <1>5. \A c \in Conns : conn[c] = NoConn BY DEF Init
  <1>6. TypeOK
    <2>1. conn \in [Conns -> ConnType] /\ save \in [Conns -> SaveType] BY DEF Init
    <2>2. screen \in Screens BY <1>3 DEF Screens
    <2> QED BY <1>1, <1>4, <2>1, <2>2, Zenon DEF Init, TypeOK
  <1>7. presses = 0 /\ closing = 0 /\ ~unattended BY DEF Init
  <1>8. NoneInv /\ RedialInv BY <1>5 DEF NoneInv, RedialInv
  <1>9. ConnectingAttended /\ SessionShown /\ CountdownHasServer
    BY <1>3 DEF ConnectingAttended, SessionShown, CountdownHasServer
  <1>10. ScreenInv /\ OneConnection BY <1>5, <1>7 DEF ScreenInv, OneConnection, Dialling
  <1>11. AutoInv BY <1>5, <1>7, Zenon DEF AutoInv
  <1> QED BY <1>6, <1>7, <1>8, <1>9, <1>10, <1>11 DEF IInv
-----------------------------------------------------------------------------
(* Until Ctrl+Alt+End is pressed a goroutine under way is the only one.    *)
Alone(c) == presses = 0 => \A d \in Conns : d # c => conn[d].pc = "none"

LEMMA UnderWayIsAlone ==
  ASSUME IInv, NEW c \in Conns, conn[c].pc # "none" PROVE Alone(c)
  BY DEF IInv, OneConnection, Alone

(* Until then there is none while a key counts on any other screen.        *)
LEMMA IdleScreens ==
  ASSUME IInv, presses = 0, screen \notin {"connecting", "session"}
  PROVE  \A c \in Conns : conn[c].pc = "none"
  <1> SUFFICES ASSUME NEW c \in Conns PROVE conn[c].pc = "none" OBVIOUS
  <1>1. conn[c].pc \in Pcs BY DEF IInv, TypeOK, ConnType
  <1>2. conn[c].pc \notin Dialling \cup {"run", "ended", "keep", "tail"}
    BY DEF IInv, ScreenInv
  <1> QED BY <1>1, <1>2 DEF Pcs, Dialling

(* What a step owes the state that no goroutine holds.                     *)
TypeStep ==
  /\ screen' \in Screens /\ modal' \in Config /\ auto' \in Config /\ kept' \in Config
  /\ unattended' \in BOOLEAN
  /\ session' \in Conns \cup {0} /\ closing' \in Conns \cup {0}
  /\ save' \in [Conns -> SaveType]
  /\ presses' \in Nat /\ (presses' = 0 => presses = 0)

(* What goroutine c, going on as r, owes the invariants that hold whatever *)
(* is pressed: the connecting screen is not left to nobody, the session    *)
(* screen not to a session that is over.                                   *)
Showing == {"run", "ended", "keep", "tail"}

LeavesSomeone(c, r) ==
  /\ r.pc = "none" => r = NoConn
  /\ r.pc = "start" => ~r.timer
  /\ r.pc = "redial" => r.tries < Redials
  /\ \/ screen' # "connecting" \/ r.pc \in Pending
     \/ screen' = screen /\ conn[c].pc \notin Pending
  /\ \/ screen' # "session"
     \/ session' = c /\ r.pc \in Showing
     \/ screen' = screen /\ session' = session /\ (r.pc \in Showing \/ conn[c].pc \notin Showing)

(* What it owes the ones that hold until Ctrl+Alt+End.                     *)
TakesScreen(c, r) ==
  presses' = 0 =>
    /\ closing' = 0
    /\ r.pc \in Dialling => screen' = "connecting"
    /\ r.pc \in {"run", "ended"} => screen' = "session" /\ session' = c
    /\ r.pc \in {"keep", "tail"} => screen' \in {"connecting", "session"}
    /\ unattended' => auto' # NoAuto /\ r.pc = "start"
    /\ r.alone => auto' # NoAuto
    /\ screen' = "auto" => auto' # NoAuto

(* A goroutine that meets both keeps the invariant.                        *)
LEMMA GoroutineStep ==
  ASSUME IInv, TypeStep, NEW c \in Conns, Alone(c), NEW r \in ConnType,
         conn' = [conn EXCEPT ![c] = r], LeavesSomeone(c, r), TakesScreen(c, r)
  PROVE  IInv'
  <1> USE Nothings
  <1>1. conn \in [Conns -> ConnType] BY DEF IInv, TypeOK
  <1>2. conn' \in [Conns -> ConnType] /\ conn'[c] = r BY <1>1
  <1>3. \A d \in Conns : d # c => conn'[d] = conn[d] BY <1>1
  <1>4. TypeOK' BY <1>2, Zenon DEF TypeStep, TypeOK
  <1>5. NoneInv' BY <1>2, <1>3, Zenon DEF IInv, NoneInv, LeavesSomeone
  <1>6. RedialInv' BY <1>2, <1>3, Zenon DEF IInv, RedialInv, LeavesSomeone
  <1>7. ConnectingAttended'
    BY <1>2, <1>3, Zenon DEF IInv, ConnectingAttended, LeavesSomeone
  <1>8. SessionShown'
    <2> SUFFICES ASSUME screen' = "session"
                 PROVE  session' # 0 /\ conn'[session'].pc \in Showing
      BY Zenon DEF SessionShown, Showing
    <2>1. c # 0 BY ConnsAssumption
    <2>2. CASE session' = c /\ r.pc \in Showing BY <1>2, <2>1, <2>2, Zenon
    <2>3. CASE screen' = screen /\ session' = session /\ (r.pc \in Showing \/ conn[c].pc \notin Showing)
      <3>1. session # 0 /\ session \in Conns /\ conn[session].pc \in Showing
        BY <2>3 DEF IInv, SessionShown, Showing, TypeOK
      <3> QED BY <1>2, <1>3, <2>3, <3>1, Zenon
    <2> QED BY <2>2, <2>3, Zenon DEF LeavesSomeone
  <1>9. presses' = 0 => \A d \in Conns : d # c => conn'[d] = NoConn
    <2>1. \A d \in Conns : conn[d].pc = "none" => conn[d] = NoConn BY DEF IInv, NoneInv
    <2> QED BY <1>3, <2>1, Zenon DEF Alone, TypeStep
  <1>10. ScreenInv'
    BY <1>2, <1>9 DEF ScreenInv, TakesScreen, Dialling
  <1>11. OneConnection' BY <1>9, Zenon DEF OneConnection
  <1>12. AutoInv' BY <1>2, <1>9, Zenon DEF AutoInv, TakesScreen
  <1>13. CountdownHasServer' BY DEF CountdownHasServer, TakesScreen
  <1> QED BY <1>4, <1>5, <1>6, <1>7, <1>8, <1>10, <1>11, <1>12, <1>13, Zenon DEF IInv, TypeStep

(* So does a step of the UI loop that starts none and leaves the screen,   *)
(* or changes the startup server, only where no goroutine is about.        *)
LEMMA LoopStep ==
  ASSUME IInv, TypeStep, conn' = conn, session' = session, unattended' = unattended,
         screen' \in {"connecting", "session"} => screen' = screen,
         presses' = 0 =>
           /\ closing' = 0
           /\ (screen' = screen /\ auto' = auto) \/ \A c \in Conns : conn[c].pc = "none"
           /\ screen' = "auto" => auto' # NoAuto
  PROVE  IInv'
  <1> USE Nothings
  <1>1. TypeOK'
    <2>1. conn' \in [Conns -> ConnType] BY DEF IInv, TypeOK
    <2> QED BY <2>1, Zenon DEF TypeStep, TypeOK
  <1>2. NoneInv' /\ RedialInv' BY Zenon DEF IInv, NoneInv, RedialInv
  <1>3. ConnectingAttended' /\ SessionShown'
    BY DEF IInv, ConnectingAttended, SessionShown
  <1>4. OneConnection' BY Zenon DEF IInv, OneConnection, TypeStep
  <1>5. CountdownHasServer' BY DEF CountdownHasServer
  <1>6. CASE presses' # 0 BY <1>1, <1>2, <1>3, <1>4, <1>5, <1>6, Zenon DEF IInv, ScreenInv, AutoInv, TypeStep
  <1>7. CASE presses' = 0 /\ screen' = screen /\ auto' = auto
    <2>1. presses = 0 /\ closing' = 0 BY <1>7, Zenon DEF TypeStep
    <2>2. ScreenInv' BY <1>7, <2>1, Zenon DEF IInv, ScreenInv
    <2>3. AutoInv' BY <1>7, <2>1, Zenon DEF IInv, AutoInv
    <2> QED BY <1>1, <1>2, <1>3, <1>4, <1>5, <2>2, <2>3, Zenon DEF IInv, TypeStep
  <1>8. CASE presses' = 0 /\ \A c \in Conns : conn[c].pc = "none"
    <2>1. presses = 0 /\ closing' = 0 BY <1>8, Zenon DEF TypeStep
    <2>2. \A c \in Conns : conn'[c] = NoConn
      <3>1. \A c \in Conns : conn[c].pc = "none" => conn[c] = NoConn BY DEF IInv, NoneInv
      <3> QED BY <1>8, <3>1, Zenon
    <2>3. ScreenInv' BY <2>1, <2>2 DEF ScreenInv, Dialling
    <2>4. ~unattended
      <3>1. \A c \in Conns : conn[c].pc # "start" BY <1>8
      <3> QED BY <2>1, <3>1, Zenon DEF IInv, AutoInv
    <2>5. AutoInv' BY <2>2, <2>4, Zenon DEF AutoInv
    <2> QED BY <1>1, <1>2, <1>3, <1>4, <1>5, <2>3, <2>5, Zenon DEF IInv, TypeStep
  <1> QED BY <1>6, <1>7, <1>8, Zenon
-----------------------------------------------------------------------------
(* The types, one by one.                                                  *)
LEMMA Types ==
  ASSUME IInv
  PROVE  /\ screen \in Screens /\ modal \in Config /\ auto \in Config /\ kept \in Config
         /\ unattended \in BOOLEAN
         /\ session \in Conns \cup {0} /\ closing \in Conns \cup {0}
         /\ save \in [Conns -> SaveType] /\ presses \in Nat
         /\ \A c \in Conns : conn[c] \in ConnType /\ save[c] \in SaveType
  BY DEF IInv, TypeOK

(* The UI loop's keys that leave connections alone, SaveAuto with them.    *)
LEMMA OpenModalInv ==
  ASSUME IInv, NEW s \in Servers, NEW listed \in BOOLEAN, OpenModal(s, listed) PROVE IInv'
  <1> USE Types
  <1>1. screen = "discovery" /\ screen' = "modal" BY GoesLaws DEF OpenModal, Transition
  <1>2. /\ auto' = auto /\ kept' = kept /\ unattended' = unattended /\ session' = session
        /\ conn' = conn /\ save' = save /\ closing' = closing /\ presses' = presses /\ closing = 0
    BY DEF OpenModal
  <1>3. modal' \in Config BY DEF OpenModal, Config, Modes
  <1>4. TypeStep BY <1>1, <1>2, <1>3 DEF TypeStep, Screens
  <1>5. presses = 0 => \A c \in Conns : conn[c].pc = "none" BY <1>1, IdleScreens
  <1> HIDE Types
  <1> QED BY <1>1, <1>2, <1>4, <1>5, LoopStep

LEMMA DialogKeysInv ==
  ASSUME IInv, CloseModal \/ OpenDialog \/ CloseDialog \/ LeaveAuto PROVE IInv'
  <1> USE Types
  <1>1. screen \notin {"connecting", "session"} /\ screen' \in {"discovery", "dialog"}
    BY GoesLaws DEF CloseModal, OpenDialog, CloseDialog, LeaveAuto, Transition
  <1>2. /\ auto' = auto /\ kept' = kept /\ unattended' = unattended /\ session' = session
        /\ conn' = conn /\ save' = save /\ closing' = closing /\ presses' = presses /\ closing = 0
    BY DEF CloseModal, OpenDialog, CloseDialog, LeaveAuto
  <1>3. modal' \in Config BY Nothings DEF CloseModal, OpenDialog, CloseDialog, LeaveAuto
  <1>4. TypeStep BY <1>1, <1>2, <1>3 DEF TypeStep, Screens
  <1>5. presses = 0 => \A c \in Conns : conn[c].pc = "none" BY <1>1, IdleScreens
  <1> HIDE Types
  <1> QED BY <1>1, <1>2, <1>4, <1>5, LoopStep

LEMMA ToggleAutoInv == ASSUME IInv, ToggleAuto PROVE IInv'
  <1> USE Types
  <1>1. screen = "modal" /\ screen' = screen BY DEF ToggleAuto
  <1>2. /\ unattended' = unattended /\ session' = session
        /\ conn' = conn /\ save' = save /\ closing' = closing /\ presses' = presses /\ closing = 0
    BY DEF ToggleAuto
  <1>3. modal' \in Config
    <2>1. modal' = [modal EXCEPT !.mode = NextMode(modal.mode)] BY DEF ToggleAuto
    <2>2. NextMode(modal.mode) \in Modes BY DEF NextMode, Modes, Config
    <2> QED BY <2>1, <2>2 DEF Config
  <1>4. auto' \in Config /\ kept' \in Config BY Nothings DEF ToggleAuto
  <1>5. TypeStep BY <1>1, <1>2, <1>3, <1>4 DEF TypeStep, Screens
  <1>6. presses = 0 => \A c \in Conns : conn[c].pc = "none" BY <1>1, IdleScreens
  <1> HIDE Types
  <1> QED BY <1>1, <1>2, <1>5, <1>6, LoopStep

(* disconnect runs only after the key.                                     *)
LEMMA DisconnectInv == ASSUME IInv, Disconnect PROVE IInv'
  <1> USE Types
  <1>1. closing # 0 /\ closing' = 0 /\ screen' = "discovery" BY GoesLaws DEF Disconnect, Transition
  <1>2. /\ modal' = modal /\ auto' = auto /\ kept' = kept /\ unattended' = unattended
        /\ session' = session /\ conn' = conn /\ save' = save /\ presses' = presses
    BY DEF Disconnect
  <1>3. presses # 0 BY <1>1 DEF IInv, ScreenInv
  <1>4. TypeStep BY <1>1, <1>2 DEF TypeStep, Screens
  <1> HIDE Types
  <1> QED BY <1>1, <1>2, <1>3, <1>4, LoopStep

LEMMA SaveAutoInv == ASSUME IInv, NEW c \in Conns, SaveAuto(c) PROVE IInv'
  <1> USE Types
  <1>1. /\ screen' = screen /\ modal' = modal /\ auto' = auto /\ unattended' = unattended
        /\ session' = session /\ conn' = conn /\ closing' = closing /\ presses' = presses
    BY DEF SaveAuto
  <1>2. kept' \in Config BY DEF SaveAuto, SaveType
  <1>3. save' \in [Conns -> SaveType]
    <2>1. [NoSave EXCEPT !.st = "done"] \in SaveType BY Nothings DEF SaveType
    <2> DEFINE v == IF conn[c].pc = "none" THEN NoSave ELSE [NoSave EXCEPT !.st = "done"]
    <2>2. v \in SaveType BY <2>1, Nothings
    <2>3. save' = [save EXCEPT ![c] = v] BY DEF SaveAuto
    <2> QED BY <2>2, <2>3
  <1>4. TypeStep BY <1>1, <1>2, <1>3, Zenon DEF TypeStep
  <1>5. presses = 0 => closing = 0 /\ (screen = "auto" => auto # NoAuto)
    BY DEF IInv, ScreenInv, CountdownHasServer
  <1> HIDE Types
  <1> QED BY <1>1, <1>4, <1>5, LoopStep, Zenon
-----------------------------------------------------------------------------
(* go connect, from the dialog or by the countdown: there is none yet.     *)
LEMMA EnterInv == ASSUME IInv, NEW c \in Conns, Enter(c) PROVE IInv'
  <1> DEFINE r == [NoConn EXCEPT !.pc = "start"]
  <1>1. r \in ConnType /\ r.pc = "start" /\ ~r.alone /\ ~r.timer
    BY Nothings DEF ConnType, Pcs, NoConn
  <1>2. screen = "modal" /\ screen' = "connecting" BY Types, GoesLaws DEF Enter, Transition
  <1>3. conn' = [conn EXCEPT ![c] = r] BY DEF Enter, Spawn
  <1>4. /\ modal' = modal /\ auto' = auto /\ kept' = kept /\ unattended' = unattended
        /\ session' = session /\ save' = save /\ closing' = closing /\ presses' = presses
        /\ closing = 0
    BY DEF Enter
  <1>5. presses = 0 => \A d \in Conns : conn[d].pc = "none" BY <1>2, IdleScreens
  <1>6. presses = 0 => ~unattended
    <2>1. presses = 0 => \A d \in Conns : conn[d].pc # "start" BY <1>5
    <2> QED BY <2>1, Zenon DEF IInv, AutoInv
  <1> HIDE DEF r
  <1>7. TypeStep BY <1>2, <1>4, Types DEF TypeStep, Screens
  <1>8. Alone(c) BY <1>5 DEF Alone
  <1>9. LeavesSomeone(c, r) BY <1>1, <1>2 DEF LeavesSomeone, Pending
  <1>10. TakesScreen(c, r)
    <2>1. r.pc \notin {"run", "ended", "keep", "tail"} BY <1>1
    <2> QED BY <1>1, <1>2, <1>4, <1>6, <2>1 DEF TakesScreen
  <1> QED BY <1>1, <1>3, <1>7, <1>8, <1>9, <1>10, GoroutineStep

LEMMA AutoDueInv == ASSUME IInv, NEW c \in Conns, AutoDue(c) PROVE IInv'
  <1> DEFINE r == [NoConn EXCEPT !.pc = "start"]
  <1>1. r \in ConnType /\ r.pc = "start" /\ ~r.alone /\ ~r.timer
    BY Nothings DEF ConnType, Pcs, NoConn
  <1>2. screen = "auto" /\ screen' = "connecting" BY Types, GoesLaws DEF AutoDue, Transition
  <1>3. conn' = [conn EXCEPT ![c] = r] BY DEF AutoDue, Spawn
  <1>4. /\ modal' = auto /\ auto' = auto /\ kept' = kept /\ unattended' = TRUE
        /\ session' = session /\ save' = save /\ closing' = closing /\ presses' = presses
        /\ closing = 0 /\ auto # NoAuto
    BY DEF AutoDue
  <1>5. presses = 0 => \A d \in Conns : conn[d].pc = "none" BY <1>2, IdleScreens
  <1> HIDE DEF r
  <1>7. TypeStep BY <1>2, <1>4, Types DEF TypeStep, Screens
  <1>8. Alone(c) BY <1>5 DEF Alone
  <1>9. LeavesSomeone(c, r) BY <1>1, <1>2 DEF LeavesSomeone, Pending
  <1>10. TakesScreen(c, r)
    <2>1. r.pc \notin {"run", "ended", "keep", "tail"} BY <1>1
    <2> QED BY <1>1, <1>2, <1>4, <2>1 DEF TakesScreen
  <1> QED BY <1>1, <1>3, <1>7, <1>8, <1>9, <1>10, GoroutineStep

(* Once the key has counted, only the two screens are still promised.      *)
LEMMA EndKeyInv == ASSUME IInv, EndKeyPressed PROVE IInv'
  <1> DEFINE r == [conn[session] EXCEPT !.asked = TRUE]
  <1>1. session \in Conns BY Types DEF EndKeyPressed
  <1>2. r \in ConnType /\ r.pc = conn[session].pc /\ r.tries = conn[session].tries
    BY <1>1, Types DEF ConnType
  <1>3. conn' = [conn EXCEPT ![session] = r] BY DEF EndKeyPressed
  <1>4. /\ screen' = screen /\ modal' = modal /\ auto' = auto /\ kept' = kept
        /\ unattended' = unattended /\ session' = session /\ save' = save
        /\ closing' = session /\ screen = "session" /\ presses' = presses + 1
    BY DEF EndKeyPressed
  <1>5. r.pc \in Showing BY <1>2, <1>4 DEF IInv, SessionShown, Showing
  <1> HIDE DEF r
  <1>6. presses' \in Nat /\ presses' # 0 BY <1>4, Types
  <1>7. TypeStep BY <1>1, <1>4, <1>6, Types, Zenon DEF TypeStep
  <1>8. Alone(session)
    <2>1. conn[session].pc # "none" BY <1>2, <1>5 DEF Showing
    <2> QED BY <1>1, <2>1, UnderWayIsAlone
  <1>9. LeavesSomeone(session, r) BY <1>4, <1>5 DEF LeavesSomeone, Showing
  <1>10. TakesScreen(session, r) BY <1>6 DEF TakesScreen
  <1> QED BY <1>1, <1>2, <1>3, <1>7, <1>8, <1>9, <1>10, GoroutineStep
-----------------------------------------------------------------------------
(* Where a goroutine that has read the dialog finds the kiosk.             *)
LEMMA OnItsWay ==
  ASSUME IInv, NEW c \in Conns, conn[c].pc \notin {"none", "start"}
  PROVE  /\ Alone(c)
         /\ presses = 0 =>
              /\ closing = 0 /\ ~unattended
              /\ screen \in {"connecting", "session"}
              /\ conn[c].pc \in Dialling => screen = "connecting"
              /\ conn[c].pc \in {"run", "ended"} => screen = "session" /\ session = c
              /\ conn[c].alone => auto # NoAuto
  <1>1. Alone(c) BY UnderWayIsAlone
  <1> SUFFICES ASSUME presses = 0
               PROVE  /\ closing = 0 /\ ~unattended
                      /\ screen \in {"connecting", "session"}
                      /\ conn[c].pc \in Dialling => screen = "connecting"
                      /\ conn[c].pc \in {"run", "ended"} => screen = "session" /\ session = c
                      /\ conn[c].alone => auto # NoAuto
    BY <1>1
  <1>2. \A d \in Conns : conn[d].pc # "start" BY <1>1 DEF Alone
  <1>3. ~unattended BY <1>2, Zenon DEF IInv, AutoInv
  <1>4. conn[c].pc \in Pcs BY Types DEF ConnType
  <1>5. screen \in {"connecting", "session"} BY <1>4 DEF IInv, ScreenInv, Pcs, Dialling
  <1>6. conn[c].alone => auto # NoAuto BY Zenon DEF IInv, AutoInv
  <1> QED BY <1>3, <1>5, <1>6, Zenon DEF IInv, ScreenInv

(* connect returns: the screen goes with it.                               *)
LEMMA OverStep ==
  ASSUME IInv, NEW c \in Conns, conn[c].pc \notin {"none", "start"}, Over(c),
         screen' \in Screens \ {"connecting", "session"}, modal' \in Config,
         session' \in {session, 0}, auto' = auto, kept' = kept, unattended' = unattended,
         closing' = closing, presses' = presses,
         presses = 0 /\ screen' = "auto" => auto # NoAuto
  PROVE  IInv'
  <1>1. save' \in [Conns -> SaveType] BY Types, Nothings DEF Over
  <1>2. TypeStep BY <1>1, Types DEF TypeStep
  <1>3. conn' = [conn EXCEPT ![c] = NoConn] BY DEF Over
  <1>4. LeavesSomeone(c, NoConn) BY Nothings DEF LeavesSomeone
  <1>5. TakesScreen(c, NoConn)
    <2>1. NoConn.pc \notin Dialling \cup {"run", "ended", "keep", "tail"} BY Nothings DEF Dialling
    <2>2. presses = 0 => closing = 0 /\ ~unattended BY OnItsWay
    <2> QED BY <2>1, <2>2, Nothings, Zenon DEF TakesScreen
  <1>6. Alone(c) BY OnItsWay
  <1> QED BY <1>2, <1>3, <1>4, <1>5, <1>6, Nothings, GoroutineStep

(* It goes on as r, and the screen stays.                                  *)
Onward(c, r) ==
  /\ r.pc # "none" /\ r.pc # "start"
  /\ r.pc = "redial" => r.tries < Redials
  /\ conn[c].pc \in Pending => r.pc \in Pending
  /\ conn[c].pc \in Showing => r.pc \in Showing
  /\ r.pc \in Dialling => conn[c].pc \in Dialling
  /\ r.pc \in {"run", "ended"} => conn[c].pc \in {"run", "ended"}
  /\ r.alone => conn[c].alone

LEMMA OnwardStep ==
  ASSUME IInv, NEW c \in Conns, conn[c].pc \notin {"none", "start"}, NEW r \in ConnType,
         conn' = [conn EXCEPT ![c] = r], Onward(c, r),
         save' \in [Conns -> SaveType], auto' \in Config, auto' # auto => auto' # NoAuto,
         UNCHANGED <<screen, modal, kept, unattended, session, closing, presses>>
  PROVE  IInv'
  <1>1. TypeStep BY Types DEF TypeStep
  <1>2. LeavesSomeone(c, r) BY DEF LeavesSomeone, Onward
  <1>3. TakesScreen(c, r)
    <2> SUFFICES ASSUME presses' = 0
                 PROVE  /\ closing' = 0
                        /\ r.pc \in Dialling => screen' = "connecting"
                        /\ r.pc \in {"run", "ended"} => screen' = "session" /\ session' = c
                        /\ r.pc \in {"keep", "tail"} => screen' \in {"connecting", "session"}
                        /\ unattended' => auto' # NoAuto /\ r.pc = "start"
                        /\ r.alone => auto' # NoAuto
                        /\ screen' = "auto" => auto' # NoAuto
      BY Zenon DEF TakesScreen
    <2>1. presses = 0 /\ closing' = closing /\ screen' = screen /\ session' = session
          /\ unattended' = unattended OBVIOUS
    <2>2. screen' # "auto" BY <2>1, OnItsWay
    <2>3. closing' = 0 /\ (r.pc \in Dialling => screen' = "connecting")
      BY <2>1, OnItsWay, Zenon DEF Onward
    <2>4. r.pc \in {"run", "ended"} => screen' = "session" /\ session' = c
      BY <2>1, OnItsWay, Zenon DEF Onward
    <2>5. screen' \in {"connecting", "session"} BY <2>1, OnItsWay, Zenon
    <2>6. ~unattended'
      <3>1. ~unattended BY <2>1, OnItsWay
      <3>2. unattended' = unattended OBVIOUS
      <3> QED BY <3>1, <3>2
    <2>7. r.alone => auto' # NoAuto BY <2>1, OnItsWay, Zenon DEF Onward
    <2> QED BY <2>2, <2>3, <2>4, <2>5, <2>6, <2>7, Zenon
  <1>4. Alone(c) BY OnItsWay
  <1> QED BY <1>1, <1>2, <1>3, <1>4, GoroutineStep
-----------------------------------------------------------------------------
(* connect's steps.                                                        *)
LEMMA ConnectReadsInv == ASSUME IInv, NEW c \in Conns, ConnectReads(c) PROVE IInv'
  <1>1. conn[c].pc = "start" BY DEF ConnectReads
  <1>2. PICK named \in BOOLEAN :
          conn' = [conn EXCEPT ![c].pc = "lookup", ![c].server = modal.server, ![c].mode = modal.mode,
                               ![c].named = named, ![c].alone = unattended]
    BY DEF ConnectReads, Reads
  <1> DEFINE r == [conn[c] EXCEPT !.pc = "lookup", !.server = modal.server, !.mode = modal.mode,
                                  !.named = named, !.alone = unattended]
  <1>3. conn' = [conn EXCEPT ![c] = r] BY <1>2, Types DEF IInv, TypeOK
  <1>4. r \in ConnType /\ r.pc = "lookup" BY Types DEF ConnType, Config, Pcs
  <1>5. r.alone = unattended BY Types DEF ConnType
  <1> HIDE DEF r
  <1>6. /\ modal' = modal /\ auto' = auto /\ kept' = kept /\ session' = session
        /\ save' = save /\ closing' = closing /\ presses' = presses /\ unattended' = FALSE
    BY DEF ConnectReads
  <1>7. screen' \in Screens \ {"session"} /\ (screen = "connecting" => screen' = "connecting")
    BY Types, GoesLaws DEF ConnectReads, Transition, Screens
  <1>8. TypeStep BY <1>6, <1>7, Types DEF TypeStep
  <1>9. Alone(c) BY <1>1, UnderWayIsAlone
  <1>10. LeavesSomeone(c, r) BY <1>4, <1>7 DEF LeavesSomeone, Pending
  <1>11. TakesScreen(c, r)
    <2>1. presses = 0 => closing = 0 /\ screen' = "connecting"
      BY <1>1, <1>7 DEF IInv, ScreenInv, Dialling
    <2>2. presses = 0 /\ r.alone => auto' # NoAuto BY <1>5, <1>6, Zenon DEF IInv, AutoInv
    <2>3. r.pc \notin {"run", "ended", "keep", "tail"} BY <1>4
    <2>4. screen' = "connecting" => screen' # "auto" OBVIOUS
    <2> QED BY <1>6, <2>1, <2>2, <2>3, <2>4, Zenon DEF TakesScreen
  <1> QED BY <1>3, <1>4, <1>8, <1>9, <1>10, <1>11, GoroutineStep

(* An answer is the engine's or the built-in client's.                     *)
LEMMA AnswersSay == \A a \in Answers : a.engine \in BOOLEAN
  <1> SUFFICES ASSUME NEW a \in Answers PROVE a.engine \in BOOLEAN OBVIOUS
  <1>1. CASE a \in {[engine |-> TRUE, says |-> x] : x \in StartEngine \ {"no engine"}}
    <2>1. PICK x \in StartEngine : a = [engine |-> TRUE, says |-> x] BY <1>1
    <2> QED BY <2>1
  <1>2. CASE a \in {[engine |-> FALSE, says |-> x] : x \in New}
    <2>1. PICK x \in New : a = [engine |-> FALSE, says |-> x] BY <1>2
    <2> QED BY <2>1
  <1> QED BY <1>1, <1>2 DEF Answers

LEMMA LookupInv == ASSUME IInv, NEW c \in Conns, Lookup(c) PROVE IInv'
  <1>1. conn[c].pc = "lookup" BY DEF Lookup
  <1>2. /\ modal' = modal /\ auto' = auto /\ kept' = kept /\ session' = session
        /\ closing' = closing /\ presses' = presses /\ unattended' = unattended
    BY DEF Lookup
  <1>3. CASE To(c, "dial") /\ UNCHANGED <<screen, save>>
    <2> DEFINE r == [conn[c] EXCEPT !.pc = "dial"]
    <2>1. conn' = [conn EXCEPT ![c] = r] BY <1>3 DEF To
    <2>2. r \in ConnType /\ r.pc = "dial" /\ r.alone = conn[c].alone BY Types DEF ConnType, Pcs
    <2> HIDE DEF r
    <2>3. Onward(c, r) BY <1>1, <2>2 DEF Onward, Pending, Showing, Dialling
    <2> QED BY <1>1, <1>2, <1>3, <2>1, <2>2, <2>3, Types, OnwardStep
  <1>4. CASE Over(c) /\ Transition(IF conn[c].alone THEN "auto" ELSE "modal")
    <2>1. (screen' = Goes(screen, "auto") /\ conn[c].alone) \/ screen' = Goes(screen, "modal")
      BY <1>4, Zenon DEF Transition
    <2>2. screen' \in Screens \ {"connecting", "session"} BY <2>1, Types, GoesLaws DEF Screens
    <2>3. presses = 0 /\ screen' = "auto" => auto # NoAuto
      <3>1. Goes(screen, "modal") # "auto" BY Types, GoesLaws
      <3> QED BY <1>1, <2>1, <3>1, OnItsWay, Zenon
    <2> QED BY <1>1, <1>2, <1>4, <2>2, <2>3, Types, OverStep
  <1> QED BY <1>3, <1>4, Zenon DEF Lookup

LEMMA DialInv == ASSUME IInv, NEW c \in Conns, Dial(c) PROVE IInv'
  <1>1. conn[c].pc = "dial" BY DEF Dial
  <1>2. /\ modal' = modal /\ auto' = auto /\ kept' = kept /\ session' = session
        /\ closing' = closing /\ presses' = presses /\ unattended' = unattended
    BY DEF Dial
  <1>3. PICK a \in Answers :
          \/ /\ a.says = "up"
             /\ conn' = [conn EXCEPT ![c].pc = "show", ![c].timer = TRUE, ![c].alone = FALSE,
                                     ![c].engine = a.engine]
             /\ UNCHANGED <<screen, save>>
          \/ /\ a.says # "up"
             /\ Over(c)
             /\ Transition(IF conn[c].alone /\ ~AuthFailed(a) THEN "auto" ELSE "modal")
    BY Zenon DEF Dial
  <1>4. CASE /\ conn' = [conn EXCEPT ![c].pc = "show", ![c].timer = TRUE, ![c].alone = FALSE,
                                     ![c].engine = a.engine]
             /\ UNCHANGED <<screen, save>>
    <2> DEFINE r == [conn[c] EXCEPT !.pc = "show", !.timer = TRUE, !.alone = FALSE,
                                    !.engine = a.engine]
    <2>1. a.engine \in BOOLEAN BY AnswersSay
    <2>2. conn' = [conn EXCEPT ![c] = r] BY <1>4, Types DEF IInv, TypeOK
    <2>3. r \in ConnType /\ r.pc = "show" /\ ~r.alone BY <2>1, Types DEF ConnType, Pcs
    <2> HIDE DEF r
    <2>4. Onward(c, r) BY <1>1, <2>3 DEF Onward, Pending, Showing, Dialling
    <2> QED BY <1>1, <1>2, <1>4, <2>2, <2>3, <2>4, Types, OnwardStep
  <1>5. CASE Over(c) /\ Transition(IF conn[c].alone /\ ~AuthFailed(a) THEN "auto" ELSE "modal")
    <2>1. (screen' = Goes(screen, "auto") /\ conn[c].alone) \/ screen' = Goes(screen, "modal")
      BY <1>5, Zenon DEF Transition
    <2>2. screen' \in Screens \ {"connecting", "session"} BY <2>1, Types, GoesLaws DEF Screens
    <2>3. presses = 0 /\ screen' = "auto" => auto # NoAuto
      <3>1. Goes(screen, "modal") # "auto" BY Types, GoesLaws
      <3> QED BY <1>1, <2>1, <3>1, OnItsWay, Zenon
    <2> QED BY <1>1, <1>2, <1>5, <2>2, <2>3, Types, OverStep
  <1> QED BY <1>3, <1>4, <1>5, Zenon

(* The session comes up on the connecting screen that it finds.            *)
LEMMA RunSessionInv == ASSUME IInv, NEW c \in Conns, RunSession(c) PROVE IInv'
  <1> DEFINE r == [conn[c] EXCEPT !.pc = "run"]
  <1>1. conn[c].pc = "show" BY DEF RunSession
  <1>2. conn' = [conn EXCEPT ![c] = r] BY DEF RunSession, To
  <1>3. r \in ConnType /\ r.pc = "run" /\ r.alone = conn[c].alone BY Types DEF ConnType, Pcs
  <1> HIDE DEF r
  <1>4. /\ modal' = modal /\ auto' = auto /\ kept' = kept /\ session' = c
        /\ save' = save /\ closing' = closing /\ presses' = presses /\ unattended' = unattended
    BY DEF RunSession
  <1>5. screen' \in Screens \ {"connecting"} /\ (screen = "connecting" => screen' = "session")
    BY Types, GoesLaws DEF RunSession, Transition, Screens
  <1>6. TypeStep BY <1>4, <1>5, Types DEF TypeStep
  <1>7. Alone(c) BY <1>1, UnderWayIsAlone
  <1>8. LeavesSomeone(c, r) BY <1>3, <1>4, <1>5 DEF LeavesSomeone, Showing
  <1>9. TakesScreen(c, r)
    <2>1. presses = 0 => closing = 0 /\ screen' = "session"
      BY <1>1, <1>5, OnItsWay DEF Dialling
    <2>2. r.pc \notin Dialling BY <1>3 DEF Dialling
    <2>3. presses = 0 => ~unattended BY <1>1, OnItsWay
    <2>4. presses = 0 /\ r.alone => auto' # NoAuto BY <1>1, <1>3, <1>4, OnItsWay, Zenon
    <2>5. screen' = "session" => screen' # "auto" OBVIOUS
    <2>6. r.pc \notin {"keep", "tail"} BY <1>3
    <2> QED BY <1>4, <2>1, <2>2, <2>3, <2>4, <2>5, <2>6, Zenon DEF TakesScreen
  <1> QED BY <1>2, <1>3, <1>6, <1>7, <1>8, <1>9, GoroutineStep

LEMMA SessionEndsInv == ASSUME IInv, NEW c \in Conns, SessionEnds(c) PROVE IInv'
  <1>1. conn[c].pc = "run" BY DEF SessionEnds
  <1>2. PICK e \in {"over", "lost", "rejected"} :
          conn' = [conn EXCEPT ![c].pc = "ended", ![c].end = e, ![c].engine = FALSE]
    BY Zenon DEF SessionEnds
  <1> DEFINE r == [conn[c] EXCEPT !.pc = "ended", !.end = e, !.engine = FALSE]
  <1>3. conn' = [conn EXCEPT ![c] = r] BY <1>2, Types DEF IInv, TypeOK
  <1>4. r \in ConnType /\ r.pc = "ended" /\ r.alone = conn[c].alone BY Types DEF ConnType, Pcs
  <1> HIDE DEF r
  <1>5. Onward(c, r) BY <1>1, <1>4 DEF Onward, Pending, Showing, Dialling
  <1>6. UNCHANGED <<screen, modal, auto, kept, unattended, session, save, closing, presses>>
    BY DEF SessionEnds
  <1> QED BY <1>1, <1>3, <1>4, <1>5, <1>6, Types, OnwardStep

(* The session's screen gives way to the connecting screen.                *)
LEMMA ReconnectInv == ASSUME IInv, NEW c \in Conns, Reconnect(c) PROVE IInv'
  <1> DEFINE r == [conn[c] EXCEPT !.pc = "redial", !.tries = 0, !.asked = FALSE, !.end = ""]
  <1>1. conn[c].pc = "ended" BY DEF Reconnect
  <1>2. conn' = [conn EXCEPT ![c] = r] BY Types DEF IInv, TypeOK, Reconnect
  <1>3. r \in ConnType /\ r.pc = "redial" /\ r.tries = 0 /\ r.alone = conn[c].alone
    <2>1. conn[c] \in ConnType /\ 0 \in 0..Redials BY Types, RedialsAssumption
    <2> QED BY <2>1 DEF ConnType, Pcs
  <1> HIDE DEF r
  <1>4. /\ modal' = modal /\ auto' = auto /\ kept' = kept /\ session' = session
        /\ save' = save /\ closing' = closing /\ presses' = presses /\ unattended' = unattended
    BY DEF Reconnect
  <1>5. screen' \in Screens \ {"session"} /\ (screen = "session" => screen' = "connecting")
    BY Types, GoesLaws DEF Reconnect, Transition, Screens
  <1>6. TypeStep BY <1>4, <1>5, Types DEF TypeStep
  <1>7. Alone(c) BY <1>1, UnderWayIsAlone
  <1>8. LeavesSomeone(c, r) BY <1>3, <1>5, RedialsAssumption DEF LeavesSomeone, Pending
  <1>9. TakesScreen(c, r)
    <2>1. presses = 0 => closing = 0 /\ screen' = "connecting" BY <1>1, <1>5, OnItsWay
    <2>2. presses = 0 => ~unattended BY <1>1, OnItsWay
    <2>3. presses = 0 /\ r.alone => auto' # NoAuto BY <1>1, <1>3, <1>4, OnItsWay, Zenon
    <2>4. screen' = "connecting" => screen' # "auto" OBVIOUS
    <2>5. r.pc \notin {"run", "ended", "keep", "tail"} BY <1>3
    <2> QED BY <1>4, <2>1, <2>2, <2>3, <2>4, <2>5, Zenon DEF TakesScreen
  <1> QED BY <1>2, <1>3, <1>6, <1>7, <1>8, <1>9, GoroutineStep

(* The way to keep, after the last session or the last attempt.            *)
LEMMA ToKeepStep ==
  ASSUME IInv, NEW c \in Conns, conn[c].pc \in {"ended", "redial"}, ToKeep(c),
         UNCHANGED <<screen, modal, auto, kept, unattended, session, save, closing, presses>>
  PROVE  IInv'
  <1> DEFINE r == [conn[c] EXCEPT !.pc = "keep", !.timer = FALSE, !.end = "", !.tries = 0]
  <1>1. conn' = [conn EXCEPT ![c] = r] BY Types DEF IInv, TypeOK, ToKeep
  <1>2. r \in ConnType /\ r.pc = "keep" /\ r.alone = conn[c].alone
    <2>1. conn[c] \in ConnType /\ 0 \in 0..Redials BY Types, RedialsAssumption
    <2> QED BY <2>1 DEF ConnType, Pcs
  <1> HIDE DEF r
  <1>3. Onward(c, r) BY <1>2 DEF Onward, Pending, Showing, Dialling
  <1> QED BY <1>1, <1>2, <1>3, Types, OnwardStep

(* An attempt leaves one fewer; only the last that fails goes on to keep.  *)
LEMMA RedialInvStep == ASSUME IInv, NEW c \in Conns, Redial(c) PROVE IInv'
  <1>1. conn[c].pc = "redial" BY DEF Redial
  <1>2. UNCHANGED <<screen, modal, auto, kept, unattended, session, save, closing, presses>>
    BY DEF Redial
  <1>3. conn[c] \in ConnType /\ conn[c].tries + 1 \in 0..Redials
    <2>1. conn[c] \in ConnType BY Types
    <2>2. conn[c].tries \in 0..Redials BY <2>1 DEF ConnType
    <2>3. conn[c].tries < Redials BY <1>1 DEF IInv, RedialInv
    <2> QED BY <2>1, <2>2, <2>3, RedialsAssumption
  <1>4. CASE \E a \in Answers :
               a.says = "up" /\ conn' = [conn EXCEPT ![c].pc = "show", ![c].tries = @ + 1,
                                                     ![c].engine = a.engine]
    <2>1. PICK a \in Answers :
            conn' = [conn EXCEPT ![c].pc = "show", ![c].tries = @ + 1, ![c].engine = a.engine]
      BY <1>4
    <2> DEFINE r == [conn[c] EXCEPT !.pc = "show", !.tries = @ + 1, !.engine = a.engine]
    <2>2. conn' = [conn EXCEPT ![c] = r] BY <2>1, Types DEF IInv, TypeOK
    <2>3. a.engine \in BOOLEAN BY AnswersSay
    <2>4. r \in ConnType /\ r.pc = "show" /\ r.alone = conn[c].alone
      BY <1>3, <2>3 DEF ConnType, Pcs
    <2> HIDE DEF r
    <2>5. Onward(c, r) BY <1>1, <2>4 DEF Onward, Pending, Showing, Dialling
    <2> QED BY <1>1, <1>2, <2>2, <2>4, <2>5, Types, OnwardStep
  <1>5. CASE conn[c].tries + 1 < Redials /\ conn' = [conn EXCEPT ![c].tries = @ + 1]
    <2> DEFINE r == [conn[c] EXCEPT !.tries = @ + 1]
    <2>1. conn' = [conn EXCEPT ![c] = r] BY <1>5
    <2>2. /\ r \in ConnType /\ r.pc = "redial" /\ r.alone = conn[c].alone
          /\ r.tries < Redials
      BY <1>1, <1>3, <1>5 DEF ConnType
    <2> HIDE DEF r
    <2>3. Onward(c, r) BY <1>1, <2>2 DEF Onward, Pending, Showing, Dialling
    <2> QED BY <1>1, <1>2, <2>1, <2>2, <2>3, Types, OnwardStep
  <1>6. CASE ToKeep(c) BY <1>1, <1>2, <1>6, ToKeepStep
  <1> QED BY <1>4, <1>5, <1>6, Zenon DEF Redial

LEMMA EndsInv == ASSUME IInv, NEW c \in Conns, EndsOtherwise(c) PROVE IInv'
  BY ToKeepStep DEF EndsOtherwise

LEMMA RejectedInv == ASSUME IInv, NEW c \in Conns, Rejected(c) PROVE IInv'
  <1>1. screen' \in Screens \ {"connecting", "session", "auto"}
    BY Types, GoesLaws DEF Rejected, Transition, Screens
  <1>2. /\ conn[c].pc = "ended" /\ Over(c) /\ session' = 0 /\ modal' = modal /\ auto' = auto
        /\ kept' = kept /\ unattended' = unattended /\ closing' = closing /\ presses' = presses
    BY DEF Rejected
  <1> QED BY <1>1, <1>2, Types, OverStep

(* keep makes a startup server, and never takes the one there is away.     *)
LEMMA KeepInv == ASSUME IInv, NEW c \in Conns, Keep(c) PROVE IInv'
  <1> DEFINE r == [conn[c] EXCEPT !.timer = FALSE, !.mode = "off", !.named = TRUE]
             m == IF conn[c].named THEN conn[c].mode ELSE "startdialog"
             new == [server |-> conn[c].server, mode |-> m]
  <1>1. conn[c].pc \notin {"none", "start"}
    <2>1. conn[c].timer \/ conn[c].pc = "keep" BY DEF Keep, Stood
    <2>2. conn[c].pc = "none" => conn[c] = NoConn BY DEF IInv, NoneInv
    <2>3. conn[c].pc = "start" => ~conn[c].timer BY Zenon DEF IInv, NoneInv
    <2>4. conn[c].timer => conn[c].pc # "none" /\ conn[c].pc # "start" BY <2>2, <2>3, Nothings, Zenon
    <2> QED BY <2>1, <2>4
  <1>2. conn' = [conn EXCEPT ![c] = r] BY Types DEF IInv, TypeOK, Keep
  <1>3. /\ r \in ConnType /\ r.pc = conn[c].pc /\ r.tries = conn[c].tries
        /\ r.alone = conn[c].alone
    BY Types DEF ConnType, Modes
  <1>4. new \in Config BY Types DEF Config, ConnType, Modes
  <1>5. \/ m = "off" /\ auto' = auto /\ save' = [save EXCEPT ![c].st = "done"]
        \/ auto' = auto /\ save' = [save EXCEPT ![c].st = "done"]
        \/ m # "off" /\ auto' = new /\ save' = [save EXCEPT ![c] = [st |-> "saving", config |-> new]]
    BY Zenon DEF Keep, KeepAuto
  <1>6. m # "off" => new # NoAuto BY DEF NoAuto
  <1> HIDE DEF r, m, new
  <1>7. save' \in [Conns -> SaveType]
    <2>1. [st |-> "saving", config |-> new] \in SaveType BY <1>4 DEF SaveType
    <2>2. [save[c] EXCEPT !.st = "done"] \in SaveType BY Types DEF SaveType
    <2> QED BY <1>5, <2>1, <2>2, Types
  <1>8. auto' \in Config /\ (auto' # auto => auto' # NoAuto) BY <1>4, <1>5, <1>6, Types
  <1>9. Onward(c, r)
    <2>1. r.pc = "redial" => r.tries < Redials BY <1>3 DEF IInv, RedialInv
    <2> QED BY <1>1, <1>3, <2>1 DEF Onward
  <1>10. UNCHANGED <<screen, modal, kept, unattended, session, closing, presses>> BY DEF Keep
  <1> QED BY <1>1, <1>2, <1>3, <1>7, <1>8, <1>9, <1>10, OnwardStep

LEMMA KeptInv == ASSUME IInv, NEW c \in Conns, Kept(c) PROVE IInv'
  <1> DEFINE r == [conn[c] EXCEPT !.pc = "tail"]
  <1>1. conn[c].pc = "keep" BY DEF Kept
  <1>2. conn' = [conn EXCEPT ![c] = r] BY DEF Kept, To
  <1>3. r \in ConnType /\ r.pc = "tail" /\ r.alone = conn[c].alone BY Types DEF ConnType, Pcs
  <1> HIDE DEF r
  <1>4. Onward(c, r) BY <1>1, <1>3 DEF Onward, Pending, Showing, Dialling
  <1>5. UNCHANGED <<screen, modal, auto, kept, unattended, session, save, closing, presses>>
    BY DEF Kept
  <1> QED BY <1>1, <1>2, <1>3, <1>4, <1>5, Types, OnwardStep

(* Back where the kiosk starts: the countdown only to a startup server.    *)
LEMMA TailInv == ASSUME IInv, NEW c \in Conns, Tail(c) PROVE IInv'
  <1>1. /\ conn[c].pc = "tail" /\ Over(c) /\ session' = 0 /\ auto' = auto
        /\ kept' = kept /\ unattended' = unattended /\ closing' = closing /\ presses' = presses
    BY DEF Tail
  <1>2. CASE IsAutoServer(conn[c].server) /\ StartAuto(screen)
    <2>1. modal' = auto /\ screen' \in {Goes(screen, "auto"), Goes(screen, "modal")}
      BY <1>2 DEF StartAuto
    <2>2. screen' \in Screens \ {"connecting", "session"} BY <2>1, Types, GoesLaws DEF Screens
    <2>3. auto # NoAuto BY <1>2 DEF IsAutoServer
    <2> QED BY <1>1, <2>1, <2>2, <2>3, Types, OverStep
  <1>3. CASE Transition("discovery") /\ modal' = modal
    <2>1. screen' = "discovery" BY <1>3, Types, GoesLaws DEF Transition
    <2>2. screen' \in Screens \ {"connecting", "session", "auto"} BY <2>1 DEF Screens
    <2> QED BY <1>1, <1>3, <2>2, Types, OverStep
  <1> QED BY <1>2, <1>3, Zenon DEF Tail
-----------------------------------------------------------------------------
(* Every step keeps the invariant.                                         *)
LEMMA NextInv == ASSUME IInv, [Next]_vars PROVE IInv'
  <1>1. CASE UI
    BY <1>1, OpenModalInv, DialogKeysInv, ToggleAutoInv, DisconnectInv, EnterInv, AutoDueInv,
       EndKeyInv, Zenon DEF UI
  <1>2. ASSUME NEW c \in Conns, Goroutine(c) \/ SessionEnds(c) PROVE IInv'
    BY <1>2, ConnectReadsInv, LookupInv, DialInv, RunSessionInv, SessionEndsInv, ReconnectInv,
       RedialInvStep, RejectedInv, EndsInv, KeepInv, SaveAutoInv, KeptInv, TailInv, Zenon
       DEF Goroutine
  <1>3. CASE UNCHANGED vars
    BY <1>3 DEF vars, IInv, TypeOK, NoneInv, RedialInv, ConnectingAttended, SessionShown,
                ScreenInv, OneConnection, AutoInv, CountdownHasServer
  <1> QED BY <1>1, <1>2, <1>3, Zenon DEF Next

LEMMA AlwaysIInv == Spec => []IInv
  BY InitInv, NextInv, PTL DEF Spec

(* The kiosk's state is of its type; reconnect never counts past the last  *)
(* of its delays (loop.go, reconnect).                                     *)
THEOREM TypeCorrect == Spec => []TypeOK
  <1>1. IInv => TypeOK BY DEF IInv
  <1> QED BY <1>1, AlwaysIInv, PTL

(* However many connections and presses of Ctrl+Alt+End: the connecting    *)
(* screen, which no key leaves, has a goroutine that is about to leave it  *)
(* (loop.go, connect, reconnect).                                          *)
THEOREM NobodyLeftConnecting == Spec => []ConnectingAttended
  <1>1. IInv => ConnectingAttended BY DEF IInv
  <1> QED BY <1>1, AlwaysIInv, PTL

(* The session screen has a session, and the goroutine that will take it   *)
(* off the screen when it ends (loop.go, runSession, connect's tail).      *)
THEOREM SessionBehindScreen == Spec => []SessionShown
  <1>1. IInv => SessionShown BY DEF IInv
  <1> QED BY <1>1, AlwaysIInv, PTL

(* Until Ctrl+Alt+End is pressed no second connection is started, however  *)
(* keys, ticks and a connection's way out interleave (loop.go, Enter and   *)
(* connect).                                                               *)
THEOREM OneAtATime == Spec => []OneConnection
  <1>1. IInv => OneConnection BY DEF IInv
  <1> QED BY <1>1, AlwaysIInv, PTL

(* Until then the countdown always has a server to count down to: the one  *)
(* it dialled cannot be taken away while the connection is made            *)
(* (autoconnect.go, openAutoModal).                                        *)
THEOREM CountdownSafe == Spec => []CountdownHasServer
  <1>1. IInv => CountdownHasServer BY DEF IInv
  <1> QED BY <1>1, AlwaysIInv, PTL

(* Until then a session that is up is on the screen, and it is the one     *)
(* that Ctrl+Alt+End would end (loop.go, runSession).                      *)
THEOREM LiveSessionShown == Spec => []LiveUndisturbed
  <1>1. IInv => LiveUndisturbed BY DEF IInv, ScreenInv, LiveUndisturbed, LiveOnScreen
  <1> QED BY <1>1, AlwaysIInv, PTL
=============================================================================
