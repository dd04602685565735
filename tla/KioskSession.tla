---------------------------- MODULE KioskSession -----------------------------
(***************************************************************************)
(* The kiosk's screens and its connections (internal/ui: loop.go, state.go *)
(* and autoconnect.go, over internal/rdp).                                 *)
(*                                                                         *)
(* The UI loop handles a key or a tick at a time under state.Mu.  Every    *)
(* connection is a goroutine of its own, connect: it takes the lock for a  *)
(* few lines at a time and does without it while it looks the name up,     *)
(* dials, waits for the session's end and dials again.  Ctrl+Alt+End asks  *)
(* the session to end and does not wait for its goroutine: the next        *)
(* connection may start while the last one is still on its way out.        *)
(*                                                                         *)
(* Abstractions: an account is part of the server it is for; what the      *)
(* network and the server answer is free; the dialogs that have nothing to *)
(* do with a connection (F4, F8, F9) are one screen, "dialog".             *)
(***************************************************************************)
EXTENDS Naturals

CONSTANTS Conns,     \* bound: the connections under way at a time, numbered from 1
          Servers,   \* what may be typed into the dialog
          Redials,   \* len(reconnectDelays): 4 in the code
          EndKeys    \* bound: how often someone presses Ctrl+Alt+End

ASSUME ConnsAssumption == Conns \subseteq Nat \ {0} /\ Conns # {}
ASSUME ServersAssumption == "" \notin Servers /\ Servers # {}
ASSUME RedialsAssumption == Redials \in Nat \ {0}
ASSUME EndKeysAssumption == EndKeys \in Nat

VARIABLES
  screen,      \* state.Screen
  modal,       \* state.Modal: the server and the startup choice in the dialog
  auto,        \* state.Auto: the startup server; NoAuto for nil
  kept,        \* the startup server on the disk or the stick
  unattended,  \* state.unattended
  session,     \* *session: the connection whose session it is, 0 for nil
  conn,        \* conn[c]: connect's goroutine c
  save,        \* save[c]: the goroutine's keep, a sync.Once
  closing,     \* the session that disconnect has closed, before it takes the lock
  presses      \* how often Ctrl+Alt+End has been pressed

vars == <<screen, modal, auto, kept, unattended, session, conn, save, closing, presses>>

Screens == {"discovery", "modal", "connecting", "session", "auto", "dialog"}
Modes == {"off", "startdialog", "logon"}
Config == [server : Servers \cup {""}, mode : Modes]
NoAuto == [server |-> "", mode |-> "off"]

(* A goroutine's way through connect: "show" is a client that is connected *)
(* but has no screen yet, "run" a session, "ended" one that ended as end   *)
(* says, "keep" and "tail" what is left after the last session.  engine    *)
(* tells whether the engine or the built-in client runs the session.       *)
Pcs == {"none", "start", "lookup", "dial", "show", "run", "ended", "redial", "keep", "tail"}
ConnType == [pc : Pcs, server : Servers \cup {""}, mode : Modes, named : BOOLEAN, alone : BOOLEAN,
             end : {"", "over", "lost", "rejected"}, asked : BOOLEAN, tries : 0..Redials,
             timer : BOOLEAN, engine : BOOLEAN]
NoConn == [pc |-> "none", server |-> "", mode |-> "off", named |-> TRUE, alone |-> FALSE,
           end |-> "", asked |-> FALSE, tries |-> 0, timer |-> FALSE,
           engine |-> FALSE]

SaveType == [st : {"no", "saving", "done"}, config : Config]
NoSave == [st |-> "no", config |-> NoAuto]

(* Where a goroutine still has a screen to put up before it is through.    *)
Pending == {"start", "lookup", "dial", "show", "redial", "keep", "tail"}

(* A mutant is a plausible slip in the code that the named property        *)
(* catches.  ConnectingAttended: no way from connecting to the countdown.  *)
AllowedMutant ==
  [discovery |-> {"modal", "dialog", "auto"},
   modal |-> {"discovery", "connecting"},
   connecting |-> {"session", "modal"},
   session |-> {"discovery", "connecting", "modal", "auto"},
   auto |-> {"connecting", "modal"},
   dialog |-> {}]

Allowed ==
  [discovery |-> {"modal", "dialog", "auto"},
   modal |-> {"discovery", "connecting"},
   connecting |-> {"session", "modal", "auto"},
   session |-> {"discovery", "connecting", "modal", "auto"},
   auto |-> {"connecting", "modal"},
   dialog |-> {}]

(* UIState.Transition: one that is not allowed leaves the screen as it is. *)
Goes(from, to) == IF to \in Allowed[from] \cup {"discovery"} THEN to ELSE from
Transition(to) == screen' = Goes(screen, to)

IsAutoServer(s) == auto # NoAuto /\ auto.server = s

(* startAuto: the startup server's dialog or the countdown to it.          *)
StartAuto(from) ==
  /\ modal' = auto
  /\ screen' = Goes(from, IF auto.mode = "logon" THEN "auto" ELSE "modal")

Init ==
  /\ auto \in {NoAuto} \cup [server : Servers, mode : {"startdialog", "logon"}]
  /\ kept = auto
  /\ IF auto = NoAuto
     THEN modal = NoAuto /\ screen = "discovery"
     ELSE modal = auto /\ screen = Goes("discovery", IF auto.mode = "logon" THEN "auto" ELSE "modal")
  /\ unattended = FALSE
  /\ session = 0
  /\ conn = [c \in Conns |-> NoConn]
  /\ save = [c \in Conns |-> NoSave]
  /\ closing = 0
  /\ presses = 0
-----------------------------------------------------------------------------
(* The UI loop: keys, clicks and ticks, one at a time.                     *)

Free(c) == conn[c].pc = "none" /\ save[c] = NoSave

(* go connect; the goroutines are numbered as they come.                   *)
Spawn(c) == /\ Free(c) /\ \A d \in Conns : d < c => ~Free(d)
            /\ conn' = [conn EXCEPT ![c] = [NoConn EXCEPT !.pc = "start"]]

(* Enter or a double click on a server, or F7 and one typed in.            *)
OpenModal(s, listed) ==
  /\ closing = 0 /\ screen = "discovery"
  /\ modal' = [server |-> s, mode |-> IF listed /\ IsAutoServer(s) THEN auto.mode ELSE "off"]
  /\ Transition("modal")
  /\ UNCHANGED <<auto, kept, unattended, session, conn, save, closing, presses>>

CloseModal ==
  /\ closing = 0 /\ screen = "modal"
  /\ modal' \in {NoAuto, modal}
  /\ Transition("discovery")
  /\ UNCHANGED <<auto, kept, unattended, session, conn, save, closing, presses>>

NextMode(m) == CASE m = "off" -> "startdialog" [] m = "startdialog" -> "logon" [] OTHER -> "off"

(* F10: turned off for the startup server, it is off at once.              *)
ToggleAuto ==
  /\ closing = 0 /\ screen = "modal"
  /\ modal' = [modal EXCEPT !.mode = NextMode(@)]
  /\ IF modal'.mode = "off" /\ IsAutoServer(modal.server)
     THEN auto' = NoAuto /\ kept' = NoAuto
     ELSE UNCHANGED <<auto, kept>>
  /\ UNCHANGED <<screen, unattended, session, conn, save, closing, presses>>

(* OneConnection: the goroutine leaves the dialog, not the key.            *)
EnterMutant(c) ==
  /\ closing = 0 /\ screen = "modal"
  /\ Spawn(c)
  /\ UNCHANGED <<screen, modal, auto, kept, unattended, session, save, closing, presses>>

(* Off the dialog at once, so that a second Enter does not start another.  *)
Enter(c) ==
  /\ closing = 0 /\ screen = "modal"
  /\ Transition("connecting")
  /\ Spawn(c)
  /\ UNCHANGED <<modal, auto, kept, unattended, session, save, closing, presses>>

OpenDialog ==
  /\ closing = 0 /\ screen = "discovery"
  /\ Transition("dialog")
  /\ UNCHANGED <<modal, auto, kept, unattended, session, conn, save, closing, presses>>

CloseDialog ==
  /\ closing = 0 /\ screen = "dialog"
  /\ Transition("discovery")
  /\ UNCHANGED <<modal, auto, kept, unattended, session, conn, save, closing, presses>>

(* Esc in the countdown.                                                   *)
LeaveAuto ==
  /\ closing = 0 /\ screen = "auto"
  /\ Transition("discovery")
  /\ UNCHANGED <<modal, auto, kept, unattended, session, conn, save, closing, presses>>

(* The tick that finds the countdown over.                                 *)
AutoDue(c) ==
  /\ closing = 0 /\ screen = "auto" /\ auto # NoAuto
  /\ modal' = auto
  /\ unattended' = TRUE
  /\ Transition("connecting")
  /\ Spawn(c)
  /\ UNCHANGED <<auto, kept, session, save, closing, presses>>

(* Ctrl+Alt+End.  The client is asked to close; only then does disconnect  *)
(* take the lock, and the UI loop handles nothing in between.              *)
EndKeyPressed ==
  /\ presses < EndKeys
  /\ closing = 0 /\ screen = "session" /\ session # 0
  /\ presses' = presses + 1
  /\ closing' = session
  /\ conn' = [conn EXCEPT ![session].asked = TRUE]
  /\ UNCHANGED <<screen, modal, auto, kept, unattended, session, save>>

Disconnect ==
  /\ closing # 0
  /\ Transition("discovery")
  /\ closing' = 0
  /\ UNCHANGED <<modal, auto, kept, unattended, session, conn, save, presses>>
-----------------------------------------------------------------------------
(* connect's goroutine.                                                    *)

To(c, pc) == conn' = [conn EXCEPT ![c].pc = pc]

(* connect returns; a save that the timer began goes on.                   *)
Over(c) == /\ conn' = [conn EXCEPT ![c] = NoConn]
           /\ save' = IF save[c].st = "saving" THEN save ELSE [save EXCEPT ![c] = NoSave]

(* What the dialog holds, and whether the countdown filled it in.  Only by *)
(* hand is the account left without a name.                                *)
Reads(c) ==
  \E named \in IF unattended \/ modal.mode # "logon" THEN {TRUE} ELSE BOOLEAN :
    conn' = [conn EXCEPT ![c].pc = "lookup", ![c].server = modal.server, ![c].mode = modal.mode,
                         ![c].named = named, ![c].alone = unattended]

(* CountdownHasServer: state.unattended is not reset.                      *)
ConnectReadsMutant(c) ==
  /\ conn[c].pc = "start"
  /\ Reads(c)
  /\ Transition("connecting")
  /\ UNCHANGED <<modal, auto, kept, unattended, session, save, closing, presses>>

ConnectReads(c) ==
  /\ conn[c].pc = "start"
  /\ Reads(c)
  /\ unattended' = FALSE
  /\ Transition("connecting")
  /\ UNCHANGED <<modal, auto, kept, session, save, closing, presses>>

(* The name does not resolve; or it does, and the server is dialled.       *)
Lookup(c) ==
  /\ conn[c].pc = "lookup"
  /\ \/ To(c, "dial") /\ UNCHANGED <<screen, save>>
     \/ Over(c) /\ Transition(IF conn[c].alone THEN "auto" ELSE "modal")
  /\ UNCHANGED <<modal, auto, kept, unattended, session, closing, presses>>

(* StartEngine, by the engine's first status line or its exit: connected;  *)
(* an account turned down; another error, or none in time; no display, or  *)
(* an engine that is missing or died before it said anything.              *)
StartEngine == {"up", "auth", "error", "no engine"}

(* The built-in client's New                                               *)
New == {"up", "auth", "error"}

(* dial: the engine's answer, or the built-in client's where it cannot run *)
Answers == {[engine |-> TRUE, says |-> a] : a \in StartEngine \ {"no engine"}}
             \cup {[engine |-> FALSE, says |-> a] : a \in New}

(* What trying again will not change                                       *)
AuthFailed(a) == a.says = "auth"

(* The session is up, and time.AfterFunc(RejectWithin, keep) runs; or it   *)
(* failed, perhaps because the account was turned down.                    *)
Dial(c) ==
  /\ conn[c].pc = "dial"
  /\ \E a \in Answers :
       \/ /\ a.says = "up"
          /\ conn' = [conn EXCEPT ![c].pc = "show", ![c].timer = TRUE, ![c].alone = FALSE,
                                  ![c].engine = a.engine]
          /\ UNCHANGED <<screen, save>>
       \/ /\ a.says # "up"
          /\ Over(c)
          /\ Transition(IF conn[c].alone /\ ~AuthFailed(a) THEN "auto" ELSE "modal")
  /\ UNCHANGED <<modal, auto, kept, unattended, session, closing, presses>>

RunSession(c) ==
  /\ conn[c].pc = "show"
  /\ session' = c
  /\ Transition("session")
  /\ To(c, "run")
  /\ UNCHANGED <<modal, auto, kept, unattended, save, closing, presses>>

(* The session ends: by the user or the server, or with the network; or    *)
(* the server turns the account down after all, which it does within       *)
(* RejectWithin of the (last) dial, and which only the engine can tell.    *)
SessionEnds(c) ==
  /\ conn[c].pc = "run"
  /\ \E e \in {"over", "lost", "rejected"} :
       /\ e = "rejected" => conn[c].engine /\ (save[c].st = "no" \/ conn[c].tries > 0)
       /\ conn' = [conn EXCEPT ![c].pc = "ended", ![c].end = e, ![c].engine = FALSE]
  /\ UNCHANGED <<screen, modal, auto, kept, unattended, session, save, closing, presses>>

(* LiveUndisturbed: the list is up meanwhile.                              *)
ReconnectMutant(c) ==
  /\ conn[c].pc = "ended" /\ conn[c].end = "lost"
  /\ Transition("discovery")
  /\ conn' = [conn EXCEPT ![c].pc = "redial", ![c].tries = 0, ![c].asked = FALSE, ![c].end = ""]
  /\ UNCHANGED <<modal, auto, kept, unattended, session, save, closing, presses>>

(* A session that died is dialled again, the connecting screen up.         *)
Reconnect(c) ==
  /\ conn[c].pc = "ended" /\ conn[c].end = "lost"
  /\ Transition("connecting")
  /\ conn' = [conn EXCEPT ![c].pc = "redial", ![c].tries = 0, ![c].asked = FALSE, ![c].end = ""]
  /\ UNCHANGED <<modal, auto, kept, unattended, session, save, closing, presses>>

(* stood.Stop, and on to keep.                                             *)
ToKeep(c) == conn' = [conn EXCEPT ![c].pc = "keep", ![c].timer = FALSE, ![c].end = "",
                                  ![c].tries = 0]

(* TypeOK: one attempt too many.  ConnectingEnds: no end to the attempts.  *)
RedialMutant(c) ==
  /\ conn[c].pc = "redial"
  /\ \/ conn' = [conn EXCEPT ![c].pc = "show", ![c].tries = @ + 1]
     \/ /\ conn[c].tries < Redials
        /\ conn' = [conn EXCEPT ![c].tries = @ + 1]
     \/ /\ conn[c].tries = Redials
        /\ ToKeep(c)
  /\ UNCHANGED <<screen, modal, auto, kept, unattended, session, save, closing, presses>>

RedialForever(c) ==
  /\ conn[c].pc = "redial"
  /\ conn' = [conn EXCEPT ![c].pc = "show", ![c].tries = 1] \/ conn' = [conn EXCEPT ![c].tries = 1 - @]
  /\ UNCHANGED <<screen, modal, auto, kept, unattended, session, save, closing, presses>>

(* One attempt of reconnect's: the last one that fails is its last.        *)
Redial(c) ==
  /\ conn[c].pc = "redial"
  /\ \/ \E a \in Answers :
          a.says = "up" /\ conn' = [conn EXCEPT ![c].pc = "show", ![c].tries = @ + 1, ![c].engine = a.engine]
     \/ /\ conn[c].tries + 1 < Redials
        /\ conn' = [conn EXCEPT ![c].tries = @ + 1]
     \/ /\ conn[c].tries + 1 = Redials
        /\ ToKeep(c)
  /\ UNCHANGED <<screen, modal, auto, kept, unattended, session, save, closing, presses>>

(* Turned down: back to the dialog.                                        *)
Rejected(c) ==
  /\ conn[c].pc = "ended" /\ conn[c].end = "rejected"
  /\ session' = 0
  /\ Transition("modal")
  /\ Over(c)
  /\ UNCHANGED <<modal, auto, kept, unattended, closing, presses>>

EndsOtherwise(c) ==
  /\ conn[c].pc = "ended" /\ conn[c].end = "over"
  /\ ToKeep(c)
  /\ UNCHANGED <<screen, modal, auto, kept, unattended, session, save, closing, presses>>

(* keepAuto: the dialog's choice becomes the startup server.  An account   *)
(* without a name cannot log on by itself.                                 *)
KeepAuto(c) ==
  LET m == IF conn[c].named THEN conn[c].mode ELSE "startdialog"
      new == [server |-> conn[c].server, mode |-> m]
  IN IF m = "off" \/ auto = new
     THEN auto' = auto /\ save' = [save EXCEPT ![c].st = "done"]
     ELSE auto' = new /\ save' = [save EXCEPT ![c] = [st |-> "saving", config |-> new]]

(* The timer is set once, when the first dial has come up, and what that   *)
(* session is rejected for comes sooner.                                   *)
Stood(c) == conn[c].timer /\ ~(conn[c].end = "rejected" /\ conn[c].tries = 0)

(* keep, once: from the timer or from connect, under the lock.  (The       *)
(* choice is of no use after it.)                                          *)
Keep(c) ==
  /\ save[c].st = "no"
  /\ Stood(c) \/ conn[c].pc = "keep"
  /\ KeepAuto(c)
  /\ conn' = [conn EXCEPT ![c].timer = FALSE, ![c].mode = "off", ![c].named = TRUE]
  /\ UNCHANGED <<screen, modal, kept, unattended, session, closing, presses>>

(* Not under the lock: on a stick this mounts its EFI partition.           *)
SaveAuto(c) ==
  /\ save[c].st = "saving"
  /\ kept' = save[c].config
  /\ save' = [save EXCEPT ![c] = IF conn[c].pc = "none" THEN NoSave ELSE [NoSave EXCEPT !.st = "done"]]
  /\ UNCHANGED <<screen, modal, auto, unattended, session, conn, closing, presses>>

(* The second caller of a sync.Once waits for the first.                   *)
Kept(c) ==
  /\ conn[c].pc = "keep" /\ save[c].st = "done"
  /\ To(c, "tail")
  /\ UNCHANGED <<screen, modal, auto, kept, unattended, session, save, closing, presses>>

(* SessionShown: *session is cleared, the screen stays.                    *)
TailMutant(c) ==
  /\ conn[c].pc = "tail"
  /\ session' = 0
  /\ Over(c)
  /\ UNCHANGED <<screen, modal, auto, kept, unattended, closing, presses>>

(* Back to where the kiosk starts.                                         *)
Tail(c) ==
  /\ conn[c].pc = "tail"
  /\ session' = 0
  /\ IF IsAutoServer(conn[c].server) THEN StartAuto(screen)
     ELSE Transition("discovery") /\ modal' = modal
  /\ Over(c)
  /\ UNCHANGED <<auto, kept, unattended, closing, presses>>
-----------------------------------------------------------------------------
Goroutine(c) == \/ ConnectReads(c) \/ Lookup(c) \/ Dial(c) \/ RunSession(c) \/ Reconnect(c)
                \/ Redial(c) \/ Rejected(c) \/ EndsOtherwise(c) \/ Keep(c) \/ SaveAuto(c)
                \/ Kept(c) \/ Tail(c)

UI == \/ \E s \in Servers, listed \in BOOLEAN : OpenModal(s, listed)
      \/ CloseModal \/ ToggleAuto \/ OpenDialog \/ CloseDialog \/ LeaveAuto \/ EndKeyPressed
      \/ Disconnect
      \/ \E c \in Conns : Enter(c) \/ AutoDue(c)

Next == UI \/ \E c \in Conns : Goroutine(c) \/ SessionEnds(c)

Spec == Init /\ [][Next]_vars

(* Name lookups, dials and saves all have time limits, and the goroutines  *)
(* are scheduled.  Nothing makes a session end but Ctrl+Alt+End: the       *)
(* engine is killed 3 s after it was asked to quit.                        *)
Fairness == /\ WF_vars(Disconnect)
            /\ \A c \in Conns : /\ WF_vars(Goroutine(c))
                                /\ WF_vars(conn[c].asked /\ SessionEnds(c))

FairSpec == Spec /\ Fairness
-----------------------------------------------------------------------------
TypeOK ==
  /\ screen \in Screens /\ modal \in Config /\ auto \in Config /\ kept \in Config
  /\ unattended \in BOOLEAN
  /\ session \in Conns \cup {0} /\ closing \in Conns \cup {0}
  /\ conn \in [Conns -> ConnType] /\ save \in [Conns -> SaveType]

(* No key leaves the connecting screen: some goroutine is always about to. *)
ConnectingAttended == screen = "connecting" => \E c \in Conns : conn[c].pc \in Pending

(* The session screen shows a session whose goroutine is there to take it  *)
(* down: it is never left on one that is dead.                             *)
SessionShown == screen = "session" => /\ session # 0
                                      /\ conn[session].pc \in {"run", "ended", "keep", "tail"}

(* The countdown has a startup server to count down to: openAutoModal      *)
(* reads it, and the loop dies on a nil one.  As with the next two, until  *)
(* a connection has been left with Ctrl+Alt+End.                           *)
CountdownHasServer == presses = 0 /\ screen = "auto" => auto # NoAuto

(* A second connection is not started while one is under way.              *)
OneConnection ==
  presses = 0 => \A c, d \in Conns : conn[c].pc # "none" /\ conn[d].pc # "none" => c = d

(* A session that is up, and that nobody asked to end, is on the screen.   *)
LiveOnScreen ==
  \A c \in Conns : conn[c].pc = "run" /\ ~conn[c].asked => screen = "session" /\ session = c

(* The same for a kiosk where nobody has pressed Ctrl+Alt+End.             *)
LiveUndisturbed == presses = 0 => LiveOnScreen

(* The connecting screen goes away, whoever put it up.                     *)
ConnectingEnds == screen = "connecting" ~> screen # "connecting"
=============================================================================
