----------------------------- MODULE InputReader -----------------------------
(***************************************************************************)
(* The reader of keyboards and pointers (internal/inputdev/reader.go), up  *)
(* to the loop that takes its events (internal/ui/loop.go: Run).           *)
(*                                                                         *)
(* Every evdev node that types or points has a goroutine, readDevice, that *)
(* passes what it reads on to one channel: a key or a button waits for     *)
(* room, a movement is dropped when there is none.  Another, hotplug,      *)
(* looks every 1.5 s for nodes that are not read yet.  Close closes the    *)
(* files, and waits for all of them.                                       *)
(*                                                                         *)
(* Abstractions: a node's device is what its bitmaps say it is, and is     *)
(* always put back in the same node; a keyboard has one key, a pointer one *)
(* button; a movement has no extent; the place of the pointer, taps on a   *)
(* touchpad and the modifiers have no part here.  The kernel is external:  *)
(* it keeps what is typed for the files that have the node open, loses it  *)
(* with the device, and fails every read from then on.  Nothing is plugged *)
(* in, unplugged or typed once the reader is being closed.                 *)
(***************************************************************************)
EXTENDS Naturals, Sequences

CONSTANTS
  Nodes,     \* evdev nodes, in the order they are listed in
  Is,        \* Is[n]: what n's device is: some of "keyboard", "pointer"; a power
             \* button, which is always there, is neither
  Buffer,    \* room in events: 256 in the code
  Unread     \* bound: events the kernel keeps for a file, at which nothing more is typed; the
             \* kernel would drop events and say so (SYN_DROPPED), which readLoop passes over

ASSUME NodesAssumption == Nodes \subseteq Nat \ {0}
ASSUME IsAssumption == Is \in [Nodes -> SUBSET {"keyboard", "pointer"}]
ASSUME RoomAssumption == Buffer \in Nat \ {0} /\ Unread \in Nat \ {0}

VARIABLES
  plugged,   \* nodes with a device
  down,      \* down[n]: the keys held on n's device
  buf,       \* buf[n]: what the kernel keeps for the file open on n
  open,      \* r.open: nodes with an open file
  rd,        \* rd[n]: readDevice on n: whether its file is open, and still the
             \* device's, and the key it has in hand
  hot,       \* hotplug: the nodes it has still to look at, the one it opened
  quit,      \* r.quit is closed
  events,    \* r.events
  told,      \* told[n]: the keys of n's the loop has been told are held
  astray     \* keys that changed with nobody to see it

vars == <<plugged, down, buf, open, rd, hot, quit, events, told, astray>>

(* What can be held on a device.                                           *)
Keys(n) == (IF "keyboard" \in Is[n] THEN {"key"} ELSE {})
             \cup (IF "pointer" \in Is[n] THEN {"button"} ELSE {})

Move == [n |-> 0, k |-> "move", v |-> "move"]
None == [n |-> 0, k |-> "none", pressed |-> FALSE]
NoReader == [pc |-> "none", alive |-> FALSE, ev |-> None]
Waiting == [pc |-> "wait", todo |-> {}, n |-> 0, alive |-> FALSE]

(* rescan wants a keyboard or a pointer with a node: isKeyboard, isPointer *)
Wanted(n) == Is[n] # {}

(* NewAuto, with nothing looked at yet.                                    *)
Init ==
  /\ plugged \in {ns \in SUBSET Nodes : \A n \in Nodes : ~Wanted(n) => n \in ns}
  /\ down = [n \in Nodes |-> {}] /\ buf = [n \in Nodes |-> <<>>]
  /\ open = {} /\ rd = [n \in Nodes |-> NoReader]
  /\ hot = Waiting
  /\ quit = FALSE
  /\ events = <<>> /\ told = [n \in Nodes |-> {}] /\ astray = {}
-----------------------------------------------------------------------------
(* External: devices, and what is done with them.                          *)

reader == <<open, rd, hot, quit, events, told>>

(* Whether some file of the kiosk's takes n's events.                      *)
Heard(n) == rd[n].alive \/ (hot.pc = "register" /\ hot.n = n /\ hot.alive)

Plug(n) ==
  /\ n \notin plugged /\ ~quit
  /\ plugged' = plugged \cup {n}
  /\ UNCHANGED <<down, buf, astray>> /\ UNCHANGED reader

Unplug(n) ==
  /\ n \in plugged /\ Wanted(n) /\ ~quit
  /\ plugged' = plugged \ {n}
  /\ down' = [down EXCEPT ![n] = {}] /\ buf' = [buf EXCEPT ![n] = <<>>]
  /\ rd' = [rd EXCEPT ![n].alive = FALSE]
  /\ hot' = IF hot.n = n THEN [hot EXCEPT !.alive = FALSE] ELSE hot
  /\ astray' = astray \cup ({n} \X Keys(n))
  /\ UNCHANGED <<open, quit, events, told>>

Type(n, k) ==
  /\ n \in plugged /\ Len(buf[n]) < Unread /\ ~quit
  /\ LET now == k \notin down[n]
     IN /\ down' = [down EXCEPT ![n] = IF now THEN @ \cup {k} ELSE @ \ {k}]
        /\ IF Heard(n)
           THEN /\ buf' = [buf EXCEPT ![n] = Append(@, [n |-> n, k |-> k, v |-> IF now THEN "press" ELSE "release"])]
                /\ astray' = astray \ {<<n, k>>}
           ELSE /\ astray' = astray \cup {<<n, k>>}
                /\ UNCHANGED buf
  /\ UNCHANGED plugged /\ UNCHANGED reader

(* What is held may repeat, on a device that does so.                      *)
Repeat(n, k) ==
  /\ k \in down[n] /\ Len(buf[n]) < Unread /\ ~quit /\ Heard(n)
  /\ buf' = [buf EXCEPT ![n] = Append(@, [n |-> n, k |-> k, v |-> "repeat"])]
  /\ UNCHANGED <<plugged, down, astray>> /\ UNCHANGED reader

Slide(n) ==
  /\ n \in plugged /\ "pointer" \in Is[n] /\ Len(buf[n]) < Unread /\ ~quit /\ Heard(n)
  /\ buf' = [buf EXCEPT ![n] = Append(@, Move)]
  /\ UNCHANGED <<plugged, down, astray>> /\ UNCHANGED reader
-----------------------------------------------------------------------------
(* readDevice                                                              *)

world == <<plugged, down, astray>>

(* handleButton passes over repeats; handleKey counts one as a press.      *)
HandleButton(e) == e.v = "repeat"
HandleKey(e) == [n |-> e.n, k |-> e.k, pressed |-> e.v # "release"]

(* A key or a button goes to emit, a movement if there is room.            *)
Read(n) ==
  /\ rd[n].pc = "read" /\ rd[n].alive /\ buf[n] # <<>>
  /\ buf' = [buf EXCEPT ![n] = Tail(@)]
  /\ LET e == Head(buf[n])
     IN CASE e = Move ->
               /\ events' = IF Len(events) < Buffer THEN Append(events, HandleKey(Move)) ELSE events
               /\ UNCHANGED rd
          [] e.k = "button" /\ HandleButton(e) -> UNCHANGED <<rd, events>>
          [] OTHER ->
               /\ rd' = [rd EXCEPT ![n].pc = "emit", ![n].ev = HandleKey(e)]
               /\ UNCHANGED events
  /\ UNCHANGED <<open, hot, quit, told>> /\ UNCHANGED world

(* NoKeyStuck: a key is dropped too when there is no room.                 *)
EmitMutant(n) ==
  /\ rd[n].pc = "emit"
  /\ events' = IF Len(events) < Buffer THEN Append(events, rd[n].ev) ELSE events
  /\ rd' = [rd EXCEPT ![n].pc = "read", ![n].ev = None]
  /\ UNCHANGED <<buf, open, hot, quit, told>> /\ UNCHANGED world

Emit(n) ==
  /\ rd[n].pc = "emit" /\ Len(events) < Buffer
  /\ events' = Append(events, rd[n].ev)
  /\ rd' = [rd EXCEPT ![n].pc = "read", ![n].ev = None]
  /\ UNCHANGED <<buf, open, hot, quit, told>> /\ UNCHANGED world

(* PluggedIsRead: the node of a device that went stays on the list.        *)
ReaderEndsMutant(n) ==
  /\ \/ rd[n].pc = "read" /\ ~rd[n].alive
     \/ rd[n].pc = "emit" /\ quit
  /\ rd' = [rd EXCEPT ![n] = NoReader] /\ buf' = [buf EXCEPT ![n] = <<>>]
  /\ UNCHANGED <<open, hot, quit, events, told>> /\ UNCHANGED world

(* The read fails, or emit gives up; the file is forgotten and closed.     *)
ReaderEnds(n) ==
  /\ \/ rd[n].pc = "read" /\ ~rd[n].alive
     \/ rd[n].pc = "emit" /\ quit
  /\ rd' = [rd EXCEPT ![n] = NoReader] /\ buf' = [buf EXCEPT ![n] = <<>>]
  /\ open' = open \ {n}
  /\ UNCHANGED <<hot, quit, events, told>> /\ UNCHANGED world
-----------------------------------------------------------------------------
(* hotplug                                                                 *)

readers == <<buf, open, rd, quit, events, told>>

(* The kernel's list of devices, as parseDevices reads it.                 *)
Listed == plugged

(* rescan: the list                                                        *)
Rescan ==
  /\ hot.pc = "wait" /\ ~quit
  /\ hot' = [Waiting EXCEPT !.pc = "look", !.todo = Listed]
  /\ UNCHANGED readers /\ UNCHANGED world

(* rescan, in the list's order: a node that is of no use, or open already, *)
(* is passed over; openDevice, up to the lock.                             *)
Look(n) ==
  /\ hot.pc = "look" /\ n \in hot.todo /\ \A m \in hot.todo : n <= m
  /\ hot' = IF ~Wanted(n) \/ n \in open \/ n \notin plugged THEN [hot EXCEPT !.todo = @ \ {n}]
            ELSE [pc |-> "register", todo |-> hot.todo \ {n}, n |-> n, alive |-> TRUE]
  /\ UNCHANGED readers /\ UNCHANGED world

Looked ==
  /\ hot.pc = "look" /\ hot.todo = {} /\ hot' = Waiting
  /\ UNCHANGED readers /\ UNCHANGED world

(* CloseEnds: openDevice does not ask whether the reader is closing.       *)
RegisterMutant ==
  /\ hot.pc = "register"
  /\ hot' = [hot EXCEPT !.pc = "look", !.n = 0, !.alive = FALSE]
  /\ open' = open \cup {hot.n}
  /\ rd' = [rd EXCEPT ![hot.n] = [pc |-> "read", alive |-> hot.alive, ev |-> None]]
  /\ UNCHANGED <<buf, quit, events, told>> /\ UNCHANGED world

(* openDevice, under the lock.                                             *)
Register ==
  /\ hot.pc = "register"
  /\ hot' = [hot EXCEPT !.pc = "look", !.n = 0, !.alive = FALSE]
  /\ IF quit THEN buf' = [buf EXCEPT ![hot.n] = <<>>] /\ UNCHANGED <<open, rd>>
     ELSE /\ open' = open \cup {hot.n}
          /\ rd' = [rd EXCEPT ![hot.n] = [pc |-> "read", alive |-> hot.alive, ev |-> None]]
          /\ UNCHANGED buf
  /\ UNCHANGED <<quit, events, told>> /\ UNCHANGED world

HotplugEnds ==
  /\ hot.pc = "wait" /\ quit /\ hot' = [Waiting EXCEPT !.pc = "none"]
  /\ UNCHANGED readers /\ UNCHANGED world
-----------------------------------------------------------------------------
(* Run takes an event; it takes none once it has closed the reader.        *)
Take ==
  /\ ~quit /\ events # <<>>
  /\ LET e == Head(events)
     IN told' = IF e.k = "move" THEN told
                ELSE [told EXCEPT ![e.n] = IF e.pressed THEN @ \cup {e.k} ELSE @ \ {e.k}]
  /\ events' = Tail(events)
  /\ UNCHANGED <<buf, open, rd, hot, quit>> /\ UNCHANGED world

(* Close, up to its wait: with the lock, every open file is closed.  Run   *)
(* is over, and with it what it was told.                                  *)
Close ==
  /\ ~quit /\ quit' = TRUE
  /\ rd' = [n \in Nodes |-> IF n \in open THEN [rd[n] EXCEPT !.alive = FALSE] ELSE rd[n]]
  /\ told' = [n \in Nodes |-> {}] /\ down' = told' /\ astray' = {}
  /\ UNCHANGED <<buf, open, hot, events, plugged>>

Hotplug == Rescan \/ Looked \/ Register \/ HotplugEnds \/ \E n \in Nodes : Look(n)

Next ==
  \/ \E n \in Nodes : \/ Plug(n) \/ Unplug(n) \/ Slide(n)
                      \/ \E k \in Keys(n) : Type(n, k) \/ Repeat(n, k)
                      \/ Read(n) \/ Emit(n) \/ ReaderEnds(n)
  \/ Hotplug \/ Take \/ Close

Spec == Init /\ [][Next]_vars

(* The goroutines go on; the ones that wait to send get their turn in the  *)
(* order they came.                                                        *)
FairSpec ==
  /\ Spec /\ WF_vars(Hotplug) /\ WF_vars(Take)
  /\ \A n \in Nodes : WF_vars(Read(n)) /\ SF_vars(Emit(n)) /\ WF_vars(ReaderEnds(n))
-----------------------------------------------------------------------------
(* How a key stands by what was last said of it: in what the kernel keeps, *)
(* in the reader's hand, in the channel, or to the loop.                   *)
Last(q, n, k) ==
  LET at == {i \in 1..Len(q) : q[i].n = n /\ q[i].k = k}
  IN  {q[i].pressed : i \in {j \in at : \A h \in at : h <= j}}
Said(n, k) == Last(events \o (IF rd[n].ev.n = n THEN <<rd[n].ev>> ELSE <<>>)
                     \o [i \in DOMAIN buf[n] |-> HandleKey(buf[n][i])], n, k)

(* Of every device that stays, what is last said of a key is how it is:    *)
(* however full the channel, no release is lost, after which the far end   *)
(* would be "stuck repeating it" (handleKey, emit).                        *)
NoKeyStuck ==
  ~quit => \A n \in plugged : \A k \in Keys(n) :
    <<n, k>> \notin astray =>
      (k \in down[n] <=> IF Said(n, k) = {} THEN k \in told[n] ELSE TRUE \in Said(n, k))

(* "a keyboard plugged in once the kiosk is already running works": one    *)
(* that stays is read in the end, also in the place of one whose reader    *)
(* has not noticed yet that it went (rescan, readDevice).                  *)
PluggedIsRead ==
  \A n \in Nodes : n \in plugged /\ Wanted(n) ~> (rd[n].alive \/ n \notin plugged \/ quit)

(* Close comes back: no goroutine waits for an event, for room in the      *)
(* channel, or on a file opened just then (Close, openDevice, emit).       *)
CloseEnds == quit ~> (hot.pc = "none" /\ \A n \in Nodes : rd[n] = NoReader)
=============================================================================
