----------------------------- MODULE UsbSession ------------------------------
(***************************************************************************)
(* The kiosk's USB devices and the sessions they are handed to             *)
(* (internal/usb: session.go, usbip.go and device.go; internal/ui/loop.go: *)
(* connect).                                                               *)
(*                                                                         *)
(* A session with a server that runs SimpleClient's agent exports the      *)
(* devices over USB/IP: the server asks for a port, whose device is taken  *)
(* from its driver and given to usbip-host, with a claim on the port       *)
(* (match_busid) that outlives the device.  A goroutine looks every second *)
(* for devices that have been unplugged, and gives all back at the end.    *)
(* Any other session has RDP carry them, and the PC/SC daemon running.     *)
(* Ctrl+Alt+End does not wait for the session to end, so the next one may  *)
(* begin while the last still exports; and the kiosk's process may die and *)
(* be started again at any moment.                                         *)
(*                                                                         *)
(* Abstractions: devices that differ here are of different makes; one      *)
(* import is under way at a time; the connection is live, told to end, or  *)
(* at its end, and what the agent is told is left out but for whether      *)
(* there is one.  The kernel is external: a device plugged into a port     *)
(* usbip-host claims is usbip-host's, any other is its own driver's;       *)
(* without its own driver a device is unconfigured, and Local; usbip-host  *)
(* rebinds a device with no driver, and leaves any other alone.  bind and  *)
(* release are three sysfs writes each, and any of them may fail.          *)
(***************************************************************************)
EXTENDS Naturals

CONSTANTS
  Ports,      \* USB ports
  Devices,    \* what may be plugged in: some of "printer", "reader", "keyboard"
  Sessions    \* bound: connections under way at a time, numbered from 1

ASSUME DevicesAssumption == Devices \subseteq {"printer", "reader", "keyboard"}
ASSUME SessionsAssumption == Sessions \subseteq Nat \ {0}

VARIABLES
  dev,     \* dev[p]: the device in port p, or "none"
  drv,     \* drv[p]: its driver: "usb", "usbip-host" or "none"
  claim,   \* match_busid: the ports usbip-host claims
  up,      \* whether the kiosk's process runs
  ses,     \* ses[s]: a connection, its usb.Session and Exporter
  latest,  \* the session begun last, 0 for none
  ln,      \* the session that listens on usbipPort, 0 for none
  imp,     \* the import under way
  rel,     \* rel[o]: what release has to do for session o, for ReleaseStale as o = 0
  pcscd,   \* whether a PC/SC daemon runs
  cmd,     \* whether pcsc.cmd has one that has not exited
  torn,    \* for the properties: ports whose device a fault left without its driver
  kept     \* for the properties: ports whose claim a failed "del" left

kernel == <<dev, drv, claim>>
pcsc == <<pcscd, cmd>>
faults == <<torn, kept>>
vars == <<kernel, up, ses, latest, ln, imp, rel, pcsc, faults>>

Kind(p) == CASE dev[p] = "none" \/ drv[p] # "usb" -> "none"
             [] dev[p] = "keyboard" -> "local"
             [] OTHER -> "redirect"

(* A connection: "live" from Begin on, "told" once Ctrl+Alt+End has hung   *)
(* up, "end" once its engine has gone and connect has no more to dial.     *)
(* run is the goroutine of session.go.                                     *)
Nothing == [p \in Ports |-> "none"]
NoSes == [pc |-> "none", exp |-> FALSE, stop |-> FALSE, run |-> "none",
          seen |-> Nothing, bound |-> Nothing, closed |-> FALSE]

(* An import: the port asked for, and the device it had when looked at.    *)
NoImp == [pc |-> "none", of |-> 0, port |-> 0, d |-> "none"]

(* The ports still to be released, and the one whose unbind was written,   *)
(* with the write that is next.                                            *)
NoRel == [todo |-> {}, cur |-> 0, next |-> "unbind"]
Owners == Sessions \cup {0}
Idle(o) == rel[o].todo = {}
Gives(o, ports) == rel' = [rel EXCEPT ![o] = [NoRel EXCEPT !.todo = ports]]

(* e.mu, which bind holds over its steps, and Check and Close over release *)
Locked(s) == ~Idle(s) \/ (imp.of = s /\ imp.pc \in {"unbound", "matched"})

Init ==
  /\ dev \in [Ports -> Devices \cup {"none"}]
  /\ drv = [p \in Ports |-> IF dev[p] = "none" THEN "none" ELSE "usb"]
  /\ claim = {}
  /\ up = TRUE
  /\ ses = [s \in Sessions |-> NoSes]
  /\ latest = 0 /\ ln = 0 /\ imp = NoImp
  /\ rel = [o \in Owners |-> NoRel]
  /\ pcscd = FALSE /\ cmd = FALSE
  /\ torn = {} /\ kept = {}
-----------------------------------------------------------------------------
(* External: what is plugged in, and the daemon.                           *)

(* release is between its first two writes: what is plugged in now is for  *)
(* usbip-host still, and nobody takes it from there.                       *)
Between(p) == \E o \in Owners : rel[o].next = "del" /\ rel[o].cur = p

Plug(p, d) ==
  /\ dev[p] = "none"
  /\ dev' = [dev EXCEPT ![p] = d]
  /\ drv' = [drv EXCEPT ![p] = IF p \in claim THEN "usbip-host" ELSE "usb"]
  /\ torn' = IF Between(p) THEN torn \cup {p} ELSE torn \ {p}
  /\ UNCHANGED <<claim, up, ses, latest, ln, imp, rel, pcsc, kept>>

Unplug(p) ==
  /\ dev[p] # "none"
  /\ dev' = [dev EXCEPT ![p] = "none"] /\ drv' = [drv EXCEPT ![p] = "none"]
  /\ torn' = torn \ {p}
  /\ UNCHANGED <<claim, up, ses, latest, ln, imp, rel, pcsc, kept>>

PcscExits == /\ pcscd /\ pcscd' = FALSE /\ cmd' = FALSE
             /\ UNCHANGED <<kernel, up, ses, latest, ln, imp, rel, faults>>
-----------------------------------------------------------------------------
(* release, for each of the ports in turn: three writes, whose errors      *)
(* nobody looks at.                                                        *)

Unbind(o) ==
  /\ rel[o].next = "unbind"
  /\ \E p \in rel[o].todo, ok \in BOOLEAN :
       /\ rel' = [rel EXCEPT ![o] = [@ EXCEPT !.cur = p, !.next = "del"]]
       /\ IF drv[p] # "usbip-host" THEN UNCHANGED <<drv, torn>>
          ELSE IF ok THEN drv' = [drv EXCEPT ![p] = "none"] /\ UNCHANGED torn
          ELSE torn' = torn \cup {p} /\ UNCHANGED drv
  /\ UNCHANGED <<dev, claim, up, ses, latest, ln, imp, pcsc, kept>>

DelMatch(o) ==
  /\ rel[o].next = "del"
  /\ rel' = [rel EXCEPT ![o] = [@ EXCEPT !.next = "rebind"]]
  /\ \/ claim' = claim \ {rel[o].cur} /\ kept' = kept \ {rel[o].cur}
     \/ rel[o].cur \in claim /\ kept' = kept \cup {rel[o].cur} /\ UNCHANGED claim
  /\ UNCHANGED <<dev, drv, up, ses, latest, ln, imp, pcsc, torn>>

Loose(p) == dev[p] # "none" /\ drv[p] = "none"

(* The port is off bound once release has returned.                        *)
Rebind(o) ==
  /\ rel[o].next = "rebind"
  /\ LET p == rel[o].cur
     IN /\ \/ /\ Loose(p)
              /\ drv' = [drv EXCEPT ![p] = IF p \in claim THEN "usbip-host" ELSE "usb"]
              /\ torn' = IF Between(p) THEN torn \cup {p} ELSE torn \ {p}
           \/ torn' = (IF Loose(p) THEN torn \cup {p} ELSE torn) /\ UNCHANGED drv
        /\ Gives(o, rel[o].todo \ {p})
        /\ ses' = [s \in Sessions |-> IF s = o THEN [ses[s] EXCEPT !.bound[p] = "none"] ELSE ses[s]]
  /\ UNCHANGED <<dev, claim, up, latest, ln, imp, pcsc, kept>>

-----------------------------------------------------------------------------
(* The connection: Begin, the engine, End.                                 *)

Set(s, r) == ses' = [ses EXCEPT ![s] = r]

(* startPCSC, where the daemon is as left: one that runs is left alone, a  *)
(* new one may fail to start.                                              *)
StartPCSC(left) ==
  IF left /\ cmd THEN pcscd' = TRUE /\ cmd' = TRUE
  ELSE \E ok \in BOOLEAN : pcscd' = (left \/ ok) /\ cmd' = ok

(* stopPCSC, in so far as this process started it                          *)
StopPCSC == pcscd' = (pcscd /\ ~cmd) /\ cmd' = FALSE

(* Another connection is made once the last has been told to end.          *)
MayBegin(s) ==
  /\ up /\ Idle(0) /\ ses[s].pc = "none" /\ imp.of # s
  /\ \A t \in Sessions : /\ t < s => ses[t].pc # "none" \/ imp.of = t
                         /\ ses[t].pc # "live"

(* Begin where the server has no agent, where it has one, and where it has *)
(* one and the port is still the last session's.                           *)
BeginRDP(s) ==
  /\ MayBegin(s)
  /\ StartPCSC(pcscd)
  /\ Set(s, [NoSes EXCEPT !.pc = "live"]) /\ latest' = s
  /\ UNCHANGED <<kernel, up, ln, imp, rel, faults>>

(* ReaderFree: the daemon is left running.                                 *)
BeginExportMutant(s) ==
  /\ MayBegin(s)
  /\ ln = 0 /\ ln' = s
  /\ Set(s, [NoSes EXCEPT !.pc = "live", !.exp = TRUE, !.run = "wait"]) /\ latest' = s
  /\ UNCHANGED <<kernel, up, imp, rel, pcsc, faults>>

BeginExport(s) ==
  /\ MayBegin(s)
  /\ StopPCSC
  /\ ln = 0 /\ ln' = s
  /\ Set(s, [NoSes EXCEPT !.pc = "live", !.exp = TRUE, !.run = "wait"]) /\ latest' = s
  /\ UNCHANGED <<kernel, up, imp, rel, faults>>

BeginBusy(s) ==
  /\ MayBegin(s)
  /\ ln # 0
  /\ \E ok \in BOOLEAN : pcscd' = ((pcscd /\ ~cmd) \/ ok) /\ cmd' = ok
  /\ Set(s, [NoSes EXCEPT !.pc = "live"]) /\ latest' = s
  /\ UNCHANGED <<kernel, up, ln, imp, rel, faults>>

Conn == <<kernel, up, latest, ln, imp, rel, pcsc, faults>>

(* Ctrl+Alt+End                                                            *)
Hangup(s) ==
  /\ ses[s].pc = "live" /\ Set(s, [ses[s] EXCEPT !.pc = "told"])
  /\ UNCHANGED Conn

(* connect, once nothing is dialled again; an engine told to quit goes in  *)
(* the end.                                                                *)
SessionOver(s) ==
  /\ ses[s].pc \in {"live", "told"} /\ Set(s, [ses[s] EXCEPT !.pc = "end"])
  /\ UNCHANGED Conn

(* End                                                                     *)
End(s) ==
  /\ ses[s].pc = "end" /\ ~ses[s].stop
  /\ Set(s, IF ses[s].exp THEN [ses[s] EXCEPT !.stop = TRUE] ELSE NoSes)
  /\ UNCHANGED Conn
-----------------------------------------------------------------------------
(* The export: run's ticks, the imports, Close.                            *)

Export == <<up, latest, pcsc>>

(* Check, before the lock                                                  *)
Scan(s) ==
  /\ ses[s].run = "wait"
  /\ Set(s, [ses[s] EXCEPT !.run = "scanned", !.seen = dev])
  /\ UNCHANGED <<kernel, ln, imp, rel, faults>> /\ UNCHANGED Export

(* KeyboardStays: only a port found empty is given back.                   *)
CheckMutant(s) ==
  /\ ses[s].run = "scanned" /\ ~Locked(s)
  /\ Gives(s, {p \in Ports : ses[s].bound[p] # "none" /\ ses[s].seen[p] = "none"})
  /\ Set(s, [ses[s] EXCEPT !.run = "checking", !.seen = Nothing])
  /\ UNCHANGED <<kernel, ln, imp, faults>> /\ UNCHANGED Export

Check(s) ==
  /\ ses[s].run = "scanned" /\ ~Locked(s)
  /\ Gives(s, {p \in Ports : ses[s].bound[p] # "none" /\ ses[s].seen[p] # ses[s].bound[p]})
  /\ Set(s, [ses[s] EXCEPT !.run = "checking", !.seen = Nothing])
  /\ UNCHANGED <<kernel, ln, imp, faults>> /\ UNCHANGED Export

(* run, stopped: Close, up to the lock and under it.                       *)
StopServing(s) ==
  /\ ses[s].run = "wait" /\ ses[s].stop
  /\ ln' = 0 /\ Set(s, [ses[s] EXCEPT !.run = "closing"])
  /\ UNCHANGED <<kernel, imp, rel, faults>> /\ UNCHANGED Export

Close(s) ==
  /\ ses[s].run = "closing" /\ ~Locked(s)
  /\ Gives(s, {p \in Ports : ses[s].bound[p] # "none"})
  /\ Set(s, [ses[s] EXCEPT !.run = "releasing", !.closed = TRUE])
  /\ UNCHANGED <<kernel, ln, imp, faults>> /\ UNCHANGED Export

(* Check and Close return, with all released.                              *)
Released(s) ==
  /\ Idle(s)
  /\ \/ ses[s].run = "checking" /\ Set(s, [ses[s] EXCEPT !.run = "wait"])
     \/ ses[s].run = "releasing" /\ Set(s, [NoSes EXCEPT !.closed = TRUE])
  /\ UNCHANGED <<kernel, ln, imp, rel, faults>> /\ UNCHANGED Export

(* importDevice: Offered has the port.  What it offers had the driver      *)
(* "usb" before it was bound, and that is the driver bind takes it from.   *)
Import(s, p) ==
  /\ ln = s /\ imp = NoImp /\ ~Locked(s)
  /\ \/ ses[s].bound[p] # "none" /\ drv[p] = "usbip-host"
     \/ Kind(p) = "redirect"
  /\ imp' = [pc |-> "offered", of |-> s, port |-> p,
             d |-> IF drv[p] = "usbip-host" THEN ses[s].bound[p] ELSE dev[p]]
  /\ UNCHANGED <<kernel, ses, ln, rel, faults>> /\ UNCHANGED Export

Others == <<dev, ses, ln, rel, kept>>

(* The device is taken from the driver usb, if it is there; the write may  *)
(* fail all the same.                                                      *)
TakesDevice ==
  \/ imp' = NoImp /\ UNCHANGED drv
  \/ /\ drv[imp.port] = "usb"
     /\ drv' = [drv EXCEPT ![imp.port] = "none"] /\ imp' = [imp EXCEPT !.pc = "unbound"]

(* GivenBack: bind does not ask whether the session has ended.             *)
BindMutant ==
  /\ imp.pc = "offered" /\ ~Locked(imp.of)
  /\ IF ses[imp.of].bound[imp.port] # "none" THEN imp' = [imp EXCEPT !.pc = "bound"] /\ UNCHANGED drv
     ELSE TakesDevice
  /\ UNCHANGED <<claim, torn, Others>> /\ UNCHANGED Export

(* bind takes the lock: nothing once the session has ended, nothing to do  *)
(* for a device bound before.                                              *)
Bind ==
  /\ imp.pc = "offered" /\ ~Locked(imp.of)
  /\ IF ses[imp.of].closed THEN imp' = NoImp /\ UNCHANGED drv
     ELSE IF ses[imp.of].bound[imp.port] # "none" THEN imp' = [imp EXCEPT !.pc = "bound"] /\ UNCHANGED drv
     ELSE TakesDevice
  /\ UNCHANGED <<claim, torn, Others>> /\ UNCHANGED Export

(* bind: usbip-host's claim on the port.  A failure here leaves the device *)
(* with no driver.                                                         *)
Match ==
  /\ imp.pc = "unbound"
  /\ \/ /\ claim' = claim \cup {imp.port} /\ kept' = kept \ {imp.port}
        /\ imp' = [imp EXCEPT !.pc = "matched"] /\ UNCHANGED torn
     \/ /\ imp' = NoImp /\ torn' = IF Loose(imp.port) THEN torn \cup {imp.port} ELSE torn
        /\ UNCHANGED <<claim, kept>>
  /\ UNCHANGED <<dev, drv, ses, ln, rel>> /\ UNCHANGED Export

(* bind: usbip-host takes the device, or it is to be released.             *)
BindHost ==
  /\ imp.pc = "matched"
  /\ \/ /\ Loose(imp.port)
        /\ drv' = [drv EXCEPT ![imp.port] = "usbip-host"]
        /\ Set(imp.of, [ses[imp.of] EXCEPT !.bound[imp.port] = imp.d])
        /\ imp' = [imp EXCEPT !.pc = "bound"] /\ UNCHANGED rel
     \/ /\ Gives(imp.of, {imp.port}) /\ imp' = [imp EXCEPT !.pc = "failed"]
        /\ UNCHANGED <<drv, ses>>
  /\ UNCHANGED <<dev, claim, ln, faults>> /\ UNCHANGED Export

(* importDevice, with the lock given up: the kernel gets the connection,   *)
(* or the server an error.                                                 *)
HandOver ==
  /\ imp.pc = "bound" \/ (imp.pc = "failed" /\ Idle(imp.of))
  /\ imp' = NoImp
  /\ UNCHANGED <<drv, claim, torn, Others>> /\ UNCHANGED Export
-----------------------------------------------------------------------------
(* Ports whose device has just been taken from a driver, and no claim made *)
(* yet or left any more: it has none if the process dies now.              *)
InHand == {p \in Ports : \/ imp.pc = "unbound" /\ imp.port = p
                         \/ \E o \in Owners : rel[o].next = "rebind" /\ rel[o].cur = p}

(* The kiosk's process dies, and is started again.                         *)
Crash ==
  /\ up
  /\ up' = FALSE /\ ses' = [s \in Sessions |-> NoSes] /\ latest' = 0 /\ ln' = 0 /\ imp' = NoImp
  /\ rel' = [o \in Owners |-> NoRel]
  /\ cmd' = FALSE
  /\ torn' = torn \cup {p \in InHand : Loose(p)}
  /\ UNCHANGED <<kernel, pcscd, kept>>

(* Startup: ReleaseStale of all that is claimed, and pkill.                *)
Startup ==
  /\ ~up /\ up' = TRUE
  /\ Gives(0, claim) /\ pcscd' = FALSE
  /\ UNCHANGED <<kernel, ses, latest, ln, imp, cmd, faults>>

ImportSteps == Bind \/ Match \/ BindHost \/ HandOver
Release(o) == Unbind(o) \/ DelMatch(o) \/ Rebind(o)

Next ==
  \/ \E p \in Ports : Unplug(p) \/ \E d \in Devices : Plug(p, d)
  \/ \E s \in Sessions : \/ BeginRDP(s) \/ BeginExport(s) \/ BeginBusy(s)
                         \/ Hangup(s) \/ SessionOver(s) \/ End(s)
                         \/ Scan(s) \/ Check(s) \/ StopServing(s) \/ Close(s) \/ Released(s)
                         \/ \E p \in Ports : Import(s, p)
  \/ \E o \in Owners : Release(o)
  \/ ImportSteps \/ PcscExits \/ Crash \/ Startup

Spec == Init /\ [][Next]_vars

(* The kiosk's goroutines go on, run hears of its end among its ticks, and *)
(* init starts the kiosk's process again.  A session need never end, but   *)
(* one that was told to does.                                              *)
Fairness ==
  /\ \A s \in Sessions : /\ WF_vars(End(s) \/ (ses[s].pc = "told" /\ SessionOver(s)))
                         /\ WF_vars(Scan(s) \/ Released(s)) /\ SF_vars(StopServing(s))
                         /\ SF_vars(Check(s) \/ Close(s))
  /\ WF_vars(\E o \in Owners : Release(o)) /\ WF_vars(ImportSteps) /\ WF_vars(Startup)
FairSpec == Spec /\ Fairness
-----------------------------------------------------------------------------
(* With no session left, and after a restart, every device is back with    *)
(* its own driver and no port is claimed (End, Close, ReleaseStale); but   *)
(* for what a fault left: a write that failed, the process's death between *)
(* two, or a device that came into the port between release's first two.   *)
GivenBack ==
  up /\ Idle(0) /\ (\A s \in Sessions : ses[s].pc = "none") =>
    /\ claim \subseteq kept
    /\ \A p \in Ports : dev[p] # "none" => drv[p] = "usb" \/ p \in torn \cup kept

(* While the latest session exports its readers, no daemon of the kiosk    *)
(* holds them, not even one an earlier process left (Begin, Startup).      *)
ReaderFree == latest # 0 /\ ses[latest].exp => ~pcscd

(* A keyboard plugged in where a printer was, also while the printer was   *)
(* being handed over, types here in the end (Check), but for those faults, *)
(* and unless the process dies over and over (ReleaseStale).               *)
KeyboardStays ==
  \A p \in Ports : dev[p] = "keyboard" ~>
    (dev[p] # "keyboard" \/ drv[p] = "usb" \/ p \in torn \cup kept \/ ~up)
=============================================================================
