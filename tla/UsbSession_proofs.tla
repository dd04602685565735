------------------------- MODULE UsbSession_proofs ---------------------------
(***************************************************************************)
(* What the kiosk's sessions guarantee about its USB devices, for any      *)
(* number of ports, sessions, imports and restarts, and whichever sysfs    *)
(* writes fail: all are given back but where a fault is to blame, and a    *)
(* reader that is exported is nobody else's.                               *)
(***************************************************************************)
EXTENDS UsbSession, TLAPS

Plugged == Devices \cup {"none"}

SesType == [pc : {"none", "live", "told", "end"}, exp : BOOLEAN, stop : BOOLEAN,
            run : {"none", "wait", "scanned", "checking", "closing", "releasing"},
            seen : [Ports -> Plugged], bound : [Ports -> Plugged], closed : BOOLEAN]

ImpType == [pc : {"none", "offered", "unbound", "matched", "bound", "failed"},
            of : Sessions \cup {0}, port : Ports \cup {0}, d : Plugged]

RelType == [todo : SUBSET Ports, cur : Ports \cup {0}, next : {"unbind", "del", "rebind"}]

TypeInv ==
  /\ dev \in [Ports -> Plugged] /\ drv \in [Ports -> {"usb", "usbip-host", "none"}]
  /\ claim \subseteq Ports /\ torn \subseteq Ports /\ kept \subseteq Ports
  /\ ses \in [Sessions -> SesType] /\ imp \in ImpType /\ rel \in [Owners -> RelType]
  /\ latest \in Sessions \cup {0} /\ ln \in Sessions \cup {0}

(* bind is between taking the device of port p from its driver and giving  *)
(* it to usbip-host.                                                       *)
Binding(p) == imp.pc \in {"unbound", "matched"} /\ imp.port = p

(* release has made its claim's "del" write, and has only to rebind.       *)
Past(o, p) == rel[o].next = "rebind" /\ rel[o].cur = p

(* The port is one session s has bound, or that its failed bind releases.  *)
Own(s, p) == \/ ses[s].bound[p] # "none"
             \/ imp.pc = "failed" /\ imp.of = s /\ imp.port = p /\ p \in rel[s].todo

(* The port's claim is session s's, until it has been deleted.             *)
Holds(s, p) == Own(s, p) /\ ~Past(s, p)

(* A device with no driver is one that bind or release has in hand, that a *)
(* fault left so, or that a process which has died had, and then the port  *)
(* is claimed.  usbip-host has what it claims, or what a fault left it.    *)
KernelInv ==
  \A p \in Ports :
    /\ dev[p] = "none" => drv[p] = "none"
    /\ drv[p] = "usbip-host" => p \in claim \/ p \in torn
    /\ drv[p] = "usbip-host" /\ Between(p) => p \in torn
    /\ Loose(p) => \/ p \in torn \/ Binding(p) \/ (~up /\ p \in claim)
                   \/ \E o \in Owners : p \in rel[o].todo

(* A port a running kiosk claims has somebody who will give it back.       *)
ClaimInv ==
  up => \A p \in claim : \/ p \in kept
                         \/ \E s \in Sessions : Holds(s, p)
                         \/ imp.pc = "matched" /\ imp.port = p
                         \/ p \in rel[0].todo /\ ~Past(0, p)

(* What a session holds is its own, and stays claimed until its "del".     *)
BoundInv ==
  \A s \in Sessions, p \in Ports :
    Holds(s, p) =>
      /\ p \in claim /\ ~Binding(p)
      /\ ses[s].bound[p] # "none" => drv[p] # "usb"
      /\ \A t \in Sessions : Holds(t, p) => t = s

(* What is released is a session's that exports, or what the last process  *)
(* left claimed, and then there is no session yet.                         *)
RelInv ==
  /\ \A o \in Owners : rel[o].next # "unbind" => rel[o].cur \in rel[o].todo
  /\ \A s \in Sessions : rel[s].todo # {} => ses[s].exp = TRUE
  /\ \A s \in Sessions : \A p \in rel[s].todo : Own(s, p)
  /\ \A p \in rel[0].todo : p \in claim \/ Past(0, p)
  /\ rel[0].todo # {} => imp.pc = "none" /\ \A s \in Sessions : ses[s].exp = FALSE

(* Only a session that exports has run's goroutine and devices bound, and  *)
(* it is not over before that goroutine is.                                *)
SesInv ==
  \A s \in Sessions :
    /\ ses[s].pc = "none" => ses[s].exp = FALSE
    /\ ses[s].exp = FALSE => ses[s].run = "none" /\ ses[s].bound = Nothing
    /\ ses[s].closed = TRUE => ses[s].pc = "none" \/ ses[s].run = "releasing"
    /\ ses[s].run = "releasing" =>
         ses[s].closed = TRUE /\ \A p \in Ports : ses[s].bound[p] # "none" => p \in rel[s].todo

(* An import's session still exports when bind has the lock: Close waits   *)
(* for it, and bind asks closed first.                                     *)
ImpInv ==
  imp.pc # "none" =>
    /\ imp.of \in Sessions /\ imp.port \in Ports /\ imp.d # "none"
    /\ imp.pc = "offered" => ses[imp.of].exp = TRUE \/ ses[imp.of].closed = TRUE
    /\ imp.pc \in {"unbound", "matched"} =>
         ses[imp.of].exp = TRUE /\ ses[imp.of].run # "releasing" /\ rel[imp.of].todo = {}
    /\ imp.pc = "matched" => imp.port \in claim

LnInv == ln # 0 => ses[ln].exp = TRUE /\ ses[ln].run \in {"wait", "scanned", "checking"}

(* A process that has died has no sessions.                                *)
DownInv == ~up => /\ ses = [s \in Sessions |-> NoSes] /\ latest = 0 /\ ln = 0 /\ imp = NoImp
                  /\ rel = [o \in Owners |-> NoRel]

(* A daemon that runs is one this process started.                         *)
PcscInv == up /\ pcscd => cmd

IInv == /\ TypeInv /\ KernelInv /\ ClaimInv /\ BoundInv /\ RelInv /\ SesInv /\ ImpInv /\ LnInv
        /\ DownInv /\ PcscInv /\ ReaderFree
-----------------------------------------------------------------------------
(* What there is at first is of its type.                                  *)
LEMMA Nothings ==
  /\ Nothing \in [Ports -> Plugged]
  /\ NoSes \in SesType /\ NoImp \in ImpType /\ NoRel \in RelType
  /\ NoSes.pc = "none" /\ NoSes.exp = FALSE /\ NoSes.run = "none" /\ NoSes.closed = FALSE
  /\ NoSes.bound = Nothing
  /\ NoImp.pc = "none" /\ NoImp.of = 0
  /\ NoRel.todo = {} /\ NoRel.next = "unbind"
  /\ \A p \in Ports : Nothing[p] = "none"
  BY DEF NoSes, Nothing, NoImp, NoRel, SesType, ImpType, RelType, Plugged

(* The sessions are not 0, the owner that ReleaseStale has.                *)
LEMMA OwnersAre == /\ \A s \in Sessions : s \in Owners /\ s # 0
                   /\ 0 \in Owners /\ 0 \notin Sessions
                   /\ \A o \in Owners : o # 0 => o \in Sessions
  BY SessionsAssumption DEF Owners

(* A process with no session, import or release holds nothing.             *)
LEMMA NobodyHolds ==
  ASSUME imp = NoImp, rel = [o \in Owners |-> NoRel], ses = [s \in Sessions |-> NoSes]
  PROVE  /\ \A s \in Sessions, p \in Ports : ~Own(s, p) /\ ~Holds(s, p)
         /\ \A p \in Ports : ~Binding(p) /\ ~Between(p)
         /\ \A o \in Owners, p \in Ports : ~Past(o, p)
         /\ \A o \in Owners : rel[o].todo = {}
         /\ RelInv /\ SesInv /\ ImpInv /\ BoundInv
<1>1. \A s \in Sessions, p \in Ports : ~Own(s, p) /\ ~Holds(s, p)
  BY Nothings DEF Own, Holds
<1>2. \A p \in Ports : ~Binding(p) /\ ~Between(p)
  BY Nothings DEF Binding, Between
<1>3. /\ \A o \in Owners, p \in Ports : ~Past(o, p)
      /\ \A o \in Owners : rel[o].todo = {} /\ rel[o].next = "unbind"
  BY Nothings DEF Past
<1>4. RelInv
  BY <1>3, Nothings, OwnersAre DEF RelInv
<1>5. SesInv /\ ImpInv
  BY Nothings DEF SesInv, ImpInv
<1>6. BoundInv
  BY <1>1 DEF BoundInv
<1> QED BY <1>1, <1>2, <1>3, <1>4, <1>5, <1>6

(* The kiosk starts with every device at its own driver.                   *)
LEMMA InitInv == Init => IInv
<1> SUFFICES ASSUME Init PROVE IInv
  OBVIOUS
<1>1. TypeInv
  BY Nothings DEF Init, TypeInv, Plugged
<1>2. KernelInv
  BY DEF Init, KernelInv, Loose
<1>3. ClaimInv /\ LnInv
  BY DEF Init, ClaimInv, LnInv
<1>4. RelInv /\ SesInv /\ ImpInv /\ BoundInv
  BY NobodyHolds DEF Init
<1>5. DownInv /\ PcscInv /\ ReaderFree
  BY DEF Init, DownInv, PcscInv, ReaderFree
<1> QED BY <1>1, <1>2, <1>3, <1>4, <1>5 DEF IInv

(* The invariant says what the run checks: with no session left there is   *)
(* none that holds a port or releases one, and bind has none in hand.      *)
LEMMA InvImplies == IInv => GivenBack /\ ReaderFree
<1> SUFFICES ASSUME IInv, up, Idle(0), \A s \in Sessions : ses[s].pc = "none"
             PROVE  /\ claim \subseteq kept
                    /\ \A p \in Ports : dev[p] # "none" => drv[p] = "usb" \/ p \in torn \cup kept
  BY DEF IInv, GivenBack
<1>1. \A s \in Sessions : ses[s].exp = FALSE /\ ses[s].bound = Nothing /\ rel[s].todo = {}
  BY DEF IInv, SesInv, RelInv
<1>2. \A o \in Owners : rel[o].todo = {}
  BY <1>1, OwnersAre DEF Idle
<1>3. \A s \in Sessions, p \in Ports : ~Holds(s, p)
  BY <1>1, Nothings DEF Holds, Own
<1>4. imp.pc \notin {"unbound", "matched"} /\ \A p \in Ports : ~Binding(p)
  BY <1>1 DEF IInv, ImpInv, Binding
<1>5. claim \subseteq kept
  BY <1>2, <1>3, <1>4, OwnersAre DEF IInv, TypeInv, ClaimInv
<1>6. ASSUME NEW p \in Ports, dev[p] # "none" PROVE drv[p] = "usb" \/ p \in torn \cup kept
  BY <1>2, <1>4, <1>5, <1>6 DEF IInv, TypeInv, KernelInv, Loose
<1> QED BY <1>5, <1>6
-----------------------------------------------------------------------------
(* Who holds what is a matter of bound, the import and the releases.       *)
LEMMA SameHold ==
  ASSUME imp' = imp, rel' = rel, \A t \in Sessions : ses'[t].bound = ses[t].bound
  PROVE  /\ \A s \in Sessions, p \in Ports : (Own(s, p)' <=> Own(s, p)) /\ (Holds(s, p)' <=> Holds(s, p))
         /\ \A p : (Binding(p)' <=> Binding(p)) /\ (Between(p)' <=> Between(p))
         /\ \A o \in Owners, p \in Ports : Past(o, p)' <=> Past(o, p)
<1>1. \A o \in Owners, p \in Ports : Past(o, p)' <=> Past(o, p)
  BY DEF Past
<1>2. \A p : (Binding(p)' <=> Binding(p)) /\ (Between(p)' <=> Between(p))
  BY DEF Binding, Between
<1>3. \A s \in Sessions, p \in Ports : Own(s, p)' <=> Own(s, p)
  BY DEF Own
<1> QED BY <1>1, <1>2, <1>3, OwnersAre DEF Holds

(* What is plugged in changes no session, claim, import or release.        *)
LEMMA PlugInv ==
  ASSUME IInv, NEW p \in Ports, Unplug(p) \/ \E d \in Devices : Plug(p, d)
  PROVE  IInv'
<1>1. UNCHANGED <<claim, up, ses, latest, ln, imp, rel, pcscd, cmd, kept>>
  BY DEF Plug, Unplug, pcsc
<1>2. TypeInv'
  <2>1. torn' \subseteq Ports
    BY DEF IInv, TypeInv, Plug, Unplug
  <2> QED BY <1>1, <2>1 DEF IInv, TypeInv, Plug, Unplug, Plugged
<1>3. /\ \A s \in Sessions, q \in Ports : (Own(s, q)' <=> Own(s, q)) /\ (Holds(s, q)' <=> Holds(s, q))
      /\ \A q : (Binding(q)' <=> Binding(q)) /\ (Between(q)' <=> Between(q))
      /\ \A o \in Owners, q \in Ports : Past(o, q)' <=> Past(o, q)
  BY <1>1, SameHold
<1>4. /\ \A q \in Ports : q # p => /\ dev'[q] = dev[q] /\ drv'[q] = drv[q]
                                   /\ (q \in torn' <=> q \in torn)
      /\ \/ dev'[p] = "none" /\ drv'[p] = "none"
         \/ /\ dev'[p] # "none" /\ drv'[p] = IF p \in claim THEN "usbip-host" ELSE "usb"
            /\ Between(p) => p \in torn'
  BY DevicesAssumption DEF IInv, TypeInv, Plug, Unplug
<1>5. KernelInv'
  <2> SUFFICES ASSUME NEW q \in Ports
               PROVE  /\ dev'[q] = "none" => drv'[q] = "none"
                      /\ drv'[q] = "usbip-host" => q \in claim' \/ q \in torn'
                      /\ drv'[q] = "usbip-host" /\ Between(q)' => q \in torn'
                      /\ Loose(q)' => \/ q \in torn' \/ Binding(q)' \/ (~up' /\ q \in claim')
                                      \/ \E o \in Owners : q \in rel'[o].todo
    BY DEF KernelInv
  <2>1. CASE q = p
    BY <1>1, <1>3, <1>4, <2>1 DEF Loose
  <2>2. CASE q # p
    BY <1>1, <1>3, <1>4, <2>2 DEF IInv, KernelInv, Loose
  <2> QED BY <2>1, <2>2
<1>6. ClaimInv'
  BY <1>1, <1>3, OwnersAre DEF IInv, TypeInv, ClaimInv
<1>7. BoundInv'
  <2> SUFFICES ASSUME NEW s \in Sessions, NEW q \in Ports, Holds(s, q)
               PROVE  /\ q \in claim /\ ~Binding(q)
                      /\ ses[s].bound[q] # "none" => drv'[q] # "usb"
                      /\ \A t \in Sessions : Holds(t, q) => t = s
    BY <1>1, <1>3 DEF BoundInv
  <2> QED BY <1>4 DEF IInv, BoundInv
<1>8. RelInv'
  BY <1>1, <1>3, OwnersAre DEF IInv, TypeInv, RelInv, RelType
<1>9. SesInv' /\ ImpInv' /\ LnInv'
  BY <1>1 DEF IInv, SesInv, ImpInv, LnInv
<1>10. DownInv' /\ PcscInv' /\ ReaderFree'
  BY <1>1 DEF IInv, DownInv, PcscInv, ReaderFree
<1> QED BY <1>2, <1>5, <1>6, <1>7, <1>8, <1>9, <1>10 DEF IInv

(* The invariant but for the daemon is a matter of the rest.               *)
LEMMA RestKept ==
  ASSUME IInv, UNCHANGED <<dev, drv, claim, torn, kept, up, ses, latest, ln, imp, rel>>
  PROVE  /\ TypeInv' /\ KernelInv' /\ ClaimInv' /\ BoundInv' /\ RelInv'
         /\ SesInv' /\ ImpInv' /\ LnInv' /\ DownInv'
<1>1. TypeInv' /\ SesInv' /\ ImpInv' /\ LnInv' /\ DownInv'
  BY DEF IInv, TypeInv, SesInv, ImpInv, LnInv, DownInv
<1>2. KernelInv'
  BY DEF IInv, KernelInv, Loose, Between, Binding
<1>3. ClaimInv' /\ BoundInv' /\ RelInv'
  BY DEF IInv, ClaimInv, BoundInv, RelInv, Holds, Own, Past, Binding
<1> QED BY <1>1, <1>2, <1>3

(* The daemon may exit at any time.                                        *)
LEMMA PcscExitsInv == ASSUME IInv, PcscExits PROVE IInv'
<1>1. /\ UNCHANGED <<dev, drv, claim, torn, kept, up, ses, latest, ln, imp, rel>>
      /\ ~pcscd'
  BY DEF PcscExits, kernel, faults
<1>2. PcscInv' /\ ReaderFree'
  BY <1>1 DEF IInv, PcscInv, ReaderFree
<1> QED BY <1>1, <1>2, RestKept DEF IInv

(* The sessions after a step of one.                                       *)
LEMMA SesAfter ==
  ASSUME TypeInv, NEW s \in Sessions, NEW r, ses' = [ses EXCEPT ![s] = r]
  PROVE  ses'[s] = r /\ \A t \in Sessions : t # s => ses'[t] = ses[t]
  BY DEF TypeInv

(* A step of one session that binds and releases nothing, and whose export *)
(* begins or ends while nothing is to be released.                         *)
LEMMA SesStep ==
  ASSUME IInv, NEW s \in Sessions, NEW r \in SesType, ses' = [ses EXCEPT ![s] = r],
         UNCHANGED <<dev, drv, claim, torn, kept, up, imp, rel>>,
         latest' \in Sessions \cup {0}, ln' \in Sessions \cup {0},
         r.bound = ses[s].bound,
         r.exp = ses[s].exp \/ (rel[s].todo = {} /\ rel[0].todo = {})
  PROVE  TypeInv' /\ KernelInv' /\ ClaimInv' /\ BoundInv' /\ RelInv'
<1>1. TypeInv'
  BY DEF IInv, TypeInv
<1>2. \A t \in Sessions : ses'[t].bound = ses[t].bound
  BY DEF IInv, TypeInv
<1>3. /\ \A t \in Sessions, q \in Ports : (Own(t, q)' <=> Own(t, q)) /\ (Holds(t, q)' <=> Holds(t, q))
      /\ \A q : (Binding(q)' <=> Binding(q)) /\ (Between(q)' <=> Between(q))
      /\ \A o \in Owners, q \in Ports : Past(o, q)' <=> Past(o, q)
  BY <1>2, SameHold
<1>4. KernelInv'
  BY <1>3 DEF IInv, KernelInv, Loose
<1>5. ClaimInv'
  BY <1>3, OwnersAre DEF IInv, TypeInv, ClaimInv
<1>6. BoundInv'
  BY <1>2, <1>3 DEF IInv, BoundInv
<1>7. RelInv'
  <2>1. ses'[s] = r /\ \A t \in Sessions : t # s => ses'[t] = ses[t]
    BY SesAfter DEF IInv
  <2>2. \A t \in Sessions : rel'[t].todo # {} => ses'[t].exp = TRUE
    BY <2>1 DEF IInv, RelInv
  <2>3. rel'[0].todo # {} => imp'.pc = "none" /\ \A t \in Sessions : ses'[t].exp = FALSE
    BY <2>1 DEF IInv, RelInv
  <2> QED BY <1>3, <2>2, <2>3, OwnersAre DEF IInv, TypeInv, RelInv, RelType
<1> QED BY <1>1, <1>4, <1>5, <1>6, <1>7

(* A session begins where there is none, and with it pcscd runs or not as  *)
(* it exports or not.                                                      *)
LEMMA BeginStep ==
  ASSUME IInv, NEW s \in Sessions, NEW r \in SesType, MayBegin(s),
         ses' = [ses EXCEPT ![s] = r], latest' = s,
         UNCHANGED <<dev, drv, claim, torn, kept, up, imp, rel>>,
         r.bound = Nothing, r.closed = FALSE, r.pc = "live",
         \/ r.exp = FALSE /\ r.run = "none" /\ ln' = ln
         \/ r.exp = TRUE /\ r.run = "wait" /\ ln' = s /\ ~pcscd',
         pcscd' => cmd'
  PROVE  IInv'
<1>1. up /\ ses[s].pc = "none" /\ imp.of # s /\ s # 0 /\ rel[0].todo = {}
  BY SessionsAssumption DEF MayBegin, Idle
<1>2. ses[s].exp = FALSE /\ ses[s].bound = Nothing /\ ln # s /\ rel[s].todo = {}
  BY <1>1 DEF IInv, SesInv, LnInv, RelInv
<1>3. TypeInv' /\ KernelInv' /\ ClaimInv' /\ BoundInv' /\ RelInv'
  <2>1. latest' \in Sessions \cup {0} /\ ln' \in Sessions \cup {0}
    BY <1>1 DEF IInv, TypeInv
  <2> QED BY <1>1, <1>2, <2>1, SesStep
<1>4. ses'[s] = r /\ \A t \in Sessions : t # s => ses'[t] = ses[t]
  BY SesAfter DEF IInv
<1>5. SesInv'
  <2>1. ASSUME NEW t \in Sessions
        PROVE  /\ ses'[t].pc = "none" => ses'[t].exp = FALSE
               /\ ses'[t].exp = FALSE => ses'[t].run = "none" /\ ses'[t].bound = Nothing
               /\ ses'[t].closed = TRUE => ses'[t].pc = "none" \/ ses'[t].run = "releasing"
               /\ ses'[t].run = "releasing" =>
                    /\ ses'[t].closed = TRUE
                    /\ \A p \in Ports : ses'[t].bound[p] # "none" => p \in rel'[t].todo
    <3>1. CASE t = s
      BY <1>4, <3>1
    <3>2. CASE t # s
      BY <1>4, <3>2 DEF IInv, SesInv
    <3> QED BY <3>1, <3>2
  <2> QED BY <2>1 DEF SesInv, Nothing
<1>6. ImpInv'
  BY <1>1, <1>4 DEF IInv, ImpInv
<1>7. LnInv'
  BY <1>1, <1>2, <1>4 DEF IInv, TypeInv, LnInv
<1>8. DownInv' /\ PcscInv' /\ ReaderFree'
  BY <1>1, <1>4 DEF DownInv, PcscInv, ReaderFree
<1> QED BY <1>3, <1>5, <1>6, <1>7, <1>8 DEF IInv

(* Begin, in its three ways.                                               *)
LEMMA BeginInv ==
  ASSUME IInv, NEW s \in Sessions, BeginRDP(s) \/ BeginExport(s) \/ BeginBusy(s)
  PROVE  IInv'
<1> DEFINE plain == [NoSes EXCEPT !.pc = "live"]
           exports == [NoSes EXCEPT !.pc = "live", !.exp = TRUE, !.run = "wait"]
<1>1. /\ plain \in SesType /\ plain.bound = Nothing /\ plain.closed = FALSE
      /\ plain.pc = "live" /\ plain.exp = FALSE /\ plain.run = "none"
  BY DEF NoSes, SesType, Nothing, Plugged
<1>2. /\ exports \in SesType /\ exports.bound = Nothing /\ exports.closed = FALSE
      /\ exports.pc = "live" /\ exports.exp = TRUE /\ exports.run = "wait"
  BY DEF NoSes, SesType, Nothing, Plugged
<1>3. CASE BeginRDP(s)
  <2>1. pcscd' => cmd'
    <3>1. pcscd => cmd
      BY <1>3 DEF IInv, PcscInv, BeginRDP, MayBegin
    <3>2. CASE pcscd /\ cmd
      BY <1>3, <3>2, Zenon DEF BeginRDP, StartPCSC
    <3>3. CASE ~pcscd
      <4>1. PICK ok \in BOOLEAN : pcscd' = (pcscd \/ ok) /\ cmd' = ok
        BY <1>3, <3>3, Zenon DEF BeginRDP, StartPCSC
      <4>2. CASE ok
        BY <4>1, <4>2
      <4>3. CASE ~ok
        BY <3>3, <4>1, <4>3
      <4> QED BY <4>2, <4>3
    <3> QED BY <3>1, <3>2, <3>3
  <2>2. /\ MayBegin(s) /\ ses' = [ses EXCEPT ![s] = plain] /\ latest' = s /\ ln' = ln
        /\ UNCHANGED <<dev, drv, claim, torn, kept, up, imp, rel>>
    BY <1>3 DEF BeginRDP, Set, kernel, faults
  <2> HIDE DEF plain
  <2> QED BY <1>1, <2>1, <2>2, BeginStep
<1>4. CASE BeginExport(s)
  <2>1. ~pcscd'
    <3>1. pcscd => cmd
      BY <1>4 DEF IInv, PcscInv, BeginExport, MayBegin
    <3> QED BY <1>4, <3>1, Zenon DEF BeginExport, StopPCSC
  <2>2. /\ MayBegin(s) /\ ses' = [ses EXCEPT ![s] = exports] /\ latest' = s /\ ln' = s
        /\ UNCHANGED <<dev, drv, claim, torn, kept, up, imp, rel>>
    BY <1>4 DEF BeginExport, Set, kernel, faults
  <2> HIDE DEF exports
  <2> QED BY <1>2, <2>1, <2>2, BeginStep
<1>5. CASE BeginBusy(s)
  <2>1. pcscd' => cmd'
    <3>1. pcscd => cmd
      BY <1>5 DEF IInv, PcscInv, BeginBusy, MayBegin
    <3>2. PICK ok \in BOOLEAN : pcscd' = ((pcscd /\ ~cmd) \/ ok) /\ cmd' = ok
      BY <1>5, Zenon DEF BeginBusy
    <3>3. CASE ok
      BY <3>2, <3>3
    <3>4. CASE ~ok
      BY <3>1, <3>2, <3>4
    <3> QED BY <3>3, <3>4
  <2>2. /\ MayBegin(s) /\ ses' = [ses EXCEPT ![s] = plain] /\ latest' = s /\ ln' = ln
        /\ UNCHANGED <<dev, drv, claim, torn, kept, up, imp, rel>>
    BY <1>5 DEF BeginBusy, Set, kernel, faults
  <2> HIDE DEF plain
  <2> QED BY <1>1, <2>1, <2>2, BeginStep
<1> QED BY <1>3, <1>4, <1>5

(* What SesInv says of one session.                                        *)
SesOne(t) ==
  /\ ses[t].pc = "none" => ses[t].exp = FALSE
  /\ ses[t].exp = FALSE => ses[t].run = "none" /\ ses[t].bound = Nothing
  /\ ses[t].closed = TRUE => ses[t].pc = "none" \/ ses[t].run = "releasing"
  /\ ses[t].run = "releasing" =>
       ses[t].closed = TRUE /\ \A p \in Ports : ses[t].bound[p] # "none" => p \in rel[t].todo

LEMMA SesOnes ==
  ASSUME IInv, NEW s \in Sessions, \A t \in Sessions : t # s => ses'[t] = ses[t] /\ rel'[t] = rel[t],
         SesOne(s)'
  PROVE  SesInv'
<1>1. ASSUME NEW t \in Sessions, t # s PROVE SesOne(t)'
  <2>1. SesOne(t)
    BY DEF IInv, SesInv, SesOne
  <2>2. ses'[t] = ses[t] /\ rel'[t] = rel[t]
    BY <1>1
  <2> QED BY <2>1, <2>2 DEF SesOne, Nothing
<1>2. \A t \in Sessions : SesOne(t)'
  BY <1>1
<1> QED BY <1>2 DEF SesInv, SesOne

(* The end of a connection, and the ticks, the stop and the end of run,    *)
(* bind and release nothing.                                               *)
LEMMA ConnStep ==
  ASSUME IInv, NEW s \in Sessions, NEW r \in SesType, ses' = [ses EXCEPT ![s] = r],
         UNCHANGED <<dev, drv, claim, torn, kept, up, imp, rel, latest, pcscd, cmd>>, ln' \in {0, ln},
         ses[s].pc # "none", r.bound = ses[s].bound, r.closed = ses[s].closed,
         \/ r.exp = ses[s].exp /\ (r.pc = "none" => r.exp = FALSE)
         \/ r.exp = FALSE /\ r.pc = "none" /\ r.bound = Nothing /\ rel[s].todo = {} /\ r.closed = TRUE
            /\ r.run = "none" /\ ses[s].run = "releasing",
         \/ r.run = ses[s].run
         \/ r.run = "none" /\ ses[s].run = "releasing" /\ r.exp = FALSE
         \/ r.run = "scanned" /\ ses[s].run = "wait" /\ r.exp = TRUE
         \/ r.run = "wait" /\ ses[s].run = "checking" /\ r.exp = TRUE
         \/ r.run = "closing" /\ ses[s].run = "wait" /\ ln' = 0 /\ r.exp = TRUE,
         r.closed = TRUE => r.run = "releasing" \/ r.pc = "none"
  PROVE  IInv'
<1>1. up
  BY Nothings DEF IInv, DownInv
<1>2. rel[0].todo = {} \/ r.exp = ses[s].exp
  BY DEF IInv, RelInv
<1>3. TypeInv' /\ KernelInv' /\ ClaimInv' /\ BoundInv' /\ RelInv'
  <2>1. latest' \in Sessions \cup {0} /\ ln' \in Sessions \cup {0}
    BY DEF IInv, TypeInv
  <2>2. r.exp = ses[s].exp \/ (rel[s].todo = {} /\ rel[0].todo = {})
    BY <1>2
  <2> QED BY <2>1, <2>2, SesStep
<1>4. ses'[s] = r /\ \A t \in Sessions : t # s => ses'[t] = ses[t]
  BY SesAfter DEF IInv
<1>5. SesInv'
  <2>1. SesOne(s)
    BY DEF IInv, SesInv, SesOne
  <2>2. /\ r.pc = "none" => r.exp = FALSE
        /\ r.exp = FALSE => r.run = "none" /\ r.bound = Nothing
    BY <2>1 DEF SesOne
  <2>3. r.run = "releasing" => ses[s].run = "releasing"
    OBVIOUS
  <2>4. SesOne(s)'
    BY <1>4, <2>1, <2>2, <2>3 DEF SesOne, Nothing
  <2> QED BY <1>4, <2>4, SesOnes
<1>6. ImpInv'
  BY <1>4 DEF IInv, ImpInv, SesInv
<1>7. LnInv'
  <2>1. ASSUME ln' = s, s # 0 PROVE ses[s].exp = TRUE /\ ses[s].run \in {"wait", "scanned", "checking"}
    BY <2>1 DEF IInv, LnInv
  <2>2. ASSUME ln' # 0 PROVE ses'[ln'].exp = TRUE /\ ses'[ln'].run \in {"wait", "scanned", "checking"}
    <3>1. CASE ln' = s
      BY <1>4, <2>1, <2>2, <3>1
    <3>2. CASE ln' # s
      BY <1>4, <2>2, <3>2 DEF IInv, TypeInv, LnInv
    <3> QED BY <3>1, <3>2
  <2> QED BY <2>2 DEF LnInv
<1>8. DownInv' /\ PcscInv'
  BY <1>1 DEF IInv, DownInv, PcscInv
<1>9. ReaderFree'
  BY <1>4 DEF IInv, TypeInv, ReaderFree
<1> QED BY <1>3, <1>5, <1>6, <1>7, <1>8, <1>9 DEF IInv

(* Hangup, SessionOver, End, Scan, StopServing and Released are such steps.*)
LEMMA ConnInv ==
  ASSUME IInv, NEW s \in Sessions,
         Hangup(s) \/ SessionOver(s) \/ End(s) \/ Scan(s) \/ StopServing(s) \/ Released(s)
  PROVE  IInv'
<1> DEFINE e == ses[s]
<1>1. e \in SesType /\ dev \in [Ports -> Plugged]
  BY DEF IInv, TypeInv
<1>2. SesOne(s)
  BY DEF IInv, SesInv, SesOne
<1>3. /\ e.exp = FALSE => e.run = "none" /\ e.bound = Nothing
      /\ e.pc = "none" => e.exp = FALSE
      /\ e.closed = TRUE => e.pc = "none" \/ e.run = "releasing"
  BY <1>2 DEF SesOne
<1>4. e.run # "none" => e.pc # "none" /\ e.exp = TRUE
  BY <1>1, <1>3 DEF SesType
<1>5. CASE Hangup(s) \/ SessionOver(s)
  <2>1. PICK c \in {"told", "end"} : ses' = [ses EXCEPT ![s] = [e EXCEPT !.pc = c]]
    BY <1>5 DEF Hangup, SessionOver, Set
  <2>2. /\ e.pc # "none" /\ ln' = ln
        /\ UNCHANGED <<dev, drv, claim, torn, kept, up, imp, rel, latest, pcscd, cmd>>
    BY <1>5 DEF Hangup, SessionOver, Conn, kernel, pcsc, faults
  <2> DEFINE r == [e EXCEPT !.pc = c]
  <2>3. /\ r \in SesType /\ r.bound = e.bound /\ r.exp = e.exp /\ r.closed = e.closed
        /\ r.run = e.run /\ r.pc = c
    BY <1>1 DEF SesType
  <2>4. ses' = [ses EXCEPT ![s] = r]
    BY <2>1
  <2> HIDE DEF r
  <2> QED BY <1>3, <2>2, <2>3, <2>4, ConnStep
<1>6. CASE End(s)
  <2>1. /\ e.pc = "end" /\ ln' = ln
        /\ UNCHANGED <<dev, drv, claim, torn, kept, up, imp, rel, latest, pcscd, cmd>>
    BY <1>6 DEF End, Conn, kernel, pcsc, faults
  <2>2. CASE e.exp = TRUE
    <3> DEFINE r == [e EXCEPT !.stop = TRUE]
    <3>1. /\ r \in SesType /\ r.bound = e.bound /\ r.exp = e.exp /\ r.closed = e.closed
          /\ r.run = e.run /\ r.pc = e.pc
      BY <1>1 DEF SesType
    <3>2. ses' = [ses EXCEPT ![s] = r]
      BY <1>6, <2>2 DEF End, Set
    <3> HIDE DEF r
    <3> QED BY <1>3, <2>1, <3>1, <3>2, ConnStep
  <2>3. CASE e.exp = FALSE
    <3>1. ses' = [ses EXCEPT ![s] = NoSes]
      BY <1>6, <2>3 DEF End, Set
    <3>2. e.run = "none" /\ e.bound = Nothing /\ e.closed = FALSE
      BY <1>1, <1>3, <2>1, <2>3 DEF SesType
    <3> QED BY <2>1, <2>3, <3>1, <3>2, Nothings, ConnStep
  <2> QED BY <1>1, <2>2, <2>3 DEF SesType
<1>7. CASE Scan(s)
  <2> DEFINE r == [e EXCEPT !.run = "scanned", !.seen = dev]
  <2>1. /\ r \in SesType /\ r.bound = e.bound /\ r.exp = e.exp /\ r.closed = e.closed
        /\ r.run = "scanned" /\ r.pc = e.pc
    BY <1>1 DEF SesType
  <2>2. /\ ses' = [ses EXCEPT ![s] = r] /\ e.run = "wait" /\ ln' = ln
        /\ UNCHANGED <<dev, drv, claim, torn, kept, up, imp, rel, latest, pcscd, cmd>>
    BY <1>7 DEF Scan, Set, Export, kernel, pcsc, faults
  <2> HIDE DEF r
  <2>3. e.pc # "none" /\ e.exp = TRUE /\ e.closed # TRUE
    BY <1>3, <1>4, <2>2
  <2> QED BY <2>1, <2>2, <2>3, ConnStep
<1>8. CASE StopServing(s)
  <2> DEFINE r == [e EXCEPT !.run = "closing"]
  <2>1. /\ r \in SesType /\ r.bound = e.bound /\ r.exp = e.exp /\ r.closed = e.closed
        /\ r.run = "closing" /\ r.pc = e.pc
    BY <1>1 DEF SesType
  <2>2. /\ ses' = [ses EXCEPT ![s] = r] /\ e.run = "wait" /\ ln' = 0
        /\ UNCHANGED <<dev, drv, claim, torn, kept, up, imp, rel, latest, pcscd, cmd>>
    BY <1>8 DEF StopServing, Set, Export, kernel, pcsc, faults
  <2> HIDE DEF r
  <2>3. e.pc # "none" /\ e.exp = TRUE /\ e.closed # TRUE
    BY <1>3, <1>4, <2>2
  <2> QED BY <2>1, <2>2, <2>3, ConnStep
<1>9. CASE Released(s)
  <2>1. /\ rel[s].todo = {} /\ ln' = ln
        /\ UNCHANGED <<dev, drv, claim, torn, kept, up, imp, rel, latest, pcscd, cmd>>
    BY <1>9 DEF Released, Idle, Export, kernel, pcsc, faults
  <2>2. CASE e.run = "checking" /\ Set(s, [e EXCEPT !.run = "wait"])
    <3> DEFINE r == [e EXCEPT !.run = "wait"]
    <3>1. /\ r \in SesType /\ r.bound = e.bound /\ r.exp = e.exp /\ r.closed = e.closed
          /\ r.run = "wait" /\ r.pc = e.pc
      BY <1>1 DEF SesType
    <3>2. ses' = [ses EXCEPT ![s] = r]
      BY <2>2 DEF Set
    <3> HIDE DEF r
    <3>3. e.pc # "none" /\ e.exp = TRUE /\ e.closed # TRUE
      BY <1>3, <1>4, <2>2
    <3> QED BY <2>1, <2>2, <3>1, <3>2, <3>3, ConnStep
  <2>3. CASE e.run = "releasing" /\ Set(s, [NoSes EXCEPT !.closed = TRUE])
    <3> DEFINE r == [NoSes EXCEPT !.closed = TRUE]
    <3>1. /\ r \in SesType /\ r.bound = Nothing /\ r.exp = FALSE /\ r.closed = TRUE
          /\ r.run = "none" /\ r.pc = "none"
      BY DEF SesType, NoSes, Nothing, Plugged
    <3>2. ses' = [ses EXCEPT ![s] = r]
      BY <2>3 DEF Set
    <3>3. e.closed = TRUE /\ \A p \in Ports : e.bound[p] = "none"
      BY <1>2, <2>1, <2>3 DEF SesOne
    <3>4. e.bound = Nothing
      BY <1>1, <3>3 DEF SesType, Nothing
    <3> HIDE DEF r
    <3> QED BY <1>4, <2>1, <2>3, <3>1, <3>2, <3>3, <3>4, ConnStep
  <2> QED BY <1>9, <2>2, <2>3 DEF Released
<1> QED BY <1>5, <1>6, <1>7, <1>8, <1>9
-----------------------------------------------------------------------------
(* Check or Close takes e.mu, and has ports it has bound to be released.   *)
LEMMA TakeUp ==
  ASSUME IInv, NEW s \in Sessions, NEW r \in SesType, ses' = [ses EXCEPT ![s] = r],
         NEW ports \in SUBSET Ports, \A p \in ports : ses[s].bound[p] # "none",
         ~Locked(s), Gives(s, ports),
         UNCHANGED <<dev, drv, claim, torn, kept, up, imp, latest, ln>>,
         r.bound = ses[s].bound, r.exp = TRUE, ses[s].exp = TRUE
  PROVE  /\ TypeInv' /\ KernelInv' /\ ClaimInv' /\ BoundInv' /\ RelInv'
         /\ rel'[s].todo = ports /\ \A t \in Sessions : t # s => rel'[t] = rel[t]
         /\ imp.of = s => imp.pc \notin {"unbound", "matched"}
<1> DEFINE g == [NoRel EXCEPT !.todo = ports]
<1>1. /\ g \in RelType /\ g.todo = ports /\ g.next = "unbind"
  BY DEF NoRel, RelType
<1>2. rel[s].todo = {} /\ (imp.of = s => imp.pc \notin {"unbound", "matched"})
  BY DEF Locked, Idle
<1>3. rel[s].next = "unbind"
  BY <1>2, OwnersAre DEF IInv, RelInv, TypeInv, RelType
<1>4. rel' = [rel EXCEPT ![s] = g]
  BY DEF Gives
<1> HIDE DEF g
<1>5. rel'[s] = g /\ \A o \in Owners : o # s => rel'[o] = rel[o]
  BY <1>4, OwnersAre DEF IInv, TypeInv
<1>6. ses'[s] = r /\ \A t \in Sessions : t # s => ses'[t] = ses[t]
  BY SesAfter DEF IInv
<1>7. TypeInv'
  BY <1>1, <1>4, OwnersAre DEF IInv, TypeInv
<1>8. \A o \in Owners, p \in Ports : Past(o, p)' <=> Past(o, p)
  BY <1>1, <1>3, <1>5 DEF Past
<1>9. \A p : (Binding(p)' <=> Binding(p)) /\ (Between(p)' <=> Between(p))
  <2>1. \A o \in Owners : \A p : (rel'[o].next = "del" /\ rel'[o].cur = p) <=> (rel[o].next = "del" /\ rel[o].cur = p)
    BY <1>1, <1>3, <1>5
  <2> QED BY <2>1 DEF Binding, Between
<1>10. \A t \in Sessions, p \in Ports : Own(t, p)' <=> Own(t, p)
  <2> SUFFICES ASSUME NEW t \in Sessions, NEW p \in Ports PROVE Own(t, p)' <=> Own(t, p)
    OBVIOUS
  <2>1. CASE t = s
    BY <1>1, <1>2, <1>5, <1>6, <2>1 DEF Own
  <2>2. CASE t # s
    BY <1>5, <1>6, <2>2, OwnersAre DEF Own
  <2> QED BY <2>1, <2>2
<1>11. \A t \in Sessions, p \in Ports : Holds(t, p)' <=> Holds(t, p)
  BY <1>8, <1>10, OwnersAre DEF Holds
<1>12. rel'[0] = rel[0]
  BY <1>5, OwnersAre
<1>13. KernelInv'
  <2>1. \A p \in Ports : (\E o \in Owners : p \in rel[o].todo) => (\E o \in Owners : p \in rel'[o].todo)
    BY <1>2, <1>5
  <2> QED BY <1>9, <2>1 DEF IInv, KernelInv, Loose
<1>14. ClaimInv'
  BY <1>8, <1>11, <1>12, OwnersAre DEF IInv, TypeInv, ClaimInv
<1>15. BoundInv'
  <2>1. \A t \in Sessions : ses'[t].bound = ses[t].bound
    BY <1>6
  <2> QED BY <1>9, <1>11, <2>1 DEF IInv, BoundInv
<1>16. RelInv'
  <2>1. \A o \in Owners : rel'[o].next # "unbind" => rel'[o].cur \in rel'[o].todo
    BY <1>1, <1>5 DEF IInv, RelInv
  <2>2. \A t \in Sessions : rel'[t].todo # {} => ses'[t].exp = TRUE
    BY <1>5, <1>6, OwnersAre DEF IInv, RelInv
  <2>3. ASSUME NEW t \in Sessions, NEW p \in rel'[t].todo PROVE Own(t, p)'
    <3>1. CASE t = s
      BY <1>1, <1>5, <1>6, <2>3, <3>1 DEF Own
    <3>2. CASE t # s
      <4>1. p \in rel[t].todo /\ p \in Ports
        BY <1>5, <2>3, <3>2, OwnersAre DEF IInv, TypeInv, RelType
      <4> QED BY <1>10, <4>1 DEF IInv, RelInv
    <3> QED BY <3>1, <3>2
  <2>4. \A p \in rel'[0].todo : p \in claim' \/ Past(0, p)'
    BY <1>8, <1>12, OwnersAre DEF IInv, TypeInv, RelInv, RelType
  <2>5. rel'[0].todo # {} => imp'.pc = "none" /\ \A t \in Sessions : ses'[t].exp = FALSE
    BY <1>12 DEF IInv, RelInv
  <2> QED BY <2>1, <2>2, <2>3, <2>4, <2>5 DEF RelInv
<1> QED BY <1>1, <1>2, <1>5, <1>7, <1>13, <1>14, <1>15, <1>16, OwnersAre

(* Check has released what is no longer what was bound, and Close all.     *)
LEMMA CheckCloseInv == ASSUME IInv, NEW s \in Sessions, Check(s) \/ Close(s) PROVE IInv'
<1> DEFINE e == ses[s]
<1>1. e \in SesType
  BY DEF IInv, TypeInv
<1>2. SesOne(s)
  BY DEF IInv, SesInv, SesOne
<1>3. /\ ~Locked(s) /\ e.run \in {"scanned", "closing"}
      /\ UNCHANGED <<dev, drv, claim, torn, kept, up, imp, latest, ln, pcscd, cmd>>
  BY DEF Check, Close, Export, kernel, pcsc, faults
<1>4. e.exp = TRUE /\ e.pc # "none" /\ e.closed # TRUE /\ up
  <2>1. e.exp = TRUE
    BY <1>1, <1>2, <1>3 DEF SesOne, SesType
  <2>2. e.pc # "none"
    BY <1>2, <2>1 DEF SesOne
  <2>3. up
    BY <2>2, Nothings DEF IInv, DownInv
  <2> QED BY <1>2, <1>3, <2>1, <2>2, <2>3 DEF SesOne
<1>5. PICK ports \in SUBSET Ports, r \in SesType :
        /\ \A p \in ports : e.bound[p] # "none"
        /\ Gives(s, ports) /\ ses' = [ses EXCEPT ![s] = r]
        /\ r.bound = e.bound /\ r.exp = e.exp /\ r.pc = e.pc
        /\ \/ r.run = "checking" /\ r.closed = e.closed /\ e.run = "scanned"
           \/ /\ r.run = "releasing" /\ r.closed = TRUE /\ e.run = "closing"
              /\ \A p \in Ports : e.bound[p] # "none" => p \in ports
  <2>1. CASE Check(s)
    <3> DEFINE r == [e EXCEPT !.run = "checking", !.seen = Nothing]
               ports == {p \in Ports : e.bound[p] # "none" /\ e.seen[p] # e.bound[p]}
    <3>1. /\ r \in SesType /\ r.bound = e.bound /\ r.exp = e.exp /\ r.closed = e.closed
          /\ r.run = "checking" /\ r.pc = e.pc
      BY <1>1, Nothings DEF SesType
    <3>2. Gives(s, ports) /\ ses' = [ses EXCEPT ![s] = r] /\ e.run = "scanned"
      BY <2>1 DEF Check, Set
    <3>3. ports \in SUBSET Ports /\ \A p \in ports : e.bound[p] # "none"
      OBVIOUS
    <3> HIDE DEF r, ports
    <3> QED BY <3>1, <3>2, <3>3
  <2>2. CASE Close(s)
    <3> DEFINE r == [e EXCEPT !.run = "releasing", !.closed = TRUE]
               ports == {p \in Ports : e.bound[p] # "none"}
    <3>1. /\ r \in SesType /\ r.bound = e.bound /\ r.exp = e.exp /\ r.closed = TRUE
          /\ r.run = "releasing" /\ r.pc = e.pc
      BY <1>1 DEF SesType
    <3>2. Gives(s, ports) /\ ses' = [ses EXCEPT ![s] = r] /\ e.run = "closing"
      BY <2>2 DEF Close, Set
    <3>3. /\ ports \in SUBSET Ports /\ \A p \in ports : e.bound[p] # "none"
          /\ \A p \in Ports : e.bound[p] # "none" => p \in ports
      OBVIOUS
    <3> HIDE DEF r, ports
    <3> QED BY <3>1, <3>2, <3>3
  <2> QED BY <2>1, <2>2
<1>6. /\ TypeInv' /\ KernelInv' /\ ClaimInv' /\ BoundInv' /\ RelInv'
      /\ rel'[s].todo = ports /\ \A t \in Sessions : t # s => rel'[t] = rel[t]
      /\ imp.of = s => imp.pc \notin {"unbound", "matched"}
  BY <1>3, <1>4, <1>5, TakeUp
<1>7. ses'[s] = r /\ \A t \in Sessions : t # s => ses'[t] = ses[t]
  BY <1>5, SesAfter DEF IInv
<1>8. SesInv'
  <2>1. SesOne(s)'
    BY <1>4, <1>5, <1>6, <1>7 DEF SesOne, Nothing
  <2> QED BY <1>6, <1>7, <2>1, SesOnes
<1>9. ImpInv'
  <2> SUFFICES ASSUME imp.pc # "none"
               PROVE  /\ imp.of \in Sessions /\ imp.port \in Ports /\ imp.d # "none"
                      /\ imp.pc = "offered" => ses'[imp.of].exp = TRUE \/ ses'[imp.of].closed = TRUE
                      /\ imp.pc \in {"unbound", "matched"} =>
                           /\ ses'[imp.of].exp = TRUE /\ ses'[imp.of].run # "releasing"
                           /\ rel'[imp.of].todo = {}
                      /\ imp.pc = "matched" => imp.port \in claim
    BY <1>3 DEF ImpInv
  <2>1. CASE imp.of = s
    BY <1>4, <1>5, <1>6, <1>7, <2>1 DEF IInv, ImpInv
  <2>2. CASE imp.of # s
    BY <1>6, <1>7, <2>2 DEF IInv, ImpInv
  <2> QED BY <2>1, <2>2
<1>10. LnInv'
  <2>1. e.run = "closing" => ln # s
    BY OwnersAre DEF IInv, LnInv
  <2> QED BY <1>3, <1>4, <1>5, <1>7, <2>1 DEF IInv, TypeInv, LnInv
<1>11. DownInv' /\ PcscInv'
  BY <1>3, <1>4 DEF IInv, DownInv, PcscInv
<1>12. ReaderFree'
  BY <1>3, <1>4, <1>5, <1>7 DEF IInv, TypeInv, ReaderFree
<1> QED BY <1>6, <1>8, <1>9, <1>10, <1>11, <1>12 DEF IInv
-----------------------------------------------------------------------------
(* A release under way is a live process's, of a port its owner has.       *)
LEMMA Releasing ==
  ASSUME IInv, NEW o \in Owners, NEW p \in rel[o].todo
  PROVE  /\ p \in Ports /\ up
         /\ \/ /\ o \in Sessions /\ ses[o].exp = TRUE /\ Own(o, p) /\ rel[0].todo = {}
               /\ imp.of = o => imp.pc \notin {"unbound", "matched"}
            \/ /\ o = 0 /\ imp.pc = "none" /\ (\A s \in Sessions : ses[s].exp = FALSE)
               /\ \A s \in Sessions, q \in Ports : ~Own(s, q)
<1>1. p \in Ports
  BY DEF IInv, TypeInv, RelType
<1>2. up
  BY Nothings DEF IInv, DownInv
<1>3. CASE o \in Sessions
  BY <1>1, <1>2, <1>3 DEF IInv, RelInv, ImpInv
<1>4. CASE o = 0
  <2>1. imp.pc = "none" /\ \A s \in Sessions : ses[s].exp = FALSE
    BY <1>4 DEF IInv, RelInv
  <2>2. \A s \in Sessions, q \in Ports : ~Own(s, q)
    BY <2>1, Nothings DEF IInv, SesInv, Own
  <2> QED BY <1>1, <1>2, <1>4, <2>1, <2>2
<1> QED BY <1>3, <1>4, OwnersAre

(* Unbind: the device is nobody's, or the write failed.                    *)
LEMMA UnbindInv == ASSUME IInv, NEW o \in Owners, Unbind(o) PROVE IInv'
<1>1. PICK p \in rel[o].todo :
        /\ rel' = [rel EXCEPT ![o] = [rel[o] EXCEPT !.cur = p, !.next = "del"]]
        /\ \/ drv[p] # "usbip-host" /\ UNCHANGED <<drv, torn>>
           \/ drv' = [drv EXCEPT ![p] = "none"] /\ torn' = torn
           \/ torn' = torn \cup {p} /\ drv' = drv
  <2>1. PICK p \in rel[o].todo, ok \in BOOLEAN :
          /\ rel' = [rel EXCEPT ![o] = [rel[o] EXCEPT !.cur = p, !.next = "del"]]
          /\ IF drv[p] # "usbip-host" THEN UNCHANGED <<drv, torn>>
             ELSE IF ok THEN drv' = [drv EXCEPT ![p] = "none"] /\ UNCHANGED torn
             ELSE torn' = torn \cup {p} /\ UNCHANGED drv
    BY DEF Unbind
  <2> QED BY <2>1
<1>2. /\ rel[o].next = "unbind"
      /\ UNCHANGED <<dev, claim, up, ses, latest, ln, imp, pcscd, cmd, kept>>
  BY DEF Unbind, pcsc
<1>3. p \in Ports /\ up
  BY Releasing
<1>4. /\ rel'[o].todo = rel[o].todo /\ rel'[o].next = "del" /\ rel'[o].cur = p
      /\ rel'[o] \in RelType
      /\ \A u \in Owners : u # o => rel'[u] = rel[u]
  BY <1>1, <1>3 DEF IInv, TypeInv, RelType
<1>5. \A u \in Owners : rel'[u].todo = rel[u].todo
  BY <1>4
<1>6. /\ \A u \in Owners, q \in Ports : Past(u, q)' <=> Past(u, q)
      /\ \A q : Binding(q)' <=> Binding(q)
      /\ \A q \in Ports : q # p => (Between(q)' <=> Between(q))
  <2>1. \A u \in Owners, q \in Ports : Past(u, q)' <=> Past(u, q)
    BY <1>2, <1>4 DEF Past
  <2>2. \A q \in Ports : q # p => (Between(q)' <=> Between(q))
    BY <1>2, <1>4 DEF Between
  <2> QED BY <1>2, <2>1, <2>2 DEF Binding
<1>7. \A s \in Sessions, q \in Ports : (Own(s, q)' <=> Own(s, q)) /\ (Holds(s, q)' <=> Holds(s, q))
  <2>1. \A s \in Sessions, q \in Ports : Own(s, q)' <=> Own(s, q)
    BY <1>2, <1>5, OwnersAre DEF Own
  <2> QED BY <1>6, <2>1, OwnersAre DEF Holds
<1>8. TypeInv'
  <2>1. rel' \in [Owners -> RelType]
    BY <1>1, <1>3 DEF IInv, TypeInv, RelType
  <2>2. drv' \in [Ports -> {"usb", "usbip-host", "none"}] /\ torn' \subseteq Ports
    BY <1>1, <1>3 DEF IInv, TypeInv
  <2> QED BY <1>2, <2>1, <2>2 DEF IInv, TypeInv
<1>9. /\ \A q \in Ports : q # p => drv'[q] = drv[q] /\ (q \in torn' <=> q \in torn)
      /\ \/ drv'[p] = drv[p] /\ drv[p] # "usbip-host" /\ torn' = torn
         \/ drv'[p] = "none" /\ torn' = torn
         \/ drv'[p] = drv[p] /\ p \in torn'
  BY <1>1, <1>3 DEF IInv, TypeInv
<1>10. KernelInv'
  <2> SUFFICES ASSUME NEW q \in Ports
               PROVE  /\ dev'[q] = "none" => drv'[q] = "none"
                      /\ drv'[q] = "usbip-host" => q \in claim' \/ q \in torn'
                      /\ drv'[q] = "usbip-host" /\ Between(q)' => q \in torn'
                      /\ Loose(q)' => \/ q \in torn' \/ Binding(q)' \/ (~up' /\ q \in claim')
                                      \/ \E u \in Owners : q \in rel'[u].todo
    BY DEF KernelInv
  <2>1. CASE q = p
    BY <1>2, <1>5, <1>9, <2>1 DEF IInv, KernelInv, Loose
  <2>2. CASE q # p
    BY <1>2, <1>5, <1>6, <1>9, <2>2 DEF IInv, KernelInv, Loose
  <2> QED BY <2>1, <2>2
<1>11. ClaimInv'
  BY <1>2, <1>5, <1>6, <1>7, OwnersAre DEF IInv, TypeInv, ClaimInv
<1>12. BoundInv'
  <2>1. \A q \in Ports : drv[q] # "usb" => drv'[q] # "usb"
    BY <1>9
  <2> QED BY <1>2, <1>6, <1>7, <2>1 DEF IInv, BoundInv
<1>13. RelInv'
  <2>1. \A u \in Owners : rel'[u].next # "unbind" => rel'[u].cur \in rel'[u].todo
    BY <1>4, <1>5 DEF IInv, RelInv
  <2>2. \A s \in Sessions : rel'[s].todo # {} => ses'[s].exp = TRUE
    BY <1>2, <1>5, OwnersAre DEF IInv, RelInv
  <2>3. \A s \in Sessions : \A q \in rel'[s].todo : Own(s, q)'
    BY <1>5, <1>7, OwnersAre DEF IInv, TypeInv, RelInv, RelType
  <2>4. \A q \in rel'[0].todo : q \in claim' \/ Past(0, q)'
    BY <1>2, <1>5, <1>6, OwnersAre DEF IInv, TypeInv, RelInv, RelType
  <2>5. rel'[0].todo # {} => imp'.pc = "none" /\ \A s \in Sessions : ses'[s].exp = FALSE
    BY <1>2, <1>5, OwnersAre DEF IInv, RelInv
  <2> QED BY <2>1, <2>2, <2>3, <2>4, <2>5 DEF RelInv
<1>14. SesInv' /\ ImpInv'
  BY <1>2, <1>5, OwnersAre DEF IInv, SesInv, ImpInv
<1>15. LnInv' /\ DownInv' /\ PcscInv' /\ ReaderFree'
  BY <1>2, <1>3 DEF IInv, LnInv, DownInv, PcscInv, ReaderFree
<1> QED BY <1>8, <1>10, <1>11, <1>12, <1>13, <1>14, <1>15 DEF IInv

(* DelMatch: its owner held the port alone, and does no more.              *)
LEMMA DelMatchInv == ASSUME IInv, NEW o \in Owners, DelMatch(o) PROVE IInv'
<1>0. rel[o].cur \in rel[o].todo
  BY DEF DelMatch, IInv, RelInv
<1> PICK p \in rel[o].todo : p = rel[o].cur
  BY <1>0
<1>1. /\ rel[o].next = "del"
      /\ rel' = [rel EXCEPT ![o] = [rel[o] EXCEPT !.next = "rebind"]]
      /\ \/ claim' = claim \ {p} /\ kept' = kept \ {p}
         \/ claim' = claim /\ kept' = kept \cup {p} /\ p \in claim
      /\ UNCHANGED <<dev, drv, up, ses, latest, ln, imp, pcscd, cmd, torn>>
  BY DEF DelMatch, pcsc
<1>2. p \in rel[o].todo
  OBVIOUS
<1>3. /\ p \in Ports /\ up
      /\ \/ /\ o \in Sessions /\ ses[o].exp = TRUE /\ Own(o, p) /\ rel[0].todo = {}
            /\ imp.of = o => imp.pc \notin {"unbound", "matched"}
         \/ /\ o = 0 /\ imp.pc = "none" /\ (\A s \in Sessions : ses[s].exp = FALSE)
            /\ \A s \in Sessions, q \in Ports : ~Own(s, q)
  BY <1>2, Releasing
<1>4. /\ rel'[o].todo = rel[o].todo /\ rel'[o].next = "rebind" /\ rel'[o].cur = p
      /\ rel'[o] \in RelType
      /\ \A u \in Owners : u # o => rel'[u] = rel[u]
  BY <1>1 DEF IInv, TypeInv, RelType
<1>5. \A u \in Owners : rel'[u].todo = rel[u].todo
  BY <1>4
<1>6. /\ \A u \in Owners, q \in Ports : Past(u, q)' <=> Past(u, q) \/ (u = o /\ q = p)
      /\ \A q : Binding(q)' <=> Binding(q)
      /\ \A q \in Ports : Between(q)' => Between(q)
      /\ ~Past(o, p) /\ Between(p)
  <2>1. \A u \in Owners, q \in Ports : Past(u, q)' <=> Past(u, q) \/ (u = o /\ q = p)
    BY <1>1, <1>4 DEF Past
  <2>2. (\A q \in Ports : Between(q)' => Between(q)) /\ Between(p)
    BY <1>1, <1>4 DEF Between
  <2> QED BY <1>1, <2>1, <2>2 DEF Binding, Past
<1>7. \A s \in Sessions, q \in Ports :
        (Own(s, q)' <=> Own(s, q)) /\ (Holds(s, q)' <=> Holds(s, q) /\ ~(s = o /\ q = p))
  <2>1. \A s \in Sessions, q \in Ports : Own(s, q)' <=> Own(s, q)
    BY <1>1, <1>5, OwnersAre DEF Own
  <2> QED BY <1>6, <2>1, OwnersAre DEF Holds
<1>8. \A s \in Sessions : ~Holds(s, p)'
  <2>1. CASE o \in Sessions
    <3>1. Holds(o, p)
      BY <1>3, <1>6, <2>1, OwnersAre DEF Holds
    <3>2. \A s \in Sessions : Holds(s, p) => s = o
      BY <1>3, <2>1, <3>1 DEF IInv, BoundInv
    <3> QED BY <1>3, <1>7, <3>2
  <2>2. CASE o = 0
    BY <1>3, <1>7, <2>2, OwnersAre DEF Holds
  <2> QED BY <1>3, <2>1, <2>2
<1>9. ~Binding(p)
  <2>1. CASE o \in Sessions
    <3>1. Holds(o, p)
      BY <1>3, <1>6, <2>1, OwnersAre DEF Holds
    <3> QED BY <1>3, <2>1, <3>1 DEF IInv, BoundInv
  <2>2. CASE imp.pc = "none"
    BY <2>2 DEF Binding
  <2> QED BY <1>3, <2>1, <2>2
<1>10. \A q : q # p => (q \in claim' <=> q \in claim) /\ (q \in kept' <=> q \in kept)
  BY <1>1
<1>11. TypeInv'
  <2>1. rel' \in [Owners -> RelType]
    BY <1>1 DEF IInv, TypeInv, RelType
  <2>2. claim' \subseteq Ports /\ kept' \subseteq Ports
    BY <1>1, <1>3 DEF IInv, TypeInv
  <2> QED BY <1>1, <2>1, <2>2 DEF IInv, TypeInv
<1>12. KernelInv'
  <2> SUFFICES ASSUME NEW q \in Ports
               PROVE  /\ dev'[q] = "none" => drv'[q] = "none"
                      /\ drv'[q] = "usbip-host" => q \in claim' \/ q \in torn'
                      /\ drv'[q] = "usbip-host" /\ Between(q)' => q \in torn'
                      /\ Loose(q)' => \/ q \in torn' \/ Binding(q)' \/ (~up' /\ q \in claim')
                                      \/ \E u \in Owners : q \in rel'[u].todo
    BY DEF KernelInv
  <2>1. CASE q = p
    BY <1>1, <1>2, <1>5, <1>6, <2>1 DEF IInv, KernelInv, Loose
  <2>2. CASE q # p
    BY <1>1, <1>5, <1>6, <1>10, <2>2 DEF IInv, KernelInv, Loose
  <2> QED BY <2>1, <2>2
<1>13. ClaimInv'
  <2> SUFFICES ASSUME NEW q \in claim'
               PROVE  \/ q \in kept'
                      \/ \E s \in Sessions : Holds(s, q)'
                      \/ imp'.pc = "matched" /\ imp'.port = q
                      \/ q \in rel'[0].todo /\ ~Past(0, q)'
    BY DEF ClaimInv
  <2>1. q \in claim /\ q \in Ports /\ (q = p => q \in kept')
    BY <1>1 DEF IInv, TypeInv
  <2>2. CASE q # p
    <3>1. \/ q \in kept \/ (\E s \in Sessions : Holds(s, q))
          \/ imp.pc = "matched" /\ imp.port = q
          \/ q \in rel[0].todo /\ ~Past(0, q)
      BY <1>3, <2>1 DEF IInv, ClaimInv
    <3> QED BY <1>1, <1>5, <1>6, <1>7, <1>10, <2>1, <2>2, <3>1, OwnersAre
  <2> QED BY <2>1, <2>2
<1>14. BoundInv'
  <2> SUFFICES ASSUME NEW s \in Sessions, NEW q \in Ports, Holds(s, q)'
               PROVE  /\ q \in claim' /\ ~Binding(q)'
                      /\ ses'[s].bound[q] # "none" => drv'[q] # "usb"
                      /\ \A t \in Sessions : Holds(t, q)' => t = s
    BY DEF BoundInv
  <2>1. q # p /\ Holds(s, q)
    BY <1>7, <1>8
  <2> QED BY <1>1, <1>6, <1>7, <1>10, <2>1 DEF IInv, BoundInv
<1>15. RelInv'
  <2>1. \A u \in Owners : rel'[u].next # "unbind" => rel'[u].cur \in rel'[u].todo
    BY <1>2, <1>4, <1>5 DEF IInv, RelInv
  <2>2. \A s \in Sessions : rel'[s].todo # {} => ses'[s].exp = TRUE
    BY <1>1, <1>5, OwnersAre DEF IInv, RelInv
  <2>3. \A s \in Sessions : \A q \in rel'[s].todo : Own(s, q)'
    BY <1>5, <1>7, OwnersAre DEF IInv, TypeInv, RelInv, RelType
  <2>4. ASSUME NEW q \in rel'[0].todo PROVE q \in claim' \/ Past(0, q)'
    <3>1. q \in rel[0].todo /\ o = 0 /\ q \in Ports
      BY <1>3, <1>5, <2>4, OwnersAre DEF IInv, TypeInv, RelType
    <3>2. q \in claim \/ Past(0, q)
      BY <3>1 DEF IInv, RelInv
    <3> QED BY <1>6, <1>10, <3>1, <3>2, OwnersAre
  <2>5. rel'[0].todo # {} => imp'.pc = "none" /\ \A s \in Sessions : ses'[s].exp = FALSE
    BY <1>1, <1>5, OwnersAre DEF IInv, RelInv
  <2> QED BY <2>1, <2>2, <2>3, <2>4, <2>5 DEF RelInv
<1>16. SesInv'
  BY <1>1, <1>5, OwnersAre DEF IInv, SesInv
<1>17. ImpInv'
  <2>1. imp.pc = "matched" => imp.port # p
    BY <1>9 DEF Binding
  <2> QED BY <1>1, <1>5, <1>10, <2>1, OwnersAre DEF IInv, ImpInv
<1>18. LnInv' /\ DownInv' /\ PcscInv' /\ ReaderFree'
  BY <1>1, <1>3 DEF IInv, LnInv, DownInv, PcscInv, ReaderFree
<1> QED BY <1>11, <1>12, <1>13, <1>14, <1>15, <1>16, <1>17, <1>18 DEF IInv

(* Rebind: nobody loses a claim by it, and the port is its owner's no more.*)
LEMMA RebindInv == ASSUME IInv, NEW o \in Owners, Rebind(o) PROVE IInv'
<1> DEFINE p == rel[o].cur
           g == [NoRel EXCEPT !.todo = rel[o].todo \ {p}]
<1>1. /\ rel[o].next = "rebind" /\ rel' = [rel EXCEPT ![o] = g]
      /\ \/ /\ Loose(p)
            /\ drv' = [drv EXCEPT ![p] = IF p \in claim THEN "usbip-host" ELSE "usb"]
            /\ torn' = IF Between(p) THEN torn \cup {p} ELSE torn \ {p}
         \/ torn' = (IF Loose(p) THEN torn \cup {p} ELSE torn) /\ drv' = drv
      /\ ses' = [s \in Sessions |-> IF s = o THEN [ses[s] EXCEPT !.bound[p] = "none"] ELSE ses[s]]
      /\ UNCHANGED <<dev, claim, up, latest, ln, imp, pcscd, cmd, kept>>
  BY DEF Rebind, Gives, pcsc
<1>2. p \in rel[o].todo
  BY <1>1 DEF IInv, RelInv
<1>3. /\ p \in Ports /\ up
      /\ \/ /\ o \in Sessions /\ ses[o].exp = TRUE /\ Own(o, p) /\ rel[0].todo = {}
            /\ imp.of = o => imp.pc \notin {"unbound", "matched"}
         \/ /\ o = 0 /\ imp.pc = "none" /\ (\A s \in Sessions : ses[s].exp = FALSE)
            /\ \A s \in Sessions, q \in Ports : ~Own(s, q)
  BY <1>2, Releasing
<1>4. /\ g \in RelType /\ g.todo = rel[o].todo \ {p} /\ g.next = "unbind"
  BY DEF NoRel, RelType, IInv, TypeInv
<1> HIDE DEF g
<1>5. rel'[o] = g /\ \A u \in Owners : u # o => rel'[u] = rel[u]
  BY <1>1 DEF IInv, TypeInv
<1>6. /\ \A s \in Sessions : s # o => ses'[s] = ses[s]
      /\ \A s \in Sessions : /\ ses'[s] \in SesType
                             /\ ses'[s].exp = ses[s].exp /\ ses'[s].run = ses[s].run
                             /\ ses'[s].pc = ses[s].pc /\ ses'[s].closed = ses[s].closed
      /\ \A s \in Sessions, q \in Ports :
            ses'[s].bound[q] = IF s = o /\ q = p THEN "none" ELSE ses[s].bound[q]
  <2>1. ses \in [Sessions -> SesType] /\ "none" \in Plugged
    BY DEF IInv, TypeInv, Plugged
  <2>2. \A s \in Sessions : ses'[s] = IF s = o THEN [ses[s] EXCEPT !.bound[p] = "none"] ELSE ses[s]
    BY <1>1
  <2>3. ASSUME NEW s \in Sessions
        PROVE  /\ s # o => ses'[s] = ses[s]
               /\ ses'[s] \in SesType
               /\ ses'[s].exp = ses[s].exp /\ ses'[s].run = ses[s].run
               /\ ses'[s].pc = ses[s].pc /\ ses'[s].closed = ses[s].closed
               /\ \A q \in Ports : ses'[s].bound[q] = IF s = o /\ q = p THEN "none" ELSE ses[s].bound[q]
    <3>1. CASE s # o
      BY <2>1, <2>2, <3>1
    <3>2. CASE s = o
      <4>1. ses'[s] = [ses[s] EXCEPT !.bound[p] = "none"] /\ ses[s] \in SesType
        BY <2>1, <2>2, <3>2
      <4> QED BY <1>3, <2>1, <3>2, <4>1 DEF SesType
    <3> QED BY <3>1, <3>2
  <2> QED BY <2>3
<1>7. /\ \A u \in Owners, q \in Ports : Past(u, q)' <=> Past(u, q) /\ ~(u = o /\ q = p)
      /\ \A q : Binding(q)' <=> Binding(q)
      /\ \A q \in Ports : Between(q)' <=> Between(q)
      /\ Past(o, p)
  <2>1. \A u \in Owners, q \in Ports : Past(u, q)' <=> Past(u, q) /\ ~(u = o /\ q = p)
    BY <1>1, <1>4, <1>5 DEF Past
  <2>2. \A q \in Ports : Between(q)' <=> Between(q)
    BY <1>1, <1>4, <1>5 DEF Between
  <2> QED BY <1>1, <2>1, <2>2 DEF Binding, Past
<1>8. \A s \in Sessions, q \in Ports : Own(s, q)' <=> Own(s, q) /\ ~(s = o /\ q = p)
  <2> SUFFICES ASSUME NEW s \in Sessions, NEW q \in Ports
               PROVE  Own(s, q)' <=> Own(s, q) /\ ~(s = o /\ q = p)
    OBVIOUS
  <2>1. imp' = imp /\ ses'[s].bound[q] = IF s = o /\ q = p THEN "none" ELSE ses[s].bound[q]
    BY <1>1, <1>6
  <2>2. q \in rel'[s].todo <=> q \in rel[s].todo /\ ~(s = o /\ q = p)
    BY <1>4, <1>5, OwnersAre
  <2> QED BY <2>1, <2>2 DEF Own
<1>9. \A s \in Sessions, q \in Ports : Holds(s, q)' <=> Holds(s, q)
  BY <1>7, <1>8, OwnersAre DEF Holds
<1>10. /\ \A q \in Ports : q # p => drv'[q] = drv[q] /\ (q \in torn' <=> q \in torn)
       /\ \/ /\ Loose(p) /\ drv'[p] = IF p \in claim THEN "usbip-host" ELSE "usb"
             /\ Between(p) => p \in torn'
          \/ drv'[p] = drv[p] /\ (Loose(p) => p \in torn') /\ (p \in torn => p \in torn')
       /\ drv' \in [Ports -> {"usb", "usbip-host", "none"}] /\ torn' \subseteq Ports
  BY <1>1, <1>3 DEF IInv, TypeInv
<1>11. TypeInv'
  <2>1. rel' \in [Owners -> RelType]
    BY <1>1, <1>4 DEF IInv, TypeInv
  <2>2. ses' \in [Sessions -> SesType]
    BY <1>1, <1>6
  <2> QED BY <1>1, <1>10, <2>1, <2>2 DEF IInv, TypeInv
<1>12. KernelInv'
  <2> SUFFICES ASSUME NEW q \in Ports
               PROVE  /\ dev'[q] = "none" => drv'[q] = "none"
                      /\ drv'[q] = "usbip-host" => q \in claim' \/ q \in torn'
                      /\ drv'[q] = "usbip-host" /\ Between(q)' => q \in torn'
                      /\ Loose(q)' => \/ q \in torn' \/ Binding(q)' \/ (~up' /\ q \in claim')
                                      \/ \E u \in Owners : q \in rel'[u].todo
    BY DEF KernelInv
  <2>1. CASE q = p
    BY <1>1, <1>3, <1>7, <1>10, <2>1 DEF IInv, KernelInv, Loose
  <2>2. CASE q # p
    <3>1. \A u \in Owners : q \in rel[u].todo => q \in rel'[u].todo
      BY <1>4, <1>5, <2>2
    <3> QED BY <1>1, <1>7, <1>10, <2>2, <3>1 DEF IInv, KernelInv, Loose
  <2> QED BY <2>1, <2>2
<1>13. ClaimInv'
  <2> SUFFICES ASSUME NEW q \in claim
               PROVE  \/ q \in kept
                      \/ \E s \in Sessions : Holds(s, q)'
                      \/ imp.pc = "matched" /\ imp.port = q
                      \/ q \in rel'[0].todo /\ ~Past(0, q)'
    BY <1>1 DEF ClaimInv
  <2>1. q \in Ports
    BY DEF IInv, TypeInv
  <2>2. ASSUME q \in rel[0].todo, ~Past(0, q) PROVE q \in rel'[0].todo /\ ~Past(0, q)'
    BY <1>3, <1>4, <1>5, <1>7, <2>1, <2>2, OwnersAre
  <2> QED BY <1>3, <1>9, <2>1, <2>2 DEF IInv, ClaimInv
<1>14. BoundInv'
  <2> SUFFICES ASSUME NEW s \in Sessions, NEW q \in Ports, Holds(s, q)
               PROVE  /\ q \in claim /\ ~Binding(q)
                      /\ ses'[s].bound[q] # "none" => drv'[q] # "usb"
                      /\ \A t \in Sessions : Holds(t, q) => t = s
    BY <1>1, <1>7, <1>9 DEF BoundInv
  <2>1. /\ q \in claim /\ ~Binding(q) /\ (ses[s].bound[q] # "none" => drv[q] # "usb")
        /\ \A t \in Sessions : Holds(t, q) => t = s
    BY DEF IInv, BoundInv
  <2>2. ses'[s].bound[q] # "none" => ses[s].bound[q] # "none"
    BY <1>6
  <2>3. drv[q] # "usb" => drv'[q] # "usb"
    BY <1>10, <2>1
  <2> QED BY <2>1, <2>2, <2>3
<1>15. RelInv'
  <2>1. \A u \in Owners : rel'[u].next # "unbind" => rel'[u].cur \in rel'[u].todo
    BY <1>4, <1>5 DEF IInv, RelInv
  <2>2. \A s \in Sessions : rel'[s].todo # {} => ses'[s].exp = TRUE
    BY <1>4, <1>5, <1>6, OwnersAre DEF IInv, RelInv
  <2>3. ASSUME NEW s \in Sessions, NEW q \in rel'[s].todo PROVE Own(s, q)'
    <3>1. q \in rel[s].todo /\ ~(s = o /\ q = p)
      BY <1>4, <1>5, <2>3, OwnersAre
    <3>2. Own(s, q) /\ q \in Ports
      BY <3>1, OwnersAre DEF IInv, RelInv, TypeInv, RelType
    <3> QED BY <1>8, <3>1, <3>2
  <2>4. ASSUME NEW q \in rel'[0].todo PROVE q \in claim' \/ Past(0, q)'
    <3>1. q \in rel[0].todo /\ q \in Ports /\ o = 0 /\ q # p
      BY <1>3, <1>4, <1>5, <2>4, OwnersAre DEF IInv, TypeInv, RelType
    <3>2. ~Past(0, q)
      BY <3>1 DEF Past
    <3> QED BY <1>1, <3>1, <3>2 DEF IInv, RelInv
  <2>5. rel'[0].todo # {} => imp'.pc = "none" /\ \A s \in Sessions : ses'[s].exp = FALSE
    BY <1>1, <1>4, <1>5, <1>6, OwnersAre DEF IInv, RelInv
  <2> QED BY <2>1, <2>2, <2>3, <2>4, <2>5 DEF RelInv
<1>16. SesInv'
  <2> SUFFICES ASSUME NEW s \in Sessions PROVE SesOne(s)'
    BY DEF SesInv, SesOne
  <2>1. SesOne(s)
    BY DEF IInv, SesInv, SesOne
  <2>2. CASE s = o
    <3>1. ses'[s].exp = TRUE
      BY <1>3, <1>6, <2>2, OwnersAre
    <3> QED BY <1>4, <1>5, <1>6, <2>1, <2>2, <3>1 DEF SesOne
  <2>3. CASE s # o
    <3>1. ses'[s] = ses[s] /\ rel'[s] = rel[s]
      BY <1>5, <1>6, <2>3, OwnersAre
    <3> QED BY <2>1, <3>1 DEF SesOne, Nothing
  <2> QED BY <2>2, <2>3
<1>17. ImpInv'
  <2> SUFFICES ASSUME imp.pc # "none"
               PROVE  /\ imp.of \in Sessions /\ imp.port \in Ports /\ imp.d # "none"
                      /\ imp.pc = "offered" => ses'[imp.of].exp = TRUE \/ ses'[imp.of].closed = TRUE
                      /\ imp.pc \in {"unbound", "matched"} =>
                           /\ ses'[imp.of].exp = TRUE /\ ses'[imp.of].run # "releasing"
                           /\ rel'[imp.of].todo = {}
                      /\ imp.pc = "matched" => imp.port \in claim
    BY <1>1 DEF ImpInv
  <2>1. imp.of \in Sessions
    BY DEF IInv, ImpInv
  <2>2. imp.pc \in {"unbound", "matched"} => imp.of # o
    BY <1>2 DEF IInv, ImpInv
  <2> QED BY <1>5, <1>6, <2>1, <2>2, OwnersAre DEF IInv, ImpInv
<1>18. LnInv' /\ DownInv' /\ PcscInv' /\ ReaderFree'
  BY <1>1, <1>3, <1>6 DEF IInv, TypeInv, LnInv, DownInv, PcscInv, ReaderFree
<1> QED BY <1>11, <1>12, <1>13, <1>14, <1>15, <1>16, <1>17, <1>18 DEF IInv
-----------------------------------------------------------------------------
(* Who has what is no matter of an import but where bind has failed.       *)
LEMMA SameOwn ==
  ASSUME rel' = rel, \A t \in Sessions : ses'[t].bound = ses[t].bound,
         imp.pc # "failed" \/ rel[imp.of].todo = {}, imp'.pc # "failed"
  PROVE  /\ \A s \in Sessions, p \in Ports : (Own(s, p)' <=> Own(s, p)) /\ (Holds(s, p)' <=> Holds(s, p))
         /\ \A p : Between(p)' <=> Between(p)
         /\ \A o \in Owners, p \in Ports : Past(o, p)' <=> Past(o, p)
<1>1. \A o \in Owners, p \in Ports : Past(o, p)' <=> Past(o, p)
  BY DEF Past
<1>2. \A p : Between(p)' <=> Between(p)
  BY DEF Between
<1>3. \A s \in Sessions, p \in Ports : Own(s, p)' <=> Own(s, p)
  BY DEF Own
<1> QED BY <1>1, <1>2, <1>3, OwnersAre DEF Holds

(* The import's steps that change nothing but the import.                  *)
LEMMA ImpStep ==
  ASSUME IInv, NEW i \in ImpType, imp' = i,
         UNCHANGED <<dev, drv, claim, torn, kept, up, ses, latest, ln, rel, pcscd, cmd>>,
         imp.pc \notin {"unbound", "matched"}, imp.pc # "failed" \/ rel[imp.of].todo = {},
         i.pc \in {"none", "offered", "bound"},
         i.pc # "none" => i.of \in Sessions /\ i.port \in Ports /\ i.d # "none" /\ rel[0].todo = {},
         i.pc = "offered" => ses[i.of].exp = TRUE \/ ses[i.of].closed = TRUE,
         up
  PROVE  IInv'
<1>1. \A p : ~Binding(p) /\ ~Binding(p)'
  BY DEF Binding
<1>2. /\ \A s \in Sessions, p \in Ports : (Own(s, p)' <=> Own(s, p)) /\ (Holds(s, p)' <=> Holds(s, p))
      /\ \A p : Between(p)' <=> Between(p)
      /\ \A o \in Owners, p \in Ports : Past(o, p)' <=> Past(o, p)
  BY SameOwn
<1>3. TypeInv' /\ SesInv' /\ LnInv' /\ DownInv' /\ PcscInv' /\ ReaderFree'
  BY DEF IInv, TypeInv, SesInv, LnInv, DownInv, PcscInv, ReaderFree
<1>4. KernelInv'
  BY <1>1, <1>2 DEF IInv, KernelInv, Loose
<1>5. ClaimInv'
  BY <1>2, OwnersAre DEF IInv, TypeInv, ClaimInv
<1>6. BoundInv'
  BY <1>1, <1>2 DEF IInv, BoundInv
<1>7. RelInv'
  BY <1>2, OwnersAre DEF IInv, TypeInv, RelInv, RelType
<1>8. ImpInv'
  BY DEF ImpInv
<1> QED BY <1>3, <1>4, <1>5, <1>6, <1>7, <1>8 DEF IInv

(* Import is offered a device there is, and HandOver is through with it.   *)
LEMMA OfferInv ==
  ASSUME IInv, HandOver \/ \E s \in Sessions, p \in Ports : Import(s, p)
  PROVE  IInv'
<1>1. CASE HandOver
  <2>1. /\ imp.pc = "bound" \/ (imp.pc = "failed" /\ rel[imp.of].todo = {})
        /\ imp' = NoImp
        /\ UNCHANGED <<dev, drv, claim, torn, kept, up, ses, latest, ln, rel, pcscd, cmd>>
    BY <1>1 DEF HandOver, Others, Export, Idle, pcsc
  <2>2. up
    BY <2>1, Nothings DEF IInv, DownInv
  <2> QED BY <2>1, <2>2, Nothings, ImpStep
<1>2. ASSUME NEW s \in Sessions, NEW p \in Ports, Import(s, p) PROVE IInv'
  <2> DEFINE d == IF drv[p] = "usbip-host" THEN ses[s].bound[p] ELSE dev[p]
             i == [pc |-> "offered", of |-> s, port |-> p, d |-> d]
  <2>1. /\ ln = s /\ imp = NoImp /\ imp' = i
        /\ \/ ses[s].bound[p] # "none" /\ drv[p] = "usbip-host"
           \/ Kind(p) = "redirect"
        /\ UNCHANGED <<dev, drv, claim, torn, kept, up, ses, latest, ln, rel, pcscd, cmd>>
    BY <1>2 DEF Import, Export, kernel, pcsc, faults
  <2>2. s # 0 /\ ses[s].exp = TRUE /\ up /\ rel[0].todo = {}
    <3>1. s # 0 /\ ses[s].exp = TRUE
      BY <2>1, OwnersAre DEF IInv, LnInv
    <3> QED BY <2>1, <3>1 DEF IInv, DownInv, RelInv
  <2>3. d \in Plugged /\ d # "none"
    <3>1. d \in Plugged
      BY DEF IInv, TypeInv, SesType
    <3>2. d # "none"
      <4>1. CASE drv[p] = "usbip-host"
        BY <2>1, <4>1 DEF Kind
      <4>2. CASE drv[p] # "usbip-host"
        BY <2>1, <4>2 DEF Kind
      <4> QED BY <4>1, <4>2
    <3> QED BY <3>1, <3>2
  <2> HIDE DEF d
  <2>4. i \in ImpType /\ i.pc = "offered" /\ i.of = s /\ i.port = p /\ i.d = d
    BY <2>3 DEF ImpType
  <2> HIDE DEF i
  <2> QED BY <2>1, <2>2, <2>3, <2>4, Nothings, ImpStep
<1> QED BY <1>1, <1>2

(* Bind: the device of a session that still exports, at its own driver, is *)
(* nobody's, and is taken.                                                 *)
LEMMA BindInv == ASSUME IInv, Bind PROVE IInv'
<1>1. /\ imp.pc = "offered" /\ rel[imp.of].todo = {}
      /\ UNCHANGED <<dev, claim, torn, kept, up, ses, latest, ln, rel, pcscd, cmd>>
      /\ \/ imp' = NoImp /\ drv' = drv
         \/ imp' = [imp EXCEPT !.pc = "bound"] /\ drv' = drv
         \/ /\ ~ses[imp.of].closed /\ drv[imp.port] = "usb"
            /\ drv' = [drv EXCEPT ![imp.port] = "none"] /\ imp' = [imp EXCEPT !.pc = "unbound"]
  <2>1. imp.pc = "offered" /\ ~Locked(imp.of)
    BY DEF Bind
  <2>2. rel[imp.of].todo = {}
    BY <2>1 DEF Locked, Idle
  <2>3. UNCHANGED <<dev, claim, torn, kept, up, ses, latest, ln, rel, pcscd, cmd>>
    BY DEF Bind, Others, Export, pcsc
  <2>4. \/ imp' = NoImp /\ drv' = drv
        \/ imp' = [imp EXCEPT !.pc = "bound"] /\ drv' = drv
        \/ /\ ~ses[imp.of].closed /\ drv[imp.port] = "usb"
           /\ drv' = [drv EXCEPT ![imp.port] = "none"] /\ imp' = [imp EXCEPT !.pc = "unbound"]
    BY Zenon DEF Bind, TakesDevice
  <2> QED BY <2>1, <2>2, <2>3, <2>4
<1>2. /\ imp.of \in Sessions /\ imp.port \in Ports /\ imp.d # "none" /\ imp \in ImpType
      /\ up /\ rel[0].todo = {}
  BY <1>1, Nothings DEF IInv, TypeInv, ImpInv, DownInv, RelInv
<1>3. CASE imp' = NoImp /\ drv' = drv
  BY <1>1, <1>2, <1>3, Nothings, ImpStep
<1>4. CASE imp' = [imp EXCEPT !.pc = "bound"] /\ drv' = drv
  <2> DEFINE i == [imp EXCEPT !.pc = "bound"]
  <2>1. i \in ImpType /\ i.pc = "bound" /\ i.of = imp.of /\ i.port = imp.port /\ i.d = imp.d
    BY <1>2 DEF ImpType
  <2>2. imp' = i
    BY <1>4
  <2> HIDE DEF i
  <2> QED BY <1>1, <1>2, <1>4, <2>1, <2>2, ImpStep
<1>5. CASE /\ ~ses[imp.of].closed /\ drv[imp.port] = "usb"
           /\ drv' = [drv EXCEPT ![imp.port] = "none"] /\ imp' = [imp EXCEPT !.pc = "unbound"]
  <2> PICK p \in Ports : p = imp.port
    BY <1>2
  <2>1. /\ imp' \in ImpType /\ imp'.pc = "unbound" /\ imp'.of = imp.of
        /\ imp'.port = p /\ imp'.d = imp.d
    BY <1>2, <1>5 DEF ImpType
  <2>2. /\ drv' \in [Ports -> {"usb", "usbip-host", "none"}] /\ drv'[p] = "none"
        /\ \A q \in Ports : q # p => drv'[q] = drv[q]
    BY <1>2, <1>5 DEF IInv, TypeInv
  <2>3. TypeInv'
    BY <1>1, <2>1, <2>2 DEF IInv, TypeInv
  <2>4. Binding(p)' /\ \A q : q # p => ~Binding(q)'
    BY <2>1 DEF Binding
  <2>5. \A q : ~Binding(q)
    BY <1>1 DEF Binding
  <2>6. /\ \A t \in Sessions, q \in Ports : (Own(t, q)' <=> Own(t, q)) /\ (Holds(t, q)' <=> Holds(t, q))
        /\ \A q : Between(q)' <=> Between(q)
        /\ \A o \in Owners, q \in Ports : Past(o, q)' <=> Past(o, q)
    BY <1>1, <2>1, SameOwn
  <2>7. KernelInv'
    <3> SUFFICES ASSUME NEW q \in Ports
                 PROVE  /\ dev'[q] = "none" => drv'[q] = "none"
                        /\ drv'[q] = "usbip-host" => q \in claim' \/ q \in torn'
                        /\ drv'[q] = "usbip-host" /\ Between(q)' => q \in torn'
                        /\ Loose(q)' => \/ q \in torn' \/ Binding(q)' \/ (~up' /\ q \in claim')
                                        \/ \E u \in Owners : q \in rel'[u].todo
      BY DEF KernelInv
    <3>1. CASE q = p
      BY <2>2, <2>4, <3>1
    <3>2. CASE q # p
      BY <1>1, <2>2, <2>5, <2>6, <3>2 DEF IInv, KernelInv, Loose
    <3> QED BY <3>1, <3>2
  <2>8. ClaimInv'
    BY <1>1, <2>6, OwnersAre DEF IInv, TypeInv, ClaimInv
  <2>9. \A t \in Sessions : ~Holds(t, p)
    <3> SUFFICES ASSUME NEW t \in Sessions, Holds(t, p) PROVE FALSE
      OBVIOUS
    <3>1. ses[t].bound[p] = "none"
      BY <1>5 DEF IInv, BoundInv
    <3> QED BY <1>1, <3>1 DEF Holds, Own
  <2>10. BoundInv'
    BY <1>1, <2>2, <2>4, <2>6, <2>9 DEF IInv, BoundInv
  <2>11. RelInv'
    BY <1>1, <1>2, <2>6, OwnersAre DEF IInv, TypeInv, RelInv, RelType
  <2>12. ImpInv'
    <3>1. ses[imp.of].exp = TRUE /\ ses[imp.of].run # "releasing"
      BY <1>1, <1>2, <1>5 DEF IInv, ImpInv, SesInv
    <3> QED BY <1>1, <1>2, <2>1, <3>1 DEF ImpInv
  <2>13. SesInv' /\ LnInv' /\ DownInv' /\ PcscInv' /\ ReaderFree'
    BY <1>1, <1>2 DEF IInv, SesInv, LnInv, DownInv, PcscInv, ReaderFree
  <2> QED BY <2>3, <2>7, <2>8, <2>10, <2>11, <2>12, <2>13 DEF IInv
<1> QED BY <1>1, <1>3, <1>4, <1>5

(* Match: the port is claimed, or a device that has no driver is marked so.*)
LEMMA MatchInv == ASSUME IInv, Match PROVE IInv'
<1>1. /\ imp.pc = "unbound" /\ UNCHANGED <<dev, drv, up, ses, latest, ln, rel, pcscd, cmd>>
      /\ \/ /\ claim' = claim \cup {imp.port} /\ imp' = [imp EXCEPT !.pc = "matched"]
            /\ torn' = torn /\ kept' = kept \ {imp.port}
         \/ /\ imp' = NoImp /\ claim' = claim /\ kept' = kept
            /\ torn' = IF Loose(imp.port) THEN torn \cup {imp.port} ELSE torn
  BY DEF Match, Export, pcsc
<1>2. /\ imp.of \in Sessions /\ imp.port \in Ports /\ imp.d # "none" /\ imp \in ImpType /\ up
      /\ ses[imp.of].exp = TRUE /\ ses[imp.of].run # "releasing" /\ rel[imp.of].todo = {}
      /\ rel[0].todo = {}
  BY <1>1, Nothings DEF IInv, TypeInv, ImpInv, DownInv, RelInv
<1> PICK p \in Ports : p = imp.port
  BY <1>2
<1>3. \A q : Binding(q) <=> q = p
  BY <1>1 DEF Binding
<1>4. SesInv' /\ LnInv' /\ DownInv' /\ PcscInv' /\ ReaderFree'
  BY <1>1, <1>2 DEF IInv, SesInv, LnInv, DownInv, PcscInv, ReaderFree
<1>5. imp'.pc # "failed"
  BY <1>1, <1>2, Nothings DEF ImpType
<1>6. /\ \A t \in Sessions, q \in Ports : (Own(t, q)' <=> Own(t, q)) /\ (Holds(t, q)' <=> Holds(t, q))
      /\ \A q : Between(q)' <=> Between(q)
      /\ \A o \in Owners, q \in Ports : Past(o, q)' <=> Past(o, q)
  BY <1>1, <1>5, SameOwn
<1>7. RelInv'
  <2>1. claim \subseteq claim'
    BY <1>1
  <2> QED BY <1>1, <1>2, <1>6, <2>1, OwnersAre DEF IInv, TypeInv, RelInv, RelType
<1>8. CASE /\ claim' = claim \cup {p} /\ imp' = [imp EXCEPT !.pc = "matched"] /\ torn' = torn
           /\ kept' = kept \ {p}
  <2>1. /\ imp' \in ImpType /\ imp'.pc = "matched" /\ imp'.of = imp.of
        /\ imp'.port = p /\ imp'.d = imp.d
    BY <1>2, <1>8 DEF ImpType
  <2>2. \A q : Binding(q)' <=> q = p
    BY <2>1 DEF Binding
  <2>3. TypeInv'
    BY <1>1, <1>2, <1>8, <2>1 DEF IInv, TypeInv
  <2>4. KernelInv'
    BY <1>1, <1>3, <1>6, <1>8, <2>2 DEF IInv, KernelInv, Loose
  <2>5. ClaimInv'
    <3> SUFFICES ASSUME NEW q \in claim'
                 PROVE  \/ q \in kept'
                        \/ \E t \in Sessions : Holds(t, q)'
                        \/ imp'.pc = "matched" /\ imp'.port = q
      BY DEF ClaimInv
    <3>1. CASE q = p
      BY <2>1, <3>1
    <3>2. CASE q # p
      <4>1. q \in claim /\ q \in Ports
        BY <1>8, <3>2 DEF IInv, TypeInv
      <4>2. q \in kept \/ \E t \in Sessions : Holds(t, q)
        BY <1>1, <1>2, <4>1 DEF IInv, ClaimInv
      <4> QED BY <1>6, <1>8, <3>2, <4>1, <4>2
    <3> QED BY <3>1, <3>2
  <2>6. BoundInv'
    BY <1>1, <1>3, <1>6, <1>8, <2>2 DEF IInv, BoundInv
  <2>7. ImpInv'
    BY <1>1, <1>2, <1>8, <2>1 DEF ImpInv
  <2> QED BY <1>4, <1>7, <2>3, <2>4, <2>5, <2>6, <2>7 DEF IInv
<1>9. CASE /\ imp' = NoImp /\ claim' = claim /\ kept' = kept
           /\ torn' = IF Loose(p) THEN torn \cup {p} ELSE torn
  <2>1. \A q : ~Binding(q)'
    BY <1>9, Nothings DEF Binding
  <2>2. TypeInv'
    BY <1>1, <1>2, <1>9, Nothings DEF IInv, TypeInv
  <2>3. KernelInv'
    <3> SUFFICES ASSUME NEW q \in Ports
                 PROVE  /\ dev'[q] = "none" => drv'[q] = "none"
                        /\ drv'[q] = "usbip-host" => q \in claim' \/ q \in torn'
                        /\ drv'[q] = "usbip-host" /\ Between(q)' => q \in torn'
                        /\ Loose(q)' => \/ q \in torn' \/ Binding(q)' \/ (~up' /\ q \in claim')
                                        \/ \E u \in Owners : q \in rel'[u].todo
      BY DEF KernelInv
    <3>1. torn \subseteq torn' /\ (Loose(p) => p \in torn')
      BY <1>9
    <3> QED BY <1>1, <1>3, <1>6, <1>9, <3>1 DEF IInv, KernelInv, Loose
  <2>4. ClaimInv'
    BY <1>1, <1>2, <1>6, <1>9, OwnersAre DEF IInv, TypeInv, ClaimInv
  <2>5. BoundInv'
    BY <1>1, <1>6, <1>9, <2>1 DEF IInv, BoundInv
  <2>6. ImpInv'
    BY <1>9, Nothings DEF ImpInv
  <2> QED BY <1>4, <1>7, <2>2, <2>3, <2>4, <2>5, <2>6 DEF IInv
<1> QED BY <1>1, <1>8, <1>9
(* The port bind has claimed is its session's, whether usbip-host took the *)
(* device or not.                                                          *)
LEMMA BindHostInv == ASSUME IInv, BindHost PROVE IInv'
<1>0. imp.pc = "matched"
  BY DEF BindHost
<1> PICK s \in Sessions : s = imp.of
  BY <1>0 DEF IInv, ImpInv
<1>1. imp.pc = "matched" /\ UNCHANGED <<dev, claim, torn, kept, up, latest, ln, pcscd, cmd>>
  BY DEF BindHost, Export, pcsc, faults
<1>2. /\ s \in Sessions /\ imp.port \in Ports /\ imp.d # "none" /\ imp \in ImpType /\ up
      /\ ses[s].exp = TRUE /\ ses[s].run # "releasing" /\ ses[s] \in SesType
      /\ imp.port \in claim /\ rel[s].todo = {} /\ rel[0].todo = {}
  BY <1>1, Nothings DEF IInv, TypeInv, ImpInv, DownInv, RelInv
<1> PICK p \in Ports : p = imp.port
  BY <1>2
<1>3. imp.of = s
  OBVIOUS
<1>4. \A q : Binding(q) <=> q = p
  BY <1>1 DEF Binding
<1>5. rel[s].next = "unbind" /\ \A q \in Ports : ~Past(s, q)
  <2>1. rel[s].next = "unbind"
    BY <1>2, OwnersAre DEF IInv, TypeInv, RelInv, RelType
  <2> QED BY <2>1 DEF Past
<1>6. \A t \in Sessions : ~Holds(t, p)
  BY <1>4 DEF IInv, BoundInv
<1>7. ses[s].bound[p] = "none"
  BY <1>2, <1>5, <1>6 DEF Holds, Own
<1>8. ~Between(p)
  <2> SUFFICES ASSUME NEW o \in Owners, rel[o].next = "del", rel[o].cur = p PROVE FALSE
    BY DEF Between
  <2>1. p \in rel[o].todo
    BY DEF IInv, RelInv
  <2>2. o \in Sessions /\ Own(o, p)
    BY <1>2, <2>1, OwnersAre DEF IInv, RelInv
  <2>3. ~Past(o, p)
    BY DEF Past
  <2> QED BY <1>6, <2>2, <2>3 DEF Holds
<1>9. CASE /\ Loose(p) /\ drv' = [drv EXCEPT ![p] = "usbip-host"]
           /\ Set(s, [ses[s] EXCEPT !.bound[p] = imp.d])
           /\ imp' = [imp EXCEPT !.pc = "bound"] /\ rel' = rel
  <2> DEFINE r == [ses[s] EXCEPT !.bound[p] = imp.d]
  <2>1. /\ imp' \in ImpType /\ imp'.pc = "bound" /\ imp'.of = s
        /\ imp'.port = p /\ imp'.d = imp.d
    BY <1>2, <1>3, <1>9 DEF ImpType
  <2>2. /\ r \in SesType /\ r.exp = TRUE /\ r.run = ses[s].run /\ r.pc = ses[s].pc
        /\ r.closed = ses[s].closed /\ r.bound[p] = imp.d
        /\ \A q \in Ports : q # p => r.bound[q] = ses[s].bound[q]
    BY <1>2 DEF SesType, ImpType
  <2>3. /\ drv' \in [Ports -> {"usb", "usbip-host", "none"}] /\ drv'[p] = "usbip-host"
        /\ \A q \in Ports : q # p => drv'[q] = drv[q]
    BY <1>9 DEF IInv, TypeInv
  <2>4. ses' = [ses EXCEPT ![s] = r]
    BY <1>9 DEF Set
  <2> HIDE DEF r
  <2>5. ses'[s] = r /\ \A t \in Sessions : t # s => ses'[t] = ses[t]
    BY <1>2, <2>4, SesAfter DEF IInv
  <2>6. \A q : ~Binding(q)'
    BY <2>1 DEF Binding
  <2>7. TypeInv'
    BY <1>1, <1>2, <1>9, <2>1, <2>2, <2>3, <2>4 DEF IInv, TypeInv
  <2>8. /\ \A o \in Owners, q \in Ports : Past(o, q)' <=> Past(o, q)
        /\ \A q : Between(q)' <=> Between(q)
    BY <1>9 DEF Past, Between
  <2>9. \A t \in Sessions, q \in Ports : Own(t, q)' <=> Own(t, q) \/ (t = s /\ q = p)
    <3> SUFFICES ASSUME NEW t \in Sessions, NEW q \in Ports
                 PROVE  Own(t, q)' <=> Own(t, q) \/ (t = s /\ q = p)
      OBVIOUS
    <3>1. CASE t = s
      BY <1>1, <1>2, <2>1, <2>2, <2>5, <3>1 DEF Own
    <3>2. CASE t # s
      BY <1>1, <2>1, <2>5, <3>2 DEF Own
    <3> QED BY <3>1, <3>2
  <2>10. \A t \in Sessions, q \in Ports : Holds(t, q)' <=> Holds(t, q) \/ (t = s /\ q = p)
    BY <1>2, <1>5, <2>8, <2>9, OwnersAre DEF Holds
  <2>11. KernelInv'
    <3> SUFFICES ASSUME NEW q \in Ports
                 PROVE  /\ dev'[q] = "none" => drv'[q] = "none"
                        /\ drv'[q] = "usbip-host" => q \in claim' \/ q \in torn'
                        /\ drv'[q] = "usbip-host" /\ Between(q)' => q \in torn'
                        /\ Loose(q)' => \/ q \in torn' \/ Binding(q)' \/ (~up' /\ q \in claim')
                                        \/ \E u \in Owners : q \in rel'[u].todo
      BY DEF KernelInv
    <3>1. CASE q = p
      BY <1>1, <1>2, <1>8, <1>9, <2>3, <2>8, <3>1 DEF Loose
    <3>2. CASE q # p
      BY <1>1, <1>4, <1>9, <2>3, <2>8, <3>2 DEF IInv, KernelInv, Loose
    <3> QED BY <3>1, <3>2
  <2>12. ClaimInv'
    <3> SUFFICES ASSUME NEW q \in claim
                 PROVE  q \in kept \/ \E t \in Sessions : Holds(t, q)'
      BY <1>1 DEF ClaimInv
    <3>1. q \in Ports
      BY DEF IInv, TypeInv
    <3>2. q \in kept \/ (\E t \in Sessions : Holds(t, q)) \/ q = p
      BY <1>2 DEF IInv, ClaimInv
    <3> QED BY <1>2, <2>10, <3>1, <3>2
  <2>13. BoundInv'
    <3> SUFFICES ASSUME NEW t \in Sessions, NEW q \in Ports, Holds(t, q)'
                 PROVE  /\ q \in claim'
                        /\ ses'[t].bound[q] # "none" => drv'[q] # "usb"
                        /\ \A v \in Sessions : Holds(v, q)' => v = t
      BY <2>6 DEF BoundInv
    <3>1. CASE q = p
      BY <1>1, <1>2, <1>6, <2>3, <2>10, <3>1
    <3>2. CASE q # p
      <4>1. ses'[t].bound[q] = ses[t].bound[q]
        BY <2>2, <2>5, <3>2
      <4>2. Holds(t, q) /\ \A v \in Sessions : Holds(v, q)' => Holds(v, q)
        BY <2>10, <3>2
      <4> QED BY <1>1, <2>3, <3>2, <4>1, <4>2 DEF IInv, BoundInv
    <3> QED BY <3>1, <3>2
  <2>14. RelInv'
    <3>1. \A t \in Sessions : ses'[t].exp = ses[t].exp
      BY <1>2, <2>2, <2>5
    <3> QED BY <1>1, <1>2, <1>9, <2>8, <2>9, <3>1, OwnersAre DEF IInv, TypeInv, RelInv, RelType
  <2>15. SesInv'
    <3>1. SesOne(s)
      BY <1>2 DEF IInv, SesInv, SesOne
    <3>2. SesOne(s)'
      BY <1>2, <2>2, <2>5, <3>1 DEF SesOne
    <3> QED BY <1>2, <1>9, <2>5, <3>2, SesOnes
  <2>16. ImpInv'
    BY <1>2, <2>1 DEF ImpInv
  <2>17. LnInv' /\ DownInv' /\ PcscInv'
    BY <1>1, <1>2, <2>2, <2>5 DEF IInv, TypeInv, LnInv, DownInv, PcscInv
  <2>18. ReaderFree'
    BY <1>1, <1>2, <2>2, <2>5 DEF IInv, TypeInv, ReaderFree
  <2> QED BY <2>7, <2>11, <2>12, <2>13, <2>14, <2>15, <2>16, <2>17, <2>18 DEF IInv
<1>10. CASE Gives(s, {p}) /\ imp' = [imp EXCEPT !.pc = "failed"] /\ drv' = drv /\ ses' = ses
  <2> DEFINE g == [NoRel EXCEPT !.todo = {p}]
  <2>1. /\ imp' \in ImpType /\ imp'.pc = "failed" /\ imp'.of = s
        /\ imp'.port = p /\ imp'.d = imp.d
    BY <1>2, <1>3, <1>10 DEF ImpType
  <2>2. g \in RelType /\ g.todo = {p} /\ g.next = "unbind"
    BY DEF NoRel, RelType
  <2>3. rel' = [rel EXCEPT ![s] = g]
    BY <1>10 DEF Gives
  <2> HIDE DEF g
  <2>4. rel'[s] = g /\ (\A o \in Owners : o # s => rel'[o] = rel[o]) /\ rel'[0] = rel[0]
    BY <1>2, <2>3, OwnersAre DEF IInv, TypeInv
  <2>5. \A q : ~Binding(q)'
    BY <2>1 DEF Binding
  <2>6. TypeInv'
    BY <1>1, <1>2, <1>10, <2>1, <2>2, <2>3, OwnersAre DEF IInv, TypeInv
  <2>7. \A o \in Owners, q \in Ports : Past(o, q)' <=> Past(o, q)
    BY <1>5, <2>2, <2>4 DEF Past
  <2>8. \A q : Between(q)' <=> Between(q)
    <3>1. \A o \in Owners : \A q : (rel'[o].next = "del" /\ rel'[o].cur = q) <=> (rel[o].next = "del" /\ rel[o].cur = q)
      BY <1>5, <2>2, <2>4
    <3> QED BY <3>1 DEF Between
  <2>9. \A t \in Sessions, q \in Ports : Own(t, q)' <=> Own(t, q) \/ (t = s /\ q = p)
    <3> SUFFICES ASSUME NEW t \in Sessions, NEW q \in Ports
                 PROVE  Own(t, q)' <=> Own(t, q) \/ (t = s /\ q = p)
      OBVIOUS
    <3>1. CASE t = s
      BY <1>1, <1>10, <2>1, <2>2, <2>4, <3>1 DEF Own
    <3>2. CASE t # s
      BY <1>1, <1>10, <2>1, <3>2 DEF Own
    <3> QED BY <3>1, <3>2
  <2>10. \A t \in Sessions, q \in Ports : Holds(t, q)' <=> Holds(t, q) \/ (t = s /\ q = p)
    BY <1>2, <1>5, <2>7, <2>9, OwnersAre DEF Holds
  <2>11. KernelInv'
    <3> SUFFICES ASSUME NEW q \in Ports, Loose(q)
                 PROVE  \/ q \in torn \/ (~up /\ q \in claim)
                        \/ \E u \in Owners : q \in rel'[u].todo
      BY <1>1, <1>10, <2>8 DEF IInv, KernelInv, Loose
    <3>1. CASE q = p
      BY <1>2, <2>2, <2>4, <3>1, OwnersAre
    <3>2. CASE q # p
      <4>1. \A u \in Owners : q \in rel[u].todo => q \in rel'[u].todo
        BY <1>2, <2>4
      <4> QED BY <1>4, <3>2, <4>1 DEF IInv, KernelInv
    <3> QED BY <3>1, <3>2
  <2>12. ClaimInv'
    <3> SUFFICES ASSUME NEW q \in claim
                 PROVE  q \in kept \/ \E t \in Sessions : Holds(t, q)'
      BY <1>1 DEF ClaimInv
    <3>1. q \in Ports
      BY DEF IInv, TypeInv
    <3>2. q \in kept \/ (\E t \in Sessions : Holds(t, q)) \/ q = p
      BY <1>2 DEF IInv, ClaimInv
    <3> QED BY <1>2, <2>10, <3>1, <3>2
  <2>13. BoundInv'
    <3> SUFFICES ASSUME NEW t \in Sessions, NEW q \in Ports, Holds(t, q)'
                 PROVE  /\ q \in claim
                        /\ ses[t].bound[q] # "none" => drv[q] # "usb"
                        /\ \A v \in Sessions : Holds(v, q)' => v = t
      BY <1>1, <1>10, <2>5 DEF BoundInv
    <3>1. CASE q = p
      BY <1>2, <1>6, <1>7, <2>10, <3>1
    <3>2. CASE q # p
      <4>1. Holds(t, q) /\ \A v \in Sessions : Holds(v, q)' => Holds(v, q)
        BY <2>10, <3>2
      <4> QED BY <4>1 DEF IInv, BoundInv
    <3> QED BY <3>1, <3>2
  <2>14. RelInv'
    <3>1. \A o \in Owners : rel'[o].next # "unbind" => rel'[o].cur \in rel'[o].todo
      BY <2>2, <2>4 DEF IInv, RelInv
    <3>2. \A t \in Sessions : rel'[t].todo # {} => ses'[t].exp = TRUE
      BY <1>2, <1>10, <2>4, OwnersAre DEF IInv, RelInv
    <3>3. ASSUME NEW t \in Sessions, NEW q \in rel'[t].todo PROVE Own(t, q)'
      <4>1. CASE t = s
        BY <2>2, <2>4, <2>9, <3>3, <4>1
      <4>2. CASE t # s
        <5>1. q \in rel[t].todo /\ q \in Ports
          BY <2>4, <3>3, <4>2, OwnersAre DEF IInv, TypeInv, RelType
        <5> QED BY <2>9, <5>1 DEF IInv, RelInv
      <4> QED BY <4>1, <4>2
    <3> QED BY <1>2, <2>4, <3>1, <3>2, <3>3 DEF RelInv
  <2>15. SesInv'
    <3>1. SesOne(s)
      BY <1>2 DEF IInv, SesInv, SesOne
    <3>2. SesOne(s)'
      BY <1>2, <1>10, <3>1 DEF SesOne, Nothing
    <3> QED BY <1>2, <1>10, <2>4, <3>2, SesOnes, OwnersAre
  <2>16. ImpInv'
    BY <1>2, <2>1 DEF ImpInv
  <2>17. LnInv' /\ DownInv' /\ PcscInv' /\ ReaderFree'
    BY <1>1, <1>2, <1>10 DEF IInv, LnInv, DownInv, PcscInv, ReaderFree
  <2> QED BY <2>6, <2>11, <2>12, <2>13, <2>14, <2>15, <2>16, <2>17 DEF IInv
<1>11. \/ /\ Loose(p) /\ drv' = [drv EXCEPT ![p] = "usbip-host"]
          /\ Set(s, [ses[s] EXCEPT !.bound[p] = imp.d])
          /\ imp' = [imp EXCEPT !.pc = "bound"] /\ rel' = rel
       \/ Gives(s, {p}) /\ imp' = [imp EXCEPT !.pc = "failed"] /\ drv' = drv /\ ses' = ses
  BY <1>3, Zenon DEF BindHost
<1> QED BY <1>9, <1>10, <1>11
-----------------------------------------------------------------------------
(* A process that dies has claims and devices with no driver behind it,    *)
(* these marked where no claim is left.                                    *)
LEMMA CrashInv == ASSUME IInv, Crash PROVE IInv'
<1>1. /\ up /\ up' = FALSE /\ ses' = [s \in Sessions |-> NoSes]
      /\ latest' = 0 /\ ln' = 0 /\ imp' = NoImp /\ rel' = [o \in Owners |-> NoRel]
      /\ torn' = torn \cup {p \in InHand : Loose(p)}
      /\ dev' = dev /\ drv' = drv /\ claim' = claim /\ kept' = kept
  BY DEF Crash, kernel
<1>2. /\ \A s \in Sessions : ses'[s] = NoSes
      /\ \A o \in Owners : rel'[o] = NoRel
  BY <1>1
<1>3. TypeInv'
  <2>1. torn' \subseteq Ports
    BY <1>1 DEF IInv, TypeInv, InHand
  <2> QED BY <1>1, <2>1, Nothings DEF IInv, TypeInv
<1>4. /\ \A q : ~Binding(q)'
      /\ \A q : ~Between(q)'
      /\ \A t \in Sessions, q \in Ports : ~Own(t, q)' /\ ~Holds(t, q)'
  <2>1. \A q : ~Binding(q)'
    BY <1>1, Nothings DEF Binding
  <2>2. \A q : ~Between(q)'
    BY <1>2, Nothings DEF Between
  <2>3. \A t \in Sessions, q \in Ports : ~Own(t, q)'
    BY <1>1, <1>2, Nothings DEF Own
  <2> QED BY <2>1, <2>2, <2>3 DEF Holds
<1>5. ASSUME NEW q \in Ports, Loose(q) PROVE q \in torn' \/ q \in claim
  <2>1. q \in InHand => q \in torn'
    BY <1>1, <1>5
  <2>2. CASE Binding(q)
    BY <2>1, <2>2 DEF Binding, InHand, IInv, ImpInv
  <2>3. ASSUME NEW o \in Owners, q \in rel[o].todo PROVE q \in torn' \/ q \in claim
    <3>1. CASE Past(o, q)
      BY <2>1, <3>1 DEF Past, InHand
    <3>2. CASE ~Past(o, q) /\ o \in Sessions
      <4>1. Holds(o, q)
        BY <2>3, <3>2 DEF IInv, RelInv, Holds
      <4> QED BY <3>2, <4>1 DEF IInv, BoundInv
    <3>3. CASE ~Past(o, q) /\ o = 0
      BY <2>3, <3>3 DEF IInv, RelInv
    <3> QED BY <3>1, <3>2, <3>3, OwnersAre
  <2> QED BY <1>1, <1>5, <2>2, <2>3 DEF IInv, KernelInv
<1>6. KernelInv'
  <2>1. torn \subseteq torn'
    BY <1>1
  <2> QED BY <1>1, <1>4, <1>5, <2>1 DEF IInv, KernelInv, Loose
<1>7. ClaimInv' /\ DownInv' /\ PcscInv'
  BY <1>1 DEF ClaimInv, DownInv, PcscInv
<1>8. BoundInv' /\ RelInv' /\ SesInv'
  <2>1. BoundInv'
    BY <1>4 DEF BoundInv
  <2>2. RelInv'
    BY <1>2, Nothings, OwnersAre DEF RelInv
  <2>3. SesInv'
    BY <1>2, Nothings DEF SesInv, Nothing
  <2> QED BY <2>1, <2>2, <2>3
<1>9. ImpInv' /\ LnInv' /\ ReaderFree'
  BY <1>1, Nothings DEF ImpInv, LnInv, ReaderFree
<1> QED BY <1>3, <1>6, <1>7, <1>8, <1>9 DEF IInv

(* Startup has every claim that is left to release, and kills the daemon.  *)
LEMMA StartupInv == ASSUME IInv, Startup PROVE IInv'
<1> DEFINE g == [NoRel EXCEPT !.todo = claim]
<1>1. /\ ~up /\ up' = TRUE /\ pcscd' = FALSE /\ rel' = [rel EXCEPT ![0] = g]
      /\ UNCHANGED <<dev, drv, claim, ses, latest, ln, imp, torn, kept>>
  BY DEF Startup, Gives, kernel, faults
<1>2. g \in RelType /\ g.todo = claim /\ g.next = "unbind"
  BY DEF NoRel, RelType, IInv, TypeInv
<1> HIDE DEF g
<1>3. /\ ses = [s \in Sessions |-> NoSes] /\ imp = NoImp /\ rel = [o \in Owners |-> NoRel]
      /\ latest = 0 /\ ln = 0
  BY <1>1 DEF IInv, DownInv
<1>4. /\ rel'[0] = g /\ \A s \in Sessions : rel'[s] = NoRel
      /\ \A s \in Sessions : ses'[s] = NoSes
  BY <1>1, <1>3, OwnersAre
<1>5. /\ \A q : ~Binding(q) /\ ~Binding(q)'
      /\ \A q : ~Between(q)'
      /\ \A t \in Sessions, q \in Ports : ~Own(t, q)' /\ ~Holds(t, q)'
      /\ \A q : ~Past(0, q)'
  <2>1. \A q : ~Binding(q) /\ ~Binding(q)'
    BY <1>1, <1>3, Nothings DEF Binding
  <2>2. \A q : ~Between(q)'
    BY <1>2, <1>4, Nothings, OwnersAre DEF Between
  <2>3. \A t \in Sessions, q \in Ports : ~Own(t, q)'
    BY <1>4, Nothings DEF Own
  <2>4. \A q : ~Past(0, q)'
    BY <1>2, <1>4 DEF Past
  <2> QED BY <2>1, <2>2, <2>3, <2>4 DEF Holds
<1>6. TypeInv'
  BY <1>1, <1>2, OwnersAre DEF IInv, TypeInv
<1>7. KernelInv'
  <2>1. \A o \in Owners : rel[o].todo = {}
    BY <1>3, Nothings
  <2>2. \A q \in claim : \E u \in Owners : q \in rel'[u].todo
    BY <1>2, <1>4, OwnersAre
  <2> QED BY <1>1, <1>5, <2>1, <2>2 DEF IInv, KernelInv, Loose
<1>8. ClaimInv' /\ DownInv' /\ PcscInv'
  BY <1>1, <1>2, <1>4, <1>5 DEF ClaimInv, DownInv, PcscInv
<1>9. BoundInv' /\ SesInv'
  <2>1. BoundInv'
    BY <1>5 DEF BoundInv
  <2>2. SesInv'
    BY <1>4, Nothings DEF SesInv, Nothing
  <2> QED BY <2>1, <2>2
<1>10. RelInv'
  <2>1. \A o \in Owners : rel'[o].next = "unbind"
    BY <1>2, <1>4, Nothings, OwnersAre
  <2> QED BY <1>1, <1>2, <1>3, <1>4, <2>1, Nothings DEF RelInv
<1>11. ImpInv' /\ LnInv' /\ ReaderFree'
  BY <1>1, <1>3, Nothings DEF ImpInv, LnInv, ReaderFree
<1> QED BY <1>6, <1>7, <1>8, <1>9, <1>10, <1>11 DEF IInv

(* Every step keeps the invariant.                                         *)
LEMMA NextInv == IInv /\ [Next]_vars => IInv'
<1> SUFFICES ASSUME IInv, [Next]_vars PROVE IInv'
  OBVIOUS
<1>1. CASE UNCHANGED vars
  <2>1. /\ UNCHANGED <<dev, drv, claim, torn, kept, up, ses, latest, ln, imp, rel>>
        /\ UNCHANGED <<pcscd, cmd>>
    BY <1>1 DEF vars, kernel, pcsc, faults
  <2>2. PcscInv' /\ ReaderFree'
    BY <2>1 DEF IInv, PcscInv, ReaderFree
  <2> QED BY <2>1, <2>2, RestKept DEF IInv
<1>2. CASE Next
  BY <1>2, PlugInv, PcscExitsInv, BeginInv, ConnInv, CheckCloseInv, UnbindInv, DelMatchInv,
     RebindInv, OfferInv, BindInv, MatchInv, BindHostInv, CrashInv, StartupInv, Zenon
     DEF Next, ImportSteps, Release
<1> QED BY <1>1, <1>2

(* The invariant holds of every behaviour of the kiosk and its devices.    *)
LEMMA AlwaysIInv == Spec => []IInv
  BY InitInv, NextInv, PTL DEF Spec

(* However sessions, imports, releases, plugs and crashes interleave, and  *)
(* whichever of their writes fail: when the last session has ended, and    *)
(* after a restart, each device is back at its own driver and no port is   *)
(* claimed, but the ones such a failure, a death between two writes or a   *)
(* device put in between two left so (Close, release, bind, ReleaseStale). *)
THEOREM DevicesGivenBack == Spec => []GivenBack
<1>1. IInv => GivenBack
  BY InvImplies
<1> QED BY <1>1, AlwaysIInv, PTL

(* No PC/SC daemon holds the readers that the latest session exports       *)
(* (Begin, startPCSC, stopPCSC, Startup).                                  *)
THEOREM ReadersFree == Spec => []ReaderFree
<1>1. IInv => ReaderFree
  BY InvImplies
<1> QED BY <1>1, AlwaysIInv, PTL
=============================================================================
