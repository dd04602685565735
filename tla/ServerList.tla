----------------------------- MODULE ServerList ------------------------------
(***************************************************************************)
(* The server list and the scan that fills it (internal/scanner,           *)
(* internal/domain, internal/ui: state.go, loop.go, netdialog.go).         *)
(*                                                                         *)
(* A scan is a goroutine that hands an address to a worker at a time, at   *)
(* most Workers of them at once, and tells the UI loop on a channel of     *)
(* Buffer events what they find.  F5 and the network ticker cancel the     *)
(* scan under way and start another without waiting for the first: its     *)
(* goroutines go on with a channel nobody reads.  The network settings     *)
(* are saved and applied by a goroutine too, which changes the port that   *)
(* is scanned and asks for a new scan by forgetting the subnet.            *)
(*                                                                         *)
(* Abstractions: an address is a number, a host its address and its port   *)
(* as the code writes it (0 for 3389); whether a host answers is free each *)
(* time; names, latencies and the progress bar are left out, and so is the *)
(* scanner's own map of hosts, which nothing reads.  The screens other     *)
(* than the list and the network dialogs are one, "other".                 *)
(***************************************************************************)
EXTENDS Integers, Sequences, FiniteSets

CONSTANTS
  Expand,    \* ExpandCIDR: the addresses of a subnet, "" being none at all
  Typed,     \* the hosts typed in, configured or saved
  Fields,    \* what the port field may hold; 0 is empty
  Scans,     \* bound: scans whose goroutines are still about
  Saves,     \* bound: network settings being saved at a time
  Workers,   \* concurrency: 256 in the code
  Buffer,    \* the event channel's size: 64 in the code
  Every,     \* workers between two progress events: 10 in the code
  MaxRows,   \* rows of the list on the screen
  MaxActs    \* bound: F5, saves and changes of the network, together

DefaultRDPPort == 3389
Subnets == DOMAIN Expand

ASSUME ExpandAssumption == /\ "" \in Subnets /\ Expand[""] = <<>>
                           /\ \A c \in Subnets : Expand[c] \in Seq(Nat)
ASSUME TypedAssumption == \A h \in Typed : h = <<h[1], h[2]>>
ASSUME FieldsAssumption == Fields \subseteq Nat
ASSUME ScansAssumption == Scans \subseteq Nat \ {0} /\ Scans # {}
ASSUME BoundsAssumption == /\ Workers \in Nat \ {0} /\ Buffer \in Nat \ {0}
                           /\ Every \in Nat \ {0} /\ MaxRows \in Nat \ {0} /\ MaxActs \in Nat

VARIABLES
  hosts,      \* state.Hosts
  found,      \* state.found: endpoints
  kept,       \* state.kept: endpoints
  sel,        \* state.SelectedIdx
  scroll,     \* state.ScrollOffset
  subnet,     \* state.Subnet
  scanPort,   \* state.ScanPort
  done,       \* state.ScanDone
  screen,     \* state.Screen
  busy,       \* state.Net.Busy
  save,       \* save[v]: saveNetwork's goroutine v
  scan,       \* scan[s]: the goroutines and the channel of scan s
  scanCh,     \* the scan whose channel Run reads, 0 for nil
  lan,        \* external: what DetectCIDR finds now
  acts        \* how many of MaxActs have happened

list == <<hosts, found, kept, sel, scroll>>
vars == <<list, subnet, scanPort, done, screen, busy, save, scan, scanCh, lan, acts>>

Ports == {0} \cup {p \in Fields : p <= 65535} \cup {h[2] : h \in Typed}
Scanned == UNION {{Expand[c][i] : i \in DOMAIN Expand[c]} : c \in Subnets}
Known == {h[1] : h \in Typed}
Host == (Scanned \cup Known) \X Ports

(* Host.AddrRDP: the endpoint.  Same compares two of them.                 *)
AddrRDP(h) == <<h[1], IF h[2] = 0 THEN DefaultRDPPort ELSE h[2]>>
Same(h, o) == AddrRDP(h) = AddrRDP(o)
Endpoints(hs) == {AddrRDP(hs[i]) : i \in DOMAIN hs}

(* ParsePort: empty, or 3389, is 0; past 65535 is an error.                *)
ParsePort(f) == IF f = DefaultRDPPort THEN 0 ELSE f
BadPort(f) == f > 65535

Event == [type : {"found"}, host : Host] \cup [type : {"progress", "complete"}]

(* A scan's goroutine: "check" and "acquire" are the two selects before a  *)
(* worker is started, "wait" is wg.Wait and the send after it.  hits is    *)
(* there for the properties: what the scan that is read has sent.          *)
NoScan == [loop |-> "none", cidr |-> "", port |-> 0, next |-> 1, busy |-> {}, scanned |-> 0,
           ch |-> <<>>, cancelled |-> FALSE, hits |-> {}]
NoSave == [st |-> "none", port |-> 0, saved |-> FALSE]

NewScan(c, p) == [NoScan EXCEPT !.loop = "check", !.cidr = c, !.port = ParsePort(p)]

-----------------------------------------------------------------------------
(* UIState: the list.                                                      *)

Clamp(n, lo, hi) == IF n < lo THEN lo ELSE IF n > hi THEN hi ELSE n
Top(hs) == IF hs = <<>> THEN 0 ELSE Len(hs) - 1

(* Where h is in the list, by endpoint, or one past its end.               *)
IndexOf(hs, h) == IF AddrRDP(h) \in Endpoints(hs)
                  THEN (CHOOSE i \in DOMAIN hs : Same(hs[i], h)) - 1
                  ELSE Len(hs)

(* A host already listed keeps its row; a scan replaces the record.        *)
Put(hs, h, replace) ==
  IF IndexOf(hs, h) = Len(hs) THEN Append(hs, h)
  ELSE IF replace THEN [hs EXCEPT ![IndexOf(hs, h) + 1] = h] ELSE hs

(* SelectedHost, for a list that is not empty.                             *)
SelectedHost == hosts[Clamp(sel, 0, Top(hosts)) + 1]

VisibleHosts ==
  LET start == IF scroll < 0 THEN 0 ELSE scroll
      end == IF start + MaxRows > Len(hosts) THEN Len(hosts) ELSE start + MaxRows
  IN  SubSeq(hosts, start + 1, end)

(* UIState.AddHost *)
AddHost(h) ==
  /\ kept' = kept \cup {AddrRDP(h)}
  /\ hosts' = Put(hosts, h, FALSE)

(* ListMatchesScan: a host already in the list is not marked as found.     *)
HostFoundMutant(h) ==
  /\ hosts' = Put(hosts, h, TRUE)
  /\ found' = IF IndexOf(hosts, h) = Len(hosts) THEN found \cup {AddrRDP(h)} ELSE found
  /\ UNCHANGED <<kept, sel, scroll, done>>

(* HandleScanEvent, a host found *)
HostFound(h) ==
  /\ hosts' = Put(hosts, h, TRUE)
  /\ found' = found \cup {AddrRDP(h)}
  /\ UNCHANGED <<kept, sel, scroll, done>>

(* The rows of hs whose endpoints are in eps, in the order they had.       *)
Rows(hs, eps) == {i \in DOMAIN hs : AddrRDP(hs[i]) \in eps}
UpTo(rows, i) == Cardinality({j \in rows : j <= i})
Staying(hs, eps) ==
  LET rows == Rows(hs, eps)
  IN  [k \in 1..Cardinality(rows) |-> hs[CHOOSE i \in rows : UpTo(rows, i) = k]]

(* dropUnfound: the cursor stays on its host, or on its row when that went. *)
DropUnfound ==
  LET stay == found \cup kept
      rest == Staying(hosts, stay)
      row == IF hosts # <<>> /\ AddrRDP(SelectedHost) \in stay THEN IndexOf(rest, SelectedHost) ELSE sel
  IN  /\ hosts' = rest
      /\ found' = {}
      /\ sel' = Clamp(row, 0, Top(rest))
      /\ scroll' = Clamp(scroll, 0, sel')
      /\ UNCHANGED kept

(* HandleScanEvent, the end of the scan *)
ScanComplete == done' = TRUE /\ DropUnfound

(* UIState.Rescan *)
Rescan == /\ found' = {} /\ done' = FALSE
          /\ UNCHANGED <<hosts, kept, sel, scroll>>
-----------------------------------------------------------------------------
(* The UI loop.                                                            *)

(* NetworkScanner.Start, after the context of the last one is cancelled:   *)
(* the scans nobody reads any more go on until they notice.                *)
Start(s, cidr, port) ==
  /\ scan[s].loop \in {"none", "closed"}
  /\ \A t \in Scans : t < s => scan[t].loop \notin {"none", "closed"}
  /\ scan' = [t \in Scans |-> IF t = s THEN NewScan(cidr, port)
                              ELSE IF scan[t].loop \in {"none", "closed"} THEN NoScan
                              ELSE [scan[t] EXCEPT !.cancelled = TRUE, !.hits = {}]]
  /\ scanCh' = s

Init ==
  /\ hosts \in {<<>>} \cup {<<h>> : h \in Typed}
  /\ found = {} /\ kept = Endpoints(hosts)
  /\ sel = 0 /\ scroll = 0
  /\ lan \in Subnets
  /\ subnet = lan
  /\ scanPort = 0
  /\ done = FALSE
  /\ screen = "list"
  /\ busy = FALSE
  /\ save = [v \in Saves |-> NoSave]
  /\ LET s == CHOOSE t \in Scans : \A u \in Scans : t <= u
     IN  /\ scan = [t \in Scans |-> IF t = s THEN NewScan(lan, 0) ELSE NoScan]
         /\ scanCh = s
  /\ acts = 0

Act == acts < MaxActs /\ acts' = acts + 1

(* An event of the scan that Run reads; none of the others is ever read.   *)
ReadEvent ==
  /\ scanCh # 0 /\ scan[scanCh].ch # <<>>
  /\ LET ev == Head(scan[scanCh].ch)
     IN  CASE ev.type = "found" -> HostFound(ev.host)
           [] ev.type = "complete" -> ScanComplete
           [] OTHER -> UNCHANGED <<list, done>>
  /\ scan' = [scan EXCEPT ![scanCh].ch = Tail(@)]
  /\ UNCHANGED <<subnet, scanPort, screen, busy, save, scanCh, lan, acts>>

(* A closed channel is not read again.                                     *)
ReadClosed ==
  /\ scanCh # 0 /\ scan[scanCh].loop = "closed" /\ scan[scanCh].ch = <<>>
  /\ scan' = [scan EXCEPT ![scanCh] = NoScan]
  /\ scanCh' = 0
  /\ UNCHANGED <<list, subnet, scanPort, done, screen, busy, save, lan, acts>>

(* F5 *)
F5(s) ==
  /\ screen = "list" /\ Act
  /\ Rescan
  /\ subnet' = lan
  /\ Start(s, lan, scanPort)
  /\ UNCHANGED <<scanPort, screen, busy, save, lan>>

(* PortRespected: the late scan goes on from what the last one found.      *)
NetTickerMutant(s) ==
  /\ subnet \in {"", "ll"} /\ screen \in {"list", "network"}
  /\ lan \notin {"", subnet}
  /\ done' = FALSE /\ UNCHANGED list
  /\ subnet' = lan
  /\ Start(s, lan, scanPort)
  /\ UNCHANGED <<scanPort, screen, busy, save, lan, acts>>

(* The network ticker: an address that came late, or settings just saved.  *)
NetTicker(s) ==
  /\ subnet \in {"", "ll"} /\ screen \in {"list", "network"}
  /\ lan \notin {"", subnet}
  /\ Rescan
  /\ subnet' = lan
  /\ Start(s, lan, scanPort)
  /\ UNCHANGED <<scanPort, screen, busy, save, lan, acts>>

(* MoveSelection, from the arrow and page keys and the wheel *)
MoveSelection(delta) ==
  /\ screen = "list"
  /\ sel' = IF sel + delta >= Len(hosts) THEN Len(hosts) - 1
            ELSE IF sel + delta < 0 THEN 0 ELSE sel + delta
  /\ LET up == IF sel' < scroll THEN sel' ELSE scroll
     IN  scroll' = IF sel' >= up + MaxRows THEN sel' - MaxRows + 1 ELSE up
  /\ UNCHANGED <<hosts, found, kept, subnet, scanPort, done, screen, busy, save, scan, scanCh,
                 lan, acts>>

(* What a click on a row of the list selects.                              *)
ClickAt(row) == scroll + row

(* handleMouseClick on the list; the second click in a row opens the dialog. *)
Click(row, double) ==
  /\ screen = "list" /\ row < Len(VisibleHosts)
  /\ ClickAt(row) \in 0..(Len(hosts) - 1)
  /\ sel' = ClickAt(row)
  /\ screen' = IF double THEN "other" ELSE screen
  /\ UNCHANGED <<hosts, found, kept, scroll, subnet, scanPort, done, busy, save, scan, scanCh,
                 lan, acts>>

(* F4, F7, F9, or Enter on a server: away from the list.                   *)
Leave == /\ screen = "list" /\ screen' = "other"
         /\ UNCHANGED <<list, subnet, scanPort, done, busy, save, scan, scanCh, lan, acts>>

(* connect: the server in the dialog, typed in or picked from the list,    *)
(* joins it.                                                               *)
Connect(h) ==
  /\ screen = "other"
  /\ AddHost(h)
  /\ sel' = IndexOf(hosts, h)
  /\ UNCHANGED <<found, scroll, subnet, scanPort, done, screen, busy, save, scan, scanCh, lan, acts>>

(* Back to the list: a dialog closed, or the tail of a connection, which   *)
(* closes a dialog that has come up meanwhile.                             *)
Home(tail) ==
  /\ screen # "list" /\ (screen = "network" /\ busy => tail)
  /\ screen' = "list"
  /\ UNCHANGED <<list, subnet, scanPort, done, busy, save, scan, scanCh, lan, acts>>
-----------------------------------------------------------------------------
(* The network settings (F8).                                              *)

OpenNetwork ==
  /\ screen = "list" /\ screen' = "network"
  /\ busy' = FALSE
  /\ UNCHANGED <<list, subnet, scanPort, done, save, scan, scanCh, lan, acts>>

(* saveNetwork: fields that do not make settings are refused at once.      *)
SaveNetwork(v, f) ==
  /\ screen = "network" /\ ~busy /\ ~BadPort(f)
  /\ save[v] = NoSave /\ Act
  /\ busy' = TRUE
  /\ save' = [save EXCEPT ![v] = [st |-> "saving", port |-> ParsePort(f), saved |-> FALSE]]
  /\ UNCHANGED <<list, subnet, scanPort, done, screen, scan, scanCh, lan>>

(* netconf.Save, and Apply when that worked: sc-net may bring up another   *)
(* address, or none.                                                       *)
Applied(v, saved, c) ==
  /\ save[v].st = "saving"
  /\ save' = [save EXCEPT ![v].st = "applied", ![v].saved = saved]
  /\ lan' = IF saved THEN c ELSE lan
  /\ UNCHANGED <<list, subnet, scanPort, done, screen, busy, scan, scanCh, acts>>

(* WindowInList: the scrolled window stays where it was.                   *)
SavedMutant(v) ==
  /\ save[v].st = "applied"
  /\ save' = [save EXCEPT ![v] = NoSave]
  /\ busy' = FALSE
  /\ IF save[v].saved /\ save[v].port # scanPort
     THEN /\ scanPort' = save[v].port
          /\ hosts' = <<>> /\ UNCHANGED <<sel, scroll>>
     ELSE UNCHANGED <<scanPort, hosts, sel, scroll>>
  /\ subnet' = "" /\ done' = FALSE
  /\ UNCHANGED <<found, kept, screen, scan, scanCh, lan, acts>>

(* ScanSettles: the new scan is left to be asked for with F5.              *)
SavedSilentMutant(v) ==
  /\ save[v].st = "applied"
  /\ save' = [save EXCEPT ![v] = NoSave]
  /\ busy' = FALSE
  /\ IF save[v].saved /\ save[v].port # scanPort
     THEN /\ scanPort' = save[v].port
          /\ hosts' = <<>> /\ sel' = 0 /\ scroll' = 0
     ELSE UNCHANGED <<scanPort, hosts, sel, scroll>>
  /\ done' = FALSE
  /\ UNCHANGED <<found, kept, subnet, screen, scan, scanCh, lan, acts>>

(* The end of saveNetwork's goroutine: another port starts the list        *)
(* afresh, and no subnet asks the network ticker for a scan.               *)
Saved(v) ==
  /\ save[v].st = "applied"
  /\ save' = [save EXCEPT ![v] = NoSave]
  /\ busy' = FALSE
  /\ IF save[v].saved /\ save[v].port # scanPort
     THEN /\ scanPort' = save[v].port
          /\ hosts' = <<>> /\ sel' = 0 /\ scroll' = 0
     ELSE UNCHANGED <<scanPort, hosts, sel, scroll>>
  /\ subnet' = "" /\ done' = FALSE
  /\ UNCHANGED <<found, kept, screen, scan, scanCh, lan, acts>>

(* external: a cable, a lease, a wireless network.                         *)
LanChanges(c) ==
  /\ Act /\ c # lan /\ lan' = c
  /\ UNCHANGED <<list, subnet, scanPort, done, screen, busy, save, scan, scanCh>>
-----------------------------------------------------------------------------
(* The scan's goroutines.                                                  *)

UI == <<list, subnet, scanPort, done, screen, busy, save, scanCh, lan, acts>>

(* The select before a worker: a scan that is cancelled starts no more.    *)
Check(s) ==
  /\ scan[s].loop = "check"
  /\ scan' = [scan EXCEPT ![s].loop =
                IF scan[s].cancelled \/ scan[s].next > Len(Expand[scan[s].cidr])
                THEN "wait" ELSE "acquire"]
  /\ UNCHANGED UI

(* A place for the worker, or the cancellation while it waits for one; a   *)
(* select with both ready takes either.                                    *)
Acquire(s) ==
  /\ scan[s].loop = "acquire"
  /\ \/ /\ Cardinality(scan[s].busy) < Workers
        /\ scan' = [scan EXCEPT ![s].loop = "check", ![s].next = @ + 1,
                                ![s].busy = @ \cup {Expand[scan[s].cidr][scan[s].next]}]
     \/ /\ scan[s].cancelled
        /\ scan' = [scan EXCEPT ![s].loop = "wait"]
  /\ UNCHANGED UI

Room(ch) == Len(ch) < Buffer

(* A worker: what it found is sent, or dropped once the scan is cancelled; *)
(* progress is dropped when there is no room for it.                       *)
Work(s, ip) ==
  /\ ip \in scan[s].busy
  /\ \E answers, sent \in BOOLEAN :
       LET h == <<ip, scan[s].port>>
           ch == IF sent THEN Append(scan[s].ch, [type |-> "found", host |-> h]) ELSE scan[s].ch
           n == scan[s].scanned + 1
       IN  /\ sent => answers /\ Room(scan[s].ch)
           /\ answers /\ ~sent => scan[s].cancelled
           /\ scan' = [scan EXCEPT
                ![s].busy = @ \ {ip}, ![s].scanned = n,
                ![s].ch = IF n % Every = 0 /\ Room(ch) THEN Append(ch, [type |-> "progress"]) ELSE ch,
                ![s].hits = IF sent /\ scanCh = s THEN @ \cup {AddrRDP(h)} ELSE @]
  /\ UNCHANGED UI

(* The last event waits for room, cancelled or not; then the channel is    *)
(* closed.                                                                 *)
Finish(s) ==
  /\ scan[s].loop = "wait" /\ scan[s].busy = {} /\ Room(scan[s].ch)
  /\ scan' = [scan EXCEPT ![s] =
       IF scanCh = s THEN [scan[s] EXCEPT !.loop = "closed", !.ch = Append(@, [type |-> "complete"])]
       ELSE NoScan]
  /\ UNCHANGED UI

Loop ==
  \/ ReadEvent
  \/ ReadClosed
  \/ \E s \in Scans : NetTicker(s)

Goroutines ==
  \/ \E s \in Scans : Check(s) \/ Acquire(s) \/ Finish(s)
  \/ \E s \in Scans : \E ip \in scan[s].busy : Work(s, ip)
  \/ \E v \in Saves, saved \in BOOLEAN, c \in Subnets : Applied(v, saved, c)
  \/ \E v \in Saves : Saved(v)

People ==
  \/ \E s \in Scans : F5(s)
  \/ \E delta \in {-1, 1, -MaxRows, MaxRows} : MoveSelection(delta)
  \/ \E row \in 0..(MaxRows - 1), double \in BOOLEAN : Click(row, double)
  \/ Leave
  \/ \E h \in Typed : Connect(h)
  \/ \E tail \in BOOLEAN : Home(tail)
  \/ OpenNetwork
  \/ \E v \in Saves, f \in Fields : SaveNetwork(v, f)
  \/ \E c \in Subnets : LanChanges(c)

Next == Loop \/ Goroutines \/ People

Spec == Init /\ [][Next]_vars

(* The loop and the goroutines get their turn, every ready case of the     *)
(* loop's select in the long run; people and the network need not.         *)
FairSpec ==
  /\ Spec
  /\ WF_vars(ReadEvent) /\ WF_vars(ReadClosed) /\ SF_vars(\E s \in Scans : NetTicker(s))
  /\ \A s \in Scans : /\ WF_vars(Check(s)) /\ WF_vars(Acquire(s)) /\ WF_vars(Finish(s))
                      /\ WF_vars(\E ip \in scan[s].busy : Work(s, ip))
  /\ \A v \in Saves : /\ WF_vars(\E saved \in BOOLEAN, c \in Subnets : Applied(v, saved, c))
                      /\ WF_vars(Saved(v))
-----------------------------------------------------------------------------
(* The window never begins past the end of the list, where drawing it      *)
(* would slice out of range: "the first host found would be drawn from a   *)
(* window past the end of the list"; nor is the cursor past it             *)
(* (saveNetwork, dropUnfound, MoveSelection and AddHost against each       *)
(* other).                                                                 *)
WindowInList == scroll <= Top(hosts) /\ sel <= Top(hosts)

(* When a scan ends, what leaves the list is exactly what this scan did    *)
(* not find and nobody put there, whichever scans were cancelled before    *)
(* it, and the cursor is still on its host if that stayed (dropUnfound,    *)
(* Rescan).                                                                *)
ListMatchesScan ==
  [][~done /\ done' =>
       LET told == kept \cup scan[scanCh].hits
       IN  /\ Endpoints(hosts') = Endpoints(hosts) \cap told
           /\ hosts # <<>> /\ AddrRDP(SelectedHost) \in told
              => AddrRDP(SelectedHost') = AddrRDP(SelectedHost)]_vars

(* "A new port starts the list afresh: what is in it was found on the old  *)
(* one": a list that says it is complete for a subnet shows no host of     *)
(* another port that nobody typed in, though the old port's scan goes on   *)
(* filling it after the save (saveNetwork, the network ticker).            *)
PortRespected ==
  subnet # "" /\ done =>
    \A i \in DOMAIN hosts : AddrRDP(hosts[i]) \in kept \cup {AddrRDP(<<hosts[i][1], scanPort>>)}

(* With a network, the list does not say it is scanning for good: every    *)
(* scan that is asked for - at startup, with F5, by saving the settings,   *)
(* by an address that comes late - is made and ends.                       *)
ScanSettles == []<>(done \/ lan = "" \/ screen = "other")
=============================================================================
