------------------------------ MODULE Wireless -------------------------------
(***************************************************************************)
(* Joining, keeping and forgetting a wireless network (internal/ui/wifi.go *)
(* over internal/wifi).                                                    *)
(*                                                                         *)
(* The dialog never waits: joining, going back to the network before,      *)
(* keeping one and forgetting one are goroutines that write                *)
(* wpa_supplicant's configuration (RunPath), the network kept for the next *)
(* boot, and run sc-net; a poll reads how wpa_supplicant stands, also in   *)
(* the background, and takes the lock to say so.  Busy holds back the keys *)
(* while a network is being joined or forgotten, and not while one is kept *)
(* or gone back to.                                                        *)
(*                                                                         *)
(* Abstractions: a network is a name and a key, right or wrong; a file is  *)
(* replaced whole or not at all; the networks in range and the prompt are  *)
(* left out but for what they end in, a network to join; the kiosk has one *)
(* wireless interface, for good.  wpa_supplicant is external: told to read *)
(* its configuration it leaves the network it was on, and joins the        *)
(* configured one if the key is right.                                     *)
(***************************************************************************)
EXTENDS Naturals

CONSTANTS
  Names,     \* the networks there are
  Keys,      \* what may be typed as a password
  Right,     \* the keys that let the kiosk in
  Jobs,      \* bound: goroutines of the dialog under way, numbered from 1
  Faults,    \* of {"write", "disk", "apply"}: what may fail
  MaxActs    \* bound: networks joined or forgotten, and restarts

ASSUME NamesAssumption == "" \notin Names /\ Names # {}
ASSUME KeysAssumption == Right \subseteq Keys
ASSUME JobsAssumption == Jobs \subseteq Nat \ {0}
ASSUME FaultsAssumption == Faults \subseteq {"write", "disk", "apply"} /\ MaxActs \in Nat

VARIABLES
  run,      \* RunPath: the configuration wpa_supplicant reads
  disk,     \* the network kept for the next boot
  supp,     \* external: the configuration wpa_supplicant has read
  link,     \* external: "off", "on" the network, or "rejected" by it
  kept,     \* w.Kept
  joining,  \* w.Joining
  prev,     \* w.Prev
  late,     \* whether w.JoinBy has passed
  status,   \* w.Status
  busy,     \* w.Busy
  gen,      \* w.gen
  open,     \* whether the wireless dialog or the network settings are up
  poll,     \* the poll under way; polling is whether there is one
  job,      \* job[i]: a goroutine of join, watch (back), keep or forget
  acts,     \* how many of MaxActs have happened
  clean     \* for the properties: see Clean

files == <<run, disk>>
wpa == <<supp, link>>
dialog == <<kept, joining, prev, late, status, busy, gen>>
vars == <<files, wpa, dialog, open, poll, job, acts, clean>>

Network == [ssid : Names, key : Keys]
None == [ssid |-> "", key |-> ""]
Config == Network \cup {None}
Status == [ssid : Names \cup {""}, link : {"off", "on", "rejected"}]
NoStatus == [ssid |-> "", link |-> "off"]

(* A poll holds the generation it began in, and what it has read; of is    *)
(* there for the properties: what wpa_supplicant was running then.         *)
NoPoll == [pc |-> "none", gen |-> 0, status |-> NoStatus, of |-> None]
PollType == [pc : {"none", "start", "read"}, gen : Nat, status : Status, of : Config]

(* A goroutine writes c, keeps it, applies it, and ends well or badly;     *)
(* "undo" puts the network before back in RunPath.                         *)
NoJob == [kind |-> "none", pc |-> "none", c |-> None, back |-> None]
JobType == [kind : {"none", "join", "back", "keep", "forget"},
            pc : {"none", "use", "disk", "apply", "undo", "ok", "err"}, c : Config, back : Config]

Init ==
  /\ disk \in {None} \cup [ssid : Names, key : Right]
  /\ run = disk /\ supp = disk /\ link = "off"
  /\ kept = disk /\ joining = None /\ prev = None /\ late = FALSE
  /\ status = NoStatus /\ busy = FALSE /\ gen = 0
  /\ open = FALSE
  /\ poll = NoPoll
  /\ job = [i \in Jobs |-> NoJob]
  /\ acts = 0 /\ clean = TRUE

Act == acts < MaxActs /\ acts' = acts + 1

(* Clean: no goroutine was started while another was under way, and        *)
(* nothing failed that is not put right.                                   *)
Clean(b) == clean' = (clean /\ b)

(* go func() *)
Spawn(i, kind, c, back) ==
  /\ job[i] = NoJob /\ \A j \in Jobs : j < i => job[j] # NoJob
  /\ Clean(\A j \in Jobs : job[j] = NoJob)
  /\ job' = [job EXCEPT ![i] = [kind |-> kind, pc |-> "use", c |-> c, back |-> back]]

-----------------------------------------------------------------------------
(* The dialog, under the lock.                                             *)

OpenClose == /\ open' = ~open /\ (open => ~busy)
             /\ UNCHANGED <<files, wpa, dialog, poll, job, acts, clean>>

(* w.on *)
On(s, ssid) == s.link = "on" /\ s.ssid = ssid

(* A key or a click counts on the dialog unless it is busy.                *)
Free == open /\ ~busy

Join(i, c) ==
  /\ Act
  /\ Spawn(i, "join", c, kept)
  /\ busy' = TRUE /\ joining' = None /\ gen' = gen + 1
  /\ UNCHANGED <<files, wpa, kept, prev, late, status, open, poll>>

(* choose: the kept network, picked from the list, is joined with its own  *)
(* key unless the kiosk is on it; any other asks for what it takes.        *)
Choose(i) == Free /\ kept # None /\ ~On(status, kept.ssid) /\ Join(i, kept)

(* submit: what was typed for a network of the list, or for a hidden one,  *)
(* whose name may be the kept one's too.                                   *)
Submit(i, c) == Free /\ Join(i, c)

(* forget *)
Forget(i) ==
  /\ Free /\ kept # None /\ Act
  /\ Spawn(i, "forget", None, None)
  /\ busy' = TRUE /\ joining' = None /\ gen' = gen + 1
  /\ UNCHANGED <<files, wpa, kept, prev, late, status, open, poll>>

(* refreshWifi *)
PollStart ==
  /\ poll.pc = "none" /\ (open \/ joining # None)
  /\ poll' = [NoPoll EXCEPT !.pc = "start", !.gen = gen]
  /\ UNCHANGED <<files, wpa, dialog, open, job, acts, clean>>

(* wifi.Current; without an answer the status stays as it was.             *)
PollRead ==
  /\ poll.pc = "start"
  /\ poll' = [poll EXCEPT !.pc = "read", !.of = supp,
                          !.status = [ssid |-> supp.ssid, link |-> link]]
  /\ UNCHANGED <<files, wpa, dialog, open, job, acts, clean>>

(* JoiningEnds: polling is not reset on the way out.                       *)
PollStaleMutant ==
  /\ poll.pc = "read" /\ poll.gen # gen
  /\ UNCHANGED vars

(* Read before a change it would undo: the next poll is not.               *)
PollStale ==
  /\ poll.pc = "read" /\ poll.gen # gen
  /\ poll' = NoPoll
  /\ UNCHANGED <<files, wpa, dialog, open, job, acts, clean>>

Watched == joining # None /\ ~busy

(* Nothing to follow, or the network is still being joined.                *)
PollFollows ==
  /\ poll.pc = "read" /\ poll.gen = gen
  /\ ~Watched \/ (~On(poll.status, joining.ssid) /\ poll.status.link # "rejected" /\ ~late)
  /\ poll' = NoPoll /\ status' = poll.status
  /\ UNCHANGED <<files, wpa, kept, joining, prev, late, busy, gen, open, job, acts, clean>>

(* watch and keep: the kiosk is on the network, which is kept from now on. *)
PollKeeps(i) ==
  /\ poll.pc = "read" /\ poll.gen = gen
  /\ Watched /\ On(poll.status, joining.ssid)
  /\ poll' = NoPoll /\ status' = poll.status
  /\ kept' = joining /\ joining' = None
  /\ Spawn(i, "keep", joining, None)
  /\ UNCHANGED <<files, wpa, prev, late, busy, gen, open, acts>>

(* Settles: the network before is not put back.                            *)
PollGivesUpMutant(i) ==
  /\ poll.pc = "read" /\ poll.gen = gen
  /\ Watched /\ ~On(poll.status, joining.ssid) /\ (poll.status.link = "rejected" \/ late)
  /\ poll' = NoPoll /\ status' = poll.status
  /\ joining' = None /\ gen' = gen + 1
  /\ UNCHANGED <<files, wpa, kept, prev, late, busy, open, job, acts, clean>>

(* watch: rejected or out of time; the network before it is put back.      *)
PollGivesUp(i) ==
  /\ poll.pc = "read" /\ poll.gen = gen
  /\ Watched /\ ~On(poll.status, joining.ssid) /\ (poll.status.link = "rejected" \/ late)
  /\ poll' = NoPoll /\ status' = poll.status
  /\ joining' = None /\ gen' = gen + 1
  /\ Spawn(i, "back", prev, None)
  /\ UNCHANGED <<files, wpa, kept, prev, late, busy, open, acts>>

JoinByPasses ==
  /\ joining # None /\ ~late /\ late' = TRUE
  /\ UNCHANGED <<files, wpa, kept, joining, prev, status, busy, gen, open, poll, job, acts, clean>>
-----------------------------------------------------------------------------
(* The goroutines, without it.                                             *)

Goes(i, pc) == job' = [job EXCEPT ![i] = IF pc = "none" THEN NoJob ELSE [@ EXCEPT !.pc = pc]]

(* wifi.Use, and the first half of wifi.Save *)
Write(i) ==
  /\ job[i].pc = "use"
  /\ \/ /\ run' = job[i].c
        /\ Goes(i, IF job[i].kind \in {"keep", "forget"} THEN "disk" ELSE "apply")
        /\ UNCHANGED clean
     \/ /\ "write" \in Faults
        /\ Goes(i, IF job[i].kind \in {"join", "forget"} THEN "err" ELSE "none")
        /\ Clean(FALSE)
        /\ UNCHANGED run
  /\ UNCHANGED <<disk, wpa, dialog, open, poll, acts>>

(* The second half of wifi.Save; that it could not keep it is no error.    *)
Persist(i) ==
  /\ job[i].pc = "disk"
  /\ \/ disk' = job[i].c /\ UNCHANGED clean
     \/ "disk" \in Faults /\ Clean(FALSE) /\ UNCHANGED disk
  /\ Goes(i, IF job[i].kind = "forget" THEN "apply" ELSE "none")
  /\ UNCHANGED <<run, wpa, dialog, open, poll, acts>>

(* wifi.Apply: wpa_supplicant reads RunPath, as it is by then.             *)
Apply(i) ==
  /\ job[i].pc = "apply"
  /\ supp' = run /\ link' = "off"
  /\ Goes(i, IF job[i].kind = "back" THEN "none" ELSE "ok")
  /\ UNCHANGED <<files, dialog, open, poll, acts, clean>>

ApplyFails(i) ==
  /\ job[i].pc = "apply" /\ "apply" \in Faults
  /\ Goes(i, CASE job[i].kind = "back" -> "none" [] job[i].kind = "join" -> "undo" [] OTHER -> "err")
  /\ Clean(job[i].kind = "join")
  /\ UNCHANGED <<files, wpa, dialog, open, poll, acts>>

(* join, its apply failed: use(prev), whose own error nobody looks at.     *)
Undo(i) ==
  /\ job[i].pc = "undo"
  /\ \/ run' = job[i].back /\ UNCHANGED clean
     \/ "write" \in Faults /\ Clean(FALSE) /\ UNCHANGED run
  /\ Goes(i, "err")
  /\ UNCHANGED <<disk, wpa, dialog, open, poll, acts>>

(* JoinedIsKept: a poll that began before wpa_supplicant was told counts.  *)
JoinedMutant(i) ==
  /\ job[i].kind = "join" /\ job[i].pc = "ok"
  /\ joining' = job[i].c /\ prev' = job[i].back /\ late' = FALSE
  /\ status' = NoStatus /\ busy' = FALSE
  /\ Goes(i, "none")
  /\ UNCHANGED <<files, wpa, kept, gen, open, poll, acts, clean>>

(* The end of join's goroutine *)
Joined(i) ==
  /\ job[i].kind = "join" /\ job[i].pc = "ok"
  /\ joining' = job[i].c /\ prev' = job[i].back /\ late' = FALSE
  /\ status' = NoStatus /\ busy' = FALSE /\ gen' = gen + 1
  /\ Goes(i, "none")
  /\ UNCHANGED <<files, wpa, kept, open, poll, acts, clean>>

(* The end of forget's goroutine *)
Forgotten(i) ==
  /\ job[i].kind = "forget" /\ job[i].pc = "ok"
  /\ kept' = None /\ status' = NoStatus /\ busy' = FALSE /\ gen' = gen + 1
  /\ Goes(i, "none")
  /\ UNCHANGED <<files, wpa, joining, prev, late, open, poll, acts, clean>>

(* Either, with an error to show *)
Failed(i) ==
  /\ job[i].pc = "err"
  /\ busy' = FALSE /\ gen' = gen + 1
  /\ Goes(i, "none")
  /\ UNCHANGED <<files, wpa, kept, joining, prev, late, status, open, poll, acts, clean>>
-----------------------------------------------------------------------------
(* external: wpa_supplicant and the network.                               *)
Associate ==
  /\ supp # None /\ link = "off"
  /\ link' = IF supp.key \in Right THEN "on" ELSE "rejected"
  /\ UNCHANGED <<files, supp, dialog, open, poll, job, acts, clean>>

Drop == /\ link = "on" /\ link' = "off" /\ Act
        /\ UNCHANGED <<files, supp, dialog, open, poll, job, clean>>

(* A power cut: /init puts the kept network back in RunPath.               *)
Restart ==
  /\ Act
  /\ run' = disk /\ supp' = disk /\ link' = "off"
  /\ kept' = disk /\ joining' = None /\ prev' = None /\ late' = FALSE
  /\ status' = NoStatus /\ busy' = FALSE /\ gen' = 0
  /\ open' = FALSE /\ poll' = NoPoll /\ job' = [i \in Jobs |-> NoJob]
  /\ UNCHANGED <<disk, clean>>

Machine ==
  \/ PollStart \/ PollRead \/ PollStale \/ PollFollows \/ JoinByPasses
  \/ \E i \in Jobs : \/ PollKeeps(i) \/ PollGivesUp(i)
                     \/ Write(i) \/ Persist(i) \/ Apply(i) \/ ApplyFails(i) \/ Undo(i)
                     \/ Joined(i) \/ Forgotten(i) \/ Failed(i)

Next ==
  \/ Machine
  \/ OpenClose
  \/ \E i \in Jobs : Choose(i) \/ Forget(i) \/ \E c \in Network : Submit(i, c)
  \/ Associate \/ Drop \/ Restart

Spec == Init /\ [][Next]_vars

(* The loop ticks, goroutines run on and the clock goes; wpa_supplicant,   *)
(* the network and the people at the kiosk owe nothing.                    *)
FairSpec ==
  /\ Spec
  /\ WF_vars(PollStart) /\ WF_vars(PollRead) /\ WF_vars(JoinByPasses)
  /\ WF_vars(PollStale \/ PollFollows \/ \E i \in Jobs : PollKeeps(i) \/ PollGivesUp(i))
  /\ \A i \in Jobs : /\ WF_vars(Write(i)) /\ WF_vars(Persist(i))
                     /\ WF_vars(Apply(i) \/ ApplyFails(i)) /\ WF_vars(Undo(i))
                     /\ WF_vars(Joined(i) \/ Forgotten(i) \/ Failed(i))
-----------------------------------------------------------------------------
Idle == joining = None /\ \A i \in Jobs : job[i] = NoJob

(* "The network is kept only once the kiosk is on it": with the dialog's   *)
(* goroutines one at a time, watch never takes what a poll read of the     *)
(* network before for the one being joined, though it goes by the name     *)
(* alone and the name may be the same (refreshWifi's gen, join).           *)
JoinedIsKept ==
  [][(\E i \in Jobs : PollKeeps(i)) /\ clean => poll.of = joining]_vars

(* "a mistyped password puts the network before it back": once nothing is  *)
(* under way, and the goroutines took turns, the kiosk runs with the       *)
(* network it keeps and keeps it for the next boot, whatever was joined,   *)
(* rejected, timed out, failed to be applied, forgotten or cut off by the  *)
(* power in between (join, watch, keep, forget).                           *)
Settles == Idle /\ clean => run = kept /\ disk = kept

(* A network being joined is kept or given up on in the end, with the      *)
(* dialog closed too (watch, refreshWifi, the wireless ticker).            *)
JoiningEnds == joining # None ~> joining = None
=============================================================================
