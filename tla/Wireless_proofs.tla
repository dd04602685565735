-------------------------- MODULE Wireless_proofs ----------------------------
(***************************************************************************)
(* What joining, keeping and forgetting wireless networks guarantees for   *)
(* any networks, keys, faults and number of goroutines that take turns:    *)
(* the kiosk comes to rest with the network it keeps, and keeps only the   *)
(* network that wpa_supplicant was seen to be on.                          *)
(***************************************************************************)
EXTENDS Wireless, TLAPS

TypeInv ==
  /\ run \in Config /\ disk \in Config
  /\ supp \in Config /\ link \in {"off", "on", "rejected"}
  /\ kept \in Config /\ joining \in Config /\ prev \in Config
  /\ gen \in Nat /\ poll \in PollType
  /\ job \in [Jobs -> JobType]

(* A poll began in this generation or an earlier one.                      *)
GenInv == poll.gen <= gen

(* How far a goroutine has come, by what it has written so far.  kept is   *)
(* the network to go back to until join's goroutine has ended well.        *)
JobOk(i) ==
  /\ job[i].kind # "none"
  /\ job[i].kind = "join" =>
       /\ job[i].pc \in {"use", "apply", "undo", "ok", "err"}
       /\ job[i].c # None /\ job[i].back = kept /\ disk = kept
       /\ job[i].pc \in {"apply", "ok"} => run = job[i].c
       /\ job[i].pc = "ok" => supp = job[i].c
       /\ job[i].pc = "err" => run = kept
  /\ job[i].kind = "back" =>
       /\ job[i].pc \in {"use", "apply"}
       /\ job[i].c = kept /\ disk = kept
       /\ job[i].pc = "apply" => run = kept
  /\ job[i].kind = "keep" =>
       /\ job[i].pc \in {"use", "disk"}
       /\ job[i].c = kept /\ run = kept
  /\ job[i].kind = "forget" =>
       /\ job[i].pc \in {"use", "disk", "apply", "ok"}
       /\ job[i].c = None
       /\ job[i].pc # "use" => run = None
       /\ job[i].pc \in {"apply", "ok"} => disk = None

(* As long as the goroutines take turns there is one at a time, and none   *)
(* while a network is being watched.                                       *)
OneJob == clean => \A i, j \in Jobs : job[i] # NoJob /\ job[j] # NoJob => i = j
JobInv == clean => \A i \in Jobs : job[i] # NoJob => joining = None /\ JobOk(i)

(* With none, the kiosk runs with the network it keeps, or is watching one *)
(* that wpa_supplicant has read, with the kept one to go back to.          *)
Rest == /\ disk = kept
        /\ joining = None => run = kept
        /\ joining # None => run = joining /\ supp = joining /\ prev = kept
RestInv == clean /\ (\A i \in Jobs : job[i] = NoJob) => Rest

(* A poll that still counts has read the network being watched.            *)
ReadInv == clean /\ poll.pc = "read" /\ poll.gen = gen /\ joining # None => poll.of = joining

IInv == TypeInv /\ GenInv /\ OneJob /\ JobInv /\ RestInv /\ ReadInv
-----------------------------------------------------------------------------
(* What there is at first is of its type.                                  *)
LEMMA Nothings ==
  /\ None \in Config /\ NoJob \in JobType /\ NoPoll \in PollType
  /\ NoJob.kind = "none" /\ NoJob.pc = "none"
  /\ NoPoll.pc = "none" /\ NoPoll.gen = 0
  /\ \A c \in Network : c \in Config /\ c # None
  <1>1. None \in Config BY DEF Config
  <1>2. NoStatus \in Status BY DEF NoStatus, Status
  <1>3. \A c \in Network : c \in Config /\ c # None
    <2> SUFFICES ASSUME NEW c \in Network PROVE c \in Config /\ c # None OBVIOUS
    <2>1. c.ssid # "" BY NamesAssumption DEF Network
    <2>2. None.ssid = "" BY DEF None
    <2> QED BY <2>1, <2>2 DEF Config
  <1> QED BY <1>1, <1>2, <1>3 DEF NoJob, JobType, NoPoll, PollType

(* The kiosk starts with the network it keeps.                             *)
LEMMA InitInv == Init => IInv
  <1> SUFFICES ASSUME Init PROVE IInv OBVIOUS
  <1> USE Nothings
  <1>1. disk \in Config
    <2>1. \A c \in [ssid : Names, key : Right] : c \in Network BY KeysAssumption DEF Network
    <2> QED BY <2>1 DEF Init, Config
  <1>2. /\ run = disk /\ supp = disk /\ kept = disk /\ joining = None /\ prev = None
        /\ gen = 0 /\ poll = NoPoll /\ job = [i \in Jobs |-> NoJob] /\ link = "off"
    BY DEF Init
  <1>3. TypeInv BY <1>1, <1>2 DEF TypeInv
  <1>4. GenInv /\ ReadInv BY <1>2 DEF GenInv, ReadInv
  <1>5. OneJob /\ JobInv BY <1>2 DEF OneJob, JobInv
  <1>6. RestInv BY <1>2 DEF RestInv, Rest
  <1> QED BY <1>3, <1>4, <1>5, <1>6 DEF IInv

(* The types, one by one.                                                  *)
LEMMA Types ==
  ASSUME IInv
  PROVE  /\ run \in Config /\ disk \in Config /\ supp \in Config
         /\ kept \in Config /\ joining \in Config /\ prev \in Config
         /\ link \in {"off", "on", "rejected"}
         /\ gen \in Nat /\ poll \in PollType /\ poll.gen \in Nat /\ poll.gen <= gen
         /\ job \in [Jobs -> JobType] /\ \A i \in Jobs : job[i] \in JobType
  BY DEF IInv, TypeInv, GenInv, PollType

(* As long as they take turns, a goroutine under way is the only one.      *)
LEMMA OnlyJob ==
  ASSUME IInv, clean, NEW i \in Jobs, job[i] # NoJob
  PROVE  joining = None /\ JobOk(i) /\ \A j \in Jobs : j # i => job[j] = NoJob
  BY Zenon DEF IInv, OneJob, JobInv

(* While a network is watched there is none.                               *)
LEMMA WatchedRests ==
  ASSUME IInv, clean, joining # None
  PROVE  Rest /\ \A j \in Jobs : job[j] = NoJob
  BY Zenon DEF IInv, JobInv, RestInv

(* A goroutine that begins, goes on or ends as r, the only one if they     *)
(* take turns.                                                             *)
LEMMA JobStep ==
  ASSUME IInv, NEW i \in Jobs, NEW r \in JobType, job' = [job EXCEPT ![i] = r],
         clean' => \A j \in Jobs : j # i => job[j] = NoJob,
         clean' /\ r # NoJob => joining' = None /\ JobOk(i)',
         clean' /\ r = NoJob => Rest',
         run' \in Config, disk' \in Config, supp' \in Config, link' \in {"off", "on", "rejected"},
         kept' \in Config, joining' \in Config, prev' \in Config, gen' \in Nat,
         poll' \in PollType, poll'.gen <= gen',
         clean' /\ poll'.pc = "read" /\ poll'.gen = gen' /\ joining' # None => poll'.of = joining'
  PROVE  IInv'
  <1>1. job'[i] = r /\ (\A j \in Jobs : j # i => job'[j] = job[j]) /\ job' \in [Jobs -> JobType]
    BY Types
  <1>2. clean' => \A j \in Jobs : j # i => job'[j] = NoJob BY <1>1, Zenon
  <1>3. OneJob' BY <1>2, Zenon DEF OneJob
  <1>4. JobInv' BY <1>1, <1>2, Zenon DEF JobInv
  <1>5. RestInv' BY <1>1, Zenon DEF RestInv
  <1>6. TypeInv' /\ GenInv' BY <1>1 DEF TypeInv, GenInv
  <1>7. ReadInv' BY Zenon DEF ReadInv
  <1> QED BY <1>3, <1>4, <1>5, <1>6, <1>7 DEF IInv

(* A step that no goroutine of the dialog takes, and that leaves alone     *)
(* what they write.                                                        *)
LEMMA QuietStep ==
  ASSUME IInv, poll' \in PollType, poll'.gen <= gen,
         poll'.pc = "read" => \/ poll'.of = supp
                              \/ poll' = poll,
         link' \in {"off", "on", "rejected"}, clean' => clean,
         UNCHANGED <<run, disk, supp, kept, joining, prev, gen, job>>
  PROVE  IInv'
  <1>1. /\ run' = run /\ disk' = disk /\ supp' = supp /\ kept' = kept /\ joining' = joining
        /\ prev' = prev /\ gen' = gen /\ job' = job
    OBVIOUS
  <1>2. TypeInv' /\ GenInv' BY <1>1, Types DEF TypeInv, GenInv
  <1>3. OneJob' BY <1>1, Zenon DEF IInv, OneJob
  <1>4. JobInv' BY <1>1, Zenon DEF IInv, JobInv, JobOk
  <1>5. RestInv' BY <1>1, Zenon DEF IInv, RestInv, Rest
  <1>6. ReadInv'
    <2> SUFFICES ASSUME clean', poll'.pc = "read", poll'.gen = gen', joining' # None
                 PROVE  poll'.of = joining'
      BY Zenon DEF ReadInv
    <2>1. clean /\ joining # None BY <1>1, Zenon
    <2>2. CASE poll'.of = supp BY <1>1, <2>1, <2>2, WatchedRests, Zenon DEF Rest
    <2>3. CASE poll' = poll BY <1>1, <2>1, <2>3, Zenon DEF IInv, ReadInv
    <2> QED BY <2>2, <2>3
  <1> QED BY <1>2, <1>3, <1>4, <1>5, <1>6 DEF IInv

LEMMA PollsInv ==
  ASSUME IInv, \/ OpenClose \/ PollStart \/ PollRead \/ PollStale \/ PollFollows
               \/ JoinByPasses \/ Associate \/ Drop
  PROVE  IInv'
  <1>1. UNCHANGED <<run, disk, supp, kept, joining, prev, gen, job>>
    BY DEF OpenClose, PollStart, PollRead, PollStale, PollFollows, JoinByPasses, Associate, Drop,
           files, wpa, dialog
  <1>2. clean' => clean
    BY DEF OpenClose, PollStart, PollRead, PollStale, PollFollows, JoinByPasses, Associate, Drop
  <1>3. link' \in {"off", "on", "rejected"}
    BY Types DEF OpenClose, PollStart, PollRead, PollStale, PollFollows, JoinByPasses, Associate,
                 Drop, wpa
  <1>4. CASE OpenClose \/ JoinByPasses \/ Associate \/ Drop
    <2>1. poll' = poll BY <1>4 DEF OpenClose, JoinByPasses, Associate, Drop
    <2> QED BY <1>1, <1>2, <1>3, <2>1, Types, QuietStep
  <1>5. CASE PollStart
    <2>1. poll' = [NoPoll EXCEPT !.pc = "start", !.gen = gen] BY <1>5 DEF PollStart
    <2>2. poll' \in PollType /\ poll'.pc = "start" /\ poll'.gen = gen
      BY <2>1, Nothings, Types DEF PollType
    <2> QED BY <1>1, <1>2, <1>3, <2>2, Types, QuietStep
  <1>6. CASE PollRead
    <2> DEFINE st == [ssid |-> supp.ssid, link |-> link]
    <2>1. poll' = [poll EXCEPT !.pc = "read", !.of = supp, !.status = st] BY <1>6 DEF PollRead
    <2>2. supp.ssid \in Names \cup {""}
      <3>1. CASE supp = None BY <3>1 DEF None
      <3>2. CASE supp \in Network BY <3>2 DEF Network
      <3> QED BY <3>1, <3>2, Types DEF Config
    <2>3. st \in Status BY <2>2, Types DEF Status
    <2> HIDE DEF st
    <2>4. poll' \in PollType /\ poll'.gen = poll.gen /\ poll'.of = supp
      BY <2>1, <2>3, Types DEF PollType
    <2> QED BY <1>1, <1>2, <1>3, <2>4, Types, QuietStep
  <1>7. CASE PollStale \/ PollFollows
    <2>1. poll' = NoPoll BY <1>7 DEF PollStale, PollFollows
    <2>2. 0 <= gen BY Types
    <2> QED BY <1>1, <1>2, <1>3, <2>1, <2>2, Nothings, QuietStep
  <1> QED BY <1>4, <1>5, <1>6, <1>7
-----------------------------------------------------------------------------
(* A goroutine that begins does so alone, or they no longer take turns.    *)
LEMMA SpawnStep ==
  ASSUME NEW i \in Jobs, NEW kind, NEW c, NEW back, Spawn(i, kind, c, back)
  PROVE  /\ clean' => clean /\ \A j \in Jobs : job[j] = NoJob
         /\ job' = [job EXCEPT ![i] = [kind |-> kind, pc |-> "use", c |-> c, back |-> back]]
  <1>1. clean' = (clean /\ \A j \in Jobs : job[j] = NoJob) BY DEF Spawn, Clean
  <1> QED BY <1>1 DEF Spawn

(* join, with no other under way, goes back to what is kept.               *)
LEMMA JoinInv == ASSUME IInv, NEW i \in Jobs, NEW c \in Network, Join(i, c) PROVE IInv'
  <1> DEFINE r == [kind |-> "join", pc |-> "use", c |-> c, back |-> kept]
  <1>1. /\ run' = run /\ disk' = disk /\ supp' = supp /\ link' = link /\ kept' = kept
        /\ prev' = prev /\ poll' = poll /\ joining' = None /\ gen' = gen + 1
    BY DEF Join, files, wpa
  <1>2. /\ clean' => clean /\ \A j \in Jobs : job[j] = NoJob
        /\ job' = [job EXCEPT ![i] = r]
    BY SpawnStep DEF Join
  <1>3. r \in JobType BY Nothings, Types DEF JobType
  <1>4. r # NoJob BY DEF NoJob
  <1>5. job'[i] = r BY <1>2, Types
  <1>6. clean' => JobOk(i)'
    <2>1. clean' => disk = kept BY <1>2, Zenon DEF IInv, RestInv, Rest
    <2>2. c # None BY Nothings
    <2> QED BY <1>1, <1>5, <2>1, <2>2 DEF JobOk
  <1> HIDE DEF r
  <1>7. gen' \in Nat /\ poll'.gen <= gen' BY <1>1, Types
  <1> QED BY <1>1, <1>2, <1>3, <1>4, <1>6, <1>7, Nothings, Types, JobStep

LEMMA ForgetInv == ASSUME IInv, NEW i \in Jobs, Forget(i) PROVE IInv'
  <1> DEFINE r == [kind |-> "forget", pc |-> "use", c |-> None, back |-> None]
  <1>1. /\ run' = run /\ disk' = disk /\ supp' = supp /\ link' = link /\ kept' = kept
        /\ prev' = prev /\ poll' = poll /\ joining' = None /\ gen' = gen + 1
    BY DEF Forget, files, wpa
  <1>2. /\ clean' => clean /\ \A j \in Jobs : job[j] = NoJob
        /\ job' = [job EXCEPT ![i] = r]
    BY SpawnStep DEF Forget
  <1>3. r \in JobType BY Nothings, Types DEF JobType
  <1>4. r # NoJob BY DEF NoJob
  <1>5. job'[i] = r BY <1>2, Types
  <1>6. JobOk(i)' BY <1>5 DEF JobOk
  <1> HIDE DEF r
  <1>7. gen' \in Nat /\ poll'.gen <= gen' BY <1>1, Types
  <1> QED BY <1>1, <1>2, <1>3, <1>4, <1>6, <1>7, Nothings, Types, JobStep

(* keep: what wpa_supplicant runs becomes what is kept.                    *)
LEMMA PollKeepsInv == ASSUME IInv, NEW i \in Jobs, PollKeeps(i) PROVE IInv'
  <1> DEFINE r == [kind |-> "keep", pc |-> "use", c |-> joining, back |-> None]
  <1>1. /\ run' = run /\ disk' = disk /\ supp' = supp /\ link' = link /\ kept' = joining
        /\ prev' = prev /\ poll' = NoPoll /\ joining' = None /\ gen' = gen /\ joining # None
    BY DEF PollKeeps, files, wpa, Watched
  <1>2. /\ clean' => clean /\ \A j \in Jobs : job[j] = NoJob
        /\ job' = [job EXCEPT ![i] = r]
    BY SpawnStep DEF PollKeeps
  <1>3. r \in JobType BY Nothings, Types DEF JobType
  <1>4. r # NoJob BY DEF NoJob
  <1>5. job'[i] = r BY <1>2, Types
  <1>6. clean' => JobOk(i)'
    <2>1. clean' => run = joining BY <1>1, <1>2, Zenon DEF IInv, RestInv, Rest
    <2> QED BY <1>1, <1>5, <2>1 DEF JobOk
  <1> HIDE DEF r
  <1>7. gen' \in Nat /\ poll'.gen <= gen' BY <1>1, Nothings, Types
  <1> QED BY <1>1, <1>2, <1>3, <1>4, <1>6, <1>7, Nothings, Types, JobStep

(* watch gives up: what was there before is what is kept.                  *)
LEMMA PollGivesUpInv == ASSUME IInv, NEW i \in Jobs, PollGivesUp(i) PROVE IInv'
  <1> DEFINE r == [kind |-> "back", pc |-> "use", c |-> prev, back |-> None]
  <1>1. /\ run' = run /\ disk' = disk /\ supp' = supp /\ link' = link /\ kept' = kept
        /\ prev' = prev /\ poll' = NoPoll /\ joining' = None /\ gen' = gen + 1 /\ joining # None
    BY DEF PollGivesUp, files, wpa, Watched
  <1>2. /\ clean' => clean /\ \A j \in Jobs : job[j] = NoJob
        /\ job' = [job EXCEPT ![i] = r]
    BY SpawnStep DEF PollGivesUp
  <1>3. r \in JobType BY Nothings, Types DEF JobType
  <1>4. r # NoJob BY DEF NoJob
  <1>5. job'[i] = r BY <1>2, Types
  <1>6. clean' => JobOk(i)'
    <2>1. clean' => prev = kept /\ disk = kept BY <1>1, <1>2, Zenon DEF IInv, RestInv, Rest
    <2> QED BY <1>1, <1>5, <2>1 DEF JobOk
  <1> HIDE DEF r
  <1>7. gen' \in Nat /\ poll'.gen <= gen' BY <1>1, Nothings, Types
  <1> QED BY <1>1, <1>2, <1>3, <1>4, <1>6, <1>7, Nothings, Types, JobStep
-----------------------------------------------------------------------------
(* The goroutines: i goes on to pc, or ends.                               *)
Fields(i, pc) == /\ job'[i].kind = job[i].kind /\ job'[i].c = job[i].c
                 /\ job'[i].back = job[i].back /\ job'[i].pc = pc

LEMMA GoesOn ==
  ASSUME IInv, NEW i \in Jobs, NEW pc \in {"disk", "apply", "undo", "ok", "err"}, Goes(i, pc)
  PROVE  /\ Fields(i, pc) /\ [job[i] EXCEPT !.pc = pc] \in JobType
         /\ job' = [job EXCEPT ![i] = [job[i] EXCEPT !.pc = pc]]
  <1>1. job' = [job EXCEPT ![i] = [job[i] EXCEPT !.pc = pc]] BY DEF Goes
  <1> QED BY <1>1, Types DEF Fields, JobType

(* One that writes something and goes on.                                  *)
LEMMA WritesStep ==
  ASSUME IInv, NEW i \in Jobs, NEW pc \in {"disk", "apply", "undo", "ok", "err"}, Goes(i, pc),
         job[i].pc # "none", clean' => clean,
         run' \in Config, disk' \in Config, supp' \in Config, link' \in {"off", "on", "rejected"},
         UNCHANGED <<kept, joining, prev, gen, poll>>,
         clean' => JobOk(i)'
  PROVE  IInv'
  <1> DEFINE r == [job[i] EXCEPT !.pc = pc]
  <1>1. r \in JobType /\ job' = [job EXCEPT ![i] = r] BY GoesOn
  <1>2. r # NoJob BY <1>1, GoesOn, Nothings, Types DEF JobType
  <1> HIDE DEF r
  <1>3. job[i] # NoJob BY Nothings
  <1>4. clean' => joining = None /\ \A j \in Jobs : j # i => job[j] = NoJob BY <1>3, OnlyJob, Zenon
  <1>5. /\ kept' = kept /\ joining' = joining /\ prev' = prev /\ gen' = gen /\ poll' = poll
    OBVIOUS
  <1> QED BY <1>1, <1>2, <1>4, <1>5, Types, JobStep

(* One that ends, with nothing being watched.                              *)
LEMMA EndsStep ==
  ASSUME IInv, NEW i \in Jobs, Goes(i, "none"), job[i].pc # "none", clean' => clean,
         run' \in Config, disk' \in Config, supp' \in Config, link' \in {"off", "on", "rejected"},
         kept' \in Config, joining' \in Config, prev' \in Config, poll' = poll,
         (gen' = gen /\ joining' = joining) \/ gen' = gen + 1,
         clean' => Rest'
  PROVE  IInv'
  <1>1. job' = [job EXCEPT ![i] = NoJob] BY DEF Goes
  <1>2. job[i] # NoJob BY Nothings
  <1>3. clean' => joining = None /\ \A j \in Jobs : j # i => job[j] = NoJob BY <1>2, OnlyJob, Zenon
  <1>4. gen' \in Nat /\ poll'.gen <= gen' BY Types
  <1>5. clean' /\ poll'.gen = gen' => joining' = None
    <2>1. CASE gen' = gen /\ joining' = joining BY <1>3, <2>1, Zenon
    <2>2. CASE gen' = gen + 1
      <3>1. poll'.gen # gen' BY <2>2, Types
      <3> QED BY <3>1
    <2> QED BY <2>1, <2>2
  <1> QED BY <1>1, <1>3, <1>4, <1>5, Nothings, Types, JobStep

(* use, and the first half of save.                                        *)
LEMMA WriteInv == ASSUME IInv, NEW i \in Jobs, Write(i) PROVE IInv'
  <1>1. /\ job[i].pc = "use" /\ disk' = disk /\ supp' = supp /\ link' = link
        /\ UNCHANGED <<kept, joining, prev, gen, poll>>
    BY DEF Write, wpa, dialog
  <1>2. job[i].c \in Config BY Types DEF JobType
  <1>3. CASE /\ run' = job[i].c
             /\ Goes(i, IF job[i].kind \in {"keep", "forget"} THEN "disk" ELSE "apply")
             /\ UNCHANGED clean
    <2>1. PICK pc \in {"disk", "apply"} :
            pc = (IF job[i].kind \in {"keep", "forget"} THEN "disk" ELSE "apply")
      OBVIOUS
    <2>2. Goes(i, pc) BY <1>3, <2>1
    <2>3. clean' => clean BY <1>3
    <2>4. clean' => JobOk(i)'
      <3> SUFFICES ASSUME clean' PROVE JobOk(i)' OBVIOUS
      <3>1. JobOk(i) BY <1>1, <2>3, Nothings, OnlyJob
      <3>2. Fields(i, pc) BY <2>2, GoesOn
      <3> QED BY <1>1, <1>3, <2>1, <3>1, <3>2 DEF JobOk, Fields
    <2> QED BY <1>1, <1>2, <1>3, <2>2, <2>3, <2>4, Types, WritesStep
  <1>4. CASE /\ Goes(i, IF job[i].kind \in {"join", "forget"} THEN "err" ELSE "none")
             /\ Clean(FALSE) /\ UNCHANGED run
    <2>1. ~clean' BY <1>4 DEF Clean
    <2>2. CASE Goes(i, "err") BY <1>1, <1>4, <2>1, <2>2, Types, WritesStep
    <2>3. CASE Goes(i, "none") BY <1>1, <1>4, <2>1, <2>3, Types, EndsStep
    <2> QED BY <1>4, <2>2, <2>3
  <1> QED BY <1>3, <1>4, Zenon DEF Write

(* The second half of save.                                                *)
LEMMA PersistInv == ASSUME IInv, NEW i \in Jobs, Persist(i) PROVE IInv'
  <1>1. /\ job[i].pc = "disk" /\ run' = run /\ supp' = supp /\ link' = link
        /\ UNCHANGED <<kept, joining, prev, gen, poll>>
    BY DEF Persist, wpa, dialog
  <1>2. disk' \in Config BY Types DEF Persist, JobType
  <1>3. clean' => clean /\ disk' = job[i].c BY DEF Persist, Clean
  <1>4. CASE job[i].kind = "forget"
    <2>1. Goes(i, "apply") BY <1>4 DEF Persist
    <2>2. clean' => JobOk(i)'
      <3> SUFFICES ASSUME clean' PROVE JobOk(i)' OBVIOUS
      <3>1. JobOk(i) BY <1>1, <1>3, Nothings, OnlyJob
      <3>2. Fields(i, "apply") BY <2>1, GoesOn
      <3> QED BY <1>1, <1>3, <1>4, <3>1, <3>2 DEF JobOk, Fields
    <2> QED BY <1>1, <1>2, <1>3, <2>1, <2>2, Types, WritesStep
  <1>5. CASE job[i].kind # "forget"
    <2>1. Goes(i, "none") BY <1>5 DEF Persist
    <2>2. clean' => Rest'
      <3> SUFFICES ASSUME clean' PROVE Rest' OBVIOUS
      <3>1. JobOk(i) /\ joining = None BY <1>1, <1>3, Nothings, OnlyJob
      <3>2. job[i].kind \in {"none", "join", "back", "keep", "forget"} BY Types DEF JobType
      <3>3. job[i].kind = "keep" BY <1>1, <1>5, <3>1, <3>2 DEF JobOk
      <3> QED BY <1>1, <1>3, <3>1, <3>3 DEF JobOk, Rest
    <2> QED BY <1>1, <1>2, <1>3, <2>1, <2>2, Types, EndsStep
  <1> QED BY <1>4, <1>5

(* apply: wpa_supplicant reads what is in RunPath by then.                 *)
LEMMA ApplyInv == ASSUME IInv, NEW i \in Jobs, Apply(i) PROVE IInv'
  <1>1. /\ job[i].pc = "apply" /\ run' = run /\ disk' = disk /\ supp' = run /\ link' = "off"
        /\ UNCHANGED <<kept, joining, prev, gen, poll>>
    BY DEF Apply, files, dialog
  <1>2. clean' => clean BY DEF Apply
  <1>3. clean' => JobOk(i) /\ joining = None BY <1>1, <1>2, Nothings, OnlyJob
  <1>4. CASE job[i].kind = "back"
    <2>1. Goes(i, "none") BY <1>4 DEF Apply
    <2>2. clean' => Rest' BY <1>1, <1>3, <1>4 DEF JobOk, Rest
    <2> QED BY <1>1, <1>2, <2>1, <2>2, Types, EndsStep
  <1>5. CASE job[i].kind # "back"
    <2>1. Goes(i, "ok") BY <1>5 DEF Apply
    <2>2. Fields(i, "ok") BY <2>1, GoesOn
    <2>3. clean' => JobOk(i)' BY <1>1, <1>3, <1>5, <2>2 DEF JobOk, Fields
    <2> QED BY <1>1, <1>2, <2>1, <2>3, Types, WritesStep
  <1> QED BY <1>4, <1>5

LEMMA ApplyFailsInv == ASSUME IInv, NEW i \in Jobs, ApplyFails(i) PROVE IInv'
  <1>1. /\ job[i].pc = "apply" /\ run' = run /\ disk' = disk /\ supp' = supp /\ link' = link
        /\ UNCHANGED <<kept, joining, prev, gen, poll>>
    BY DEF ApplyFails, files, wpa, dialog
  <1>2. clean' => clean /\ job[i].kind = "join" BY DEF ApplyFails, Clean
  <1>3. clean' => JobOk(i) BY <1>1, <1>2, Nothings, OnlyJob
  <1>4. CASE job[i].kind = "join"
    <2>1. Goes(i, "undo") BY <1>4 DEF ApplyFails
    <2>2. Fields(i, "undo") BY <2>1, GoesOn
    <2>3. clean' => JobOk(i)' BY <1>1, <1>3, <1>4, <2>2 DEF JobOk, Fields
    <2> QED BY <1>1, <1>2, <2>1, <2>3, Types, WritesStep
  <1>5. CASE job[i].kind = "back"
    <2>1. Goes(i, "none") BY <1>5 DEF ApplyFails
    <2>2. ~clean' BY <1>2, <1>5
    <2> QED BY <1>1, <2>1, <2>2, Types, EndsStep
  <1>6. CASE job[i].kind \notin {"join", "back"}
    <2>1. Goes(i, "err") BY <1>6 DEF ApplyFails
    <2>2. ~clean' BY <1>2, <1>6
    <2> QED BY <1>1, <2>1, <2>2, Types, WritesStep
  <1> QED BY <1>4, <1>5, <1>6

(* use(prev), where nothing was told to wpa_supplicant.                    *)
LEMMA UndoInv == ASSUME IInv, NEW i \in Jobs, Undo(i) PROVE IInv'
  <1>1. /\ job[i].pc = "undo" /\ disk' = disk /\ supp' = supp /\ link' = link
        /\ UNCHANGED <<kept, joining, prev, gen, poll>> /\ Goes(i, "err")
    BY DEF Undo, wpa, dialog
  <1>2. \/ run' = job[i].back /\ clean' = clean
        \/ run' = run /\ clean' = FALSE
    BY Zenon DEF Undo, Clean
  <1>3. clean' => clean /\ run' = job[i].back BY <1>2, Zenon
  <1>4. clean' => JobOk(i) BY <1>1, <1>3, Nothings, OnlyJob
  <1>5. Fields(i, "err") BY <1>1, GoesOn
  <1>6. clean' => JobOk(i)' BY <1>1, <1>3, <1>4, <1>5 DEF JobOk, Fields
  <1>7. run' \in Config BY <1>2, Types DEF JobType
  <1> QED BY <1>1, <1>3, <1>6, <1>7, Types, WritesStep

(* From here on the network is watched, in a generation of its own.        *)
LEMMA JoinedInv == ASSUME IInv, NEW i \in Jobs, Joined(i) PROVE IInv'
  <1>1. /\ job[i].kind = "join" /\ job[i].pc = "ok" /\ joining' = job[i].c
        /\ prev' = job[i].back /\ gen' = gen + 1 /\ Goes(i, "none")
        /\ run' = run /\ disk' = disk /\ supp' = supp /\ link' = link /\ kept' = kept
        /\ poll' = poll
    BY DEF Joined, files, wpa
  <1>2. clean' => clean BY DEF Joined
  <1>3. clean' => JobOk(i) BY <1>1, <1>2, Nothings, OnlyJob
  <1>4. clean' => Rest' BY <1>1, <1>3 DEF JobOk, Rest
  <1>5. joining' \in Config /\ prev' \in Config BY <1>1, Types DEF JobType
  <1> QED BY <1>1, <1>2, <1>4, <1>5, Types, EndsStep

LEMMA ForgottenInv == ASSUME IInv, NEW i \in Jobs, Forgotten(i) PROVE IInv'
  <1>1. /\ job[i].kind = "forget" /\ job[i].pc = "ok" /\ joining' = joining
        /\ prev' = prev /\ gen' = gen + 1 /\ Goes(i, "none")
        /\ run' = run /\ disk' = disk /\ supp' = supp /\ link' = link /\ kept' = None
        /\ poll' = poll
    BY DEF Forgotten, files, wpa
  <1>2. clean' => clean BY DEF Forgotten
  <1>3. clean' => JobOk(i) /\ joining = None BY <1>1, <1>2, Nothings, OnlyJob
  <1>4. clean' => Rest' BY <1>1, <1>3 DEF JobOk, Rest
  <1> QED BY <1>1, <1>2, <1>4, Nothings, Types, EndsStep

LEMMA FailedInv == ASSUME IInv, NEW i \in Jobs, Failed(i) PROVE IInv'
  <1>1. /\ job[i].pc = "err" /\ joining' = joining /\ prev' = prev /\ gen' = gen + 1
        /\ Goes(i, "none") /\ run' = run /\ disk' = disk /\ supp' = supp /\ link' = link
        /\ kept' = kept /\ poll' = poll
    BY DEF Failed, files, wpa
  <1>2. clean' => clean BY DEF Failed
  <1>3. clean' => JobOk(i) /\ joining = None BY <1>1, <1>2, Nothings, OnlyJob
  <1>4. job[i].kind \in {"none", "join", "back", "keep", "forget"} BY Types DEF JobType
  <1>5. clean' => Rest' BY <1>1, <1>3, <1>4 DEF JobOk, Rest
  <1> QED BY <1>1, <1>2, <1>5, Types, EndsStep

(* After a power cut the kiosk keeps what is on the disk.                  *)
LEMMA RestartInv == ASSUME IInv, Restart PROVE IInv'
  <1> USE Nothings
  <1>1. /\ run' = disk /\ disk' = disk /\ supp' = disk /\ link' = "off" /\ kept' = disk
        /\ joining' = None /\ prev' = None /\ gen' = 0 /\ poll' = NoPoll
        /\ job' = [i \in Jobs |-> NoJob]
    BY DEF Restart
  <1>2. TypeInv' BY <1>1, Types DEF TypeInv
  <1>3. GenInv' /\ ReadInv' BY <1>1 DEF GenInv, ReadInv
  <1>4. OneJob' /\ JobInv' BY <1>1 DEF OneJob, JobInv
  <1>5. RestInv' BY <1>1 DEF RestInv, Rest
  <1> QED BY <1>2, <1>3, <1>4, <1>5 DEF IInv
-----------------------------------------------------------------------------
(* Every step keeps the invariant.                                         *)
LEMMA NextInv == ASSUME IInv, [Next]_vars PROVE IInv'
  <1>1. CASE Machine
    BY <1>1, PollsInv, PollKeepsInv, PollGivesUpInv, WriteInv, PersistInv, ApplyInv, ApplyFailsInv,
       UndoInv, JoinedInv, ForgottenInv, FailedInv, Zenon DEF Machine
  <1>2. CASE OpenClose \/ Associate \/ Drop BY <1>2, PollsInv
  <1>3. CASE Restart BY <1>3, RestartInv
  <1>4. ASSUME NEW i \in Jobs, Choose(i) PROVE IInv'
    <2>1. kept \in Network /\ Join(i, kept) BY <1>4, Types DEF Choose, Config
    <2> QED BY <2>1, JoinInv
  <1>5. ASSUME NEW i \in Jobs, NEW c \in Network, Submit(i, c) PROVE IInv'
    BY <1>5, JoinInv DEF Submit
  <1>6. CASE UNCHANGED vars
    <2>1. UNCHANGED <<run, disk, supp, link, kept, joining, prev, gen, poll, job, clean>>
      BY <1>6 DEF vars, files, wpa, dialog
    <2> QED BY <2>1, Types, QuietStep
  <1> QED BY <1>1, <1>2, <1>3, <1>4, <1>5, <1>6, ForgetInv, Zenon DEF Next

LEMMA AlwaysIInv == Spec => []IInv
  BY InitInv, NextInv, PTL DEF Spec

(* "a mistyped password puts the network before it back": at rest, after   *)
(* goroutines that took turns, RunPath and the disk hold the network the   *)
(* dialog says is kept, for any networks and faults (wifi.go: join, watch, *)
(* keep, forget).                                                          *)
THEOREM RestsOnKept == Spec => []Settles
  <1>1. IInv => Settles BY Zenon DEF IInv, RestInv, Rest, Settles, Idle
  <1> QED BY <1>1, AlwaysIInv, PTL

(* "The network is kept only once the kiosk is on it": a poll of an        *)
(* earlier generation, which may have read the network before under the    *)
(* same name, never makes watch keep the one being joined (refreshWifi).   *)
THEOREM KeptWasJoined == Spec => JoinedIsKept
  <1>1. IInv /\ [Next]_vars =>
          [(\E i \in Jobs : PollKeeps(i)) /\ clean => poll.of = joining]_vars
    <2> SUFFICES ASSUME IInv, NEW i \in Jobs, PollKeeps(i), clean PROVE poll.of = joining
      BY Zenon
    <2>1. poll.pc = "read" /\ poll.gen = gen /\ joining # None BY DEF PollKeeps, Watched
    <2> QED BY <2>1, Zenon DEF IInv, ReadInv
  <1> QED BY <1>1, AlwaysIInv, PTL DEF Spec, JoinedIsKept
=============================================================================
