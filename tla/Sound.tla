-------------------------------- MODULE Sound --------------------------------
(***************************************************************************)
(* A session's sound in the built-in client: rdpsnd plays what the server  *)
(* sends and confirms it (internal/rdpsnd), the dynamic channel            *)
(* AUDIO_INPUT records (internal/dvc), both through the kiosk's one Sink   *)
(* (internal/audio: sink.go, pcm.go), and shutdown ends them               *)
(* (internal/rdp/client.go: New, shutdown).                                *)
(*                                                                         *)
(* A session's reader goroutine processes what the server sends, one PDU   *)
(* at a time; playLoop, another, plays blocks from a queue; shutdown runs  *)
(* on the reader or, at Ctrl+Alt+End, next to it.  A session counts as     *)
(* ended before shutdown has come to the sound, so the next one may be up  *)
(* by then, and the last one's blocks still playing.  Nobody tells the     *)
(* reader: it goes on with the server's PDUs until the connection is       *)
(* closed, by Close after shutdown, or cut, be it with the session still   *)
(* up; which here is a server that sends no more.                          *)
(*                                                                         *)
(* Abstractions: a block is its number, and comes whole, be it in one PDU  *)
(* or two; so does a message on the dynamic channel; the samples and the   *)
(* format have no part here but for whether they can be played; aplay and  *)
(* arecord run or do not.  The server is external: it sends no sound       *)
(* before it has agreed on formats, and no block under a number it is owed *)
(* the confirmation of.                                                    *)
(***************************************************************************)
EXTENDS Naturals, Sequences

CONSTANTS
  Sessions,   \* bound: the sessions there are, one after the other, from 1
  Blocks,     \* block numbers: 256 in the protocol
  Queue       \* room in queue: 64 in the code

ASSUME SessionsAssumption == Sessions \subseteq Nat \ {0}
ASSUME QueueAssumption == Queue \in Nat \ {0}

VARIABLES
  life,    \* life[s]: "none", "up", then shutdown's place: "dvc", "mic", "over"
  rdr,     \* rdr[s]: the reader: "idle", in Input.Start, or in shutdown ("down")
  snd,     \* snd[s]: a Channel of rdpsnd
  play,    \* play[s]: playLoop and the block it plays
  owed,    \* owed[s]: blocks the server of a session that is up waits for the confirmation of
  dyn,     \* dyn[s]: whether AUDIO_INPUT is open
  out,     \* Output: whether aplay runs
  rec,     \* the sessions whose arecord runs
  cmd,     \* Input.cmd: the session whose arecord Stop would end, 0 for none
  late     \* for the properties: a reader was at the microphone when its session
           \* ended, or went to it afterwards

vars == <<life, rdr, snd, play, owed, dyn, out, rec, cmd, late>>

NoSnd == [queue |-> <<>>, closed |-> FALSE]
NoPlay == [pc |-> "none", b |-> 0]

Init ==
  /\ life = [s \in Sessions |-> "none"] /\ rdr = [s \in Sessions |-> "idle"]
  /\ snd = [s \in Sessions |-> NoSnd] /\ play = [s \in Sessions |-> NoPlay]
  /\ owed = [s \in Sessions |-> {}] /\ dyn = [s \in Sessions |-> FALSE]
  /\ out = FALSE /\ rec = {} /\ cmd = 0 /\ late = FALSE
-----------------------------------------------------------------------------
(* New; the session before has ended as far as the UI knows.               *)
Begin(s) ==
  /\ life[s] = "none" /\ \A t \in Sessions : t < s => life[t] \notin {"none", "up"}
  /\ life' = [life EXCEPT ![s] = "up"]
  /\ UNCHANGED <<rdr, snd, play, owed, dyn, out, rec, cmd, late>>

(* The reader is there for a PDU, its session ended or not.                *)
Reads(s) == life[s] # "none" /\ rdr[s] = "idle"
-----------------------------------------------------------------------------
(* rdpsnd: Process                                                         *)

other == <<life, rdr, dyn, rec, cmd, late>>

(* onFormats starts playLoop, once.                                        *)
OnFormats(s) ==
  /\ Reads(s) /\ play[s].pc = "none"
  /\ play' = [play EXCEPT ![s].pc = "wait"]
  /\ UNCHANGED <<snd, owed, out>> /\ UNCHANGED other

(* BlocksConfirmed: a block there is no room for is dropped.               *)
EnqueueMutant(s, b) ==
  IF snd[s].closed THEN UNCHANGED <<snd, owed>>
  ELSE /\ snd' = [snd EXCEPT ![s].queue = IF Len(@) = Queue THEN @ ELSE Append(@, b)]
       /\ owed' = [owed EXCEPT ![s] = @ \cup {b}]

(* enqueue: a block there is no room for is confirmed at once; one for a   *)
(* session that is over is lost.                                           *)
Enqueue(s, b) ==
  IF snd[s].closed \/ Len(snd[s].queue) = Queue THEN UNCHANGED <<snd, owed>>
  ELSE /\ snd' = [snd EXCEPT ![s].queue = Append(@, b)]
       /\ owed' = [owed EXCEPT ![s] = @ \cup {b}]

(* onWave2; onWaveInfo and finishWave                                      *)
OnWave(s, b) ==
  /\ Reads(s) /\ play[s].pc # "none" /\ b \notin owed[s]
  /\ Enqueue(s, b)
  /\ UNCHANGED <<play, out>> /\ UNCHANGED other

(* The server's end of a stream.                                           *)
OnClose(s) ==
  /\ Reads(s) /\ play[s].pc # "none" /\ out
  /\ out' = FALSE
  /\ UNCHANGED <<snd, play, owed>> /\ UNCHANGED other
-----------------------------------------------------------------------------
(* playLoop                                                                *)

Take(s) ==
  /\ play[s].pc = "wait" /\ snd[s].queue # <<>>
  /\ snd' = [snd EXCEPT ![s].queue = Tail(@)]
  /\ play' = [play EXCEPT ![s] = [pc |-> "play", b |-> Head(snd[s].queue)]]
  /\ UNCHANGED <<owed, out>> /\ UNCHANGED other

(* Output.Play: aplay is started unless it runs as it should, which may    *)
(* fail; a write that fails stops it.                                      *)
OutputPlay == out' \in BOOLEAN

(* Sink.Play: with no card to play on, nothing.                            *)
SinkPlay == UNCHANGED out \/ OutputPlay

(* A block in a format that was not offered is passed over.  Then confirm. *)
Play(s) ==
  /\ play[s].pc = "play"
  /\ UNCHANGED out \/ SinkPlay
  /\ owed' = [owed EXCEPT ![s] = @ \ {play[s].b}]
  /\ play' = [play EXCEPT ![s] = [pc |-> "wait", b |-> 0]]
  /\ UNCHANGED snd /\ UNCHANGED other

(* SoundFreed: the device stays with the last block's player.              *)
PlayEndsMutant(s) ==
  /\ play[s].pc = "wait" /\ snd[s].queue = <<>> /\ snd[s].closed
  /\ play' = [play EXCEPT ![s].pc = "gone"]
  /\ UNCHANGED <<snd, owed, out>> /\ UNCHANGED other

PlayEnds(s) ==
  /\ play[s].pc = "wait" /\ snd[s].queue = <<>> /\ snd[s].closed
  /\ out' = FALSE
  /\ play' = [play EXCEPT ![s].pc = "gone"]
  /\ UNCHANGED <<snd, owed>> /\ UNCHANGED other
-----------------------------------------------------------------------------
(* dvc: Process, and AudioInput's Data                                     *)

sound == <<life, snd, play, owed, out>>

(* Input.Stop                                                              *)
StopRec == rec' = rec \ {cmd} /\ cmd' = 0

Create(s) ==
  /\ Reads(s) /\ ~dyn[s]
  /\ dyn' = [dyn EXCEPT ![s] = TRUE]
  /\ UNCHANGED <<rdr, rec, cmd, late>> /\ UNCHANGED sound

(* A message for an open channel, whole.                                   *)
Message(s) == Reads(s) /\ dyn[s]

(* Mic.Start, where there is a microphone: Input.Start stops what runs,    *)
(* starts arecord, which may fail, and only then takes the lock.           *)
MicStart(s) ==
  /\ StopRec
  /\ \E ok \in BOOLEAN : rdr' = [rdr EXCEPT ![s] = IF ok THEN "start" ELSE "idle"]

(* One that opens the microphone or changes its format (startFormat).      *)
Data(s) ==
  /\ Message(s)
  /\ MicStart(s)
  /\ late' = (late \/ life[s] # "up")
  /\ UNCHANGED dyn /\ UNCHANGED sound

StartRuns(s) ==
  /\ rdr[s] = "start" /\ rec' = rec \cup {s}
  /\ rdr' = [rdr EXCEPT ![s] = "store"]
  /\ UNCHANGED <<dyn, cmd, late>> /\ UNCHANGED sound

StartStores(s) ==
  /\ rdr[s] = "store" /\ cmd' = s
  /\ rdr' = [rdr EXCEPT ![s] = "idle"]
  /\ UNCHANGED <<dyn, rec, late>> /\ UNCHANGED sound

(* The server closes the channel.                                          *)
DynClose(s) ==
  /\ Reads(s) /\ dyn[s]
  /\ dyn' = [dyn EXCEPT ![s] = FALSE] /\ StopRec
  /\ UNCHANGED <<rdr, late>> /\ UNCHANGED sound
-----------------------------------------------------------------------------
(* shutdown: on the reader, after an error, or next to it.  done and the   *)
(* queue are closed; CloseAll takes the open channels, and closes them.    *)
(* What the reader opens after that nobody closes.                         *)

Shutdown(s) ==
  /\ life[s] = "up"
  /\ life' = [life EXCEPT ![s] = "dvc"] /\ owed' = [owed EXCEPT ![s] = {}]
  /\ snd' = [snd EXCEPT ![s].closed = TRUE]
  /\ late' = (late \/ rdr[s] \in {"start", "store"})
  /\ \/ UNCHANGED rdr
     \/ Reads(s) /\ rdr' = [rdr EXCEPT ![s] = "down"]
  /\ UNCHANGED <<play, dyn, out, rec, cmd>>

(* After an error that is not the connection's, the reader reads on.       *)
ShutdownEnds(s) ==
  /\ life' = [life EXCEPT ![s] = "over"]
  /\ rdr' = [rdr EXCEPT ![s] = IF @ = "down" THEN "idle" ELSE @]

CloseAll(s) ==
  /\ life[s] = "dvc"
  /\ IF dyn[s] THEN life' = [life EXCEPT ![s] = "mic"] /\ UNCHANGED rdr
     ELSE ShutdownEnds(s)
  /\ dyn' = [dyn EXCEPT ![s] = FALSE]
  /\ UNCHANGED <<snd, play, owed, out, rec, cmd, late>>

CloseMic(s) ==
  /\ life[s] = "mic" /\ StopRec /\ ShutdownEnds(s)
  /\ UNCHANGED <<snd, play, owed, dyn, out, late>>

Server(s) == \/ OnFormats(s) \/ OnClose(s) \/ \E b \in Blocks : OnWave(s, b)
             \/ Create(s) \/ Data(s) \/ DynClose(s)
PlayLoop(s) == Take(s) \/ Play(s) \/ PlayEnds(s)
Start(s) == StartRuns(s) \/ StartStores(s)
Closing(s) == CloseAll(s) \/ CloseMic(s)

Next == \E s \in Sessions :
          \/ Begin(s) \/ Server(s) \/ PlayLoop(s) \/ Start(s)
          \/ Shutdown(s) \/ Closing(s)

Spec == Init /\ [][Next]_vars

(* The kiosk's goroutines go on, and the card takes the sound it is given. *)
FairSpec ==
  /\ Spec
  /\ \A s \in Sessions : WF_vars(PlayLoop(s)) /\ WF_vars(Start(s)) /\ WF_vars(Closing(s))
-----------------------------------------------------------------------------
(* A server is never "owed confirmations" for good while its session is    *)
(* up: every block, in one PDU or two, with room in the queue or none, is  *)
(* confirmed in the end (enqueue, playLoop).                               *)
Owed(b) == \E s \in Sessions : b \in owed[s]
BlocksConfirmed == \A b \in Blocks : Owed(b) ~> ~Owed(b)

Over == \A s \in Sessions : life[s] \in {"none", "over"}

(* closeChannels "stops sound playback and recording when the session      *)
(* ends": with no session left the speakers are free, once the blocks that *)
(* were queued have played, and so is the microphone, unless a reader was  *)
(* at it when its session ended or was sent to it afterwards, by a server  *)
(* that did not know yet (shutdown, playLoop, CloseAll, Process).          *)
SoundFreed == Over ~> (~Over \/ (~out /\ (rec = {} \/ late)))
=============================================================================
