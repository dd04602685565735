# A TLA+ model of SimpleClient

SimpleClient is a kiosk that boots from a USB stick or a disk, lists the RDP
servers of its network and puts one of them on the screen. This directory
models the parts of it where several things happen at once and the machine may
lose its power in between: booting and updating a disk install, the screens and
the connections behind them, the server list and its scans, wireless networks,
USB devices and drives, keyboards and pointers, the built-in RDP client and its
sound. TLC checks the models on small instances; TLAPS proves every safety
invariant of the runs, the refinement and the action properties for every value
of the constants.

    tlc -workers 2 -config boot_safety.cfg MCBootUpdate
    tlapm BootUpdate_proofs.tla
    tlapm InputReader_proofs.tla

`PROJECT.json` lists every run, the lines each definition stands for, the
hazards the properties are aimed at and what the runs found.

## The system's parts

| Part | State | Operations | What is hard |
| --- | --- | --- | --- |
| GRUB (`build/grub-disk.cfg`, `slot.cfg`) | `grubenv` on the ESP, two slots | choose slot and kernel, fall back, menu | power lost between two `save_env` |
| `/init` (`build/init`) | the mark in `grubenv` | load the GPU's driver, restart the kiosk | a driver that hangs the machine |
| `bootenv` | `grubenv`, `grub.cfg` | `MarkGood`, `GraphicsTry`, `GraphicsOK`, `RetryGraphics`, `TryOther` | read-change-write by three goroutines, no lock |
| `update` and its dialog | the other slot, `update-try`, `update-failed` | `Install`, `Settle`, `Kept` | cut off half-way, cancelled, tried and failed |
| power dialog (`ui/power.go`) | the choice made | restart, switch off, try the driver | a restart racing what is being written |
| screens and connections (`ui/loop.go`, `ui/state.go`) | `Screen`, `Modal`, `*session` | keys, clicks, ticks; `connect`, `reconnect`, `disconnect` | goroutines that outlive the screen they belong to |
| startup server (`ui/autoconnect.go`) | `Auto`, `unattended`, its file | F10, countdown, `keepAuto` | decided under the lock, saved after it |
| built-in RDP client (`rdp/client.go`) | two queues, `done`, `failed`, the pointer | `New`, `push`, `pump`, `mouseSender`, `Close` | back-pressure, ends, coalescing |
| session engine's client side (`rdp/engine.go`) | a process and its status lines | `StartEngine`, `watch`, `Close` | a process that dies or does not answer |
| server scan and list (`scanner`, `domain`, `ui/state.go`) | hosts, `found`, `kept`, the window, a channel per scan | scan, rescan, select, drop | a cancelled scan whose goroutines go on |
| network settings (`ui/netdialog.go`, `netconf`) | port, address, `Busy` | save, apply | a port changed while a scan runs |
| wireless (`ui/wifi.go`, `wifi`) | the files of the network, the one being joined | join, watch, keep, forget | state read before a wait, used after it |
| USB devices (`usb/session.go`, `usbip.go`) | what is bound, claimed ports, the card reader's daemon | `Begin`, `End`, import, `Check` | hot-plugging, sessions that overlap, a crash |
| drives (`usb/drives.go`) | mounts, failures, verdicts, held disks | `Poll`, `Hold`, `Startup` | media swapped between a look and a mount |
| keyboards and pointers (`inputdev/reader.go`) | open nodes, one channel | hotplug, read, `Close` | a full channel, replugging, a late open |
| sound (`rdpsnd`, `dvc`, `audio`) | a queue of blocks, aplay, arecord | play, confirm, record, close | a queue at its limit, a session's end |
| framebuffer, rendering, engine, installers | | | pixels, texts, C and shell |

They interact through `grubenv` and the slots (everything on the boot path),
through `UIState` under `state.Mu` (the UI loop, every `connect`, every dialog's
goroutine) and through channels (client and painter, scanner and list).

## Modules

    ABSlots                 what an A/B disk install promises
      BootUpdate            GRUB, /init, bootenv, update, power: implements ABSlots
        BootHistory         the same with a record of the boot before
    KioskSession            screens, connections, the startup server
    RdpClient               the built-in client
    ServerList              the list, the scans, the network settings
    Wireless                joining, keeping and forgetting a network
    UsbSession              devices handed to sessions
    Drives                  mounts, and the disk an installation holds
    InputReader             keyboards and pointers, up to the UI loop
    Sound                   a session's playback and recording
    MC...                   instances for TLC
    ..._proofs              theorems about the module of that name, all but
                            Sound; BootHistory's are in BootUpdate_proofs

### BootUpdate

The disk is `env` (grubenv, one field a variable: `boot` is `sc_boot`, `try` is
`sc_try` and so on), `slots`, `loader` (the ESP's `grub.cfg`), `tried` and
`failed` (`update-try`, `update-failed`). It survives `GoDown`; everything else
is lost. `phase` says how far the boot is; `boot` holds the kernel's command
line. There is one action for each part of the script between two `save_env`
commands (`LoadEnv`, `PickSlot`, `BootDefault`, `BootMenu`), one for each of
`/init`'s decisions, and one for each step of a goroutine that another goroutine
or a power cut can come between: `MarkGoodRead` and `MarkGoodWrite` are the two
halves of `bootenv.Modify`, `snap` the copies in between. `ClearSlot` and
`RenameFiles` go file by file, a slot being whole, part of a release, or empty.

What the hardware does is a constant record (`MachineType`): which kernels of
which release load and work, which adapters' driver gives a screen, whether the
firmware leaves a framebuffer. A boot that does not work may die at any time
before it counts as good; a boot may find other adapters than the last.
`Faults` switches on the plug (`Cut`), a crash of the kiosk and failed writes,
after which the file may or may not have changed.

Two assumptions. A write of grubenv's 1 KiB block is atomic. And the
update and power dialogs stay on the screen until they are left: a connection
that was given up with Ctrl+Alt+End and whose goroutine ends only while one of
these dialogs is up would put the list up instead, and an update could be started
twice. That interaction is in `PROJECT.json`'s hazards and in the plan.

`EnvWrite`'s error branch stands for every failure after the file was opened; a
mount that fails leaves the file as it is, which is among its outcomes.
`mgTry` restarts with the kiosk, as `main`'s loop does. In the code the update's
download is minutes long and `MarkGood` comes 20 s after the start, with up to
nine more attempts 30 s apart, so the two do overlap.

### BootHistory

Three history variables that only watch: how this boot came about and whether it
was proven, what the boot before was, and how often in a row an adapter's driver
died. They are for
promises of the kind "a boot that died so is followed by one that does this".

### KioskSession

The UI loop's handlers are single steps, since they run under `state.Mu`.
`conn[c]` is one `connect` goroutine, cut at every place where it does not hold
the lock: reading the dialog, the name's lookup, the dial, the session, the
reconnects, `keep`, the tail. `Transition` is the table of `state.go`, with the
rule that a transition that is not in it is dropped. `save[c]` is the
`sync.Once` around `keep`, which the 30 s timer or `connect` itself runs.
`closing` is the moment between `Client.Close` and the lock in `disconnect`.
`Engine.watch` is there as what it tells: over, lost or rejected; a rejection
comes within `RejectWithin` of a dial, so before the timer in a first session.
`StartEngine` and `New` are the answers a dial can get; `dial` asks the engine
first and falls back to the built-in client only where the engine cannot run,
and only an engine's session can be rejected. `AuthFailed` is what decides
whether a countdown goes on. The dialogs without a connection (F4, F8, F9) are
one screen, and the account is part of the server.

### RdpClient

`New`, grdp's reader with the handlers it calls, the pump, the painter
(`runSession`), `mouseSender`, the UI loop and the goroutine that hangs up. A
`select` with several cases ready takes any of them. grdp's reader is modelled
from the vendored code. `ReadFails` is what it announces: a read of a packet's
header that fails, the server's disconnect, or a PDU a layer cannot take, after
which it may read on. `ReadCut` is what it does not: a read that fails after the
header, or a parser that panics, ends the reader without an event, with the
connection dropped or not (`tpkt.go`, `core/io.go`), and then nothing closes
`done` until the user hangs up. Updates carry numbers, so that what is painted
can be compared with what was sent.

### ServerList

`scan[s]` is a scan: the goroutine that hands addresses out (`Check`, `Acquire`
are its two `select`s), the workers it has busy, the events in its channel.
`scanCh` is the one `Run` reads; `F5` and `NetTicker` cancel it and start
another, and the old one's goroutines go on until their own `select`s see the
cancellation. `HostFound`, `ScanComplete`, `DropUnfound`, `MoveSelection` and
`ClickAt` are the list's own operations, with `sel` and `scroll` as the code
computes them. `SaveNetwork`, `Applied` and `Saved` are the settings' goroutine,
which shares the list. Hosts are an address and a port, written as the code
writes them: 0 and 3389 are the same endpoint and different values. `dropUnfound`'s
loop, which appends the rows that stay, is `Staying`: the k-th row of the new
list is the row with k of those that stay up to it.

### Wireless

`run` and `disk` are the two files, `supp` and `link` wpa_supplicant, which is
external; `job[i]` is a goroutine of `join`, of `watch` going back to the network
before, of `keep` or `forget`, one action for each file it writes or command it
runs. `poll` reads the state of the link without the lock and takes it to say
so; `gen` tells it whether the dialog has moved on. `clean` is for the
properties alone: it holds while the dialog's goroutines have taken turns and no
file failed to be written, which the code only logs.

### UsbSession

`dev`, `drv` and `claim` are the kernel's: what is in a port, which driver has
it, which ports `usbip-host` claims. `ses[s]` is a connection with its
`usb.Session` and `Exporter`; Ctrl+Alt+End does not wait for it (`Hangup`), so
two overlap as in `KioskSession`. `bind` and `release` are three writes to sysfs
each, every one of which may fail, and between which a device may be plugged in
or unplugged and the process may die (`Crash`). `rel[o]` is what `Check`, `Close`
or a failed `bind` of session `o` still has to release, port by port (`Unbind`,
`DelMatch`, `Rebind`), and what `Startup` (`ReleaseStale`, and the daemon's end)
has, for `o = 0`. `release` looks at no error. Two variables mark, for the
properties, what such a fault leaves: `torn` a port whose device was taken
from its driver and did not get it back, or came into the port between
`release`'s first two writes and is `usbip-host`'s since; `kept` a port whose
claim a failed "del" left.

### Drives

`Poll` is cut at everything it reads (a disk's medium, its partitions, whose
disk it is) and, under the lock, between `diskOf` with the look at `held`
(`DiskOf`) and the mount itself (`Mount`); the medium may change in each gap, its
partitions show one by one and it becomes readable later, and the installer
writes new partition tables. `mounts[b]` is this process's own table: the disk
`diskOf` gave for the mount, the medium `Poll` took it for and the one it really
is. `diskOf` gives the partition's own name, which is no disk and never held
(`disk` 0), when the partition does not show at that moment. The kernel's mounts
outlive a process: `Crash` empties the table and puts them in `left`, and
nothing takes them out of there. A medium is plain, the kiosk's own stick or its
image, one that will not mount, or one without partitions.

### InputReader

One reader for each node, `hotplug` with the list it works through, one channel,
and the UI loop that takes from it. `openDevice` is cut between the open and the
lock. `Close` marks the files closed under the lock; the readers end one by one.
A power button is on the list and is passed over. `told` and `down` are what
the loop was told is held and what is held; `astray` are keys that changed while
no file of the kiosk's was open on their device.

### Sound

`snd[s]` and `play[s]` are a session's queue and its `playLoop`, `rdr[s]` the
reader's place in `Input.Start`, which starts `arecord` before it takes the lock
to say so. `life[s]` is `shutdown`'s place. The speakers and the microphone are
the kiosk's, so one session's end and the next one's start meet there. The reader
is not told of the end: `shutdown` comes before the connection is closed, and
neither `rdpsnd` nor `dvc` asks whether the session is over, so the server's PDUs
are still taken. Blocks then find the queue closed; the microphone can be opened
again. `rdr[s]` is "down" while `shutdown` runs on the reader itself, which
may read on afterwards. `late` says, for the properties, that a reader was at
the microphone when its session ended, or came to it later.

## Runs

| Run | Shows | Bounds |
| --- | --- | --- |
| `boot_safety` | `TypeOK`; the slot to come back to is always whole (`ProvenSlotWhole`); GRUB always finds a kernel (`NeverStuck`); `ABSlots` is implemented (`Refinement`) | 2 releases with a GRUB script each, 4 machines, all faults and menu entries, 3 interferences |
| `boot_history` | a failed try falls back, kernels alternate, a driver's death changes neither slot nor kernel, a proven boot is repeated, adapters are left safe only after two deaths | 2 adapter sets, the disk may move between them; 4 machines, one without a framebuffer; 2 interferences |
| `boot_liveness` | the machine comes up again and again (`ComesUp`) | 3 interferences, nobody at the menu |
| `session` | nobody is left on the connecting screen (`ConnectingAttended`, `ConnectingEnds`) or on a dead session (`SessionShown`); one connection at a time, its session on the screen, a countdown with a server (until Ctrl+Alt+End) | 2 connections at a time, 1 redial, 1 Ctrl+Alt+End |
| `rdp_client` | no update is lost or reordered (`NothingLost`), a death that grdp announces is seen as one (`DeadIsFailed`), the painter leaves (`FramesEnd`), the pointer's last position arrives (`PointerArrives`) | 2 updates, queues of 1, 2 positions, 2 moves, 1 press |
| `server_list` | the window and the cursor stay in the list (`WindowInList`); a list that is complete has no host of another port (`PortRespected`) and lost exactly what its scan did not find (`ListMatchesScan`); scans end (`ScanSettles`) | 2 addresses, a link-local net and none, 2 scans and 1 save at a time, 2 workers, a channel and a window of 1, 1 act |
| `wireless` | with nothing under way the kiosk runs and keeps the same network (`Settles`), what is kept is what was joined (`JoinedIsKept`), joining ends (`JoiningEnds`) | 2 networks, 2 keys, 3 goroutines, every fault, 2 acts |
| `usb` | devices come back (`GivenBack`), the card reader is free for an export (`ReaderFree`), a keyboard types here (`KeyboardStays`) | 1 port, a printer and a keyboard, 2 connections at a time, any number of crashes and of failed writes |
| `drives` | this process has nothing mounted of a held disk (`HeldUntouched`), what went is unmounted (`StaleGoes`), what is good is mounted (`GoodMounted`) | 1 disk, 1 partition, 5 kinds of medium, 2 media, 3 attempts, any number of crashes |
| `input` | no release is lost (`NoKeyStuck`), what is plugged in is read (`PluggedIsRead`), `Close` returns (`CloseEnds`) | a keyboard, a pointer and a power button, a channel of 1, 1 event in the kernel |
| `sound` | every block is confirmed (`BlocksConfirmed`), speakers and microphone are let go (`SoundFreed`) | 2 sessions, 2 blocks, a queue of 1 |

Why the bounds are enough. Two releases give an update that works, one that does
not load and one that dies, and the way back from each. `SafeRetryEvery` is 2
instead of 10 and `MarkTries` 1 or 2 instead of 10: each limit is reached and
passed. `MaxEvents` bounds only what people and the plug do, not the boots, which
repeat for as long as they fail; three are enough for an update, a fault while it
is written and one at its first boot. Queues of one are full after one update and
the reader waits at the second. Two connections are the most that matter: the one
on its way out and the one after it. One redial is the first and the last of
`reconnect`'s attempts.

In `server_list` two addresses and a typed host make a list longer than the
window; two scans are the cancelled one and the one that is read, and a channel
of one makes the cancelled one wait. Its one act is a save, an F5 or a change of
the network, on top of the start, the ticker and every key; two acts were not
finished within the time a run is given. In `wireless` two acts are a
join and whatever follows it. In `usb` one port is where a device follows another
one; ports share nothing but the lock. In `drives` the second medium is the one
that takes the first one's place, and the first may fail all its attempts. In
`input` the channel is full after one event and two readers wait for it. In
`sound` the second block finds the queue full.

In `rdp_client`, `input` and `sound` everything may simply be over, and deadlock
is not checked.

Each property has a mutant, a slip the code could have, that TLC finds by it.

### What the code does not keep

`session_live` checks what a comment of `state.go` says, and finds it broken.
After Ctrl+Alt+End a session that ends as lost is dialled again behind the list,
since the way from the list to the connecting screen is not in the table; and an
old connection's tail takes the screen and `*session` from a newer one.
`CountdownHasServer`, `OneConnection` and `LiveUndisturbed` are therefore stated
for a kiosk where nobody has pressed it: with overlapping connections a
countdown can also outlive its startup server, which `openAutoModal`
dereferences.

The models also have the following behaviours, which are the code's, differ from
what is said beside it, and have no run of their own:

- `MarkGood`'s copy of grubenv, read before `TryOther`'s write and written after
  it, takes `sc_try` away (`bootenv.go:92`). The release is then remembered as
  one that did not start, without having been tried. A crash of the kiosk in the
  two seconds before the restart records the same.
- F10 between `keep`'s decision and its save is undone on the disk
  (`loop.go:644`).
- A logoff, or a hang-up of the kiosk's own, counts as failed, since grdp reports
  each end that it notices as an error (`client.go:205`).
- A connection cut in the middle of a packet is noticed by nobody: `tpkt.go`'s
  readers after the header return on an error without a word (189, 200, 211, 224),
  and that is where a parser's panic goes too. The desktop stays, frozen, until
  Ctrl+Alt+End, and `failed` is not set then. `client.go:201` says the UI notices
  such a session "instead of sitting on a frozen desktop", and `core/io.go:18`
  that a panic "must end the session".
- A press can overtake the move before it: `SendMouse` leaves the position to
  `mouseSender`, and the lock orders writes only (`client.go:345`).
- A forgotten wireless network is back on the disk when a `keep` that had
  begun comes after `forget`; `Busy` does not hold it back (`clean`).
- What a process that died had mounted stays mounted: the next one does not know
  of it, so a drive pulled out then is never unmounted, against `drives.go:63`
  (`left`), and `Hold` does not unmount it either.
- A partition that does not show while `diskOf` asks for its disk is mounted
  although that disk is held (`drives.go:158` and 301).
- The microphone stays on when a session ends between arecord's start and the
  moment `Input.Start` notes it, and when the server opens it after `CloseAll`
  (`dvc.go:90`, `client.go:410`): nobody closes that channel any more (`late`).
- A device taken from its driver when the next write of `bind` fails, or the
  process dies there, is left without one until it is plugged in again
  (`torn`). So is one whose rebind fails or does not come (`usbip.go:240`).
- A keyboard plugged in between `release`'s unbind and its "del" is taken by
  `usbip-host`, which does not let go of it: rebind is for devices without a
  driver, and the port is off `bound`. A "del" that fails leaves the claim for
  whatever is plugged in next (`kept`). `usbip.go:198` says a keyboard plugged in
  where a printer was is given back.
- When the way back from a failed join cannot be written either (`wifi.go:369`),
  the error is dropped, and the kiosk is left with the network that failed.

Some properties are narrower than the comment beside the code. A driver that dies
on the first boot of an update does send the next boot back to the old slot
(`DriverTakesTheBlame` leaves out tries): `sc_try` is gone by then. And F4's "try driver"
can write over what `MarkGood` wrote, just as `TryOther` can (`ProvenSticks`
leaves out such a boot). `PointerArrives` leaves out presses, which put the
pointer elsewhere without `mouseSender` knowing. `NoKeyStuck` speaks of devices
that stay: one that is unplugged with a key held takes the release with it.
`Settles` and `JoinedIsKept` leave out goroutines that overlap, for the reason
above, and files that could not be written. `DeadIsFailed` speaks of ends that
grdp announces; `SoundFreed` leaves out a microphone that was being opened at the
end or was opened after it; `GivenBack` and `KeyboardStays` leave out the ports
in `torn` and `kept`, and so every fault of a write; `StaleGoes` leaves out what
a process that died left mounted, and `HeldUntouched` speaks of this process's
mounts and leaves out the partitions `diskOf` did not find. `NoKeyStuck` takes the
kernel's buffer for large enough: when it is not, evdev says `SYN_DROPPED`, which
`reader.go:431` passes over.

### Fairness

Boots, goroutines and the boot loader go on: weak fairness of `Grub`, `Boots`,
`Proves`, `Installs`, `Powers`. It includes someone who switches a dark or hung
machine off and on, without which no kiosk recovers. No fairness is asked of
people's choices, updates or faults; `ComesUp` asks for a firmware framebuffer
and one kernel of the installed release that works.

In `KioskSession` every `connect` goroutine goes on (lookups, dials and saves
have time limits), and so does a session's end once it was asked for: `Close`
kills the engine after three seconds. A session that nobody ends may last.

In `RdpClient` the goroutines are scheduled, and a `select` that always has
`done` among its ready cases takes it some time (`WF_vars(PumpEnds)`); server and
user owe nothing.

In the other modules the goroutines go on in the same way, and people, devices,
servers and the network owe nothing. Strong fairness is asked in three places.
`ServerList`'s ticker is one ready case among others of the loop's `select`,
which takes each of them in the long run. `UsbSession`'s `Check`, `StopServing`
and `Close` wait for a mutex that imports take again and again, and Go's mutex
hands itself over to a waiter that has starved for a millisecond. And
`InputReader`'s `Emit` waits on a channel whose senders are served in the order
they came. `Startup` is fair in `UsbSession` and `Drives`: `/init` starts the
kiosk again whenever it ends.

## Proofs

Eight modules hold theorems, about each of the components above but the sound.
Each is of the form `Spec => []Inv` (or `Spec => [][A]_vars`) for every value of
the constants that the component's own named assumptions allow: positive
capacities and counts, identifiers that are positive numbers, disks that are not
0, a name that is never empty, release 1 with a kernel that loads. The bounds of the runs
(`MaxEvents`, `MaxActs`, `EndKeys`, `Updates`, `MaxMedia`, `Unread` and so on)
are arbitrary numbers there, and so are the sizes of queues and the numbers of
connections, scans, sessions, devices, disks and goroutines.

Every proof has the same shape: an inductive invariant `IInv`, which TLC checked
on an instance before it was proved; a lemma for each action that it preserves
`IInv`; and a last step from `IInv` to the property. (`BootHistory` adds `HInv`
and `GInv` to `BootUpdate`'s `IInv`.)

| Theorem | States |
| --- | --- |
| `BootUpdate_proofs` `TypeCorrect`, `SlotToComeBackTo`, `GrubGoesOn` | `TypeOK`, `ProvenSlotWhole`, `NeverStuck` |
| `BootUpdate_proofs` `Implements` | `Refinement`: `ABSlots` is implemented |
| `BootUpdate_proofs` `UpdateFallsBack`, `KernelsAlternate`, `ProvenIsRepeated` | `TryFallsBack`, `KernelAlternates`, `ProvenSticks`, action properties |
| `BootUpdate_proofs` `DriverIsBlamed`, `TwoDeathsToSafe` | `DriverTakesTheBlame`, `SafeAfterTwo`, action properties, where `"io" \notin Faults` |
| `KioskSession_proofs` `TypeCorrect`, `NobodyLeftConnecting`, `SessionBehindScreen` | `TypeOK`, `ConnectingAttended`, `SessionShown` |
| `KioskSession_proofs` `OneAtATime`, `CountdownSafe`, `LiveSessionShown` | `OneConnection`, `CountdownHasServer`, `LiveUndisturbed` |
| `RdpClient_proofs` `TypeCorrect`, `NoUpdateLost`, `DeadSessionIsLost` | `TypeOK`, `NothingLost`, `DeadIsFailed` |
| `ServerList_proofs` `WindowStays`, `OldPortGone` | `WindowInList`, `PortRespected` |
| `ServerList_proofs` `EndMatchesScan` | `ListMatchesScan`, an action property |
| `Wireless_proofs` `RestsOnKept` | `Settles` |
| `Wireless_proofs` `KeptWasJoined` | `JoinedIsKept`, an action property |
| `UsbSession_proofs` `DevicesGivenBack`, `ReadersFree` | `GivenBack`, `ReaderFree` |
| `Drives_proofs` `HeldDiskUntouched` | `HeldUntouched` |
| `InputReader_proofs` `NoKeyIsStuck` | `NoKeyStuck` |

### Why the invariants need more than the properties say

**BootUpdate.** `ProvenSlotWhole` is not inductive. `Install` clears the other
slot while it runs, so `sc_boot` must not name that slot, then or later. It was
checked once, in `InstallCheck`, and other goroutines write whole old copies of
grubenv meanwhile. `IInv` says why it stays true:

- `Bootable(env.boot)` and `WholeInv`: the slot to come back to is whole, and its
  release has a kernel that loads (this is what `NeverStuck` needs);
- `BootInv`: the slot the machine runs from holds the release that was started,
  whole. `MarkGood` may make it the one to come back to at any time, whatever copy
  it works on, because it sets `sc_boot` itself;
- `UpdInv`: from `InstallCheck` on `sc_boot` names the running slot, and so does
  the copy `TryOther` is about to write;
- `PowerInv`: the copy `RetryGraphics` is about to write comes back to a slot that
  is still bootable, since no update runs beside the power dialog;
- `MenuInv`: GRUB's choice is a slot and a kernel.

`Implements` takes each step to a step of `ABSlots` or to none from `IInv` before
and after it: only `ClearSlot` and `RenameFiles` rewrite a slot, only
`MarkGoodWrite` and `RetryGraphicsWrite` adopt one, only `Start` starts.

**BootHistory.** Its five properties say what one power-on does from what the boot
before was, so the invariant follows grubenv from GRUB's choice through that boot
to the next choice. `HInv` holds whatever fails:

- `CopiesInv`: while the machine runs, grubenv and each copy that a goroutine is
  about to write back are right for a boot that dies now (`Leaves`): the slot an
  unproven update came from, or the pending kernel. An old copy can then do no
  harm, and an update to try is always in the other slot (`TryOK`);
- `RecordInv`: once MarkGood's write is on the disk, grubenv names the running
  slot and kernel, unless an update is to be tried or F4 wrote over it. MarkGood
  writes nothing when its copy is good already, so this also says that grubenv
  then still is;
- `GrubFinds`: at power-on grubenv is what the boot before left, and `kpend` is
  set exactly when that boot left no graphics mark.

`GInv` is about the graphics mark: it is on the disk exactly while its driver
starts (`MarkInv`), `sc_gfxfail` names adapters whose driver died, and a mark that
repeats it a driver that died twice (`DeathInv`); such a boot installed and proved
nothing (`BlameInv`). It needs `"io" \notin Faults`, as in the run: when the write
of the mark reports an error and yet reached the disk, `/init` does not take the
mark away once the driver is up, and the boot counts as one that died in it.

**KioskSession.** `ConnectingAttended` and `SessionShown` are nearly inductive,
for any number of overlapping connections: what they need is that a redial has an
attempt left (`RedialInv`) and that a goroutine that returned left nothing behind
(`NoneInv`). The others hold until Ctrl+Alt+End and need the screen to follow the
connection: `ScreenInv` gives the screens each place of `connect` may be on, from
which `Transition`'s table (`GoesLaws`) lets no second connection begin;
`AutoInv` says that one which the countdown made still has its startup server,
since F10 needs a dialog that cannot be up.

**RdpClient.** `NothingLost` speaks of two queues and the hands of two goroutines
as one sequence; the steps are laws of `Append`, `Tail` and `\o`. `CountInv` keeps
the numbers in range, `CloseInv` orders `done`, the pump's return, the closing of
`frames` and the painter's leaving, and `CauseInv` says what closed `done` on
whom: a client the network ended, announced, is marked as failed, and one that is
not marked was hung up on by the user.

**ServerList.** `WindowInList` needs the length of what `dropUnfound` leaves;
`ListMatchesScan` its elements and the place of the row under the cursor. What
`Staying` computes for every list is proved in `NthRow` and `StayingLaws` by the
least number that would be wrong (`Least`, from the well-foundedness of `<`), in
place of an induction with a predicate as its parameter. `HitsInv` relates the
hosts a scan hit to `found` and to what is still in its channel; `ScansInv` has
the last event last, with the workers done. `PortInv` says that the scan being
read has the port that is set, although the cancelled ones go on sending theirs.

**Wireless.** `Settles` speaks of rest, so `IInv` says how far each goroutine has
come by what it has written (`JobOk`), that there is one at a time while they take
turns (`OneJob`), and what holds when there is none (`RestInv`). `GenInv` and
`ReadInv` say that a poll that still counts has read the network being watched:
that is the action property `JoinedIsKept`.

**UsbSession.** That no port is claimed at the end needs the owner of each claim
at every moment, from the write of "add" to that of "del": a session that has
the port bound, or whose `bind` failed on it, holds it until then (`Own`, `Past`,
`Holds`); an import between its second and third write does, or `ReleaseStale`;
or a fault is to blame (`ClaimInv`). No two sessions hold one port, and no import
is at one that is held (`BoundInv`); that is why a `release` of one does not
undo another's `bind`. `KernelInv` says why a device has no driver, `RelInv` what is to
be released and by whom, `SesInv` that a session with something left to release has
not ended, and `ImpInv` where an import and its session's `closed` stand. `LnInv`
has the one who listens export, `DownInv` and `PcscInv` say that a process that
died has no session and that a daemon which runs is this process's own.

**Drives.** `Poll` looks at `held` under the lock that `Hold` waits for, so what it
is about to mount is not on a disk that it found and that is held
(`MountFree`), and a mount's disk is its own or was not found (`MountsFree`).

**InputReader.** `KeyOk` says of each key, by cases, where what is last said of it
is: in the kernel's buffer, in the reader's hand, in the channel, or with the loop
already; and that this is how the key is. A button's repeat is passed over, so it
also says that a key repeats only while it is held (`Repeats`). `HeardInv` says
that a node without a reader has nothing buffered, `ReadersInv` that a node being
opened has no reader. Each step is a law of sequences (`PushTyped`, `PopSays`,
`SendSays`, `TakeLaw` and so on), and `SaidLaw` takes the cases to the property;
that a sequence has a last place that speaks of a key is `Greatest`.

### Model-checked only

- Liveness, which is out of the prover's reach: `ComesUp`, `ConnectingEnds`,
  `FramesEnd`, `PointerArrives`, `ScanSettles`, `JoiningEnds`, `KeyboardStays`,
  `StaleGoes`, `GoodMounted`, `PluggedIsRead`, `CloseEnds`, `BlocksConfirmed`,
  `SoundFreed`.

## Plan

1. The safety that liveness rests on: for `CloseEnds` and `SoundFreed` that each
   waiting goroutine has another to wake it.
2. The engine's status lines as a module that `KioskSession`'s dial abstracts.
3. The update and power dialogs composed with a connection's tail.
4. Operators against reference definitions: `Newer`, `compactGPUs`, `validName`,
   the scan's addresses.

## Not modelled

Drawing, fonts and texts; the framebuffer; the session engine's C; the formats of
grubenv, of the settings and of the protocols; key tables, layouts, touchpads
and the pointer's place; the mixers and the jack; the search for wireless
networks; partitioning and formatting in `sc-install`; building the image; the
server's set-up. They are sequential, or arithmetic on bytes and pixels, or not
this program's own logic. The live stick's boot is left out too: it has the
kernels and the graphics marks, without slots and updates.
