# A TLA+ model of proton5G (FM350-GL manager)

proton5G is one Go daemon that owns a Fibocom FM350-GL modem: it polls the modem
over a serial AT port, recovers it when it stops answering, serves a web UI with
a live status stream, keeps a signal history on disk and can share the LTE uplink
as a WiFi hotspot. This directory models the parts of it where goroutines, locks,
failures and restarts meet, checks them with TLC on small instances and proves
the most important invariants with TLAPS for instances of any size.

Paths below are relative to the repository; `uc/` is `internal/usecase/`, `repo/`
is `internal/repository/`, `h/` is `internal/handler/`.

## 1. The system

| Component | State it keeps | Operations | Talks to |
|---|---|---|---|
| Modem service, `uc/modem.go` | `status` (cache), selection, `atFailStreak`, `lastRediscover`, `lastResetAt` under `mu`; the right to use the AT port under `atMu` | poll, AT control (APN, RAT, raw), USB mode, USB reset, list, select, cached status | AT client, USB watchdog, discovery, history, inventory |
| AT client, `repo/at_client.go`, `at_tiered.go` | port name, open port, tier cache, queue of unsolicited messages | exchange, `EnsureConnected`, `SetPortName`, `Close`, `GetFullStatus` | the tty |
| Discovery and probe cache, `repo/at_discover.go`, `inventory.go` | results of probes with an expiry | probe candidates, list modems | the ttys, sysfs |
| USB watchdog, `repo/usb.go` | none | check presence, hard reset | sysfs, usbfs |
| SSE hub, `h/sse_hub.go`, `h/server.go` | last status and frame, subscriber channels of one slot | broadcast round, subscribe, unsubscribe, one handler per browser | the status cache |
| Signal history, `repo/history_ring.go`, `history_persist.go` | ring, file and temporary file | add, snapshot, load, save | disk |
| Hotspot, `uc/hotspot.go`, `repo/hotspot.go` | published state (`hotspotMu`), manager state (`mu`), and on the host: two daemons, an address, NAT rules, `ip_forward` | start, stop, status | host commands |
| Start and shutdown, `cmd/app/main.go` | – | starts the goroutines; stops hotspot, HTTP server, workers, saves | all |
| WAN facade, `uc/wan_service.go`, `rndis_config.go` | overrides of the published WAN status | connect, disconnect, select | MBIM, host network, AT |
| SMS, `uc/sms.go`, `repo/at_sms.go`, `at_urc.go` | idempotency keys, rate window, queue of notifications | send, list, read, delete, drain | AT client |
| Inventory cache, `uc/inventory_cache.go` | last inventory, expiry, `refreshing` | list, refresh | discovery |
| Parsers, commands, MBIM and network wrappers, templates, authentication | none | pure functions and wrappers of commands | – |

What is hard here, and what makes it correct:

* **One port, many users.** The poller, each HTTP handler and the recovery share
  one tty. Commands of two sequences must not interleave, a sequence must stay on
  one port, a probe must not open a tty the manager still reads, and three locks
  taken by four kinds of request must not deadlock.
* **Recovery.** Streak, rediscovery period, probe cache and reset cooldown act on
  each other. The modem must not be reset in a storm, and a modem that answers
  again must be found again.
* **Fan-out.** One hub, slow and vanishing browsers, channels of one slot, frames
  that are suppressed because nothing changed.
* **Host state.** A hotspot start changes the host in a sequence of steps that can fail;
  daemons die; starts, stops, status polls and the shutdown overlap.
* **WAN.** A session is a bearer in the modem, an address on the host and a view
  published to the user. Nothing serializes the calls that change the three.
* **SMS.** A retry must not send twice, although the verdict on a message may be late,
  and the interactive submit shares the line with everything else.
* **Caches.** Tiers of the status, results of probes and the inventory each have their
  own age, and other operations reset, stamp or key them.
* **Persistence.** Wrap-around, files of another capacity, crashes in a save, a
  delayed periodic save against the final one.

`PROJECT.json` lists the hazards one by one at their lines, with the property
that covers each or the reason why none does yet.

## 2. Modules

| Module | Models | Checked by | Proofs |
|---|---|---|---|
| `ModemService` | `uc/modem.go`, the client's port and mutex, discovery | `MCModemService`, `MCModem/MCLiveness/MCSelectRace.cfg` | `ModemServiceProofs` |
| `SSEHub` | `h/sse_hub.go`, `handleSSE` | `MCSSEHub`, `MCSSEHub/MCSSEClosed.cfg` | `SSEHubProofs` |
| `Hotspot` | `uc/hotspot.go`, `repo/hotspot.go`, shutdown order of `main.go` | `MCHotspot`, `MCHotspot/MCHotspotExit.cfg` | `HotspotProofs` |
| `HistoryRing` | `repo/history_ring.go`, `history_persist.go`, the savers in `main.go` | `MCHistoryRing`, `MCHistoryRing.cfg` | `HistoryRingProofs` |
| `BoundedLog` | abstract: what the history promises | as `LogSpec` of `HistoryRing` | in `HistoryRingProofs` |
| `WANService` | `uc/wan_service.go`, `rndis_config.go`, the data connect and selection of `uc/modem.go`, outcomes of `repo/mbim.go`, `net_*.go` | `MCWANService`, `MCWAN.cfg` | `WANServiceProofs` |
| `SMSService` | `uc/sms.go`, `repo/at_sms.go`, `at_urc.go`, the line under `at_client.go` | `MCSMSService`, `MCSMS.cfg` | `SMSServiceProofs` |
| `TieredCache` | `repo/at_tiered.go`, `at_tiered_control.go`, `at_pdp_control.go` | `MCTieredCache`, `MCTiered.cfg` | `TieredCacheProofs` |
| `DeviceInventory` | `uc/inventory_cache.go`, `repo/inventory.go`, `at_discover.go` | `MCDeviceInventory`, `MCInventory.cfg` | `DeviceInventoryProofs` |

The modules meet where the code's parts do. `ModemService` shows that an AT sequence
runs alone under `atMu` (`SoleOwner`); `TieredCache` and `SMSService` rest on it, the
first by making an operation one action, the second by its own `atMu`. `ModemService`
takes a discovery to be answered truly or by a stale cache (`DiscoverCached`);
`DeviceInventory` is that cache, and says when the stale answers end. The commands
whose outcomes `WANService` chooses freely are the AT exchanges of `ModemService` and
external programs.

Definitions carry the names of the functions they translate (`HandleATFailure`,
`MaybeHardReset`, `RediscoverClose`, `Preflight`, `StopLocked`, ...).
Definitions with a suffix (`Send_Blocking`, `SelectModem_KeepsMu`, ...) are not
part of any specification: each is a plausible bug in the definition whose name
it extends, and shows that a property is able to fail.

### ModemService

A process is a goroutine, `pc` its place in the code, and the three locks are
variables naming their holder (`atMu`, `mu`, `clientMu`). The granularity is that
of the locks: a section that holds `mu` and takes no other lock is one step, each
exchange with the modem is two (take the client's mutex; the answer and the
release), and the inventory, which asks the client for its port with `mu` held,
is two. Between any two steps every other goroutine may run.

An exchange is abstracted to its outcome (`Outcomes`): an answer, silence, an I/O
error or missing permission, following from what the port does at that moment. The
environment changes that at any time (`PortChange`), and plugs and unplugs the
modem (`BusChange`). `GetFullStatus` is two phases (the first command decides
between success and failure; errors of later ones are ignored by the code but may
close the port). `DiscoverCached` is a discovery that the probe cache answers with
an old result: any candidate, or none. Durations are ticks counted up to the bound
they are compared with, so the clock adds no states beyond what the code can tell
apart. `failedPolls`, `sinceHard` and `audit` are history variables: they count
what really happened, independently of the service's own counters, and
`ResetPolicy` speaks about them.

### SSEHub

A status is the pair of what `broadcast` compares (`sem`) and `UpdatedAt`, which it
does not. A round is `Sample`, `Compare`, `Commit` (store and copy the subscriber
list under the lock), one `Send` per copied subscriber in any order (Go iterates
maps in any order), `SendDone`. A browser goes through `Subscribe`, `FirstFrame`
(the channel, else the status cache read directly), `Receive` and `WriteFrame`,
and may leave at any write or wait (`Disconnect`, `Unsubscribe`). A send on a
channel closed meanwhile puts the hub in `"panicked"`, after which nothing runs.

### Hotspot

`Main` and the requests run the use case (`HotspotStart`, `HotspotStop`,
`HotspotStatus`), whose sections under `hotspotMu` are steps, around the manager's
`Start`, `Stop` and `IsRunning`. `Start` is one step per change of the host, each
of which may fail with the cleanup the code has for that place; `Stop` and the
stale-state cleanup of `IsRunning` are one step (they hold the manager's lock and
nothing else observes the host). A command that `runCmd` gives up at its time limit
counts as failed although it may have done its work (`net_iface.go:211`): a failing
`LanAddr` may have added the address, a failing `EnableForwarding` may have switched
`ip_forward` on, and in both places the code then cleans up something else or nothing.
Daemons die at any time and are reaped by the
goroutine that waits for them; a dead and not yet reaped daemon still passes the
signal-0 test. `left` records what such failures and failed cleanups leave, so that the
properties can except exactly what is explained by a failure. `Shutdown` and
`Exit` are `main`'s order: stop the hotspot, drain the HTTP server (for at most
5 s, so `Exit` does not wait for the requests), exit.

### HistoryRing and BoundedLog

The ring is modelled with the code's `buf`, `head` and `size`, the file and the
temporary file with their contents, and a save as snapshot, begin and end of the
write, rename, each of which can fail. A crash (`Restart`) may come between any
two, and the next start loads what is on disk. `BoundedLog` is the promise: a
sequence of the newest `Cap` samples, and atomic saves and restarts. The refinement
maps `log` to `Snapshot`, `stored` to the file and `taken` to the savers' copies.

### WANService

A step is one external command, or one section under `mu` or `wanMu`. A command ends
done, failed without effect, or failed after its effect (`Outcomes`), because the
context's deadline kills it at any point. An RNDIS disconnect (`HostDown`) ends like its
last command, which takes the link down: the errors of `dhclient -r` and of the address
flush are dropped, so it may succeed and leave the address (`net_iface.go:119`).
`ClearNetInterface` (`HostClear`) checks its flush. `bearer` and `host` are what is really up,
`status`, `wanOverride` and the two flags what the program says; `Published` is
`decorateStatus`. `RefreshWAN` is the poller, which moves the interface of the status
with the selection and keeps its session; `NetworkDrop` is the network.

`clean` and `excused` are history. A request is clean if it ran alone and no session
was dropped meanwhile; `Return` puts its modem into `excused` unless the request was
clean and succeeded, which takes the modem out, or failed without consequence. A
disconnect that says it succeeded and left the address has not, for this purpose. The
properties therefore say: after any overlap and any failure, one undisturbed success
on a modem makes the published view of it true again, and it stays true until the next
named reason.

### SMSService

The serial line is what the modem has not dealt with yet, in order (`todo`), and what the
manager has not used yet: the answers (`answers`) and the notifications (`arrived`). An
exchange ends by using all that has come, so of the answers only the kinds matter, and
whether they are late, and no order; the notifications keep theirs. `Script` is the list
of exchanges of an operation; a deadline (`TimeoutPlain`, `TimeoutPrompt`,
`TimeoutPayload`) marks what is under way as late, so that a property can tell an own
answer from an earlier command's. The modem's modes (`format`, `charset`, `prompting`)
follow the commands it really gets (`Execute`: `TakeText`, `Ignore`, `AskForText`,
`Obey`). A modem that waits for a text swallows a command and does not answer.
An exchange ends as soon as the input contains what it looks for, anywhere
(`at_client.go:151`; for a submission `at_sms.go:346`). `Recite` is the part of an answer
before its final result that contains such a thing: a listed or read message, or a name,
may say OK, ERROR or `>`. It is on the line before the modem has done with the command,
so an exchange that ends by it leaves the rest of the answer, with the real result, to
the next one. `forged` is the history of what texts have read like.
`Newest` is what a bounded queue holds after a burst; `MCSMSService` has TLC compare it
with the code's loop, which appends one by one and drops the oldest.
`transmitted` counts what went out per key, saturated at two; of a multipart message the
last part counts, so a retry that repeats only earlier parts is not seen. `recent` holds the ages of
the sends accepted last, newest first, up to the window.

### TieredCache

One operation is one action. A value stands for each way of being cached, and each is
read by a command of its own (`Source`): the APN for the slow values that any answer
replaces, the IMSI (for IMSI and ICCID) and the IMEI (for the product identity) for those
that only an answer with one replaces, the operator for the medium value that is kept
when an answer has none, and the PDP session for the one that is not. A modem may have no
SIM, and a SIM may be changed. Stamps are ages in samples. Each command of a sample
may be answered, answered with `ERROR`, or not answered (`DisturbedSample`), and the
tier is stamped in each case, as in the code. `operatorAge` and `apnAge` count the
samples since the modem last gave the value that is shown, independent of the stamps: an
answer without an operator, after which the code keeps the last one, does not reset them.

### DeviceInventory

A prober is the goroutine of a refresh or the rediscovery of the service. It takes the
nodes there are, splits them by the probe cache, opens and ends the probes of the rest
in any order, and returns when all have ended. Two users of one port at the same time
may read each other's answers (`Spoil`, `clashed`); a port recorded as not answering for
that reason alone is in `misread` until its entry expires. A caller of `ListModems`
reads the port first (`ReadOpenAT`) and asks for the inventory later.

## 3. The runs

| Run | Expect | Properties | Instance |
|---|---|---|---|
| `modem` | pass | `TypeOK`, `SoleOwner`, `OnePortPerSequence`, `NoWaitCycle`, `ResetPolicy`, `PortClosedWhileProbing` | poller + 1 request of any kind, 2 ports answering, mute or denied, 2 modems, streak 2, cooldown 1 |
| `liveness` | pass | `Recovers`, `RequestsComplete` | poller + 1 control request, ports answering, mute or gone, fairness |
| `select_race` | violation | `SelectionBindsPort` | 2 select requests, ports that answer |
| `sse` | pass | `TypeOK`, `MissedOnlyWhenFull`, `RoundsFinish`, `ShowsSettledStatus` | 2 browsers, 2 contents, 2 updates, fairness |
| `sse_closed` | violation | `NoSendOnClosedChannel` | the same |
| `hotspot` | pass | `TypeOK`, `RoutedWhileRunning`, `NothingLeftBehind`, `StateSettles` | main + 2 requests, every command may fail before or after its effect, daemons die, a crash |
| `hotspot_exit` | violation | `NothingLeftAtExit` | main + 2 start requests, nothing fails |
| `history` | pass | `TypeOK`, `LogSpec`, `StoredMovesForward` | capacity 3, 4 samples, file of up to 4, 2 crashes |
| `wan` | pass | `TypeOK`, `ConnectedIsUp`, `NothingLeftUp`, `AutoDisconnectFindsSession` | 2 requests of any kind, an MBIM and an RNDIS modem, every command may fail, sessions drop |
| `sms` | pass | `TypeOK`, `TransmitOnce`, `RecordedWasSent`, `OwnAnswers`, `SubmittedAsMeant`, `URCsAccounted` | 2 requests (UCS-2, multipart, read), 1 key, limit 1 per window of 1, 1 passed deadline, 1 text that says OK, 1 notification |
| `tiered` | pass | `TypeOK`, `IdentityOfModem`, `BoundedAge`, `ControlShows`, `Settles` | 2 port names, 2 modems, 2 SIMs or none, 2 contexts, intervals of 2 and 3 samples, 2 changes, 1 disturbed sample, fairness |
| `inventory` | pass | `TypeOK`, `OwnPortReady`, `ListingMovesForward`, `CatchesUp`, `Finds` | 2 ports, 2 goroutines for refreshes and the rediscovery, times to live of 1, 2 changes, fairness |

**Why the bounds are enough.** The sharing hazards need two goroutines and one
port change between them; the proofs of section 4 cover any number of requests.
The recovery policy compares three
counters with thresholds: a bound of 2 distinguishes below, at and above, and ticks
are free to run to any of them between any two steps; the liveness run takes 1 for
each, since a larger bound only adds turns that the same fairness grants. Two
browsers are needed for one to be slow while the other is not, and two contents and
two updates for a status that changes, changes back or only ages. Two hotspot
requests and `main` overlap a start, a stop or a status and the shutdown. The ring
needs more samples than its capacity and a longer file; two crashes give a crash in
the save after a restart. The WAN run bounds nothing but the requests in progress: each
may be followed by any other, so every sequence of calls, failures and drops is
covered, with two calls overlapping at each place. In the SMS run one key and two
requests give a retry that meets its first attempt, and the window holds one send less
than two requests can make at a time, so that the limit is met and passes; one late answer, or one text
that reads like an answer, is enough to put the line out of step for the next
command. In the tiered run the two intervals differ, so that a medium tier comes due
without the slow one, and two changes give any two of connect, replacement, roaming and
reset in either order, with samples between them; the proofs cover any number. In the
inventory run two changes make a listing old while a refresh for an earlier port is on
its way. For invariants proved below the bounds do not matter.
`RequestSymmetry` permutes requests and is used only in runs of invariants.
The SSE, hotspot, history and SMS runs turn the deadlock check off: the process
stops there, or (SMS) the bounded deadlines are used up. The other runs keep it on.

**Fairness.** Everything is weakly fair at most, except a goroutine that waits for
a Go mutex: `sync.Mutex` hands the lock to the longest waiter after 1 ms
(starvation mode), so a goroutine cannot be overtaken for ever, which is strong
fairness of `Step(p)`. The poller's ticker and the clock keep going
(`WF Start(Poller)`, `WF Tick`). Strong fairness of `DiscoverAnswering` says that
entries of the probe cache expire, so discovery cannot miss an answering port in
every attempt; `Finds` shows on `DeviceInventory` that this is so. In `SSEHub` the
ticker keeps firing and a handler takes a frame that
waits for it; nothing makes a browser connect, read or leave, and no fairness is
assumed of `WriteFrame`. In `TieredCache` the poller keeps sampling and the failures are
bounded. In `DeviceInventory` the clock, the web UI's requests for the listing, the
goroutines and the service's attempts to find its port go on, and changes are bounded.

**What the passing runs show.** Beyond the table's words:

* `Recovers` holds from every state the service can be in, with any port bound, any
  streak and a mute port that opens but never answers. It is stated for ports that are
  mute or gone, because a port that denies access is by design never left
  (`modem.go:200`).
* `LogSpec` permits a start with an empty history, because a file that cannot be read or
  parsed gives one (`history_persist.go:19`); the next save then replaces that file.
* `ShowsSettledStatus` excepts browsers for which a frame was dropped: the code does
  not repair those (`sse_hub.go:105-110` suppresses the repetition), and
  `MissedOnlyWhenFull` shows that a full buffer is the only way to be one.
* `NothingLeftBehind` excepts what `left` names: a cleanup that failed; an address or an
  `ip_forward` whose command was given up after it had done its work; the address after a
  configuration file could not be written; a crash. The code removes none of these later.
* `StateSettles` says that "starting" and "stopping" end, not which of two overlapping
  results is stored last; `HotspotStatus` answers by what the manager says.
* `ConnectedIsUp`, `NothingLeftUp` and `AutoDisconnectFindsSession` hold outside
  `excused`. What they except is what the code really does: a reconnect that is rolled
  back leaves the override of the earlier session; an RNDIS disconnect that fails, as it
  always does on an MBIM modem, restores the override without its PDP session, so that
  the automatic disconnect no longer finds it (`wan_service.go:324`); selecting another
  modem leaves the sessions of the first up and clears their override; an RNDIS connect
  that fails leaves the PDP context active; `ActivatePDP` goes to the modem behind the
  bound port, whichever is selected; an RNDIS disconnect may succeed and leave the address.
* `TransmitOnce` excepts two sends of a key that overlap (`sms.go:141` looks the key up,
  170-176 store it: the code has this race), a verdict that came late, and an expired
  result. `RecordedWasSent` has none of these exceptions: a late answer never passes for
  the verdict on a text, because the modem answers nothing between its prompt and the
  text. Both except that a text of the modem was taken for the prompt (a message with a
  `>` in it, on a line that is out of step).
* `OwnAnswers` and `SubmittedAsMeant` hold while no deadline has passed and no text has read like
  an answer. After a passed deadline the next command may take the late answer, since the
  input is deliberately not cleared (`at_client.go:134`). After a read message that
  says OK, it takes the rest of the old answer (`at_client.go:151`), and an `ERROR` to
  `AT+CSCS` may hide behind the OK before it. Without the second exception TLC finds both
  properties violated with no deadline passed.
* `URCsAccounted` shows the places where a notification can be lost: pushed out by newer
  ones, read during a submit, or dropped when the port is reopened. The run's queue of two
  and its one notification do not fill it; `Newest` does in TLC's check of the
  assumption, and the theorem covers every capacity and number. `docs/sms.md:45`
  speaks of retained notifications without these exceptions.
* `BoundedAge` excepts values whose command failed, since the tier is stamped all the
  same; an operator that is kept because the modem answered without one
  (`at_tiered.go:228`), for as long as it does; and an operator whose tier a connect has stamped: `QueryPDP` sets `mediumAt`
  (`at_tiered_control.go:29`), so that an operator may be shown for up to two intervals.
* `IdentityOfModem` excepts another modem or SIM under the same port name, until it has given
  its own IMSI, or IMEI, to the slow tier. With no SIM to read, the IMSI of the old one
  stays on show for good; `Settles` says so too.
* `CatchesUp` and `Finds` assume that from some time on no probe is spoilt by another
  user of its port. Without that TLC finds a cycle in which a background refresh and the
  rediscovery meet at the same port for ever, each recording it as not answering for the
  whole time to live. `OwnPortReady` speaks of a listing made for the service's port; a
  refresh that was started for the old port does open the new one.

**What the violations show.**

1. `sse_closed`: `broadcast` sends to a copy of the subscriber list after it has
   released its lock, and unsubscribe closes the channel in between. A send on a
   closed channel panics, and nothing recovers it in the hub's goroutine: the
   process ends. `sse_hub.go:18` says only the hub closes subscriber channels.
2. `select_race`: selections store the modem under `mu` and switch the port later
   under `atMu`; two of them can end with one modem's ID and the other's port.
3. `hotspot_exit`: the hotspot is stopped before the HTTP server, so a start that is
   in flight comes up after the last stop and survives the process.

Three more differences were met while reading and have no run of their own.
`docs/sms.md:31` says "Sending is limited to 10 accepted submissions per minute per daemon
instance". The window of `sms.go:146` starts with its first send and does not slide, so a
minute that straddles two windows can hold `2 * smsRateMax - 1` = 19 of them, and no more:
`RateBoundCorrect` proves this bound, that of any `2 * RateMax` accepted sends in a row the
first is a whole window old, for every limit and window.
`docs/architecture.md:70` says `mu` is not held across AT I/O; a listing waits with `mu`
for the client's mutex, which an exchange keeps for up to 3 s (the lock order is still
acyclic: `NoWaitCycle`, proved). `docs/architecture.md:99` says that automatic mode
prefers RNDIS; `wan_service.go:218` prefers MBIM, and so does `ResolvedMode`.

## 4. The proofs

The theorems are of the form `Spec => []Inv`, or `Spec => [][A]_vars` for the action
properties `ListingMovesForward`, `ControlShows` and `StoredMovesForward`, or (the
refinement `ImplementsLog`) `Spec => LogSpec`, and hold for every value of the
constants that satisfies the named assumptions in the modules (`ProcsAssumption`,
`PortsAssumption`, `PolicyAssumption`, `StatusAssumption`, `HotspotAssumption`,
`ValuesAssumption`, `BoundsAssumption` and others of their kind):
that the special values are no processes, ports, modems or samples (`RingAssumption`: "no
file" is not a sequence of samples), that `Ops`, `PortStates`
and `Unreliable` are subsets of the sets that name all operations, and that bounds
are natural numbers, positive where the code's defaults are. TLC evaluates them in
every run. Neither the number of requests, ports, modems or browsers nor their
finiteness is assumed.

* `ModemServiceProofs`. `TypeCorrect`. Then `SoleOwner`, `OnePortPerSequence`,
  `PortClosedWhileProbing` and `NoWaitCycle` follow from `SharingInv`: for every
  goroutine, each lock is held exactly at the stages where the code holds it, the
  source of a running sequence is the bound port, and the port is closed while it
  discovers. `SoleOwner` alone is not inductive (the stages say nothing of the
  locks), and `OnePortPerSequence` needs to know that whoever changes the port holds
  `atMu`. `NoWaitCycle` is a case split over any non-empty set of goroutines: one
  that waits for nothing, else one that waits for the client's mutex, and so on down
  the lock order. `ResetPolicy` follows from `PolicyInv`, which adds that the
  service's own counters never run ahead of what really happened
  (`CountersBehind`): the code tests its counters, the property is about events.
* `SSEHubProofs`. `TypeCorrect`, and `MissedOnlyWhenFull` from `DeliveryInv`: `Round`
  (in the middle of sending, every receiver of the copy is still to be served, and
  what the hub stored is what it sends) and `Fresh` (a new handler has shown
  nothing). Without `Round` a subscriber between commit and send would be a
  counterexample to induction.
* `HotspotProofs`. `TypeCorrect` (which includes that the manager's lock is held
  exactly inside `Start`), `StateSettles`, and from `HostInv` both
  `RoutedWhileRunning` and `NothingLeftBehind`. `HostInv` adds `Routing` (which steps
  of the host are done at each stage of a start) and `Owned` (what is on the host
  and not recorded in `left` belongs to a running hotspot or to the start in
  progress). The proof has a lemma for steps that do not touch the host, one for
  steps that tear it down, one for failing steps of a start, and one for its
  successful steps.

* `TieredCacheProofs`. `TypeCorrect`, `IdentityOfModem`, and `BoundedAge` from `AgesInv`: a
  value whose tier has no exception is no older than the tier's stamp. The property
  alone is not inductive, since it says nothing of the stamp that decides when the value
  is asked for again. `ControlShows` is an action property, from `OwedInv`: what a control
  operation has changed is due in the next sample, or has just been read.
* `DeviceInventoryProofs`. `TypeCorrect`, and from one inductive invariant `IInv` both
  `OwnPortReady` and `ListingMovesForward`. `IInv` adds that one refresh runs at a time
  and exactly while `refreshing` is set (`OneRefresh`), that the port a prober skips is
  among those it takes for answering and never opened by it (`Own`), that an idle prober
  holds nothing (`Idle`), and that what a refresh found is no older than the listing it
  will replace (`Order`). Without `OneRefresh` two refreshes could store in the wrong order.

* `HistoryRingProofs`. `TypeCorrect`, and `ImplementsLog`: the ring and its savers implement
  `BoundedLog` under the refinement mapping, each step as a step of the log or a stutter.
  The lemmas about the ring say what `Snapshot` reads slot by slot wherever `head` stands,
  that adding a sample is what it is for a log (`AddToRing`), and loading a file too
  (`LoadRing`). `HInv` adds `OneSaver` (the final save waits for the ticker, so two savers
  never share the temporary file) and `Copies` (the written temporary file is the saver's
  own snapshot); without `OneSaver` a rename would publish the other's copy.
  `StoredMovesForward` needs `Ordered` besides: what is on disk is not newer than what a
  saver holds, and that not newer than the ring.
* `WANServiceProofs`. `TypeCorrect`, and from `IInv` the three properties `ConnectedIsUp`,
  `NothingLeftUp` and `AutoDisconnectFindsSession`. They speak of moments at rest, so
  nothing of them is inductive. `Others` says that outside a selection only the selected
  modem, or an excused one, can be up, shown, remembered by a request or behind the AT
  port, and that a request which works on another modem is not alone any more.
  `SelectedSettled` is the properties for the selected modem at rest, and `Phases` what
  each stage of a connect, a disconnect or a selection has established as long as its
  request has been alone (`clean`).
* `SMSServiceProofs`. The six invariants of the run and `RateBound`, from `SInv`, whose parts are proved one after the
  other. `Control`: the holder of `atMu` is the one request in an exchange, a key goes with a
  send, a text with a submission. `Line`: at most one text is under way, nothing is
  answered before it and nothing written after it, so the answer to a text is always its own
  (`Verdict`), however many deadlines have passed, unless a text was taken for the prompt; and a text with a key belongs to the
  request that waits for it, or its key is excused. From these `Sends` (a key without an
  excuse is with one request, and transmitted only if its result is stored or about to be)
  gives `TransmitOnce`, and `Records` gives `RecordedWasSent`. `InStep` (with no passed
  deadline and no text that read like an answer, an exchange begins on a quiet line, and its answer comes when its command is
  gone) is `OwnAnswers` made inductive, and with `SetUp` (what each step of the script has
  set, or will have when its OK is read) gives `SubmittedAsMeant`. `URCsInv` orders the
  notifications by where they are: handed out before queued before on the line. A
  full queue holds `QueueMax` different numbers above all that it drops, hence the count
  in `URCsAccounted`. `Windows` relates the counter to the ages: sends beyond the counted
  ones are older than the window's start, and those `RateMax` further back a whole window.

The proofs see what the code relies on. `RecordedWasSentCorrect` fails when an
error counts as an acceptance, `StoredMovesForwardCorrect` when the final save does not
wait for the periodic one, and `RateBoundCorrect` when the limit is compared one late.

Only model-checked: the liveness properties (`Recovers`, `RequestsComplete`,
`RoundsFinish`, `ShowsSettledStatus`, `Settles`, `CatchesUp`, `Finds`), which are beyond
the prover. What `Newest` abstracts, a loop over the input, is a fold; TLC compares the
two on short sequences (`PushKeepsNewest`), since induction over data is beyond the prover
too.

## 5. Abstractions and what is not modelled

* The bytes of AT answers, their parsing, and the values in a status: text in, records
  out, without state and with unit tests (`repo/at_parser.go`, `at_ca_enrich.go`,
  `at_cmd.go`, `at_pdp_ipconfig.go`).
* Signal samples are numbers; a status is connected or not, its port and its error.
* `ModemService` has one modem on the bus; the sysfs path of a USB reset is left out.
* `WANService` has no counters, addresses, APNs or DNS, and a modem has at most one control
  node and one interface. A `dhclient` that runs on after it was killed is the effect of a
  failed command.
* `SMSService` has no PDUs and no reference number of a multipart message, whose byte wraps
  after 256 messages. A partial read of a running exchange is left to the queue: what has not been
  read is still on the line, and a notification is read whole. The line never breaks; that is
  `ModemService`. The modem is taken not to echo (the code leaves its echo as it is), so the case of
  `at_sms.go:374` in which the echo of a text ends in OK is left out. Only a "query" is
  answered with text, and an OK in the middle of a line counts for a
  submission as it does for a plain command.
* `TieredCache` models the pollers' values by the five that differ in how they are kept or
  whose they are; manufacturer, model and firmware are kept like the IMEI. An answer that
  belongs to another command is taken as one without the value asked for. The fast
  tier has no state.
* `DeviceInventory` leaves out names, driver attributes and the grouping of nodes into
  modems; a probe's result is whether it answers.
* `hotspotCfg` and its file: the hotspot's configuration is chosen freely at each start.
* `HistoryRing` takes the writes of a save to end within the 5 s `main` waits for its
  workers (`TickerEnds` before the final save), and renames to be atomic. It does not
  model `fsync`: a crash is one of the process, not of the machine.
* `Hotspot` models one wireless interface and one uplink, and the `nft` path; the
  `iptables` fallback can also leave part of its rules, which `Broken` covers by the
  failure of the NAT cleanup.
* A hub that panics ends the model (`Running`), as the panic ends the process.
* Not to be modelled: generated configuration text, discovery of wireless interfaces and
  hotspot clients (sysfs and lease files, read only), templates, authentication,
  privilege elevation, the queries of `mbimcli`, `ip` and `sysctl`.

## 6. Plan

Done: all modules of section 2, and the proofs of section 4. Next:

1. Proofs of what the modules promise each other: the facts of `DeviceInventory` that
   `ModemService` takes for granted, and the safety part of the liveness arguments (which
   steps lower what they wait for).
2. `HotspotConfig`: the persisted configuration under concurrent set, start, stop
   (`uc/hotspot.go:140`), as part of `Hotspot`.
3. `DHCPRange`: the `uint32` arithmetic of `hotspotDHCPRange` as pure operators against
   a reference definition.
