# A verification model of the rtl8821au driver

The repository is a Linux driver for the USB Wi-Fi chips RTL8812AU and
RTL8821AU. It is a Realtek vendor driver: it carries its own 802.11 station and
access point (MLME), its own command thread and its own power management, on top of
the wireless extensions. This directory holds TLA+ models of the parts of the
driver that keep state, the TLC configurations that check them on small instances, and
TLAPS proofs of the properties that do not depend on the size of the instance.

Contents: 1 inventory, 2 modules and code, 3 runs, 4 fairness, 5 proofs,
6 disagreements, 7 what is not modelled, 8 plan.

## 1. Inventory

### Contexts

| context | runs | may be interrupted by |
|---|---|---|
| user | ioctls, `ndo_open`/`ndo_stop`, suspend, resume, disconnect; process context | all others |
| command thread (`rtw_cmd_thread`) | one command or event after another; process context | all others |
| transmit path | `rtw_xmit_entry`, bottom halves disabled | other processors |
| receive and transmit tasklets | received frames; queued frames | other processors |
| timers | join and scan timeouts, link timer, survey timer, reordering timers, the 2 s dynamic check | other processors |

There are no tests in the repository, and no documentation besides a short README
and the comments; what the code is meant to do is read from the comments and from
the other users of the same state.

### Components

| component | state | operations | hard part | what makes it correct |
|---|---|---|---|---|
| command queue and thread (`core/rtw_cmd.c`, `os_dep/os_intfs.c`, `usb.c`) | list of `cmd_obj`, `cmd_queue_sema`, `terminate_cmdthread_sema`, `cmdthd_running`, `bDriverStopped`, `bSurpriseRemoved`, `hw_init_completed` | enqueue, the loop, the drain, start and stop | two-step enqueue, one semaphore for start and stop, `pwrpriv->lock` | stop joins the thread; no command is lost while the thread runs, or freed twice; handlers find initialised hardware |
| station MLME (`core/rtw_mlme.c`, `rtw_mlme_ext.c`, `rtw_ioctl_set.c`) | `fw_state`, `to_join`, scanned queue, `mlmeinfo->state`, retry counters, four timers, BSSID register | set SSID, scan, disassociate, site survey, join, authenticate, associate, deauthentication | two state machines, one with a lock and one without, coupled by a queue | linking and scanning always end; the two machines agree when all is quiet |
| management frames (`core/rtw_mlme_ext.c`, `core/rtw_xmit.c`) | pool of extension buffers, submit contexts on the stack | the `issue_*` functions, dump, dump and wait, completion | a pointer to a stack variable in a buffer that outlives the wait | every buffer has one holder; nothing is written to a finished wait; success means sent |
| receive reordering (`core/rtw_recv.c`) | per TID: `indicate_seq`, sorted list, timer, `enable` | frame, timeout, ADDBA, DELBA, teardown | 12-bit wrap; the timer is deleted after the unlock | in order, once, only old frames dropped, nothing held forever, the pool conserved |
| receive path (`core/rtw_recv.c`) | frame pool, defragmentation lists, frames that wait for a key, duplicate cache | validate, decrypt, defragment, split, indicate | fragments that never complete, error paths that free twice | an MSDU goes up whole and once; a frame is in one list |
| receive USB (`usb.c`, `os_dep/usb_ops_linux.c`) | URBs, skbs, `rx_skb_queue`, preallocated skbs | complete, resubmit, tasklet, kill, resume | who schedules the tasklet; failing submissions | an skb has one owner; queued data is served |
| transmit path (`core/rtw_xmit.c`, `rtl8821au/trx.c`, `os_dep/xmit_linux.c`) | frame and buffer pools, `tx_servq`s, stopped queues of the stack | classify, queue, dequeue, aggregate, complete | aggregation walks lists it changes; pools at their limit; lengths against the bus | nothing queued without somebody to send it; transfers whole and not a multiple of the USB packet |
| AP stations (`core/rtw_ap.c`, `rtw_sta_mgt.c`, `OnAuth`, `OnAssocReq`) | station objects, hash, `auth_list`, `asoc_list`, `sta_aid`, counters of abilities, access list | authenticate, associate, expire, remove, daemon's calls | the same fact in five places | lists, table and counters tell the same; nobody associates without authentication; protection is announced |
| AP power saving (`core/rtw_xmit.c`, `rtw_recv.c`, `rtw_ap.c`) | per station: `sleep_q`, `sleepq_len`, `sleepq_ac_len`, `WIFI_SLEEP_STATE`; `sta_dz_bitmap`, `tim_bitmap`, TIM element | transmit, power bit, PS-Poll, WMM-PS trigger, beacon and HIQ commands, ageing | the same fact in two or three places, updates after the unlock | what waits is counted, announced and delivered; frames are not lost |
| power saving IPS/LPS (`core/rtw_pwrctrl.c`) | `rf_pwrstate`, `ps_processing`, `ips_deny_time`, LPS mode | enter, leave, wakeup | flags without a lock, waits with a limit | the chip is up for a caller that was told so; wakeup returns |
| keys (`os_dep/ioctl_linux.c`, `core/rtw_mlme_ext.c`, `cam.c`) | security settings, MAC ids, CAM entries, key commands | set, clear, add and free station | entry computed when the command is served | a station's entry holds its key |
| bring-up (`rtl8821au/hw.c`, `hal/HalPwrSeqCmd.c`) | registers, queues, pages, pipes | power on and off, init | read-modify-writes on what an earlier try left | every completed bring-up leaves the same registers |
| parameter tables (`rtl8821au/table.c`, `phy.c`) | position in an array | five walks | conditional blocks | exactly the rows of the board are written |
| transmit power (`rtl8821au/phy.c`, `hw.c`) | EFUSE values, by-rate and limit tables | load, set channel | 8-bit sums, aliased arrays | the index is one the chip has, in the register of its rate |
| PHY (`rtl8821au/phy.c`, `rf.c`) | channel, bandwidth, band, gain, filters; calibration registers | switch, survey, join, calibrate | saved and restored state shared by several operations | registers are what the driver has on record; calibration restores |
| firmware (`rtl8821au/fw.c`) | image, four mailboxes, reserved pages | download, command, report of the link | blocks and pages; a full mailbox; frames that reach the reserved pages after the report that sent them | the image arrives whole; commands arrive whole and in order; a report succeeds only with its own frames |
| EFUSE, security engines, elements, LED, dynamic mechanism, images, glue | bytes, a blink state | | | section 7 |

The interactions: ioctls and timers put commands into the command queue; handlers
of commands put events into the same queue; frame handlers change `mlmeinfo` directly
and report through events; the access point's frame paths share the transmit queues
with `rtw_xmit`; suspend, IPS and removal stop the command thread under
`pwrpriv->lock`; the receive URBs feed the receive path, and that the reordering; the
command thread programs channel, filters, keys and firmware on behalf of the MLME.

`PROJECT.json` lists the components with their status, and under `hazards` what in
this code is hard to test, each at its line and with the properties that are about it.

## 2. Modules and code

Each module says in its header what is one step. In general: a region under one
spinlock is one step; where the code releases a lock, sleeps or only tests a flag, the
step ends there and others run. Names are those of the source; `PROJECT.json` maps
every definition to its lines. Variables of the modules that are combined in a run have a
prefix (`xp`, `rp`, `rx`, `rd`, `hw`, ...), because TLA+ has one name space.

### Control

**`CmdThread`** - the command queue. `cpc` is a caller inside `rtw_enqueue_cmd`, which
is three steps (filter, append, up); `tpc[t]` is the thread of the t-th start; `mpc` is
open, suspend, resume and removal, which the kernel serialises; the IPS wakeup of an
ioctl is a further context. A command is known by its class: `Plain`
(its handler may enqueue an event), `DisConnect` (whose callback has its own rule for
freeing), `PowerSaving` (which may power the hardware down under `pwrpriv->lock`). `Signals` lets a
signal interrupt the interruptible waits, `Unplug` lets the device vanish. Bounds:
`MaxSessions`, `MaxSema`, the sets of commands and callers.

**`StaMlme`** - infrastructure station mode. `fw_state`, `to_join`, `target` and
`scanned` are `mlme_priv`; `state`, the retry counters and `scan` are `mlme_ext`;
`timer` has the four timers; `pc` says where the thread and the soft interrupts stand,
`lock` who has `mlme_priv.lock`. With `Smp` contexts run in parallel, without it a soft
interrupt runs to its end. With `Prompt` the timeouts of several seconds do not fire while
the work they guard is under way; without it they may fire at any time. Access points are
the external variable `air`: what they have been asked, and answer late, repeatedly or
never. Abstractions: `rtw_set_802_11_ssid` only (no `rtw_set_802_11_bssid`, no IBSS);
one access point per SSID, always a candidate when it is in the scanned queue; a network
in use is not freed from the scanned queue (`fixed`); authentication frames are complete,
continue or refuse; association responses are accept or refuse, never AID 0; commands are
always accepted and memory is always there; the TKIP countermeasure refusal is a call
that changes nothing; no LPS commands; changes of single state bits are atomic; a survey
event of a network is queued at most once at a time.

**`MgntTx`** - management frames. `freeBufs` is the pool of extension buffers, `flight` and
`ending` are the buffers whose URB is with the USB core or whose completion handler runs,
`sctx` says whose submit context a buffer points to and `call` what a sender is doing. The
senders are the command thread, an ioctl and the receive tasklet, which never waits. Each
`issue_*` function is an operation with its own ends (frame too large, driver stopped, wait
or not); elements are left out. `lost` names the buffers that a path of the code leaves
behind, and the ghosts `owner` and `real` record who waits for a URB and how it ended, so
that the properties can say what the driver cannot know.

**`ApAssoc`** - the stations of the access point: `OnAuth` with open and shared keys,
`OnAssocReq` and re-association, departure, `expire_timeout_chk`, the access list, the
daemon's calls, start and stop; the counters of stations that lack an ability and the ERP
and HT bits of the beacon they decide. A handler is a step, and so is a walk of
`expire_timeout_chk`. Time is abstract: a station may expire in any walk.

**`ApSleep`** - a started access point whose stations doze. The receive tasklet
(`RxData` with `process_pwrbit_data`, `process_wmmps_data`, `PsPoll`), `rtw_xmit` in two
steps (asked whether the receiver dozes; handed to the chip or queued), the transmit
tasklet, the ageing timer and the two commands of the command thread. A frame is its
access category and what lets it pass: `plain`, `triggered`, or `hiq`. Abstractions: the
lock regions and `rtw_free_stainfo` (under `sta_hash_lock`) are single steps; bit
operations on the bitmaps are atomic; the completion of a URB is merged with its
submission; which listed `tx_servq` is served first is open; aggregation, the more-data
and EOSP bits, and re-association of a station that is already known are left out; a
PS-Poll counts as category BE, for which the code's `pattrib->priority` is 0; what
commands for other elements of the beacon do besides sending it is left out. Bounds:
`NR_XMITFRAME`, `MaxCmds` (nothing new begins with that many commands queued), and `W`,
the modulus of the counters, which the assumption keeps above what can be counted.

**`PwrCtrl`** and **`PowerLease`** - power saving. The command thread switches the chip off
without a link and puts the firmware into LPS with one; callers of `_rtw_pwr_wakeup` and
the ioctls of `rtw_pm_set_lps`/`_ips` run beside it. `ips_deny_time` is the set of callers
whose window is open, and a window may close at any moment after the call has returned; a
3 s wait may time out at any moment. `PowerLease` is what `_rtw_pwr_wakeup` promises:
a caller that is told `_SUCCESS` holds a lease, and the chip goes down only without leases.
`LeaseKept` is `PowerLease`'s specification under the mapping in `PwrCtrl`.

**`Keys`** - from the ioctl that brings a key to the entry of the CAM: the security
settings, the key commands and their queue, the handlers, the MAC ids. Stations come and go
while commands that name them, or the MAC id they had, wait in the queue.

### Data

**`RecvReorder`** - one TID of one station. Frames are numbered without bound up to
`MaxSeq`, and carry `n % (2 * HALF)` on the air, so that a property can tell what the code
cannot. The sender is the only external part: it keeps the block-ack window and may skip
`MaxLoss` frames. The tasklet's path (`RxFrame`, `RxReorder`, `RxAccept`/`RxRefuse`,
`RxDelTimer`), the timer (`TimerFire`, `TimerLock`, `TimerLoop`), ADDBA and DELBA, and
`rtw_free_stainfo` (three steps) interleave wherever the list's lock is free. `HALF` is 7
or 8 in the runs instead of 2048; the window and what may be lost must fit into half of the
numbers, which is the assumption `ReorderAssumption` and holds for the real values.

**`RxUrb`** - the receive URBs: completion, resubmission with a fresh or a preallocated skb,
the tasklet, the kill on suspend and IPS, the resume. The USB core (no submission while
killed, the killer waits) and the allocator (may fail) are external.

**`RecvPath`** - `recv_func` between URBs and reordering: the three directions of
`validate_recv_frame`, duplicate detection, frames that wait for a key, decryption by its
outcome, defragmentation, Michael check, port control, A-MSDUs. Payloads are lengths; the
senders repeat, lose and abandon transmissions at will. Keys, ports, the station and the
stop flag change between two frames.

**`XmitPath`** - data frames from `rtw_xmit_entry` to the completion of the URB: flow control,
attributes, direct transmission or `tx_servq`, the tasklet with its aggregation, ADDBA and
the start of agreements. A frame is the lengths of its parts and a transfer the places of
descriptors and frames in it, computed as the code does, with ciphers, padding, the bus's
packet size and the 8 bytes added where a transfer would end on a full packet. `XpCallers` are
the contexts that may be in `rtw_xmit_entry` at a time: one for each of the four queues of the
net device, and the receive path of an access point, which forwards frames through it whether or
not the queue is stopped. They may hold every buffer; the history variable `xpDry` records
that a frame was queued, or left by the tasklet, while they did.

### Chip

**`HwInit`** - power sequences and `rtl8812au_hw_init` as lists of register writes in their
order, on a file of byte registers; a stage may fail and leave the rest undone (no power, no page
list, the firmware), and the next bring-up starts from what is there. Registers that only one
stage touches are left out where they add nothing. **`TableConf`** - the five walks through parameter tables, against the
meaning of their blocks. **`TxPower`**, **`TxPowerTables`** - EFUSE, by-rate table and limits
to the register of every rate; arrays that the code indexes past a row are modelled by the
position in the whole array. **`Radio`** - channel, bandwidth, band, swing and filters
through surveys, joins and the start of an access point, with the steps of the command
thread and of the ioctl interleaved; `cut` records that a change of mode cleared the state bit
of a survey or a join under way (section 6). **`Iqk`** - IQ calibration of both chips: backup, page
switch, three measurements per path with retries, the choice of a mean, restore; an element
of an array that was not written holds any number. **`Fw`** - download in pages and blocks,
the mailboxes with the mutex and the firmware that empties them, and the report of a new
link: the valid bit is cleared, the packet of the reserved pages is sent, waited for and told
the firmware, the valid bit is polled, with retries. `fwPages` has the network whose frames the
pages hold, the valid bit, and the network of frames on their way: they arrive in time
for the wait, for a later poll, or after the report gave up, and then leave the bit set until
the next report clears it. That they do not outlast the time to the next link (seconds, with a
join between) is assumed. The report's writes to `REG_CR`, `REG_BCN_CTRL` and
`REG_FWHW_TXQ_CTRL` are left out (section 7).

### Composition

The components share the command queue and the pools, but each property concerns one of
them, and what one does to the other is in the other's environment: an event of the MLME is
a `Plain` command, the teardown of a station is an action of `RecvReorder`, `RecvPath` and
`ApSleep`, IPS is an action of `CmdThread`, `RxUrb` and `PwrCtrl`. The MC modules put
components that belong together side by side: `who` is chosen in the initial state and only
that component moves, so that one state graph holds the graphs of all of them.

| module | combines |
|---|---|
| `MCMgmt` | `CmdThread`, `MgntTx`, `ApAssoc` |
| `MCStation` | `StaMlme` in two settings: `smp` (one network, contexts in parallel, early timeouts, 2 calls, 1 drop) and `prompt` (2 networks, one processor, 4 calls, retries) |
| `MCData` | `RecvReorder`, `RecvPath`, `RxUrb`, `XmitPath` |
| `MCChip` | `Iqk`, `TxPower`, `TableConf`, `HwInit`, `Radio`, `Fw`, `Keys` |
| `MCCmdLive` | `CmdThread` and `PwrCtrl` with fairness |
| `MCMlmeLive` | `StaMlme` and `RecvReorder` with fairness |
| `MCCmdThread`, `MCStaMlme`, `MCApSleep`, `MCXmit` | one component each: model values, symmetries, inputs |

Commands and callers, networks, and stations are interchangeable: the specifications
compare them for equality only, and symmetry is used only in runs without liveness
properties. The modules `...Proofs` hold the proofs.

Definitions next to an operation that change it in one place (`StopNoWait`,
`InsertLast`, `LeftLinking`, ...) are mutants: no specification uses them; put in the
operation's place they make the named property fail, which shows that it is about the code.

## 3. Runs

| run | checks | instance | shows |
|---|---|---|---|
| `mgmt` | `StopJoins NoLostWakeup OneOwner HandlerHasHw` | 2 callers, 2 commands of every class, 2 starts of the thread | stop joins the thread; no lost wakeup; one owner per command; hardware initialised under a handler |
| | `BufsAccounted ContextSound` | 3 senders, 2 buffers, 2 beacons | every buffer has one holder or is lost on a named path; no finished wait is written to, success means sent |
| | `StationsSound AbilitiesTold` | 2 stations, 2 objects, 2 AIDs, three setups | lists, table, AIDs and counters tell the same; only who authenticated associates; protection is announced |
| `ap_sleep` | `FramesCounted TimTells DozersServed` | 2 stations with or without WMM-PS, 4 frames, one processor | what waits is counted, announced and delivered through every path, no frame is lost |
| `station` | `NoStuckJoin SurveyGuarded NotBoth LinkAgrees` | `smp` and `prompt` (section 2) | neither linking nor a survey nor the channel scan gets stuck; once all is quiet both machines and the BSSID register agree (`prompt`) |
| `data` | `ReorderRight HeldSound` | 16 frames over 14 numbers, window 3, 4 receive frames, A-MSDUs, bypassing frames | order, no duplicate, only old frames dropped, the list sorted and within the window, the pool conserved, over a wrap |
| | `MsduRight FrameOnce` | 3 MSDUs (3 fragments, an A-MSDU of 3, EAPOL), 3 frames, both modes, 10 kinds of foreign frames | MSDUs go up whole and once, a frame is in one list |
| | `RxDataSafe` | 2 URBs, 4 skbs, 2 of them preallocated, 1 failing completion, 1 stop | an skb has one owner; queued data has a tasklet |
| | `TransferWhole NothingStranded AmpduUsed` | 5 frames, 2 buffers, 2 callers, packets of three categories, agreement on one of them in one of four networks, sequence numbers from 4093 | transfers whole; nothing queued without somebody to send it; frames after an ADDBA are aggregated |
| `chip` | `IqkRestores PowerRight TablesRight HwRight RadioRight ImageWhole MailInOrder ReportRight PairwiseProgrammed` | both chips; every board type; blank, plain and extreme EFUSEs; two bring-ups; 4 operations of the radio; images around the block and page sizes; 2 calls of 2 threads (commands, reports of a link with up to 3 downloads, power cycles); 4 key calls for 2 stations | section 2, Chip and Keys |
| `cmd_live` | `StopCompletes QueueServed LeaseKept WakeupReturns` | 1 caller, 2 commands, signals, unplugging; 2 callers of wakeup, 6 calls | every stop completes, every command is served; power saving implements `PowerLease`, every wakeup returns |
| `mlme_live` | `NoStuckFrame MlmeSettles JoinServed HeldReleased` | 1 network, 2 channels, 1 drop, losses, early timeouts; reordering with DELBA and teardown | linking and surveys end, a waiting join is taken up, every frame held back is released |
| `cmd_suspend_deadlock` | `StopCompletes` violated | 1 command, with power saving | section 6 |
| `sta_timer_lock` | `NoDeadLock` violated | 1 network, parallel contexts | section 6 |
| `sta_rejoin` | `JoinApplied` violated | 2 networks, 1 drop | section 6 |
| `ap_group` | `GroupTold` violated | 1 station, 2 frames | section 6 |
| `tx_agg` | `AggInQueue` violated | as `data` | section 6 |

Why the bounds are enough for the cases of interest. The hazards of `CmdThread` need one
caller between two steps while the thread ends or starts again: two sessions, and a second
caller to compete for the semaphore. With two buffers for three senders the pool of `MgntTx`
runs empty and a buffer is used again while its first user still waits. Two stations for two
objects, two AIDs and counters up to two fill every table of `ApAssoc`. The sequence
numbers wrap within 16 frames of 14 numbers, with the window on both sides of the wrap; four
frames of the pool let the list be longer than the window. Two networks and two calls are the
smallest case in which a result of an old join meets a new one; four calls (join, leave, join,
scan) go round once more. With two stations one can doze while the other does not, which is
what the group frames depend on, and four frames exhaust the pool, which `expire_timeout_chk`
needs. Three received MSDUs and three frames let a fragment wait while the pool is empty.
Five transmit frames with the low mark at four cross the flow control's limit, and three
sends starting at 4093 cross the wrap; two callers for two buffers may hold both of them, which
the driver's five for four may too. Image sizes lie on both sides of the 196-byte block and
the 4096-byte page. Two reports with three downloads each send six commands
through the four mailboxes, and the second may find frames of the first.
Two bring-ups are enough for what one leaves to the next. Four key calls
and a queue of three let a MAC id change hands while a command of its old holder waits.

Deadlock is not checked in the runs whose inputs are bounded (the last frame has been sent,
the last call made; the comment in each `.cfg` says which), and in those in which the
code really deadlocks (section 6). It is checked in `ap_sleep`, which always has something to
do. `CmdThread` and `StaMlme` have a stuttering step (`Finished`) for the states in which
everything is done.

## 4. Fairness

Weak fairness, and only of contexts that the kernel runs on their own once they have
something to do: the command thread, a caller that is inside `rtw_enqueue_cmd` or
`_rtw_pwr_wakeup`, open and stop once begun, the tasklets, and a timer that is armed (it
fires) and its handler (it goes on). There is none on the user's calls, on frames sent or
answered by other stations, on signals and on unplugging: these may never come. In `StaMlme` an
access point need not answer, so that the timeouts alone carry the liveness properties. Weak
fairness is enough since a context that may take a step keeps that possibility until it
does, up to locks that are held for one step; semaphore waits have one waiter. In the
grouped runs each condition has the conjunct that its component is the one that moves and the
component's own variables as subscript.

## 5. Proofs

| theorem | states | needs |
|---|---|---|
| `CmdThreadProofs!Typing` | `Spec => []TypeOK` | |
| `CmdThreadProofs!Join` | `Spec => []StopJoins` | no signals |
| `CmdThreadProofs!Wakeups` | `Spec => []NoLostWakeup` | no signals |
| `CmdThreadProofs!Ownership` | `Spec => []OneOwner` | |
| `CmdThreadProofs!HandlersHaveHw` | `Spec => []HandlerHasHw` | no signals, no unplugging |
| `StaMlmeProofs!TimeoutsGuard` | `Spec => [](NoStuckJoin /\ NoStuckScan /\ NotBoth)` | |
| `StaMlmeProofs!SurveysGuarded` | `Spec => []SurveyGuarded` | |
| `PwrCtrlProofs!LeaseImplemented` | `PwSpec => LeaseKept` (refinement of `PowerLease`) | |
| `PwrCtrlProofs!LeasePowered` | `PwSpec => []Powered` | |
| `PwrCtrlProofs!PoolKept` | `ApSleep!Spec => [](TypeOK /\ PoolConserved)` | |
| `PwrCtrlProofs!DozersAlwaysServed` | `ApSleep!Spec => []DozersServed` | one processor |
| `PwrCtrlProofs!FramesAlwaysCounted` | `ApSleep!Spec => []FramesCounted` | one processor, no mixed station |
| `PwrCtrlProofs!TimAlwaysTells` | `ApSleep!Spec => []TimTells` | one processor, no mixed station |
| `MgmtProofs!BuffersAccounted` | `MgSpec => []BufsAccounted` | |
| `MgmtProofs!ContextsSound` | `MgSpec => []ContextSound` | |
| `ApAssocProofs!StationsKept` | `ApSpec => []StationsSound` | |
| `ApAssocProofs!AbilitiesKept` | `ApSpec => []AbilitiesTold` | |
| `RecvReorderProofs!Typing` | `Spec => [](TypeOK /\ PoolHolds)` | |
| `RecvReorderProofs!OrderKept` | `Spec => []ReorderRight` | no DELBA, no teardown |
| `RecvReorderProofs!HeldKept` | `Spec => []HeldSound` | no DELBA, no teardown |
| `RecvReorderProofs!PoolKept` | `Spec => []PoolConserved` | no teardown |
| `RecvReorderProofs!HeldFramesHaveTimer` | `Spec => []NoStuckFrame` | |
| `DataProofs!SkbsSafe` | `RxSpec => []RxDataSafe` | |
| `DataProofs!FramesServed` | `XpSpec => []NothingStranded` | |
| `DataProofs!FewNeverDry` | `XpSpec => [](NothingStranded /\ ~ xpDry)` | fewer callers than buffers (`XpCallers`, `XpBufs`) |
| `DataProofs!TransfersWhole` | `XpSpec => []TransferWhole` | |
| `DataProofs!AgreementsUsed` | `XpSpec => []AmpduUsed` | `XpSeq0` below 4096, fewer than 2048 packets (`MaxXpTx`) |
| `DataProofs!AgreementsInStep` | `XpSpec => [][AgreementsStay]_xpVars` | `XpSeq0` below 4096 |
| `DataProofs!FramesInOneList` | `RpSpec => []FrameOnce` | |
| `ChipProofs!CalibrationRestores` | `IqkSpec => []IqkRestores` | |
| `ChipProofs!ImagesWhole` | `FwSpec => []ImageWhole` | |
| `ChipProofs!MailsInOrder` | `FwSpec => []MailInOrder` | |
| `ChipProofs!ReportsRight` | `FwSpec => []ReportRight` | |
| `ChipProofs!PairwiseKept` | `KSpec => []PairwiseProgrammed` | |
| `ChipProofs!TunerAgrees` | `RdSpec => []ChannelAgrees` (part of `RadioRight`) | |
| `ChipProofs!SwingKept` | `RdSpec => []SwingTracks` (part of `RadioRight`) | |

All are for every value of the constants. The only assumptions are the `ASSUME`s of the
modules (which TLC evaluates in the runs) and those of the last column, each of which the
property needs: a signal that interrupts the wait in `rtw_start_drv_threads` leaves a token in
`terminate_cmdthread_sema`, with which the next stop returns at once; an unplugged device
leaves `hw_init_completed` set over a chip without power; a DELBA leaves frames in the list that
later frames overtake; a frame that is reordered while its station is torn down stays in a list
nobody looks at and is lost to the pool. With contexts in parallel (`Smp`) TLC finds, in a few
steps, a frame that `rtw_xmit` queues for a station that has begun to doze since it asked, and a
PS-Poll that sets `sleepq_len` to 0 over a list that is no longer empty. A mixed station (some
categories delivery-enabled) has one counter for two kinds of frames: a PS-Poll takes a
delivery-enabled frame without counting it, and the TIM is not updated for a legacy frame behind
one. `PoolKept` needs neither hypothesis. With 2048 frames between the request
of an agreement and its answer the next one is 2048 ahead of the agreement's start, which
`TX_SN_LESS` takes for behind it. (`MaxXpTx` counts all packets, so that the theorem asks for
a little more than the property needs.) `FramesServed` has no hypothesis on callers and buffers,
but the property has an exception: a frame that is queued while callers hold every buffer, none
of which is then submitted, has nobody to send it (TLC finds this with two callers and
two buffers). The driver has four buffers (`NR_XMITBUFF`), four transmit queues and the forwarding
of an access point, so that up to five callers are possible. `FewNeverDry` says that the
exception does not arise while fewer than four are at work; it is a statement about the load, and
not about every run of the driver.

The inductive invariants and why they are needed:

- *Typing (command thread).* `TypeInv` adds to `TypeOK` that a start that has begun is within
  the bound (`SessionBound`) and that a caller or thread at work has a command in hand
  (`HoldsCmd`); without the latter the actions that append or free it are not typed.
- *Join.* `JoinInv`: only the last thread can be alive (`OnlyLastAlive`), before the start
  and after the stop none is (`QuietJoined`), and the semaphore's count is fixed by how far
  starter and thread have come (`StarterCount`, `StopperCount`). The count is what makes
  one semaphore safe for two purposes, and it is the part that is not visible in the
  property.
- *Wakeups.* `WakeupInv`: with a command in the list the semaphore is positive, or a caller
  is about to raise it, or the thread is on its way to the list. The thread drains several
  commands for one token, so the count says nothing about the length of the list and the
  invariant has to be about emptiness only.
- *Ownership* is inductive with `TypeInv`. *HandlersHaveHw* uses `HwInv`, which ties
  `hw_init_completed` to the positions of open, suspend, IPS and the thread.
- *TimeoutsGuard.* `GuardInv` is the three properties with the type of the timers and
  of the contexts' positions. Together they are inductive, since every place that sets
  `_FW_UNDER_LINKING` or `_FW_UNDER_SURVEY` sets the timeout in the same step.
- *SurveysGuarded.* `StaInv` adds `HandOK` (retry counters are below their limits while there is
  something to retry, and the network is known while a handshake runs) and `QueueOK` (the head
  of the queue is the join the thread has begun; a running `survey_timer` means that the channel
  was left for a survey).
- *Lease.* `LeaseInv` is the handshake of two unlocked flags: the waker writes
  `ips_deny_time` and then reads `ps_processing`, the command thread writes `ps_processing`
  and then reads `ips_deny_time`, so that at least one of the two sees the other. Every step of
  `PwrCtrl` is then a step of `PowerLease` or leaves its variables alone.
- *Dozing stations.* `PoolKept` is an argument about a sum: every step takes frames from one
  list and appends as many to others. `Total` and `Only` (a loop over a list) are recursive
  functions; that they exist and what they give is shown by arguments about a least
  counterexample, in lemmas of their own (`TotalOne`, `OnlySplits`, `PlainStays`, ...). For one
  processor `SlServed` adds what a context saw before it let go of the lock and relies on after
  (`SlOrder`: the receiver of the frame in `rtw_xmit`'s hands is awake, the list of a poll that
  found none is still empty), the exact counter (`SlCounts`), the two records of dozing
  (`SlAgree`) and that no tx_servq of who dozes holds a plain frame (`SlSpared`). They need each
  other in that order: since the pool is below `W` the lists fit, so the counters are exact,
  so a wakeup clears the records of dozing, so nobody awake is buffered for. `SlTold` adds the
  second counter (`SlAcLen`), the TIM (`SlTim`) and that the beacon shows it at all times, not
  only when all contexts are idle (`SlShown`): a station enters the TIM with its first frame,
  when the counter becomes 1 and the beacon is updated in the same step.
- *Management buffers.* `MgInv` is the types, what each position of a call holds
  (`CallSound`), that a pointer to a context belongs to a call that still waits (`CtxBound`), that
  lost buffers are nowhere else (`LostApart`), and `BufsAccounted` itself.
- *Stations of the access point.* `ApInv` holds until `rtw_free_all_stainfo` and adds to
  `StationsSound` that every station with a flag of success passed the exchange and every
  station that waits for an answer was challenged (`PassedOK`): a flag outlives the list the
  station is on. For `AbilitiesTold` it ties the ERP bit to the counter (`Protects`) and not to
  the stations: stations freed from `auth_list` stay counted, so that the counter may stay
  above their number, and the bit changes only when the counter becomes 1 or 0. What a join
  or a departure does to the counters is arithmetic of cardinalities (`PutIn`, `TakeOut`).
- *Order.* `OrderInv` says in which of three ways the window start relates to the frames: no
  agreement, and frames go straight up (`Direct`); an agreement that has seen none (`Fresh`);
  or a window that begins at an absolute number `w` (`Aligned(w)`), below which everything is
  decided and above which the list lies. Everything else is arithmetic of `% (2 * HALF)`: two
  numbers less than half the space apart compare as their absolute numbers do. `HeldSound` is a
  consequence; `PoolInv` counts frames in the free list, the list and the hands of the contexts.
- *HeldFramesHaveTimer.* `TimerInv` adds to `NoStuckFrame` that the list is a sequence and
  that the list is empty as long as the tasklet is about to delete the timer
  (`DelTimerEmpty`): nobody else adds to it meanwhile.
- *Skbs.* `RxInv` is the types, one owner per skb, and the reason for a queue without a tasklet.
- *Transmit.* `XpInv` ties queues, lists of `hwxmits`, buffers and the positions of tasklet and
  callers together. When no buffer is free and
  the tasklet holds none, either one is in flight, whose completion schedules the tasklet, or
  callers hold them all, which is `xpDry`. `FewNeverDry` adds that fewer callers than buffers
  cannot hold them all.
  `TransferWhole` rests on lemmas about the layout for every length: where a frame begins, that
  the padding suffices, and that the 8 bytes added avoid a full last packet.
- *Agreements.* `AmpduUsed` fails when the number of a frame is half the number space or more
  past the start of the agreement, and the start stays where the request put it until the
  answer comes. `SeqsCounted` bounds the distance (`Lead`) by the packets handed over, less
  the frames of that queue that have no number yet: with a caller, in the queue, or in the hands
  of the tasklet. Every way of a frame takes it from one of these when it gives it a number, so
  that the sum is the same argument for all of them. The bound of 2048 packets is one of the
  code and not of the proof: the driver takes frames further ahead for old ones and no longer
  aggregates them. `AgreementsInStep` has no bound on packets: after the
  first frame under the agreement the start moves with every frame and the distance is 0.
- *Receive frames.* `RpInv` adds that the frame `recv_func` holds between two steps is in none of
  the lists; for the helpers, `Going` says the same of the frame that goes on after
  reassembly. The invariant holds by `list_del_init` alone: after the stack refused a
  reassembled frame the last fragment, which reassembly freed, is freed once more. It is
  then moved within the pool and not put into it twice, but `free_recvframe_cnt` counts it twice
  and the reassembled frame is lost, which is why no property relates the counter to the pool.
- *Calibration.* `IqInv` says that what is saved is the original, which register groups are
  intact at which place of the calibration, and that the path not in work is untouched.
- *Firmware.* `DlInv`: the pages written hold their part of the image, and the last
  begins inside it; the division into blocks is a lemma over all sizes. `RepInv`: frames on their way
  are those of the latest report, and during a report a set valid bit speaks of its frames: the
  bit was cleared first, and only its own frames can set it again. `WaitFits`: a packet that is
  sent fits the reserved pages. `ToldInv`: a command that tells the locations of pages tells
  places one page apart behind the beacon, inside those pages. `MailInv`: unless a command was
  torn, the box pointer, the firmware's pointer and the commands not yet taken describe the
  same ring, the boxes between the two pointers and no others are full, and only the owner of the
  mutex writes.
- *Keys.* `PairwiseProgrammed` speaks of an empty queue only. `KeyInv` says what the CAM will
  be: for every station with a key, the last command in the queue that touches its entry is
  the one that brings its key, or none touches it and the entry is right already; two stations
  never share an entry. A clear command that waits for the last holder of a MAC id is harmless
  because the new holder's key comes behind it.
- *Tuner.* `ChannelAgrees` speaks of a free mutex only. `RdInv` says how far record and
  registers are apart while it is held: no thread but the holder has callbacks to run, and the
  holder's list has one for every part that does not agree. The band and its swing agree
  all the time (`BandOK`), because a switch of bands is one step and the difference that moves
  the base index is that of the swings programmed. A process that went on without the mutex
  voids the first part and not the second, which is why `SwingKept` has no exception.

Each inductive invariant was first checked by TLC on the instance of the run.

Only model-checked, and why:

- the liveness properties: fairness and `ENABLED` are out of the prover's reach;
- `LinkAgrees`: it holds when all is quiet and needs the history of the command queue as
  a strengthening;
- `PowerRight`, `TablesRight`, `HwRight`: evaluations over given tables and register lists,
  in which there is nothing to generalise;
- `MsduRight`: what reaches the stack is a sum over fragments and a loop over subframes,
  recursive functions of the data, and would need induction over them;
- `FiltersFollow`, the third part of `RadioRight`: whether the filters are open when all is
  quiet depends on which surveys, joins and modes are in the queue and in what order, and on
  their steps still to run; the history is what a strengthening would have to describe. TLC
  found no violation with all behaviours of 6 operations, with 17 million states of those of 9,
  and in random behaviours of 30.

## 6. Disagreements found

With a run that shows them:

- `cmd_suspend_deadlock`: `rtl8821au_suspend` holds `pwrpriv->lock` while it waits for the
  command thread, which waits for that lock in `rtw_ips_enter`.
- `sta_timer_lock`: `del_timer_sync` of `scan_to_timer` and `assoc_timer` under
  `mlme_priv.lock`, which their handlers take.
- `sta_rejoin`: the event of a lost link, served after the user has asked for the next
  network, clears the linking of the new join; its success is then ignored.
- `ap_group`: `rtw_chk_hi_queue_hdl` clears the TIM bit of a group frame that was buffered
  while it waited for the high queue.
- `tx_agg`: the aggregation loop of `rtl8812au_xmitframe_complete` frees the frame its list
  pointer stands on and walks on in the free list, so that it aggregates two frames at most.

Met while modelling and part of the models, without a run of their own:

*Command thread and station.*
- `rtw_enqueue_cmd` may append to the list after the thread has drained it
  (`rtw_cmd.c`, filter and append are two steps); the command waits for the next session.
- The callback of a dropped `_DisConnect_CMD_` leaks the command and marks the station
  linked again.
- An interrupted wait in `rtw_start_drv_threads` makes the next stop return early.
- A scan that passed its test may begin under a join that the end of another scan started.

*Management frames.*
- A buffer given back on an error path may have been handed out again when its `sctx` is
  cleared; `issue_assocreq` copies from the buffer after it has handed it over; `send_beacon`
  has ends without a return value; a beacon or probe response that is too large, and a frame
  refused by a stopped driver, leave their buffer behind.

*Access point.*
- A failed re-association leaves the AID 0 and the slot of `sta_aid` taken
  (`rtw_mlme_ext.c:1686`); counters are not counted down when `OnAuth` fails or an
  authentication expires; `updated` may be used uninitialised; `stop_ap_mode` walks lists
  that frames still change; `expire_timeout_chk` keeps a next pointer over an unlock; `OnAuth`
  frees without `sta_hash_lock`; `update_bcn_erpinfo_ie` runs only when the count is 1;
  `rtw_ht_operation_update` is inverted; `rtw_add_sta` overwrites the AID (`rtw_ap.c:699`).
- `stop_sta_xmit` takes `tx_servq`s out of the lists although triggered frames are in them.
- The group frames that `wakeup_sta_to_xmit` sends when "no any sta in ps mode" are never
  sent there: the test precedes the clearing of the waking station's own bit. They go out with
  the next beacon command instead.
- On several processors, a PS-Poll on an empty queue may reset the length of a queue that
  has just got a frame, and `rtw_xmit` may queue a frame for a station that has just
  fallen asleep. `ap_sleep` is for one processor for this reason.
- Stations with only some delivery-enabled categories: the beacon is not updated when the
  first buffered frame is delivery-enabled and the next is not, and PS-Poll does not count
  down `sleepq_ac_len`. `ap_sleep` is for stations with all or none for this reason.

*Keys.*
- `setkey_hdl` passes two arguments in each other's place; a MAC id may be reused while
  the command that clears its entry waits; a station that rejoins may get its old key from a
  late command; the pairwise algorithm "none" clears entry 0; MAC ids above `NUM_STA - 4` have
  no entry.

*Receiving.*
- A DELBA leaves frames in the reorder list; later frames are indicated before them.
- A frame queued for reordering after `rtw_free_stainfo` cleaned the TID stays until its
  timer fires, or is lost with the station.
- After a stop that finds data queued, no completion schedules the receive tasklet
  (`usb.c:610`, `usb_ops_linux.c:148`); a failed submission leaks its skb (`usb.c:693`); a URB
  without memory is not submitted again; the tasklet is not killed before its data is freed.
- A reassembled frame whose indication is refused is leaked and its last fragment freed twice
  (`rtw_recv.c`, around 2468); fragments of a freed station are lost; fragments of different
  MSDUs may be joined; port control reads an uninitialised pointer; the group Michael key may
  be uninitialised.

*Sending.*
- A packet refused at low resources leaves its queue of the stack stopped
  (`xmit_linux.c:161`); the direct path gives a buffer back after a failure without scheduling
  the tasklet, so that a frame queued while callers held all buffers may wait until some other
  transfer or a survey ends; `txseq_tid` is counted without a lock;
  `rtw_usb_bulk_size_boundary` lacks an `else` (`trx.c:247`).

*Power saving and firmware.*
- A wait of 3 s that times out reports success without a lease; the firmware is told
  `PS_MODE_MIN` also when leaving LPS.
- The result of `mutex_lock_interruptible` is ignored before mailboxes and before channel
  changes; a full mailbox drops its command silently (`fw.c:133`); a download during a
  command leaves the box pointer stale; the size check of the image looks at the previous
  image; `pfirmware` is leaked; the reserved pages are told whether or not they arrived.

*Chip.*
- `rtl8821au_read_chip_version` never stores the version; `_InitBurstPktLen` sets what it
  means to clear and overwrites its fallback; U1/U2 and `TXPAUSE` are not restored; an
  initialisation that fails after the MAC is on leaves the chip on; the power-off writes
  `REG_TX_RPT_CTRL` from an uninitialised value.
- The end of a survey does not return to the channel of the link, although a comment says
  "switch back to the original channel"; management frames get CCK rates at 5 GHz; a 20 MHz
  switch leaves the old secondary channel.
- A change of mode clears `_FW_UNDER_SURVEY` and `_FW_UNDER_LINKING` (`rtw_ioctl_set.c:430`)
  while the command thread is still at the survey or the join. A second survey can then be
  queued and run into the next join; it ends with no link yet and leaves `REG_RXFLTMAP2`
  closed, and the link that follows receives no data frames. `FiltersFollow` excludes such
  histories (`cut`), so that no property covers them; it took six operations
  to meet one, two more than the run has, and the proof attempt is what led to it.
- By-rate and limit arrays are indexed past their rows; limits are stored by group and
  looked up by channel; a blank 5 GHz base becomes 0xFE.
- Calibration stores measurements by round but counts successes, so that elements that were
  not set enter the mean.
- The dynamic watchdog tests a local `hw_init_completed` that is never set.

## 7. Not modelled

- The registers with which the report of a new link takes the beacon queue for the download:
  bit 0 of `RegCR_1`, bits 3 and 4 of `REG_BCN_CTRL` (set and cleared without looking at what
  they were, `fw.c:855`), bit 6 of `RegFwHwTxQCtrl`. What they should hold depends on their other
  writers (`rtl8821au_init_beacon_parameters`, modes, joins and disconnects in `hw.c`), which are
  not in the models. These run on the command thread as the report does, except for
  `disconnect_hdl` when `rtw_disassoc_cmd` calls it without the queue.
- EFUSE reading, element parsing and building: loops over bytes without state that survives.
- Security engines: computations on bytes.
- Dynamic mechanism: its watchdog never executes its body (section 6); the rest is arithmetic on
  measurements.
- LED: a blink state that nothing depends on.
- LC calibration and the antenna switch, the contents of descriptors, signal statistics,
  monitor mode, WPS, IBSS, the ioctls that only copy parameters.
- Kernel glue, firmware images, and files that are not built (`ps.c`, `core/rtw_eeprom.c`).
- The order of spinlocks: what happens under one is a step.

## 8. Plan

Done: the modules of section 2 and the proofs of section 5.

To prove next, in this order:

1. `Radio`: `FiltersFollow`.
2. `RecvPath`: `MsduRight` without the lengths: whole and once.
3. `StaMlme`: `LinkAgrees` for one processor.
