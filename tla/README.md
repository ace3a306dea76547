# Halo firmware: TLA+ models, model checks and proofs

The firmware of the Halo glasses (Zephyr, one Cortex-M55 core, Lua 5.4 scripts
sent over BLE). Its own logic is in `src/modules/halo/src` and
`src/applications/halo`; everything below cites paths of this repository and is
translated from the C code, not from the documents.

## 1. Inventory

| component | source | state it keeps | operations | talks to |
|---|---|---|---|---|
| Lua runtime | `lua_runtime.c` | `lua_ctx`: the VM, running, exited, interrupted, standby_hold, pending event bits, exit semaphore, line buffer | REPL thread, `lua_hook_dispatch`, interrupt / restart / reset / exit, event_signal, PM callback | called from the BLE host thread, button, work queue; notifies services; PM callback of the power manager |
| Lua services | `lua_service.c` | list of services, is_active, needs_resume, always_on | register, notify, power_save, enable / disable | runtime, every `lua_*.c` binding |
| Power manager | `pm_manager.c` | is_sleeping, last_mode, wakeup_source, callbacks with their suspended flag, two semaphores | sleep_light / standby / deep, wakeup, register_callback | runtime, BLE, LED, battery, watchdog callbacks |
| BLE manager | `ble_manager.c` | callback list, advertising state | register, unregister, notify | BLE connection, service, Lua |
| BLE Lua service | `ble_lua.c`, `lua_bluetooth.c` | REPL, audio and frame rings, a notification semaphore per channel, a write mutex, connection state | on_att_val_set, send, read, drain, resize, connect / disconnect, init / deinit | BLE host thread to REPL, pump and microphone threads |
| BLE connection, security | `ble_connection.c`, `ble_security.c` | one connection; bond table in noinit RAM and in flash, LRU counter, pairing window | connect, resolve, pair, store, evict, migrate, boot | vendor host stack, button, settings |
| OTA, boot, watchdog | `ble_ota.c`, `main.c`, `watchdog_manager.c` | image slot, offset, feed work | begin, write, finish, confirm, feed | MCUboot, reset |
| Audio | `audio_stream.c`, `lua_speaker.c`, `lua_microphone.c`, `sfxr.c` | owner of the speaker and the microphone, pump threads | create, start, stop, destroy, quiesce | runtime, power manager |
| ANCS, BLE audio, battery | `ble_ancs.c`, `ble_audio.c`, `ble_battery.c`, `battery_manager.c` | queues and cached values | GATT handlers, sampling | BLE manager, Lua |
| Camera | `lua_camera.c` | capture thread, one raw buffer, wake flags | capture, read, power_save, service callbacks | service registry, video driver |
| Button, IMU, display | `lua_button.c`, `lua_imu.c`, `lua_display.c`, drivers | event ring, frame buffers | input callbacks, drains | runtime events |
| ISO datapath | `iso_datapath_*.c`, `sdu_queue.c` | SDU queues | push, pop | controller |
| Files, memory, LED | `file_manager.c`, `mem_manager.c`, `led_manager.c`, `mram_guard.c`, `se_mgmt.c` | mount, patterns | mount, allocate, blink | drivers |

What makes the behaviour hard:

* **One VM, many producers.** Only the REPL thread may run the VM, and it is the
  least urgent of the threads involved (REPL priority 7, `prj.conf:143`; BLE host
  1, `boards/halo.conf:22`; button and sensor threads cooperative). Others can
  preempt it between any two of its statements and set flags.
* **Teardown.** Restart, light sleep, Ctrl+F and power-off end the VM, each a
  different way, and Ctrl+F and power-off give up on the REPL thread after 3 s.
* **Unlocked chains.** The suspend chain of a sleep runs without the lock, for
  seconds; wakeups, timeouts and a power-off arrive while it runs.
* **BLE.** Disconnects and a deep sleep's deinit race with sends that wait for
  their confirmation and with readers of the rings.
* **Resets.** Bonds are four settings keys each; RAM with the mutex in it survives
  a warm reset.
* **Background work under callbacks.** The capture thread also wakes the sensor;
  Ctrl+C, sleeps and restarts stop it from three threads, in any stage.

What makes each component correct: the runtime closes a VM once, after its
services and never under the thread that runs it, loses no event, raises a
break once and always ends a stop; the power manager loses no wakeup, reports
the true reason, resumes what it suspended, and powers off when asked, having
told every component, in order of priority; the service registry resumes exactly
what it suspended; the BLE service hands over every frame once, in order, wakes
its readers and releases its senders; security keeps a bond through any reset
until it is the oldest, and gives each link its own; the camera has its sensor up
when it says so, shows whole frames and frees no buffer the driver has.
`PROJECT.json` lists the components with their status and the hazards with their lines.

## 2. Plan

| # | module | of | composed with | proofs |
|---|---|---|---|---|
| 1 | `LuaRuntime` | runtime; implements `VmLife` | service mutex and PM sleep in outline | `LuaRuntime_proof` |
| 2 | `PmManager` | power manager | callbacks as constants; `CallbackList` gives their order | `PmManager_proof`, `PmManager_orderly_proof` |
| 3 | `CallbackList` | registration of the power manager's callbacks | `MCPmManager` | `CallbackList_proof` |
| 4 | `BleLua` | Lua GATT service; implements `FrameQueue` | sleep's deinit, runtime's event bit and cleanup | `BleLua_proof` |
| 5 | `BleSecurity` | pairing and bonding | connection callbacks, flash, resets | `BleSecurity_proof`, `BleSecurity_bonds_proof` |
| 6 | `LuaCamera` | camera and service registry | runtime's PM callback | `LuaCamera_proof` |

All six are done. What would come next, were the project to grow: the speaker and
microphone pumps (`lua_speaker.c:1066` is the hazard to begin with), which have the
shape of `LuaCamera`; several services in one SUSPEND walk.

## 3. LuaRuntime

State: the fields of `lua_ctx` under their own names (`armed` is the state's hook
mask; `hasL` is `lua_ctx.L`, `open` is whether a `lua_State` exists); `repl` is
where the REPL thread is in `lua_repl_thread_fn`, `lua_vm_init`, `lua_vm_cleanup`
or `lua_hook_dispatch`; `pc[t]` is where another thread - or the REPL thread,
from a Lua function - is inside a call. Each label is a point between two
accesses to shared state, so every preemption that matters is there.
`lua_hook_arm` and the pointer swap of a teardown hold a spinlock and are single
steps. `svcLock` is `service_lock`; a notification is two steps with the callbacks
between them. `early` and `fresh` are history variables.

Of the vendored Lua (`src/modules/lua/src`) the module has what the runtime rests on:
an armed hook is entered before the next VM instruction, `luaL_error` goes to the
innermost pcall or resume, callbacks inside a hook run without hooks. The hook is
a field of each Lua thread (`ldebug.c:131-142`): a coroutine copies that of its creator
when it is created (`lstate.c:299-301`), and `lua_hook_arm` sets that of the main thread
alone (`lua_runtime.c:236`). So `armed` is the main thread's hook, `coArmed` the running
coroutine's, `co` the depth at which it runs (0: none does), and `Hooked` the hook
that counts. One level of coroutines is modelled; with `MaxPcall = 1` the runs
have a pcall or a coroutine, not one within the other. A script that sets
hooks itself (`debug.sethook`, the library is open) is left out.

Scheduling: strict priorities on one core. The REPL thread steps only when no
thread of `Threads` is ready (`ReplTurn`); those threads are taken in any order,
which covers each relative priority.

`LuaRuntime_safety` has the BLE host thread making two of Ctrl+C / Ctrl+D /
Ctrl+F, the button thread signalling an event or powering off, a script that
runs a coroutine or goes to deep, light or standby sleep, scripts that may loop for ever and service
callbacks that may outlast the wait of an exit. It checks the type invariant,
the single owner of the VM, the REPL thread's VM, the armed hook under pending
events, the VM gone after an exit, one break per request, and the refinement of
`VmLife`, with its DEINIT before close.
Two control characters are the least with which an exit meets a restart and a
stale exit semaphore; one nested pcall and two lines per read reach every branch
of the raise and of the line loop.

`VmLife` is a VM's life as scripts and services see it, whoever ends it: created when
the last is closed, its services started and stopped within it, taken out of use
without them, closed; and none after the runtime is down. `VmLifeCycle` says that
`LuaRuntime` implements it: `live` while `lua_ctx.L` points to the VM, `closing`
while only the thread that swapped the pointer has it, `down` when an exit was asked
for, no VM is in use and the REPL thread can only leave its loop.

`LuaRuntime_progress` (liveness) has a BLE host that breaks or restarts, a button
thread that exits, signals or holds the VM in standby, Lua code that goes to light
sleep, scripts that may loop for ever and services that answer within 3 s: every exit
returns, and two more properties hold under an assumption they state. `EventDelivered`: if the
script does not stay in a coroutine for ever (`[]<>(co = 0)`), the callback of an event
signalled while the VM runs is called, whether or not the script ends.
`StopTearsDown`: if scripts and the coroutines in them end (`ScriptsEnd`), a stopped VM is
torn down.

What two runs and the configuration `LuaRuntime_coroutine` (10) refute:

* `LuaRuntime_coroutine`: a break lands "on its next VM instruction" (`lua_runtime.h:48-50`).
  A script that loops in a coroutine never meets the hook; no Ctrl+C, Ctrl+D or event
  callback reaches it until it yields or returns (`lua_runtime.c:236`). This is why
  `EventDelivered` has its condition.
* `runtime_lost_stop`: a restart between the hook's tests and its disarm leaves a script
  running with no hook (`lua_runtime.c:209`).
* `runtime_exit_hangs`: an exit that aborts the REPL thread inside a service callback
  blocks for ever on the mutex that died with it. The speaker's DEINIT shows that
  callbacks without a bound exist (`lua_speaker.c:1066`).

A signal made while no VM runs is drained by the next VM (`lua_runtime.c:255` sets
the bit first); `early` keeps such events apart, and the event properties except them.

Fairness (`FairSpec`). The REPL thread goes on when it has the turn; begun calls go
on; a PM sleep ends. Nothing makes a call begin, a script end or a coroutine yield.
`SF_vars(ReadNothing)`: the peer does not stream for ever without a newline; the read of `lua_runtime.c:509` has a 20 ms timeout, and without
this the model could read empty pieces for ever and run no chunk.

Out of the model: `init` and `deinit` (never called after boot), control
characters inside a line, Ctrl+B / Ctrl+G, the overfull line buffer, and in the
callbacks themselves everything but their begin and end.

## 4. PmManager

State: the fields of `pm_ctx`; `pc`, `idx`, `mode`, `failed` are each thread's place in
its call, position in the callback list, sleep mode and failed chain. `told[c]`
(history) is the sleep component c is prepared for; `endedBy` (history) is what
really ended the sleep. Sections under `pm_ctx.lock` that touch nothing shared
outside the lock are single steps. The end of a wait swaps `is_sleeping`, which a
waker swaps without the lock, and then stores the source, so it is two (`Woken`,
`Stamp`), with the lock held between them (`Locked`). A waker's swap and its note are
two, as are the failure path's two stores (`Abandon`, `Release`); a takeover notes the
button, whoever makes it. Each callback is two steps, so that other threads run
during it. `k_wakeup` of a pended thread does nothing and is left out; `k_sem_give` hands the unit to the
pended thread of highest priority.

Instance: the REPL thread below the BLE host below the button thread; three
callbacks of the three kinds registered in the code: `ble_manager` sits out light
and standby, `lua_runtime` takes part in all and may refuse, `watchdog` sits out
standby. They are registered out of order, with their `Priority`, and walked in the
order that the registration of `CallbackList` gives.

| run | shows | bounds |
|---|---|---|
| `pm_sleep` | two scenarios. Wakeups before, during and after the suspend chain, against timeouts and a refusing callback: none is lost, the reason is true, everything is resumed, the sleeper returns. The button powers off a sleep with no timeout: chains do not overlap, callbacks see their own mode, every component is told, highest priority first, and the power-off happens unless a callback refuses | two sleeps and four wakeups (a waker of the first sleep can still be between its swap and its give in the second); two calls each of sleep, refused power-off, power-off |
| `pm_races` | everything at once, chains outlasting the 3 s takeover: types and `NoFlagLeft` | two calls of Lua, one each of the others |
| `pm_overlap` | refutes "serialized by the is_sleeping atomic": a wakeup during the chain frees the slot | one call each |

`pm_sleep` keeps a power-off apart from wakeups and from timeouts. With wakeups
`ChainsDoNotOverlap` is false (`pm_overlap`), and the overlap also breaks
`WakeNotLost`, `SleeperReturns`, `WakeReason` and `AwakeMeansResumed` (the failure
path stores 0 to `is_sleeping` whoever owns it). With timeouts `PowerOffTellsAll` is
false: the slot is freed (401) before the resume chain has run, and a power-off
in that window skips what is still marked (hazard `pm_manager.c:517`).

What its two scenarios have in common is `Orderly`, which the instance checks of
them and the theorems assume, for any threads, callbacks and number of calls: one
thread sleeps, and wakers above it in priority do nothing else; or a power-off
above a sleeper without timeout, whose chains take less than 3 s, and nobody else.

Fairness: a begun call goes on - the scheduler runs ready threads, callbacks
return, the 3 s of `k_sem_take` pass. No call need begin and no sleep need time out.

Out of the model: the 15 s failsafe and the forced reboot after power-off, the
unused `standby_async`, wakeup-source and policy-lock configuration, statistics.

## 5. CallbackList

`halo_pm_register_callback` on Zephyr's doubly linked list, as a sequence and
without state: `PmInsert` puts a callback before the first of lower priority,
`Registered` is the list after a sequence of calls. `MCPmManager` builds `Order`,
the constant `PmManager` walks, with it, and `HigherGoesFirst` (of `PmManager`)
checks the chain that results; the theorem `PriorityOrder` has any calls. The mutant of `PmInsert` is the insertion that `ble_manager.c:311`
really makes, one place too early.

## 6. BleLua

State: the fields of `lua_ctx` of `ble_lua.c`; of the vendor stack the link, the
notifications it holds (`inFlight`) and sent events of an earlier link that may
still come (`stale`). A ring is the number of lines or packets in it, the frame
ring its lengths and payloads. `dataBuf` is the service's buffer, `ringBuf` the one its
ring points into, `held[t]` the one a resize or the deinit has in hand, `heap` what
is allocated.

Steps. Callbacks of the BLE host are single steps: they store, put and give and do
not wait, and every reader and sender is below them in priority. A write is taken
apart at the link test, the mutex, the semaphore, the test after it, and the
send; a read at its test, semaphore, second test, get, look and re-give; the drain at
its test of `initialized`, which it makes before it locks, and the drain and the flush
at each get under `data_lock`; a resize at its allocation, swap and
free; the deinit at each of its stages (its five gives, which nobody can run
between, are one step). The wakeup that a write sends to a sleeping device belongs
to `PmManager`.

`FrameQueue` is what `lua_bluetooth.c` promises a script - "one ATT write becomes
exactly one callback invocation, in arrival order" - and `FrameFifo` says that
`BleLua` implements it, with the queue mapped to the payloads of the ring: every
second cell, the last one included, so that a drain between its two gets has not yet
taken anything from the queue.

`ble_service` has four workloads, chosen at the start: writes on both channels;
lines and their reader; packets, their reader and the flush of `speaker.stop`;
frames, their drain, a new VM and a resize. Each races a lost and renewed link
and the deinit of a deep sleep. Two notifications a write, two places a ring and
three of what arrives fill a ring, cut a write and leave one behind.
`SlowReconnect`: a new link comes after the senders of the old one have returned (a
reconnection takes tens of milliseconds, a sender that was given its unit runs
within one); without it a sender tests the link before it is lost and sends on
the next, with the unit of the last. The video channel is like TX, and is left
out; so are the service's reads, statistics, and what a torn ring index would
return (hazard `ble_lua.c:305`).

The configuration `BleLua_use_after_free` (10) refutes "Block new readers/writers immediately" (`ble_lua.c:705`): the
deinit frees the data buffer, but its ring stays and so do the GATT callbacks. A data
write of the peer, or a drain that made its test before the deinit and locks
after it, uses the freed buffer (`ble_lua.c:240`, `:770`). `BufferOwnedOnce` is about the
ownership of the buffers alone: one owner each, one free, no other buffer under a
service's ring. The branch for a frame that does not fit the drain's buffer
(`ble_lua.c:783-786`) cannot be taken: a write of at most 512 bytes less its marker
(`ble_lua.h:86-91`) fits the 511 the drain brings.

Fairness: the stack reports a notification sent while the link lasts; senders, the
drain and the deinit go on. Nothing makes a call or a link begin.

## 7. BleSecurity

State: `sec_ctx` in noinit RAM, with its magic and its mutex; `flash`, the four
settings keys of each slot; the legacy bond of the single-bond firmware; the
stack's link and pairing. A bond's keys are a peer's name and the number of its
pairing, which tells old keys from new. Histories: `promised[p]`, the pairing whose
bond was stored and that p has not dropped; `latest`, the peer whose use or bond was recorded
last; `struck`, slots that a reset cut off during a commit.

Steps. The callbacks of the BLE host hold `sec_ctx.lock` and the host's own lock: a
step is a callback up to its next settings write, each write is a step, and a
reset, warm or cold, may come between any two. The timeout of the pairing window
runs on the work queue; the button opens the window only between callbacks, since
it takes the host's lock. A warm reset keeps RAM and lock as they stood; a cold
one loads the table, restores the LRU counter and imports the legacy bond, as
three writes that a reset may cut.

`ble_bonds` has three peers, two of which use private addresses and are
interchangeable (`Symmetry`), for two slots, so that the third evicts; four
pairings, two of one peer, allow a peer to forget and pair again after its own
eviction; `MaxUses` bounds the LRU counter at what these need. `ble_boot_hangs`
refutes "bonds survive warm reboots" with one peer and one slot: the boot takes
the mutex that the reset left owned, without `k_mutex_init`.

The configuration `BleSecurity_encrypt_fails` (10) shows where code and design part: a link that cannot be encrypted
keeps its bond (`ble_security.c:785-796`, on purpose: a peer that only uses the address
could delete it otherwise), and `PAIRING.md:128` and `:195` have its slot cleared. The
model follows the code, so `BondSurvives` includes failed encryptions.

`EvictsOldest` says that a bond goes only from a full table and is never that of the
peer that bonded or connected last. With the two slots of the run that leaves the
one used longest ago; with more it does not say which of the others goes. Whether
`gapc_is_bonded` says yes after a pairing is the stack's (`SetPaired`).

Assumed: a connection request follows the answer to the last resolution; a peer
pairs again only after it has forgotten; settings writes succeed. `SlotsWhole` and
`LinkHasItsBond` except `struck` slots, rewritten in place and cut half way, which
the code cannot tell. Left out: factory reset, `bond_clear`, the `encrypted` flag.

## 8. LuaCamera

State: the camera's entry in the registry (`is_active`, `needs_resume`,
`service_lock`), the flags of `camera_state`, the capture thread's place, whether the
driver holds the raw buffer (`queued`) and the sensor is up (`up`). An operation is
the sequence of service callbacks its caller makes (`Calls`): a standby is SUSPEND
then RESUME, a light sleep SUSPEND, DEINIT, INIT, and so on, taken from
`lua_runtime.c` and `pm_manager.c`; `todo` is what is left of it.

Steps. The REPL thread and the capture thread have one priority and share the
core in slices, so both are cut at every access to shared state that matters. The
BLE host (Ctrl+C) and the button driver (power-off) are above both: what they do
between two waits is one step, the waits being the lock and the join of the
thread. A RESUME that starts a wake is four steps: the thread's start, the reset of
its semaphore, the wake's flags, and `is_active`; a thread just started may take a
trigger left over before the reset, and begin "a capture nobody asked for"
(`lua_camera.c:1162-1164`). A join ends with the thread's exit or, when the driver
hangs, with an abort. The device may fail to suspend, to resume, to stream or to encode, a format
or an allocation may fail: `MaxFaults` bounds how often.

`camera_power`: five operations of the REPL thread, one interrupt, one power-off,
one fault. Five reach a wake, a save that cancels it, a restart that stops it, and
a capture after another wake. One fault is one failure at any step; two
independent failures are not the subject.

A run and two configurations (10), all without a fault, refute what comments say:

* `camera_stale_cancel`: a camera whose wake reported no error is usable
  (`lua_camera.c:385`). `wake_cancel` survives the cleanup that drops its wake.
* `LuaCamera_realloc`: buffers are released after the driver is drained (`:694`). An INTERRUPT
  inside `capture()` leaves a buffer without a format and a trigger without a thread; the
  next `capture()` starts the thread, which enqueues the buffer, and releases it for
  the new format (`:876`).
* `LuaCamera_previous_frame`: after `capture()` "the previous frame stops being readable now"
  (`:890`). The thread may be about to publish the frame of an earlier trigger.

Exceptions, in the properties by name: `UpIffActive` leaves out wakes and suspends
the device failed, anything after a thread was aborted (sensor down) and after a
cancelled wake was dropped by a cleanup (sensor up); `BufferStays` the cleanups after
one that aborted the thread, and it is about cleanups only. `ReadyMeansStill` says that
no frame is overwritten while it can be read, not which capture it is of.
`CameraComesBack` is about `is_active`; what the sensor makes of it is `UpIffActive`. The
hazards are `lua_camera.c:543`, `:680`, `:864`, `:468`, `lua_service.c:215`.

Assumed: one sleep at a time (the power manager's swap); an exit waits for the
REPL thread before its last DEINIT (`LuaRuntime` has the case where it does not);
a wake takes less than the second that a stop waits (the comment at
`lua_camera.c:389` puts it near 200 ms), so that only captures are aborted. Left
out: other services that refuse a sleep, sizes of buffers, reading a frame.

Fairness: callers and the capture thread go on (time slices); `SF_vars(LastFrame)`,
because a capture skips a fixed number of frames (`LUA_CAMERA_SKIP_FRAMES`), which
the model does not count. No call need begin.

## 9. Proofs

TLAPS (SMT, Zenon, LS4) proves, for every value of the constants that satisfies
the module's assumption (`RuntimeAssumption`, `PmAssumption`, `BleLuaAssumption`,
`SecurityAssumption`, `CameraAssumption`: only the types of the constants, distinct
thread names, that `Order` lists every callback, that only the REPL thread runs
Lua), every safety property, action property and refinement that the passing runs
check. Where a theorem has a further hypothesis, it is named below. Each module has
one step per action under each part of its invariant.

* `LuaRuntime_proof`. `OneOwner`, `NoUseAfterClose` and `DeinitBeforeClose` are not
  inductive; `Owners` adds where the REPL thread has and has lost the VM, that a
  thread tears the VM down itself only after it aborted the REPL thread
  (`TearLabels`), and that the services have had their DEINIT by then. `StartInv` is
  what holds when a VM is created: the last one is gone, `running` is down, and
  every pending event is an early one. From it `EventsArm`, with `ArmInv`: from the
  moment `running` is set, an event has its producer still on the way to the hook,
  an armed hook, or a drain yet to look. `ExitLeavesNoVm` needs `ExitInv`: between the
  reset of the exit semaphore and the take the REPL thread has no turn, so the unit
  that is taken was given after `exited` was set. `OneBreakPerRequest` has `FreshInv`.
  All of them hold with a coroutine running at any point. `VmLivesOnce` is the
  refinement of `VmLife`. Any number of threads may exit at once, which the runs bound.
* `PmManager_proof`, of every scenario: `TypeCorrect` (with `PositionOK`: a thread's
  index is on the list while it walks it) and `FlagsCleared`. `NoFlagLeft` says
  nothing about a chain half way; the inductive `Covered` does: every marked callback
  has a thread that will still come to it in a resume chain. It holds with
  overlapping chains too.
* `PmManager_orderly_proof`, of every scenario that is `Orderly` (4): the seven
  properties of `pm_sleep`. `OneSleep` says that only one thread is between taking
  and freeing the slot, and `ToldInv` how far its suspend chain has told the
  components. What keeps the threads apart differs. In `AloneInv` the wakers are above
  the sleeper, so whenever the sleeper steps they are done, and whoever freed its
  slot has also given its semaphore (a waker below it could be cut off before the
  give and wake the next sleep instead). In `PairInv` the power-off takes the slot
  over while the sleeper's chain runs, and stays in its wait until the sleeper
  gives `resumeSem`, which was emptied before. `PriorityOrder` assumes that `Order` is
  what registration made of some calls (`Registers`).
* `CallbackList_proof`: `RegistrationSorts`. The list of any number of calls is
  sorted and holds the callbacks of all. The library's induction theorems take an
  operator and cannot be used here; a least number of calls for which it fails
  (`LeastNat`, from the well-foundedness of Nat) leads to a contradiction instead.
* `BleLua_proof`: `UnitKept` from `UnitInv` (each channel's unit is in the semaphore,
  with a sender past it, or with a notification of the live link, and the deinit's
  stages tell which of these can still move it); `BuffersOwned` from `BufferInv`;
  `FramesAnnounced` and `ReadersWake`; and the refinement `FramesInOrder` from
  `RingInv`: the ring is whole frames, less one length while a drain holds `data_lock`
  between its gets. Every step that touches the ring (`RingMoves`) then writes, takes
  or clears whole frames, which are the steps of `FrameQueue`. `OneAtATime` assumes
  `SlowReconnect` (6), and rests on `LineInv`: a connection index stands for a live
  link while senders can use it, the stack keeps no notification over from the last
  link, and the unit is in one place only. Workloads, rings and chunks have any size.
* `BleSecurity_proof`: `SlotsAreWhole` and `LinksHaveTheirBonds` from one invariant:
  `PlaceInv` (where the host thread can be), `SlotInv` (what it writes), `TableInv`
  (RAM and flash agree but for the slot being written), `ProgressInv` (which keys of
  it are written), `LinkInv`, `StagedInv`, `KeyedInv`, `FoundInv` (link, staged
  pairing, stored keys and found slot are of one peer) and `OldInv` (the legacy
  bond). For any number of peers, slots and resets.
* `BleSecurity_bonds_proof`: `BondsSurvive` and `OldestIsEvicted` from `Account`, on top of
  that invariant. `KeptInv` says where the bond of each peer is: in one slot of RAM
  and of flash, or still in the legacy keys. It is lost only when a callback writes
  that slot for somebody else, so the rest is what excludes this: `MatchInv`, a
  lookup finds at most one slot; `MirrorInv`, flash differs from RAM only where
  a write is going on; `UseInv`, no sequence number is above the counter, so the
  next use is the newest; `ActiveInv`, the slot of the link is the newest and its
  peer's; `PairInv`, whoever pairs has no bond that the pairing could overwrite;
  `ImportInv`, nothing else is stored before the legacy bond is imported.
  `OldestIsEvicted` assumes `MaxBonds > 1` (Kconfig allows 1 to 8, and defaults to 5):
  with one slot the newest bond is also the oldest.
* `LuaCamera_proof`: `SensorFollows`, `FrameIsStill`, `BufferHeld` and `StandbyRestores` from
  one invariant: `CallInv` (who is where in which callback, the rest of its
  operation, and that the lock lets one in), `ThreadInv`, `QueueInv` (when the driver
  can hold the buffer), `WakeInv`, `CancelInv`, `UpInv` (what the sensor is at each
  stage of a wake) and `SleepInv` (what SUSPEND leaves for its RESUME, and that a
  RESUME that starts a wake finds no other). For any number of threads, operations and faults, with the
  exceptions of the properties (8).

Only model-checked: liveness (`ExitReturns`, `StopTearsDown`, `EventDelivered`,
`SleeperReturns`, `PowerOffHappens`, `SenderReturns`, `WakeEnds`), since fairness and
ENABLED are beyond this prover. What the violation runs and configurations refute is false and has no theorem; in a
scenario that is not `Orderly` the proved properties of the power manager are only
`TypeOK` and `NoFlagLeft`.

## Not modelled

`PROJECT.json` gives the reason for each component. In short: the audio pumps and
their processing, the display and IMU bindings, GATT tables and encodings (ANCS,
battery, LE audio, SMP), drivers, and the vendored Lua VM, of which the modules
take what the runtime uses. Most of the repository's lines are samples, sound and
image tables and generated data; the firmware's own logic is some thirty
thousand lines, and the models are of the part where several threads, resets or
failures meet.

## 10. Running

`tlc -config LuaRuntime_safety.cfg MCLuaRuntime` and likewise for every run of
`PROJECT.json`; `tlapm LuaRuntime_proof.tla` and so on for the eight proof modules. Deadlock
checking is off in every configuration: the models stop when their calls are used up
or the device is off. Five configurations are not among the runs: each checks one property that the code
refutes, and `tlc` ends with the counterexample the section on its module describes.

| configuration | property | code | says otherwise |
|---|---|---|---|
| `LuaRuntime_coroutine` | `BreakLands` | `lua_runtime.c:236` | `lua_runtime.h:48-50` |
| `BleLua_use_after_free` | `NoUseAfterFree` | `ble_lua.c:240`, `:770` | `ble_lua.c:705` |
| `BleSecurity_encrypt_fails` | `EncryptFailureClears` | `ble_security.c:785` | `PAIRING.md:128`, `:195` |
| `LuaCamera_realloc` | `NewFormatKeepsBuffer` | `lua_camera.c:876` | `lua_camera.c:694` |
| `LuaCamera_previous_frame` | `NewFrameOnly` | `lua_camera.c:534` | `lua_camera.c:890` |

The `..._X` operators beside an action are mutants: plausible
bugs that the named property of `PROJECT.json` catches.
