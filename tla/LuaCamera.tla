----------------------------- MODULE LuaCamera ------------------------------
(***************************************************************************)
(* The camera service and the part of the service registry it lives under: *)
(* modules/halo/src/lua_camera.c and lua_service.c.                        *)
(*                                                                         *)
(* A capture thread waits for triggers, streams frames from the sensor     *)
(* into one raw buffer and encodes them; it also wakes the sensor, so that *)
(* power_save(false) need not wait.  The registry hands INIT, DEINIT,      *)
(* INTERRUPT, SUSPEND and RESUME to the service under service_lock; the    *)
(* Lua functions of the camera take no lock.                               *)
(*                                                                         *)
(* The REPL thread and the capture thread have one priority and share the  *)
(* core in time slices; the BLE host and the button driver are above both. *)
(* What one of these does between two waits is one step.                   *)
(***************************************************************************)
EXTENDS Naturals, Sequences

CONSTANTS
  Threads,   \* the threads that call the service
  Repl,      \* the one that runs Lua
  Nobody,    \* not a thread: the owner of a free lock
  Ops,       \* bound: Ops[t], what thread t may do
  MaxOps,    \* bound: MaxOps[t], how often
  MaxFaults  \* bound: failures of the device, and calls of its driver that hang

\* The callbacks each operation makes, in order; a capture makes none.
Calls ==
  [capture |-> <<>>, save |-> <<"OFF">>, wake |-> <<"ON">>,
   restart |-> <<"DEINIT", "INIT">>, interrupt |-> <<"INTERRUPT">>,
   standby |-> <<"SUSPEND", "RESUME">>, light |-> <<"SUSPEND", "DEINIT", "INIT">>,
   deep |-> <<"SUSPEND", "DEINIT">>]
Sleeps == {"standby", "light", "deep"}

ASSUME CameraAssumption ==
  /\ Repl \in Threads /\ Nobody \notin Threads
  /\ Ops \in [Threads -> SUBSET DOMAIN Calls]
  /\ \A t \in Threads \ {Repl} : Ops[t] \subseteq {"interrupt", "deep"}
  /\ MaxOps \in [Threads -> Nat] /\ MaxFaults \in Nat

VARIABLES
  isActive,     \* camera_service.is_active
  needsResume,  \* camera_service.needs_resume
  serviceLock,  \* the owner of service_lock
  initialized,  \* camera_state.initialized
  tid,          \* capture_thread_tid is not NULL
  shouldExit,   \* thread_should_exit
  captureSem,   \* capture_sem
  ready,        \* a frame can be read
  vbuf,         \* vbuf_raw is not NULL
  formatted,    \* fmt_raw.width is the requested one
  queued,       \* the driver holds the raw buffer
  wakePending, waking, wakeCancel,
  wakeError,    \* wake_error is not 0
  up,           \* the video device is resumed
  cap,          \* where the capture thread is
  pc,           \* where each caller is
  op, todo,     \* what it does, and the callbacks still to make
  left, faults, \* what is left of the bounds
  aborted,      \* history: a capture thread was aborted in the driver
  refused,      \* history: the device failed its last suspend
  dropped,      \* history: a cancelled wake was dropped before it began
  wasActive,    \* history: is_active when the last system sleep began
  poweringOff   \* history: the deep sleep is past its last callback

regVars == <<isActive, needsResume, serviceLock, initialized>>
thrVars == <<tid, shouldExit, captureSem>>
bufVars == <<ready, vbuf, formatted, queued>>
wakeVars == <<wakePending, waking, wakeCancel, wakeError>>
callVars == <<pc, op, todo>>
boundVars == <<left, faults>>
histVars == <<aborted, refused, dropped, wasActive, poweringOff>>
vars == <<regVars, thrVars, bufVars, wakeVars, up, cap, callVars, boundVars, histVars>>

CapLabels == {"none", "top", "taken", "stream", "dequeue", "process", "publish", "cancel",
              "error", "resume", "woken", "suspend", "slept"}
CaptureLabels == {"check", "wait", "start", "format", "alloc", "trigger"}
Labels == {"free", "lock", "suspending", "stop", "device", "reset", "arm", "confirm"}
            \cup CaptureLabels
Events == {"OFF", "ON", "INIT", "DEINIT", "INTERRUPT", "SUSPEND", "RESUME"}

\* The VM was created: INIT has run, the camera is in power save, its thread not started.
Init ==
  /\ isActive = FALSE /\ needsResume = FALSE /\ serviceLock = Nobody /\ initialized = TRUE
  /\ tid = FALSE /\ shouldExit = FALSE /\ captureSem = 0
  /\ ready = FALSE /\ vbuf = FALSE /\ formatted = FALSE /\ queued = FALSE
  /\ wakePending = FALSE /\ waking = FALSE /\ wakeCancel = FALSE /\ wakeError = FALSE
  /\ up = FALSE /\ cap = "none"
  /\ pc = [t \in Threads |-> "free"] /\ op = [t \in Threads |-> "none"]
  /\ todo = [t \in Threads |-> <<>>]
  /\ left = MaxOps /\ faults = MaxFaults
  /\ aborted = FALSE /\ refused = FALSE /\ dropped = FALSE /\ wasActive = FALSE
  /\ poweringOff = FALSE

Goto(t, l) == pc' = [pc EXCEPT ![t] = l]
Fault == faults > 0 /\ faults' = faults - 1 /\ UNCHANGED left

-----------------------------------------------------------------------------
(***************************************************************************)
(* The capture thread.                                                     *)
(***************************************************************************)
Cap(from, to) == cap = from /\ cap' = to

\* What the steps of the capture thread leave alone.
CapFrame == UNCHANGED <<needsResume, serviceLock, initialized, tid, shouldExit, callVars, aborted,
                        dropped, wasActive, poweringOff>>

\* Wait for a trigger; the exit flag and a pending wake are polled every 10 ms.
Top ==
  /\ \/ shouldExit /\ Cap("top", "none") /\ UNCHANGED <<wakePending, captureSem>>
     \/ ~shouldExit /\ wakePending /\ Cap("top", "resume")
        /\ wakePending' = FALSE /\ UNCHANGED captureSem
     \/ ~shouldExit /\ ~wakePending /\ captureSem = 1 /\ Cap("top", "taken")
        /\ captureSem' = 0 /\ UNCHANGED wakePending
  /\ CapFrame
  /\ UNCHANGED <<isActive, bufVars, waking, wakeCancel, wakeError, up, boundVars, refused>>

\* Mutant: a frame stays readable until capture() triggers the next one.
Taken_KeepsReady ==
  /\ \/ shouldExit /\ Cap("taken", "none") /\ UNCHANGED <<ready, queued>>
     \/ ~shouldExit /\ ~vbuf /\ Cap("taken", "top") /\ ready' = FALSE /\ UNCHANGED queued
     \/ ~shouldExit /\ vbuf /\ Cap("taken", "stream") /\ UNCHANGED ready /\ queued' = FALSE
  /\ CapFrame
  /\ UNCHANGED <<isActive, captureSem, vbuf, formatted, wakeVars, up, boundVars, refused>>

\* A trigger: start from empty queues.
Taken ==
  /\ \/ shouldExit /\ Cap("taken", "none") /\ UNCHANGED <<ready, queued>>
     \/ ~shouldExit /\ ~vbuf /\ Cap("taken", "top") /\ ready' = FALSE /\ UNCHANGED queued
     \/ ~shouldExit /\ vbuf /\ Cap("taken", "stream") /\ ready' = FALSE /\ queued' = FALSE
  /\ CapFrame
  /\ UNCHANGED <<isActive, captureSem, vbuf, formatted, wakeVars, up, boundVars, refused>>

\* Enqueue the buffer and start the stream, for each frame skipped and the last one.
Stream ==
  /\ \/ shouldExit /\ Cap("stream", "cancel") /\ UNCHANGED <<queued, boundVars>>
     \/ ~shouldExit /\ Cap("stream", "dequeue") /\ queued' = TRUE /\ UNCHANGED boundVars
     \/ ~shouldExit /\ Cap("stream", "error") /\ Fault /\ queued' \in {queued, TRUE}
  /\ CapFrame
  /\ UNCHANGED <<isActive, captureSem, ready, vbuf, formatted, wakeVars, up, refused>>

\* A frame is waited for by polling; no frame in a second is an error.
Dequeue ==
  /\ \/ shouldExit /\ Cap("dequeue", "cancel") /\ UNCHANGED <<queued, boundVars>>
     \/ ~shouldExit /\ Cap("dequeue", "stream") /\ queued' = FALSE /\ UNCHANGED boundVars
     \/ ~shouldExit /\ Cap("dequeue", "error") /\ Fault /\ UNCHANGED queued
  /\ CapFrame
  /\ UNCHANGED <<isActive, captureSem, ready, vbuf, formatted, wakeVars, up, refused>>

\* LUA_CAMERA_SKIP_FRAMES frames have come.
LastFrame ==
  /\ ~shouldExit /\ Cap("dequeue", "process") /\ queued' = FALSE
  /\ CapFrame
  /\ UNCHANGED <<isActive, captureSem, ready, vbuf, formatted, wakeVars, up, boundVars, refused>>

\* Encode the frame; an encoder that fails is only logged.
Process ==
  /\ \/ shouldExit /\ Cap("process", "cancel") /\ UNCHANGED <<ready, boundVars>>
     \/ shouldExit /\ Cap("process", "top") /\ ready' = FALSE /\ UNCHANGED boundVars
     \/ ~shouldExit /\ Cap("process", "publish") /\ UNCHANGED <<ready, boundVars>>
     \/ Cap("process", "top") /\ Fault /\ UNCHANGED ready
  /\ CapFrame
  /\ UNCHANGED <<isActive, captureSem, vbuf, formatted, queued, wakeVars, up, refused>>

\* The frame is offered, whatever was asked of the thread since it looked.
Publish ==
  /\ Cap("publish", "top") /\ ready' = TRUE
  /\ CapFrame
  /\ UNCHANGED <<isActive, captureSem, vbuf, formatted, queued, wakeVars, up, boundVars, refused>>

\* Mutant: the stream is not reset: the driver keeps the buffer.
StreamReset_Cancelled ==
  /\ \/ Cap("cancel", "top") /\ UNCHANGED queued
     \/ Cap("error", "top") /\ queued' = FALSE
  /\ ready' = FALSE
  /\ CapFrame
  /\ UNCHANGED <<isActive, captureSem, vbuf, formatted, wakeVars, up, boundVars, refused>>

\* capture_cancel, capture_error: take back the buffer, wherever it is.
StreamReset ==
  /\ Cap("cancel", "top") \/ Cap("error", "top")
  /\ queued' = FALSE /\ ready' = FALSE
  /\ CapFrame
  /\ UNCHANGED <<isActive, captureSem, vbuf, formatted, wakeVars, up, boundVars, refused>>

\* camera_wake_run.  The resume cannot be interrupted; one that fails is back to power save.
WakeResume ==
  /\ \/ Cap("resume", "woken") /\ up' = TRUE /\ refused' = FALSE
        /\ UNCHANGED <<isActive, waking, wakeCancel, wakeError, boundVars>>
     \/ Cap("resume", "top") /\ Fault /\ wakeError' = TRUE /\ wakeCancel' = FALSE
        /\ isActive' = FALSE /\ waking' = FALSE /\ UNCHANGED <<up, refused>>
  /\ CapFrame
  /\ UNCHANGED <<captureSem, bufVars, wakePending>>

\* Mutant: a cancel that comes while the device resumes is not looked at.
Woken_Blind ==
  /\ Cap("woken", "top") /\ waking' = FALSE /\ wakeCancel' = FALSE
  /\ CapFrame
  /\ UNCHANGED <<isActive, captureSem, bufVars, wakePending, wakeError, up, boundVars, refused>>

Woken ==
  /\ \/ ~wakeCancel /\ Cap("woken", "top") /\ waking' = FALSE
     \/ wakeCancel /\ Cap("woken", "suspend") /\ UNCHANGED waking
  /\ CapFrame
  /\ UNCHANGED <<isActive, captureSem, bufVars, wakePending, wakeCancel, wakeError, up, boundVars,
                 refused>>

\* The cancelled wake suspends the device again.
DeviceSuspend ==
  \/ up' = FALSE /\ refused' = FALSE /\ UNCHANGED boundVars
  \/ up /\ Fault /\ refused' = TRUE /\ UNCHANGED up

WakeSuspend ==
  /\ Cap("suspend", "slept")
  /\ DeviceSuspend
  /\ CapFrame
  /\ UNCHANGED <<isActive, captureSem, bufVars, wakeVars>>

\* A power_save(false) in the meantime cleared the cancel: resume once more.
Slept ==
  /\ \/ wakeCancel /\ Cap("slept", "top") /\ wakeCancel' = FALSE /\ waking' = FALSE
     \/ ~wakeCancel /\ Cap("slept", "resume") /\ UNCHANGED <<wakeCancel, waking>>
  /\ CapFrame
  /\ UNCHANGED <<isActive, captureSem, bufVars, wakePending, wakeError, up, boundVars, refused>>

CapStep ==
  \/ Top \/ Taken \/ Stream \/ Dequeue \/ LastFrame \/ Process \/ Publish \/ StreamReset
  \/ WakeResume \/ Woken \/ WakeSuspend \/ Slept

-----------------------------------------------------------------------------
(***************************************************************************)
(* Calls.  The power manager has one sleep at a time; power_save does      *)
(* nothing when the camera is in the state asked for; an exit waits for    *)
(* the REPL thread before the last DEINIT.                                 *)
(***************************************************************************)
Wanted(o) ==
  /\ o \in Sleeps => \A t \in Threads : op[t] \notin Sleeps
  /\ o = "save" => isActive
  /\ o = "wake" => ~isActive

Begin(t, o) ==
  /\ pc[t] = "free" /\ op[t] = "none" /\ o \in Ops[t] /\ left[t] > 0 /\ ~poweringOff
  /\ Wanted(o)
  /\ left' = [left EXCEPT ![t] = @ - 1]
  /\ op' = [op EXCEPT ![t] = o]
  /\ todo' = [todo EXCEPT ![t] = Calls[o]]
  /\ Goto(t, IF o = "capture" THEN "check" ELSE "lock")
  /\ UNCHANGED <<regVars, thrVars, bufVars, wakeVars, up, cap, faults, histVars>>

\* Back in Lua, or in the caller's next callback.
Return(t) ==
  /\ Goto(t, IF Len(todo[t]) > 1 THEN "lock" ELSE "free")
  /\ todo' = [todo EXCEPT ![t] = Tail(@)]
  /\ op' = [op EXCEPT ![t] = IF Len(todo[t]) > 1 THEN @ ELSE "none"]
  /\ serviceLock' = Nobody

\* The callback failed: the operation ends.
Fail(t) ==
  /\ Goto(t, "free")
  /\ todo' = [todo EXCEPT ![t] = <<>>]
  /\ op' = [op EXCEPT ![t] = "none"]
  /\ serviceLock' = Nobody

Call(t) == IF todo[t] = <<>> THEN "none" ELSE Head(todo[t])

\* Thread t gets service_lock for callback e.
Enter(t, e) == pc[t] = "lock" /\ Call(t) = e /\ serviceLock = Nobody

(***************************************************************************)
(* capture()                                                               *)
(***************************************************************************)
CapturePc(t, from, to) ==
  /\ pc[t] = from
  /\ Goto(t, to)
  /\ op' = [op EXCEPT ![t] = IF to = "free" THEN "none" ELSE @]
  /\ UNCHANGED <<regVars, wakeVars, up, todo, histVars>>

\* is_active is looked at before the wait for a wake under way, not after it.
CaptureCheck(t) ==
  /\ CapturePc(t, "check", IF initialized /\ isActive THEN "wait" ELSE "free")
  /\ UNCHANGED <<thrVars, bufVars, cap, boundVars>>

\* The wait gives up after a second; a wake that failed is an error.
CaptureWait(t) ==
  /\ \/ ~waking /\ CapturePc(t, "wait", IF wakeError THEN "free" ELSE "start")
     \/ waking /\ CapturePc(t, "wait", "free")
  /\ UNCHANGED <<thrVars, bufVars, cap, boundVars>>

ThreadStart == tid' = TRUE /\ shouldExit' = FALSE /\ cap' = "top" /\ UNCHANGED captureSem

\* A caller above this thread that found no capture thread to stop goes on before it.  The
\* options are looked at with the thread already started.
CaptureStart(t) ==
  /\ \A u \in Threads : pc[u] = "stop" => tid
  /\ CapturePc(t, "start", "format") \/ CapturePc(t, "start", "free")
  /\ IF tid THEN UNCHANGED <<thrVars, cap>> ELSE ThreadStart
  /\ UNCHANGED <<bufVars, boundVars>>

\* The width is noted before the sensor is asked to take it.
CaptureFormat(t) ==
  /\ \/ formatted /\ CapturePc(t, "format", "trigger") /\ UNCHANGED <<formatted, boundVars>>
     \/ ~formatted /\ CapturePc(t, "format", "alloc") /\ formatted' = TRUE /\ UNCHANGED boundVars
     \/ ~formatted /\ CapturePc(t, "format", "free") /\ formatted' \in BOOLEAN /\ Fault
  /\ UNCHANGED <<thrVars, ready, vbuf, queued, cap>>

\* The buffer of the format before is released first.
CaptureAlloc(t) ==
  /\ \/ CapturePc(t, "alloc", "trigger") /\ vbuf' = TRUE /\ UNCHANGED boundVars
     \/ CapturePc(t, "alloc", "free") /\ vbuf' = FALSE /\ Fault
  /\ UNCHANGED <<thrVars, ready, formatted, queued, cap>>

\* Mutant: a semaphore without its limit of 1.
CaptureTrigger_Counts(t) ==
  /\ CapturePc(t, "trigger", "free")
  /\ ready' = FALSE /\ captureSem' = captureSem + 1
  /\ UNCHANGED <<tid, shouldExit, vbuf, formatted, queued, cap, boundVars>>

CaptureTrigger(t) ==
  /\ CapturePc(t, "trigger", "free")
  /\ ready' = FALSE /\ captureSem' = 1
  /\ UNCHANGED <<tid, shouldExit, vbuf, formatted, queued, cap, boundVars>>

CaptureStep(t) ==
  \/ CaptureCheck(t) \/ CaptureWait(t) \/ CaptureStart(t) \/ CaptureFormat(t)
  \/ CaptureAlloc(t) \/ CaptureTrigger(t)

-----------------------------------------------------------------------------
(***************************************************************************)
(* camera_thread_stop: signal, join, and after a second abort.             *)
(***************************************************************************)
Signal ==
  IF tid
    THEN shouldExit' = TRUE /\ captureSem' = 1 /\ UNCHANGED tid
    ELSE UNCHANGED thrVars

Joined(t) == pc[t] = "stop" /\ cap = "none" /\ tid' = FALSE /\ UNCHANGED <<shouldExit, captureSem>>

\* The thread hangs in the driver or the encoder, before a capture or within one.
Hangs(labels) == cap \in labels /\ Fault /\ cap' = "none"

AbortWaiting(t) == pc[t] = "stop" /\ Hangs({"taken"}) /\ tid' = FALSE
                   /\ UNCHANGED <<shouldExit, captureSem>>

AbortCapturing(t) ==
  /\ pc[t] = "stop" /\ Hangs({"stream", "process", "cancel", "error"})
  /\ tid' = FALSE /\ aborted' = TRUE
  /\ UNCHANGED <<shouldExit, captureSem>>

Stopped(t) ==
  \/ Joined(t) /\ UNCHANGED <<cap, boundVars>>
  \/ AbortWaiting(t)

(***************************************************************************)
(* INTERRUPT and DEINIT: camera_cleanup_resources.                         *)
(***************************************************************************)
CleanupBegin(t) ==
  /\ Enter(t, "INTERRUPT") \/ Enter(t, "DEINIT")
  /\ op[t] = "deep" => op[Repl] \in {"none", "deep"}
  /\ serviceLock' = t
  /\ Signal
  /\ Goto(t, "stop")
  /\ UNCHANGED <<isActive, needsResume, initialized, bufVars, wakeVars, up, cap, op, todo,
                 boundVars, histVars>>

\* Mutant: the wake is taken back, but waking stays set.
DropWake_KeepsWaking ==
  /\ wakePending' = FALSE
  /\ isActive' = IF wakePending THEN FALSE ELSE isActive
  /\ dropped' = (dropped \/ (wakePending /\ wakeCancel))
  /\ UNCHANGED <<waking, wakeCancel, wakeError>>

\* A wake the thread never started leaves the device suspended.
DropWake ==
  /\ wakePending' = FALSE
  /\ waking' = IF wakePending THEN FALSE ELSE waking
  /\ isActive' = IF wakePending THEN FALSE ELSE isActive
  /\ dropped' = (dropped \/ (wakePending /\ wakeCancel))
  /\ UNCHANGED <<wakeCancel, wakeError>>

Deinitialized(t) ==
  /\ initialized' = (initialized /\ Call(t) # "DEINIT")
  /\ poweringOff' = (poweringOff \/ (op[t] = "deep" /\ Call(t) = "DEINIT"))

\* The thread is gone: the buffer is drained from the driver and freed.
CleanupDone(t) ==
  /\ Call(t) \in {"INTERRUPT", "DEINIT"}
  /\ Stopped(t)
  /\ DropWake
  /\ queued' = FALSE /\ vbuf' = FALSE /\ formatted' = FALSE /\ ready' = FALSE
  /\ Deinitialized(t)
  /\ Return(t)
  /\ UNCHANGED <<needsResume, up, aborted, refused, wasActive>>

\* The thread was aborted: the buffer is kept.
CleanupUnclean(t) ==
  /\ Call(t) \in {"INTERRUPT", "DEINIT"}
  /\ AbortCapturing(t)
  /\ DropWake
  /\ ready' = FALSE
  /\ Deinitialized(t)
  /\ Return(t)
  /\ UNCHANGED <<needsResume, vbuf, formatted, queued, up, refused, wasActive>>

\* camera_hardware_init suspends the device of a service that was deinitialized.  Whether
\* the device is ready was settled at boot, and the INIT before Init found that it is.
Initialize(t) ==
  /\ Enter(t, "INIT")
  /\ captureSem' = 0
  /\ IF initialized THEN UNCHANGED <<up, refused, boundVars>> ELSE DeviceSuspend
  /\ initialized' = TRUE /\ isActive' = FALSE
  /\ Return(t)
  /\ UNCHANGED <<needsResume, tid, shouldExit, bufVars, wakeVars, cap, aborted, dropped,
                 wasActive, poweringOff>>

(***************************************************************************)
(* SUSPEND: for a system sleep (the registry asks only an active service   *)
(* and notes whether to resume it), and for power_save(true).              *)
(***************************************************************************)
\* Mutant: an inactive service keeps the needs_resume of an earlier power_save.
SuspendBegin_KeepsResume(t) ==
  /\ Enter(t, "SUSPEND") \/ Enter(t, "OFF")
  /\ wasActive' = IF Call(t) = "SUSPEND" THEN isActive ELSE wasActive
  /\ IF isActive
       THEN Goto(t, "suspending") /\ serviceLock' = t /\ UNCHANGED <<needsResume, op, todo>>
       ELSE Return(t) /\ UNCHANGED needsResume
  /\ UNCHANGED <<isActive, initialized, thrVars, bufVars, wakeVars, up, cap, boundVars, aborted,
                 refused, dropped, poweringOff>>

SuspendBegin(t) ==
  /\ Enter(t, "SUSPEND") \/ Enter(t, "OFF")
  /\ wasActive' = IF Call(t) = "SUSPEND" THEN isActive ELSE wasActive
  /\ IF isActive
       THEN Goto(t, "suspending") /\ serviceLock' = t /\ UNCHANGED <<needsResume, op, todo>>
       ELSE /\ Return(t)
            /\ needsResume' = (needsResume /\ Call(t) = "OFF")
  /\ UNCHANGED <<isActive, initialized, thrVars, bufVars, wakeVars, up, cap, boundVars, aborted,
                 refused, dropped, poweringOff>>

\* A wake in progress is cancelled rather than waited for.
SuspendCancels(t) ==
  /\ pc[t] = "suspending" /\ waking
  /\ wakeCancel' = TRUE /\ isActive' = FALSE
  /\ needsResume' = TRUE
  /\ Return(t)
  /\ UNCHANGED <<initialized, thrVars, bufVars, wakePending, waking, wakeError, up, cap, boundVars,
                 histVars>>

SuspendStops(t) ==
  /\ pc[t] = "suspending" /\ ~waking
  /\ isActive' = FALSE
  /\ Signal
  /\ Goto(t, "stop")
  /\ UNCHANGED <<needsResume, serviceLock, initialized, bufVars, wakeVars, up, cap, op, todo,
                 boundVars, histVars>>

SuspendStopped(t) ==
  /\ Call(t) \in {"SUSPEND", "OFF"}
  /\ Stopped(t)
  /\ Goto(t, "device")
  /\ UNCHANGED <<regVars, bufVars, wakeVars, up, op, todo, histVars>>

\* An error: the service needs no resume.
Refuse(t) ==
  /\ needsResume' = (needsResume /\ Call(t) = "OFF")
  /\ Fail(t)

SuspendUnclean(t) ==
  /\ Call(t) \in {"SUSPEND", "OFF"}
  /\ AbortCapturing(t)
  /\ Refuse(t)
  /\ UNCHANGED <<isActive, initialized, bufVars, wakeVars, up, refused, dropped, wasActive,
                 poweringOff>>

SuspendDevice(t) ==
  /\ pc[t] = "device"
  /\ DeviceSuspend
  /\ \/ ~refused' /\ needsResume' = TRUE /\ Return(t)
     \/ refused' /\ Refuse(t)
  /\ UNCHANGED <<isActive, initialized, thrVars, bufVars, wakeVars, cap, aborted, dropped,
                 wasActive, poweringOff>>

(***************************************************************************)
(* RESUME: after a standby for a service that needs it, and for            *)
(* power_save(false).  The wake itself runs on the capture thread.         *)
(***************************************************************************)
ResumeSkipped(t) ==
  /\ \/ Enter(t, "RESUME") /\ ~needsResume
     \/ Enter(t, "ON") /\ isActive
  /\ Return(t)
  /\ UNCHANGED <<isActive, needsResume, initialized, thrVars, bufVars, wakeVars, up, cap, boundVars,
                 histVars>>

Resumes(t) ==
  \/ Enter(t, "RESUME") /\ needsResume
  \/ Enter(t, "ON") /\ ~isActive

\* A cancelled wake is still running: keep it.
ResumeKeepsWake(t) ==
  /\ Resumes(t) /\ waking
  /\ wakeCancel' = FALSE /\ isActive' = TRUE
  /\ IF Call(t) = "ON"
       THEN Goto(t, "confirm") /\ serviceLock' = t /\ UNCHANGED <<needsResume, op, todo>>
       ELSE Return(t) /\ needsResume' = FALSE
  /\ UNCHANGED <<initialized, thrVars, bufVars, wakePending, waking, wakeError, up, cap, boundVars,
                 histVars>>

\* A thread that is started here may run at once, and take a trigger left over.
ResumeStart(t) ==
  /\ Resumes(t) /\ ~waking
  /\ IF tid THEN UNCHANGED <<thrVars, cap>> ELSE ThreadStart
  /\ Goto(t, "reset") /\ serviceLock' = t
  /\ UNCHANGED <<isActive, needsResume, initialized, bufVars, wakeVars, up, op, todo, boundVars,
                 histVars>>

ResumeReset(t) ==
  /\ pc[t] = "reset"
  /\ captureSem' = 0
  /\ Goto(t, "arm")
  /\ UNCHANGED <<regVars, tid, shouldExit, bufVars, wakeVars, up, cap, op, todo, boundVars,
                 histVars>>

\* wake_cancel is left as it is.
ResumeArms(t) ==
  /\ pc[t] = "arm"
  /\ wakeError' = FALSE /\ waking' = TRUE /\ wakePending' = TRUE
  /\ Goto(t, "confirm")
  /\ UNCHANGED <<regVars, thrVars, bufVars, wakeCancel, up, cap, op, todo, boundVars, histVars>>

\* is_active once more, with the wake already running.
ResumeConfirm(t) ==
  /\ pc[t] = "confirm"
  /\ isActive' = TRUE /\ needsResume' = FALSE
  /\ Return(t)
  /\ UNCHANGED <<initialized, thrVars, bufVars, wakeVars, up, cap, boundVars, histVars>>

CleanupStep(t) == CleanupBegin(t) \/ CleanupDone(t) \/ CleanupUnclean(t) \/ Initialize(t)

SuspendStep(t) ==
  \/ SuspendBegin(t) \/ SuspendCancels(t) \/ SuspendStops(t) \/ SuspendStopped(t)
  \/ SuspendUnclean(t) \/ SuspendDevice(t)

ResumeStep(t) ==
  \/ ResumeSkipped(t) \/ ResumeKeepsWake(t)
  \/ ResumeStart(t) \/ ResumeReset(t) \/ ResumeArms(t) \/ ResumeConfirm(t)

ThreadStep(t) == CaptureStep(t) \/ CleanupStep(t) \/ SuspendStep(t) \/ ResumeStep(t)

Next ==
  \/ \E t \in Threads : ThreadStep(t) \/ \E o \in DOMAIN Calls : Begin(t, o)
  \/ CapStep

\* Callbacks return, the scheduler shares the core between the REPL and the capture
\* thread, and a capture skips a fixed number of frames.  Nothing makes a call begin.
Fairness ==
  /\ WF_vars(CapStep) /\ SF_vars(LastFrame)
  /\ \A t \in Threads : WF_vars(ThreadStep(t))

Spec == Init /\ [][Next]_vars
FairSpec == Spec /\ Fairness

-----------------------------------------------------------------------------
(***************************************************************************)
(* Properties.                                                             *)
(***************************************************************************)
\* Every variable has a value its C counterpart can have, and who makes a callback has
\* the lock of the registry.
TypeOK ==
  /\ {isActive, needsResume, initialized, tid, shouldExit, ready, vbuf, formatted, queued,
      wakePending, waking, wakeCancel, wakeError, up} \subseteq BOOLEAN
  /\ serviceLock \in Threads \cup {Nobody}
  /\ captureSem \in {0, 1} /\ cap \in CapLabels
  /\ pc \in [Threads -> Labels] /\ op \in [Threads -> DOMAIN Calls \cup {"none"}]
  /\ todo \in [Threads -> Seq(Events)]
  /\ left \in [Threads -> Nat] /\ faults \in Nat
  /\ {aborted, refused, dropped, wasActive, poweringOff} \subseteq BOOLEAN
  /\ \A t \in Threads :
       pc[t] \in {"suspending", "stop", "device", "reset", "arm", "confirm"} => serviceLock = t

\* Nobody is in a callback, and no wake runs.
Settled == serviceLock = Nobody /\ ~waking

\* "0 when the camera is usable" (comment on camera_wake_wait): with no wake running and
\* none that failed, an active camera has its sensor up.
UsableMeansUp == Settled /\ isActive /\ ~wakeError => up

\* With no callback and no wake under way, the sensor is up when the camera is out of power
\* save, and down when it is in it, however wakes, cancels, sleeps, interrupts and restarts
\* interleaved.  Not up after a wake that failed, and no longer once a cleanup has dropped a
\* cancelled wake; not down after a suspend that failed, nor once a thread was aborted.
UpIffActive ==
  /\ ~dropped => UsableMeansUp
  /\ Settled /\ ~isActive /\ ~refused /\ ~aborted => ~up

\* What the reader is offered is a whole frame: none is announced while the capture
\* thread streams or encodes the next (comment in lua_camera_read), even one that an
\* earlier trigger asked for.
ReadyMeansStill == ready => cap \notin {"stream", "dequeue", "process"}

\* A cleanup does not free the buffer under the driver ("Keep buffers if the worker did
\* not stop cleanly"), at whatever stage of a capture the thread was stopped; but for the
\* cleanups after one that aborted it.  (What capture() itself releases: NewFormatKeepsBuffer.)
BufferStays ==
  [][\A t \in Threads : pc[t] = "stop" /\ pc'[t] # "stop" /\ vbuf /\ ~vbuf'
       => ~queued \/ aborted]_vars

\* A new format does not release the buffer of the old one while the driver holds it
\* ("Drain driver FIFOs before releasing buffers", of camera_cleanup_resources): capture()
\* releases it with the capture thread running.
NewFormatKeepsBuffer ==
  [][\A t \in Threads : pc[t] = "alloc" /\ pc'[t] # "alloc" /\ vbuf => ~queued]_vars

\* "The previous frame stops being readable now" (comment in lua_camera_capture): while the
\* trigger of a capture() waits for the capture thread, no frame can be read.
NewFrameOnly == serviceLock = Nobody /\ tid /\ ~shouldExit /\ captureSem = 1 => ~ready

\* A standby that resumes gives is_active back as it found it: TRUE if it was, FALSE if Lua
\* had put the camera to power save, whatever became of a wake under way.  (What the sensor
\* makes of it: UpIffActive.)
CameraComesBack ==
  [][\A t \in Threads : todo[t] = <<"RESUME">> /\ todo'[t] = <<>> => isActive' = wasActive]_vars

\* A wake ends: it is not left pending by an interrupt, a restart or a failure, after
\* which no power_save(false) could start another.
WakeEnds == waking ~> ~waking
=============================================================================
