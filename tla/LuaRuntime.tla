----------------------------- MODULE LuaRuntime -----------------------------
(***************************************************************************)
(* The Lua runtime of the glasses: modules/halo/src/lua_runtime.c.         *)
(*                                                                         *)
(* One REPL thread owns the Lua VM.  Every other thread (BLE host, button  *)
(* driver, work queue) may only set flags and arm the debug hook of the    *)
(* VM's main Lua thread, which the REPL thread runs on the next instruction*)
(* of that Lua thread.  Ctrl+C, Ctrl+D, Ctrl+F, the PM callback and the    *)
(* module events all go this way.  A coroutine is a Lua thread with a hook *)
(* of its own, which nobody arms.                                          *)
(*                                                                         *)
(* The target is a single core with strict priorities: the REPL thread     *)
(* (priority 7) runs only while no other thread of the model is ready, but *)
(* it can be preempted between any two of its steps.                       *)
(***************************************************************************)
EXTENDS Naturals, FiniteSets

CONSTANTS
  Threads,        \* the threads above the REPL in priority
  Repl,           \* the REPL thread
  NoThread,       \* nobody: the owner of a free mutex
  Sources,        \* enum halo_lua_event_source
  Ops,            \* Ops[t]: what thread t may call
  MaxOps,         \* bound: MaxOps[t] is the number of calls thread t makes
  MaxLines,       \* bound: complete lines one read can return
  MaxPcall,       \* bound: nested pcalls and resumes of a chunk
  SlowServices    \* TRUE: a service callback may outlast exit's 3 s wait

OpNames == {"interrupt", "restart", "signal", "exit", "deep", "light", "standby"}
Callers == Threads \cup {Repl}

ASSUME RuntimeAssumption ==
  /\ Repl \notin Threads
  /\ NoThread \notin Callers
  /\ Ops \in [Callers -> SUBSET OpNames]
  /\ MaxOps \in [Callers -> Nat]
  /\ MaxLines \in Nat /\ MaxPcall \in Nat
  /\ SlowServices \in BOOLEAN

VARIABLES
  repl,         \* where the REPL thread is in lua_repl_thread_fn
  after,        \* where lua_vm_cleanup returns to
  chunk,        \* what it executes: main.lua, a command line or the idle chunk
  guards,       \* protected calls around the code that runs: pcalls, and a resume
  co,           \* which of them is the resume of the coroutine it is in; 0: none
  lines,        \* complete lines still in repl_buffer
  hasL,         \* lua_ctx.L is not NULL
  open,         \* a lua_State exists (created, not yet closed)
  armed,        \* the hook of its main Lua thread is lua_hook_dispatch
  coArmed,      \* the hook of the coroutine is
  running, exited, interrupted, standbyHold, pending, \* lua_ctx
  exitedSem,    \* lua_ctx.repl_exited_sem
  sleeping,     \* halo_pm_is_sleeping()
  svcLock,      \* owner of service_lock
  svcLive,      \* the services were told INIT and not yet DEINIT
  pc,           \* pc[t]: where thread t is in the call it makes
  deep,         \* the threads whose exit is part of a deep sleep
  left,         \* left[t]: calls t may still make
  fresh,        \* history: a break was asked for since the chunk began
  early         \* history: sources signalled while no VM was running

replVars == <<repl, after, chunk, guards, lines>>
coVars   == <<co, coArmed>>
vmVars   == <<hasL, open, armed, coVars>>
flagVars == <<running, exited, interrupted, standbyHold>>
evVars   == <<pending, early>>
envVars  == <<exitedSem, sleeping, svcLock, svcLive>>
callVars == <<pc, deep, left>>
vars == <<replVars, vmVars, flagVars, evVars, envVars, callVars, fresh>>

(***************************************************************************)
(* Control points.                                                         *)
(***************************************************************************)
HookLabels == {"hookStop", "hookBreak", "hookDisarm", "hookHold", "holding", "holdEnd", "drain",
               "callback"}
ChunkLabels == HookLabels \cup {"run"}
StartLabels == {"setRunning", "clearBreak", "clearHold", "init", "initServe"}
LoopLabels == {"loop", "read", "line", "ended"}
CleanLabels == {"deinit", "deinitServe", "detach", "close", "clear"}
ReplLabels == ChunkLabels \cup StartLabels \cup LoopLabels \cup CleanLabels
                \cup {"outer", "create", "give", "done", "aborted"}

\* The labels at which the REPL thread dereferences lua_ctx.L.
VmLabels == ChunkLabels \cup StartLabels \cup LoopLabels

ExitLabels == {"xReset", "xMark", "xArm", "xLeave", "xStop", "xTake", "xWait",
               "xAbort", "xLock", "xServe", "xDetach", "xClose", "xClear", "xDone"}
LockLabels == {"iLock", "dLock", "lLock", "bLock", "bResumeLock", "xLock"}
ServeLabels == {"iServe", "dServe", "lServe", "bServe", "bResumeServe", "xServe"}
ParkLabels == {"lPark", "bPark", "bSkip"}
CallLabels == ExitLabels \cup LockLabels \cup ServeLabels \cup ParkLabels
                \cup {"free", "off", "iArm", "rArm", "sTest", "sArm",
                      "lStop", "lMark", "lArm", "bTest", "bArm", "bRelease"}

(***************************************************************************)
(* Scheduling.  A thread is ready unless it waits: for an event (free),    *)
(* inside a service callback, for the semaphore or a mutex, in a PM sleep. *)
(***************************************************************************)
Ready(t) ==
  /\ pc[t] \notin ServeLabels \cup ParkLabels \cup {"free", "off", "xWait"}
  /\ pc[t] \in LockLabels => svcLock = NoThread

ReplTurn == repl # "aborted" /\ \A t \in Threads : ~Ready(t)

\* The REPL thread executes its own code, not a call it made.
ReplAt(l) == repl = l /\ pc[Repl] = "free" /\ ReplTurn

\* ... and goes on without touching anything.
Move(from, to) ==
  /\ ReplAt(from) /\ repl' = to
  /\ UNCHANGED <<after, chunk, guards, lines, vmVars, flagVars, evVars, envVars, callVars, fresh>>

\* ... and calls lua_vm_cleanup.
MoveToCleanup(from, then) ==
  /\ ReplAt(from) /\ repl' = "deinit" /\ after' = then
  /\ UNCHANGED <<chunk, guards, lines, vmVars, flagVars, evVars, envVars, callVars, fresh>>

\* Thread t, possibly the REPL thread, executes the call it made.
At(t, l) == pc[t] = l /\ (t = Repl => ReplTurn)
Goto(t, l) == pc' = [pc EXCEPT ![t] = l]

\* ... and goes on without touching anything.
Pass(t, from, to) ==
  /\ At(t, from) /\ Goto(t, to)
  /\ UNCHANGED <<replVars, vmVars, flagVars, evVars, envVars, deep, left, fresh>>

(***************************************************************************)
(* repl_exited_sem: who is pended on it.  service_lock: a notification     *)
(* holds it while the callbacks run.  hook_lock is a spinlock, so what it  *)
(* guards is one step.                                                     *)
(***************************************************************************)
Waiting == {t \in Callers : pc[t] = "xWait"}
Acquire(t) == svcLock = NoThread /\ svcLock' = t
Release == svcLock' = NoThread

Init ==
  /\ repl = "outer" /\ after = "create" /\ chunk = "main" /\ guards = 0 /\ lines = 0
  /\ hasL = FALSE /\ open = FALSE /\ armed = FALSE /\ co = 0 /\ coArmed = FALSE
  /\ running = FALSE /\ exited = FALSE /\ interrupted = FALSE /\ standbyHold = FALSE
  /\ pending = {} /\ early = {} /\ fresh = FALSE
  /\ exitedSem = 0 /\ sleeping = FALSE /\ svcLock = NoThread /\ svcLive = FALSE
  /\ pc = [t \in Callers |-> "free"] /\ deep = {} /\ left = MaxOps

-----------------------------------------------------------------------------
(***************************************************************************)
(* The REPL thread, outside the VM.                                        *)
(***************************************************************************)
OuterLoop ==
  \/ exited /\ Move("outer", "done")
  \/ ~exited /\ MoveToCleanup("outer", "create")

\* lua_vm_cleanup with no state does nothing.
CleanupNothing == ~hasL /\ Move("deinit", after)

CleanupNotify ==
  /\ ReplAt("deinit") /\ hasL
  /\ Acquire(Repl)
  /\ repl' = "deinitServe"
  /\ UNCHANGED <<after, chunk, guards, lines, vmVars, flagVars, evVars, exitedSem, sleeping,
                 svcLive, callVars, fresh>>

CleanupServed ==
  /\ ReplAt("deinitServe")
  /\ Release /\ svcLive' = FALSE
  /\ repl' = "detach"
  /\ UNCHANGED <<after, chunk, guards, lines, vmVars, flagVars, evVars, exitedSem, sleeping,
                 callVars, fresh>>

\* Mutant: lua_ctx.L is left in place while the state is closed.
CleanupDetach_Keeps == Move("detach", "close")

CleanupDetach ==
  /\ ReplAt("detach")
  /\ hasL' = FALSE
  /\ repl' = "close"
  /\ UNCHANGED <<after, chunk, guards, lines, open, armed, coVars, flagVars, evVars, envVars,
                 callVars, fresh>>

CleanupClose ==
  /\ ReplAt("close")
  /\ open' = FALSE /\ armed' = FALSE
  /\ repl' = "clear"
  /\ UNCHANGED <<after, chunk, guards, lines, hasL, coVars, flagVars, evVars, envVars, callVars,
                 fresh>>

CleanupClear ==
  /\ ReplAt("clear")
  /\ pending' = {} /\ early' = {}
  /\ repl' = after
  /\ UNCHANGED <<after, chunk, guards, lines, vmVars, flagVars, envVars, callVars, fresh>>

\* k_sem_give hands the unit to a thread that waits for it.
GiveExited ==
  /\ ReplAt("give")
  /\ repl' = "outer"
  /\ \/ \E t \in Waiting : Goto(t, "xDone") /\ UNCHANGED exitedSem
     \/ Waiting = {} /\ exitedSem' = 1 /\ UNCHANGED pc
  /\ UNCHANGED <<after, chunk, guards, lines, vmVars, flagVars, evVars, sleeping, svcLock,
                 svcLive, deep, left, fresh>>

\* lua_newstate; on failure the thread sleeps a second and starts over.
Create ==
  /\ ReplAt("create")
  /\ \/ /\ hasL' = TRUE /\ open' = TRUE /\ armed' = FALSE
        /\ repl' = "setRunning" /\ UNCHANGED coVars
     \/ /\ repl' = "outer"
        /\ UNCHANGED vmVars
  /\ UNCHANGED <<after, chunk, guards, lines, flagVars, evVars, envVars, callVars, fresh>>

SetRunning ==
  /\ ReplAt("setRunning")
  /\ running' = TRUE
  /\ repl' = "clearBreak"
  /\ UNCHANGED <<after, chunk, guards, lines, vmVars, exited, interrupted, standbyHold, evVars,
                 envVars, callVars, fresh>>

ClearBreak ==
  /\ ReplAt("clearBreak")
  /\ interrupted' = FALSE /\ fresh' = FALSE
  /\ repl' = "clearHold"
  /\ UNCHANGED <<after, chunk, guards, lines, vmVars, running, exited, standbyHold, evVars,
                 envVars, callVars>>

ClearHold ==
  /\ ReplAt("clearHold")
  /\ standbyHold' = FALSE
  /\ repl' = "init"
  /\ UNCHANGED <<after, chunk, guards, lines, vmVars, running, exited, interrupted, evVars,
                 envVars, callVars, fresh>>

InitNotify ==
  /\ ReplAt("init")
  /\ Acquire(Repl)
  /\ svcLive' = TRUE
  /\ repl' = "initServe"
  /\ UNCHANGED <<after, chunk, guards, lines, vmVars, flagVars, evVars, exitedSem, sleeping,
                 callVars, fresh>>

\* The services are up: require('main').
StartMain ==
  /\ ReplAt("initServe")
  /\ Release
  /\ chunk' = "main" /\ guards' = 0
  /\ repl' = "run"
  /\ UNCHANGED <<after, lines, vmVars, flagVars, evVars, exitedSem, sleeping, svcLive, callVars,
                 fresh>>

-----------------------------------------------------------------------------
(***************************************************************************)
(* The read loop.                                                          *)
(***************************************************************************)
LoopTest ==
  \/ running /\ Move("loop", "read")
  \/ ~running /\ MoveToCleanup("loop", "give")

ReadStopped == (~running \/ exited) /\ MoveToCleanup("read", "give")

\* Data arrived; n complete lines are in repl_buffer.
ReadData ==
  /\ ReplAt("read") /\ running /\ ~exited
  /\ \E n \in 0..MaxLines :
       /\ lines' = n
       /\ repl' = IF n = 0 THEN "loop" ELSE "line"
  /\ UNCHANGED <<after, chunk, guards, vmVars, flagVars, evVars, envVars, callVars, fresh>>

\* 20 ms without data: the idle chunk gives the hook an instruction.
ReadNothing ==
  /\ ReplAt("read") /\ running /\ ~exited
  /\ chunk' = "idle" /\ guards' = 0
  /\ repl' = "run"
  /\ UNCHANGED <<after, lines, vmVars, flagVars, evVars, envVars, callVars, fresh>>

\* A break that came before the command is dropped.  running is not looked at.
StartLine ==
  /\ ReplAt("line")
  /\ interrupted' = FALSE /\ fresh' = FALSE
  /\ lines' = lines - 1
  /\ chunk' = "line" /\ guards' = 0
  /\ repl' = "run"
  /\ UNCHANGED <<after, vmVars, running, exited, standbyHold, evVars, envVars, callVars>>

\* Mutant: one line too many.
ChunkEnded_OffByOne ==
  /\ ReplAt("ended")
  /\ interrupted' = IF chunk = "idle" THEN FALSE ELSE interrupted
  /\ repl' = IF chunk = "line" /\ lines >= 0 THEN "line" ELSE "loop"
  /\ UNCHANGED <<after, chunk, guards, lines, vmVars, running, exited, standbyHold, evVars,
                 envVars, callVars, fresh>>

\* The chunk returned or was unwound.
ChunkEnded ==
  /\ ReplAt("ended")
  /\ interrupted' = IF chunk = "idle" THEN FALSE ELSE interrupted
  /\ repl' = IF chunk = "line" /\ lines > 0 THEN "line" ELSE "loop"
  /\ UNCHANGED <<after, chunk, guards, lines, vmVars, running, exited, standbyHold, evVars,
                 envVars, callVars, fresh>>

-----------------------------------------------------------------------------
(***************************************************************************)
(* VM instructions.  With the hook of the Lua thread that runs armed, its   *)
(* next instruction, a return included, enters lua_hook_dispatch first.    *)
(***************************************************************************)
Hooked == IF co = 0 THEN armed ELSE coArmed

InScript == ReplAt("run") /\ ~Hooked

EnterPcall ==
  /\ InScript /\ chunk # "idle" /\ guards < MaxPcall
  /\ guards' = guards + 1
  /\ UNCHANGED <<repl, after, chunk, lines, vmVars, flagVars, evVars, envVars, callVars, fresh>>

LeavePcall ==
  /\ InScript /\ guards > co
  /\ guards' = guards - 1
  /\ UNCHANGED <<repl, after, chunk, lines, vmVars, flagVars, evVars, envVars, callVars, fresh>>

\* coroutine.resume: the coroutine has the hook that its creator had, which was armed if a
\* thread armed it while coroutine.create ran, and else not.
ResumeCo ==
  /\ InScript /\ chunk # "idle" /\ co = 0 /\ guards < MaxPcall
  /\ guards' = guards + 1 /\ co' = guards + 1
  /\ coArmed' \in BOOLEAN
  /\ UNCHANGED <<repl, after, chunk, lines, hasL, open, armed, flagVars, evVars, envVars,
                 callVars, fresh>>

\* The coroutine yields, with the pcalls it is in, or returns.
YieldCo ==
  /\ InScript /\ co # 0
  /\ guards' = co - 1 /\ co' = 0 /\ coArmed' = FALSE
  /\ UNCHANGED <<repl, after, chunk, lines, hasL, open, armed, flagVars, evVars, envVars,
                 callVars, fresh>>

FinishChunk == co = 0 /\ ~armed /\ Move("run", "ended")

HookEnter == Hooked /\ Move("run", "hookStop")

\* luaL_error: to the innermost pcall or resume, or out of the chunk.  The error ends a
\* coroutine; coroutine.wrap raises it again, like an error of the script's own.
Raise ==
  \/ guards = 0 /\ repl' = "ended" /\ UNCHANGED <<guards, coVars>>
  \/ /\ guards > 0 /\ repl' = "run" /\ guards' = guards - 1
     /\ IF guards = co THEN co' = 0 /\ coArmed' = FALSE ELSE UNCHANGED coVars

HookStopped ==
  /\ ReplAt("hookStop") /\ ~running
  /\ Raise
  /\ UNCHANGED <<after, chunk, lines, hasL, open, armed, flagVars, evVars, envVars, callVars,
                 fresh>>

HookRunning == running /\ Move("hookStop", "hookBreak")

\* Mutant: the flag survives the raise.
BreakRaised_KeepsFlag ==
  /\ ReplAt("hookBreak") /\ interrupted
  /\ fresh' = FALSE
  /\ Raise
  /\ UNCHANGED <<after, chunk, lines, hasL, open, armed, flagVars, evVars, envVars, callVars>>

\* Mutant: a break disarms the hook.
BreakRaised_Disarms ==
  /\ ReplAt("hookBreak") /\ interrupted
  /\ interrupted' = FALSE /\ fresh' = FALSE /\ armed' = FALSE
  /\ Raise
  /\ UNCHANGED <<after, chunk, lines, hasL, open, running, exited, standbyHold, evVars, envVars,
                 callVars>>

BreakRaised ==
  /\ ReplAt("hookBreak") /\ interrupted
  /\ interrupted' = FALSE /\ fresh' = FALSE
  /\ Raise
  /\ UNCHANGED <<after, chunk, lines, hasL, open, armed, running, exited, standbyHold, evVars,
                 envVars, callVars>>

NoBreak == ~interrupted /\ Move("hookBreak", "hookDisarm")

\* lua_sethook(L, NULL, 0, 0), outside hook_lock, with L the Lua thread that runs.
HookDisarm ==
  /\ ReplAt("hookDisarm")
  /\ IF co = 0 THEN armed' = FALSE /\ UNCHANGED coArmed
               ELSE coArmed' = FALSE /\ UNCHANGED armed
  /\ repl' = "hookHold"
  /\ UNCHANGED <<after, chunk, guards, lines, hasL, open, co, flagVars, evVars, envVars,
                 callVars, fresh>>

HoldTest == Move("hookHold", IF standbyHold THEN "holding" ELSE "drain")

\* It looks every 100 ms whether the PM manager still sleeps.
HoldWakes == ~sleeping /\ Move("holding", "holdEnd")

HoldEnd ==
  /\ ReplAt("holdEnd")
  /\ standbyHold' = FALSE
  /\ repl' = "drain"
  /\ UNCHANGED <<after, chunk, guards, lines, vmVars, running, exited, interrupted, evVars,
                 envVars, callVars, fresh>>

\* atomic_clear, then the drains of the bits it returned.
DrainTake ==
  /\ ReplAt("drain")
  /\ repl' = IF pending = {} THEN "run" ELSE "callback"
  /\ pending' = {} /\ early' = {}
  /\ UNCHANGED <<after, chunk, guards, lines, vmVars, flagVars, envVars, callVars, fresh>>

\* The callbacks run inside the hook, where Lua calls no hook.
DrainDone == Move("callback", "drain")

CleanupSteps ==
  \/ CleanupNothing \/ CleanupNotify \/ CleanupServed \/ CleanupDetach \/ CleanupClose
  \/ CleanupClear

StartSteps ==
  \/ OuterLoop \/ GiveExited \/ Create \/ SetRunning \/ ClearBreak \/ ClearHold
  \/ InitNotify \/ StartMain

LoopSteps ==
  LoopTest \/ ReadStopped \/ ReadData \/ ReadNothing \/ StartLine \/ ChunkEnded

HookSteps ==
  \/ HookEnter \/ HookStopped \/ HookRunning \/ BreakRaised \/ NoBreak \/ HookDisarm
  \/ HoldTest \/ HoldWakes \/ HoldEnd \/ DrainTake \/ DrainDone

ScriptSteps == EnterPcall \/ LeavePcall \/ ResumeCo \/ YieldCo \/ FinishChunk

FirmwareSteps == CleanupSteps \/ StartSteps \/ LoopSteps \/ HookSteps

-----------------------------------------------------------------------------
(***************************************************************************)
(* Calls.  A thread of Threads starts one out of the blue (a BLE control   *)
(* character, a button, a work item); the REPL thread from a Lua function. *)
(***************************************************************************)
InLua == repl = "callback" \/ (repl = "run" /\ ~Hooked)

Begin(t, o) ==
  /\ At(t, "free") /\ o \in Ops[t]
  /\ left[t] > 0
  /\ t = Repl => InLua
  /\ left' = [left EXCEPT ![t] = @ - 1]

\* Ctrl+C: the flag, then the hook, then the services.
Interrupt(t) ==
  /\ Begin(t, "interrupt")
  /\ interrupted' = TRUE /\ fresh' = TRUE
  /\ Goto(t, "iArm")
  /\ UNCHANGED <<replVars, vmVars, running, exited, standbyHold, evVars, envVars, deep>>

\* Ctrl+D, and Ctrl+E once it has unlinked main.lua.
Restart(t) ==
  /\ Begin(t, "restart")
  /\ running' = FALSE
  /\ Goto(t, "rArm")
  /\ UNCHANGED <<replVars, vmVars, exited, interrupted, standbyHold, evVars, envVars, deep, fresh>>

\* halo_lua_event_signal: the bit first, running afterwards.
Signal(t) ==
  /\ Begin(t, "signal")
  /\ \E s \in Sources :
       /\ pending' = pending \cup {s}
       /\ early' = IF running THEN early \ {s} ELSE early \cup ({s} \ pending)
  /\ Goto(t, "sTest")
  /\ UNCHANGED <<replVars, vmVars, flagVars, envVars, deep, fresh>>

SignalTest(t) == Pass(t, "sTest", IF running THEN "sArm" ELSE "free")

Exit(t) ==
  /\ Begin(t, "exit")
  /\ Goto(t, "xReset")
  /\ UNCHANGED <<replVars, vmVars, flagVars, evVars, envVars, deep, fresh>>

\* The three PM sleeps, from the suspend callback on.
Sleep(t, o, to) ==
  /\ Begin(t, o)
  /\ ~sleeping
  /\ sleeping' = TRUE
  /\ Goto(t, to)
  /\ UNCHANGED <<replVars, vmVars, flagVars, evVars, exitedSem, svcLock, svcLive, deep, fresh>>

\* lua_hook_arm, whole: a spinlock keeps every other thread out.  It arms the main Lua
\* thread, whichever runs.
Arm(t, from, to) ==
  /\ At(t, from)
  /\ armed' = IF hasL THEN TRUE ELSE armed
  /\ Goto(t, to)
  /\ UNCHANGED <<replVars, hasL, open, coVars, flagVars, evVars, envVars, deep, left, fresh>>

\* running = false
Stop(t, from, to) ==
  /\ At(t, from)
  /\ running' = FALSE
  /\ Goto(t, to)
  /\ UNCHANGED <<replVars, vmVars, exited, interrupted, standbyHold, evVars, envVars, deep,
                 left, fresh>>

\* interrupted = true, as part of a larger call
Mark(t, from, to) ==
  /\ At(t, from)
  /\ interrupted' = TRUE /\ fresh' = TRUE
  /\ Goto(t, to)
  /\ UNCHANGED <<replVars, vmVars, running, exited, standbyHold, evVars, envVars, deep, left>>

\* halo_lua_service_notify: take the mutex, run the callbacks.
Lock(t, from, to) ==
  /\ At(t, from)
  /\ Acquire(t)
  /\ Goto(t, to)
  /\ UNCHANGED <<replVars, vmVars, flagVars, evVars, exitedSem, sleeping, svcLive, deep, left,
                 fresh>>

\* Mutant: the mutex is not given back.
Unlock_Leaks(t, from, to) == Pass(t, from, to)

Unlock(t, from, to) ==
  /\ At(t, from)
  /\ Release
  /\ Goto(t, to)
  /\ UNCHANGED <<replVars, vmVars, flagVars, evVars, exitedSem, sleeping, svcLive, deep, left,
                 fresh>>

\* A service refuses to suspend: the PM manager gives the sleep up.
Refuse(t, from) ==
  /\ At(t, from)
  /\ Release /\ sleeping' = FALSE
  /\ Goto(t, "free")
  /\ UNCHANGED <<replVars, vmVars, flagVars, evVars, exitedSem, svcLive, deep, left, fresh>>

\* Standby holds the VM in place, if there is one to hold.
StandbyTest(t) ==
  /\ At(t, "bTest")
  /\ IF hasL /\ running THEN standbyHold' = TRUE /\ Goto(t, "bArm")
                        ELSE UNCHANGED standbyHold /\ Goto(t, "bSkip")
  /\ UNCHANGED <<replVars, vmVars, running, exited, interrupted, evVars, envVars, deep, left,
                 fresh>>

\* The PM manager woke the sleeper.
Woken(t, from, to) == ~sleeping /\ Pass(t, from, to)

\* Mutant: the resume callback removes the hook.
StandbyRelease_Disarms(t) ==
  /\ At(t, "bRelease")
  /\ standbyHold' = FALSE /\ armed' = FALSE
  /\ Goto(t, "bResumeLock")
  /\ UNCHANGED <<replVars, hasL, open, coVars, running, exited, interrupted, evVars, envVars,
                 deep, left, fresh>>

StandbyRelease(t) ==
  /\ At(t, "bRelease")
  /\ standbyHold' = FALSE
  /\ Goto(t, "bResumeLock")
  /\ UNCHANGED <<replVars, vmVars, running, exited, interrupted, evVars, envVars, deep, left,
                 fresh>>

-----------------------------------------------------------------------------
(***************************************************************************)
(* halo_lua_runtime_exit                                                   *)
(***************************************************************************)
\* The deep-sleep callback goes on to exit.
DeepExit(t) ==
  /\ At(t, "dServe")
  /\ Release
  /\ deep' = deep \cup {t}
  /\ Goto(t, "xReset")
  /\ UNCHANGED <<replVars, vmVars, flagVars, evVars, exitedSem, sleeping, svcLive, left, fresh>>

\* Mutant: a signal of an earlier restart is taken for this exit's.
ExitReset_Stale(t) == Pass(t, "xReset", "xMark")

\* k_sem_reset: a thread that waits gets -EAGAIN, as if it had timed out.
ExitReset(t) ==
  /\ At(t, "xReset")
  /\ exitedSem' = 0
  /\ pc' = [u \in Callers |-> IF u = t THEN "xMark"
                              ELSE IF u \in Waiting THEN "xAbort" ELSE pc[u]]
  /\ UNCHANGED <<replVars, vmVars, flagVars, evVars, sleeping, svcLock, svcLive, deep, left,
                 fresh>>

ExitNoVm(t) == ~hasL /\ Pass(t, "xMark", "xLeave")

ExitMark(t) == hasL /\ Mark(t, "xMark", "xArm")

ExitLeave(t) ==
  /\ At(t, "xLeave")
  /\ exited' = TRUE
  /\ Goto(t, "xStop")
  /\ UNCHANGED <<replVars, vmVars, running, interrupted, standbyHold, evVars, envVars, deep,
                 left, fresh>>

\* running = false, and the REPL thread, which cannot wait for itself, is done.
ExitStop(t) == Stop(t, "xStop", IF t = Repl THEN "xDone" ELSE "xTake")

\* k_sem_take
ExitTake(t) ==
  /\ At(t, "xTake")
  /\ exitedSem' = 0
  /\ Goto(t, IF exitedSem = 1 THEN "xDone" ELSE "xWait")
  /\ UNCHANGED <<replVars, vmVars, flagVars, evVars, sleeping, svcLock, svcLive, deep, left,
                 fresh>>

\* Mutant: exit waits with K_FOREVER.
ExitTimeout_Never(t) == FALSE /\ Pass(t, "xWait", "xAbort")

\* Three seconds passed.
ExitTimeout(t) ==
  /\ svcLock = Repl => SlowServices
  /\ Pass(t, "xWait", "xAbort")

\* Mutant: the timeout goes on with the REPL thread still alive.
ExitAbort_Spares(t) == Pass(t, "xAbort", "xLock")

\* Mutant: the state is closed without a DEINIT.
ExitAbort_NoDeinit(t) ==
  /\ At(t, "xAbort")
  /\ repl' = "aborted"
  /\ Goto(t, "xDetach")
  /\ UNCHANGED <<after, chunk, guards, lines, vmVars, flagVars, evVars, envVars, deep, left,
                 fresh>>

\* k_thread_abort.  A mutex the thread holds stays held.
ExitAbort(t) ==
  /\ At(t, "xAbort")
  /\ repl' = "aborted"
  /\ Goto(t, "xLock")
  /\ UNCHANGED <<after, chunk, guards, lines, vmVars, flagVars, evVars, envVars, deep, left,
                 fresh>>

ExitServed(t) ==
  /\ At(t, "xServe")
  /\ Release /\ svcLive' = FALSE
  /\ Goto(t, "xDetach")
  /\ UNCHANGED <<replVars, vmVars, flagVars, evVars, exitedSem, sleeping, deep, left, fresh>>

\* The pointer is swapped under hook_lock; only who got it closes the state.
ExitDetach(t) ==
  /\ At(t, "xDetach")
  /\ hasL' = FALSE
  /\ Goto(t, IF hasL THEN "xClose" ELSE "xClear")
  /\ UNCHANGED <<replVars, open, armed, coVars, flagVars, evVars, envVars, deep, left, fresh>>

ExitClose(t) ==
  /\ At(t, "xClose")
  /\ open' = FALSE /\ armed' = FALSE
  /\ Goto(t, "xClear")
  /\ UNCHANGED <<replVars, hasL, coVars, flagVars, evVars, envVars, deep, left, fresh>>

ExitClear(t) ==
  /\ At(t, "xClear")
  /\ pending' = {} /\ early' = {}
  /\ Goto(t, "xDone")
  /\ UNCHANGED <<replVars, vmVars, flagVars, envVars, deep, left, fresh>>

\* Back to the caller: a deep sleep powers the device off.
ExitDone(t) == Pass(t, "xDone", IF t \in deep THEN "off" ELSE "free")

ExitSteps(t) ==
  \/ Exit(t) \/ ExitReset(t) \/ ExitNoVm(t) \/ ExitMark(t) \/ Arm(t, "xArm", "xLeave")
  \/ ExitLeave(t) \/ ExitStop(t) \/ ExitTake(t) \/ ExitTimeout(t) \/ ExitAbort(t)
  \/ Lock(t, "xLock", "xServe") \/ ExitServed(t) \/ ExitDetach(t) \/ ExitClose(t)
  \/ ExitClear(t) \/ ExitDone(t)

FlagSteps(t) ==
  \/ Interrupt(t) \/ Arm(t, "iArm", "iLock") \/ Lock(t, "iLock", "iServe")
  \/ Unlock(t, "iServe", "free")
  \/ Restart(t) \/ Arm(t, "rArm", "free")
  \/ Signal(t) \/ SignalTest(t) \/ Arm(t, "sArm", "free")

\* lua_pm_callback_handler, for each sleep mode.
PmSteps(t) ==
  \/ Sleep(t, "deep", "dLock") \/ Lock(t, "dLock", "dServe") \/ Refuse(t, "dServe")
  \/ DeepExit(t)
  \/ Sleep(t, "light", "lLock") \/ Lock(t, "lLock", "lServe") \/ Refuse(t, "lServe")
  \/ Unlock(t, "lServe", "lStop") \/ Stop(t, "lStop", "lMark") \/ Mark(t, "lMark", "lArm")
  \/ Arm(t, "lArm", "lPark") \/ Woken(t, "lPark", "free")
  \/ Sleep(t, "standby", "bLock") \/ Lock(t, "bLock", "bServe") \/ Refuse(t, "bServe")
  \/ Unlock(t, "bServe", "bTest") \/ StandbyTest(t) \/ Arm(t, "bArm", "bPark")
  \/ Woken(t, "bPark", "bRelease") \/ StandbyRelease(t)
  \/ Lock(t, "bResumeLock", "bResumeServe") \/ Unlock(t, "bResumeServe", "free")
  \/ Woken(t, "bSkip", "free")

\* A waker or the timeout ends the PM sleep.
Wake ==
  /\ sleeping /\ sleeping' = FALSE
  /\ UNCHANGED <<replVars, vmVars, flagVars, evVars, exitedSem, svcLock, svcLive, callVars, fresh>>

CallStep(t) == FlagSteps(t) \/ ExitSteps(t) \/ PmSteps(t)

Next == FirmwareSteps \/ ScriptSteps \/ Wake \/ \E t \in Callers : CallStep(t)

\* The REPL thread runs when it has the turn, a call that was begun goes on, a
\* PM sleep ends.  Nothing makes a call begin or a script end.  The peer does not
\* stream for ever without a newline (SF): no chunk would ever run.
Fairness ==
  /\ WF_vars(FirmwareSteps)
  /\ SF_vars(ReadNothing)
  /\ WF_vars(Wake)
  /\ \A t \in Callers : WF_vars(pc[t] # "free" /\ CallStep(t))

Spec == Init /\ [][Next]_vars
FairSpec == Spec /\ Fairness

-----------------------------------------------------------------------------
(***************************************************************************)
(* Properties.                                                             *)
(***************************************************************************)
\* Every variable has a value its C counterpart can have.
TypeOK ==
  /\ repl \in ReplLabels /\ after \in {"create", "give"}
  /\ chunk \in {"main", "line", "idle"} /\ guards \in Nat
  /\ co \in 0..guards /\ (co # 0 => repl \in ChunkLabels \cup {"aborted"})
  /\ lines \in Nat /\ (repl = "line" => lines > 0)
  /\ hasL \in BOOLEAN /\ open \in BOOLEAN /\ armed \in BOOLEAN /\ coArmed \in BOOLEAN
  /\ running \in BOOLEAN /\ exited \in BOOLEAN
  /\ interrupted \in BOOLEAN /\ standbyHold \in BOOLEAN
  /\ pending \subseteq Sources /\ early \subseteq pending
  /\ exitedSem \in {0, 1} /\ sleeping \in BOOLEAN
  /\ svcLock \in Callers \cup {NoThread} /\ svcLive \in BOOLEAN
  /\ pc \in [Callers -> CallLabels] /\ deep \subseteq Callers
  /\ left \in [Callers -> Nat] /\ fresh \in BOOLEAN

\* The lua_State has at most one owner among lua_ctx.L, the REPL thread about to
\* close it and the threads whose exit is about to: whoever closes it, closes it
\* once, and no producer can arm a hook on a state being closed (the pointer swap
\* under hook_lock in lua_vm_cleanup and in halo_lua_runtime_exit).
VmHasOneOwner ==
  LET closing == {t \in Callers : pc[t] = "xClose"} IN
  /\ hasL \/ repl = "close" \/ closing # {} => open
  /\ ~(hasL /\ repl = "close")
  /\ closing # {} => ~hasL /\ repl = "aborted"
  /\ \A t, u \in closing : t = u

\* A REPL thread that still runs always has a live VM under it, however an exit
\* that gave up waiting for it tears the runtime down.
ReplHasItsVm == repl \in VmLabels => hasL

\* The services keep Lua references only while the state exists: DEINIT reaches
\* them before lua_close on every path, the aborted REPL thread's included (VmLifeCycle
\* asks for it too, and it is the part of it that the proofs build on).
ServicesDieFirst == svcLive => open

\* No event is lost: while the VM runs a chunk, an event signalled since the VM is up keeps
\* the hook of the main Lua thread armed, except in the instant before its producer arms it,
\* also when the hook runs in a coroutine meanwhile.
EventsArmTheHook ==
  repl = "run" /\ running /\ pending \ early # {}
    => armed \/ \E t \in Callers : pc[t] \in {"sTest", "sArm"}

\* Once halo_lua_runtime_exit has returned to a thread that waited, the VM is gone
\* and no other comes: its caller powers the device off.
ExitClosesVm ==
  \A t \in Threads : pc[t] \in {"xDone", "off"} => exited /\ ~hasL

\* Each VM goes through its life in order, whoever ends it: created after the last one
\* was closed, closed without its services, and none after an exit (VmLife).
Down == exited /\ ~hasL /\ repl \in {"outer", "done", "aborted"}
Life == INSTANCE VmLife WITH
          life <- IF hasL THEN "live" ELSE IF open THEN "closing" ELSE "none",
          services <- svcLive, down <- Down
VmLifeCycle == Life!Spec

\* Ctrl+C raises one break for one request: a chunk is broken only if a break was asked
\* for since the last command began and was not raised yet, whatever pcalls caught it.
BreakRaisedOnce == [][BreakRaised => fresh]_vars

\* A stop set while a chunk runs finds the hook armed until the chunk is unwound, as
\* the comment in lua_hook_dispatch has it ("the hook stays armed and !running stays
\* set, so every instruction re-raises").
StopKeepsHookArmed ==
  repl = "run" /\ ~running => armed \/ \E t \in Callers : pc[t] \notin {"free", "off", "xWait"}

\* No event is lost: the callback of an event signalled while the VM runs is called,
\* unless the VM is stopped or gone, also if the script never ends - as long as it does
\* not stay in a coroutine for ever (BreakLands).
EventDelivered ==
  []<>(co = 0) =>
    \A s \in Sources : (s \in pending \ early) ~> (s \notin pending \/ ~running \/ ~hasL)

\* Ctrl+C "raises a single interrupted error in the running chunk on its next VM
\* instruction" (lua_runtime.h): a break asked for while a VM is up is raised, or dropped
\* by the next command.
BreakLands == (hasL /\ interrupted) ~> ~interrupted

\* halo_lua_runtime_exit returns: to Ctrl+F, and to the deep sleep behind it.
ExitReturns ==
  \A t \in Callers :
    (pc[t] \in ExitLabels) ~> (pc[t] \in {"free", "off"} \/ (repl = "aborted" /\ t = Repl))

\* A stopped VM is torn down: when scripts, and the coroutines in them, end by themselves,
\* Ctrl+D, light sleep and exit always get rid of it.
ScriptsEnd == SF_vars(FinishChunk) /\ WF_vars(YieldCo)
StopTearsDown ==
  ScriptsEnd
    => ((hasL /\ ~running) ~> (~hasL \/ running \/ repl = "aborted" \/ pc[Repl] = "off"))
=============================================================================
