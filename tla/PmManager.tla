----------------------------- MODULE PmManager ------------------------------
(***************************************************************************)
(* The power manager: modules/halo/src/pm_manager.c.                       *)
(*                                                                         *)
(* A sleep is a suspend chain (every registered callback, highest priority *)
(* first), a wait, and a resume chain (the reverse).  is_sleeping, set and *)
(* cleared by compare-and-swap, says who has the sleep slot; wakers clear  *)
(* it from any thread and give wakeup_sem.  Deep sleep powers off, and may *)
(* take the slot over from a light or standby sleeper.                     *)
(*                                                                         *)
(* The target is a single core with strict priorities.  A thread waits in  *)
(* a callback, in the audio quiesce, on a semaphore; everything else it    *)
(* does while no thread above it is ready.                                 *)
(***************************************************************************)
EXTENDS Integers, Sequences

CONSTANTS
  Threads,     \* the threads that sleep or wake the system
  Prio,        \* Prio[t]: priority of t, a higher number is more urgent
  Source,      \* Source[t]: halo_pm_wakeup_source_t of the wakeups t makes
  Callbacks,   \* the registered callbacks
  Priority,    \* Priority[c]: the priority c registered with
  Order,       \* pm_ctx.callbacks: highest priority first
  Skips,       \* Skips[c]: sleep modes c answers with 1, "no resume needed"
  Refusers,    \* callbacks that may refuse to suspend
  Scenarios,   \* bound: what each thread may call, how often, and if its sleeps have a timeout
  SlowChains   \* TRUE: a chain may outlast the 3 s of a takeover

Modes == {"light", "standby", "deep"}
OpNames == Modes \cup {"wakeup"}

ASSUME PmAssumption ==
  /\ Prio \in [Threads -> Nat] /\ Priority \in [Callbacks -> Int]
  /\ Order \in Seq(Callbacks)
  /\ \A c \in Callbacks : \E i \in DOMAIN Order : Order[i] = c
  /\ Skips \in [Callbacks -> SUBSET {"light", "standby"}]
  /\ Refusers \subseteq Callbacks
  /\ Scenarios \subseteq [ops : [Threads -> SUBSET OpNames], calls : [Threads -> Nat],
                          timeouts : BOOLEAN]
  /\ SlowChains \in BOOLEAN

Sources == {Source[t] : t \in Threads} \cup {"unknown", "timeout", "button"}

VARIABLES
  sleeping,      \* pm_ctx.is_sleeping
  wakeupSem,     \* pm_ctx.wakeup_sem
  resumeSem,     \* pm_ctx.resume_done_sem
  wakeupSource,  \* pm_ctx.wakeup_source
  lastMode,      \* pm_ctx.last_mode
  suspended,     \* the callbacks whose suspended flag is set
  told,          \* history: told[c] is the sleep c prepared for, or "up"
  endedBy,       \* history: what ended the sleep, or "nothing" yet
  pc,            \* where each thread is
  idx,           \* its position in the callback list
  mode,          \* the sleep it carries out
  failed,        \* the threads whose suspend chain failed
  scene,         \* the scenario, chosen at the start
  left           \* calls each thread may still make

slotVars == <<sleeping, lastMode, endedBy>>
semVars  == <<wakeupSem, resumeSem>>
cbVars   == <<suspended, told>>
ownVars  == <<idx, mode, failed>>
callVars == <<scene, left>>
vars == <<slotVars, semVars, wakeupSource, cbVars, pc, ownVars, callVars>>

(***************************************************************************)
(* Control points: entering a light or standby sleep, carrying out a sleep,*)
(* entering a deep one, halo_pm_wakeup.                                    *)
(***************************************************************************)
EnterLabels == {"check", "arm", "claim"}
ChainLabels == {"note", "quiet", "suspend", "inSuspend", "resume", "inResume", "abandon",
                "release"}
SleepLabels == {"park", "parked", "wake", "stamp", "give", "off"}
DeepLabels == {"dClaim", "dReset", "dWake", "dNote", "dGive", "dTake", "dWait", "dRetry"}
WakeLabels == {"wTry", "wNote", "wGive"}
Labels == {"free"} \cup EnterLabels \cup ChainLabels \cup SleepLabels \cup DeepLabels
             \cup WakeLabels

Blocked == {"free", "quiet", "inSuspend", "inResume", "parked", "dWait", "off"}

\* pm_ctx.lock: of what is done under it, only the end of a wait is more than one step.
Locked == \E u \in Threads : pc[u] = "stamp"
Locking == {"arm", "wake", "wNote", "dNote"}

Ready(t) == pc[t] \notin Blocked /\ (Locked => pc[t] \notin Locking)
Turn(t) == \A u \in Threads : Prio[u] > Prio[t] => ~Ready(u)

At(t, l) == pc[t] = l /\ Turn(t) /\ (l \in Locking => ~Locked)
Goto(t, l) == pc' = [pc EXCEPT ![t] = l]

\* Power goes when the core idles next: no timer fires any more.
PowerGoing == \E t \in Threads : pc[t] = "off"

Init ==
  /\ sleeping = FALSE /\ wakeupSem = 0 /\ resumeSem = 0
  /\ wakeupSource = "unknown" /\ lastMode = "none"
  /\ suspended = {} /\ told = [c \in Callbacks |-> "up"]
  /\ endedBy = "nothing"
  /\ pc = [t \in Threads |-> "free"]
  /\ idx = [t \in Threads |-> 0] /\ mode = [t \in Threads |-> "light"]
  /\ failed = {} /\ scene \in Scenarios /\ left = scene.calls

\* The library calls that other threads see.
Pended(l) == {t \in Threads : pc[t] = l}

\* Mutant: a semaphore without its limit of 1.
GiveTo_Counts(t, next, l, then, sem) ==
  \/ /\ Pended(l) = {}
     /\ sem' = sem + 1
     /\ Goto(t, next)
  \/ \E u \in Pended(l) :
       /\ \A v \in Pended(l) : Prio[v] <= Prio[u]
       /\ pc' = [pc EXCEPT ![t] = next, ![u] = then]
       /\ UNCHANGED sem

\* k_sem_give of a semaphore threads wait for at l: one of them goes on at then,
\* or the count becomes 1.  The giver goes on at next.
GiveTo(t, next, l, then, sem) ==
  \/ /\ Pended(l) = {}
     /\ sem' = 1
     /\ Goto(t, next)
  \/ \E u \in Pended(l) :
       /\ \A v \in Pended(l) : Prio[v] <= Prio[u]
       /\ pc' = [pc EXCEPT ![t] = next, ![u] = then]
       /\ UNCHANGED sem

\* k_sem_reset: who waits at l is released, at then, with -EAGAIN.
ResetOf(t, next, l, then, sem) ==
  /\ sem' = 0
  /\ pc' = [u \in Threads |-> IF u = t THEN next ELSE IF pc[u] = l THEN then ELSE pc[u]]

\* atomic_cas(&is_sleeping, 0, 1)
Take(t, won, lost) ==
  \/ ~sleeping /\ sleeping' = TRUE /\ endedBy' = "nothing" /\ Goto(t, won)
  \/ sleeping /\ UNCHANGED <<sleeping, endedBy>> /\ Goto(t, lost)

\* atomic_cas(&is_sleeping, 1, 0)
End(by) == sleeping /\ sleeping' = FALSE /\ endedBy' = by

-----------------------------------------------------------------------------
(***************************************************************************)
(* Calls.                                                                  *)
(***************************************************************************)
Begin(t, o, l) ==
  /\ At(t, "free") /\ o \in scene.ops[t] /\ left[t] > 0
  /\ left' = [left EXCEPT ![t] = @ - 1]
  /\ mode' = [mode EXCEPT ![t] = IF o = "wakeup" THEN @ ELSE o]
  /\ Goto(t, l)
  /\ UNCHANGED <<slotVars, semVars, wakeupSource, cbVars, idx, failed, scene>>

SleepLight(t) == Begin(t, "light", "check")
SleepStandby(t) == Begin(t, "standby", "check")
SleepDeep(t) == Begin(t, "deep", "dClaim")
Wakeup(t) == Begin(t, "wakeup", "wTry")

(***************************************************************************)
(* halo_pm_sleep_light, halo_pm_sleep_standby: entry.                      *)
(***************************************************************************)
Check(t) ==
  /\ At(t, "check")
  /\ Goto(t, IF sleeping THEN "free" ELSE "arm")
  /\ UNCHANGED <<slotVars, semVars, wakeupSource, cbVars, ownVars, callVars>>

\* The handshake is armed before the slot is taken.
Arm(t) ==
  /\ At(t, "arm")
  /\ ResetOf(t, "claim", "parked", "wake", wakeupSem)
  /\ wakeupSource' = IF mode[t] = "standby" THEN "unknown" ELSE wakeupSource
  /\ UNCHANGED <<slotVars, resumeSem, cbVars, ownVars, callVars>>

Claim(t) ==
  /\ At(t, "claim")
  /\ Take(t, "note", "free")
  /\ UNCHANGED <<semVars, wakeupSource, lastMode, cbVars, ownVars, callVars>>

-----------------------------------------------------------------------------
(***************************************************************************)
(* The suspend chain.                                                      *)
(***************************************************************************)
\* The slot is taken: last_mode, and the audio quiesce of a deep sleep.
Note(t) ==
  /\ At(t, "note")
  /\ lastMode' = mode[t]
  /\ idx' = [idx EXCEPT ![t] = 1]
  /\ failed' = failed \ {t}
  /\ Goto(t, IF mode[t] = "deep" THEN "quiet" ELSE "suspend")
  /\ UNCHANGED <<sleeping, endedBy, semVars, wakeupSource, cbVars, mode, callVars>>

Quiet(t) ==
  /\ At(t, "quiet")
  /\ Goto(t, "suspend")
  /\ UNCHANGED <<slotVars, semVars, wakeupSource, cbVars, ownVars, callVars>>

Next1(t) == idx' = [idx EXCEPT ![t] = @ + 1]

\* Skip if already suspended.
SuspendSkip(t) ==
  /\ At(t, "suspend")
  /\ idx[t] <= Len(Order) /\ Order[idx[t]] \in suspended
  /\ Next1(t)
  /\ UNCHANGED <<slotVars, semVars, wakeupSource, cbVars, pc, mode, failed, callVars>>

SuspendCall(t) ==
  /\ At(t, "suspend")
  /\ idx[t] <= Len(Order) /\ Order[idx[t]] \notin suspended
  /\ told' = [told EXCEPT ![Order[idx[t]]] = mode[t]]
  /\ Goto(t, "inSuspend")
  /\ UNCHANGED <<slotVars, semVars, wakeupSource, suspended, ownVars, callVars>>

\* The callback returns 0: it is marked for the resume chain.
SuspendDone(t) ==
  /\ At(t, "inSuspend")
  /\ mode[t] \notin Skips[Order[idx[t]]]
  /\ suspended' = suspended \cup {Order[idx[t]]}
  /\ Next1(t)
  /\ Goto(t, "suspend")
  /\ UNCHANGED <<slotVars, semVars, wakeupSource, told, mode, failed, callVars>>

\* It returns 1: it goes on as before.
SuspendNotNeeded(t) ==
  /\ At(t, "inSuspend")
  /\ mode[t] \in Skips[Order[idx[t]]]
  /\ suspended' = suspended \ {Order[idx[t]]}
  /\ told' = [told EXCEPT ![Order[idx[t]]] = "up"]
  /\ Next1(t)
  /\ Goto(t, "suspend")
  /\ UNCHANGED <<slotVars, semVars, wakeupSource, mode, failed, callVars>>

\* It returns an error: what was suspended is resumed.
SuspendRefused(t) ==
  /\ At(t, "inSuspend")
  /\ Order[idx[t]] \in Refusers
  /\ suspended' = suspended \ {Order[idx[t]]}
  /\ told' = [told EXCEPT ![Order[idx[t]]] = "up"]
  /\ failed' = failed \cup {t}
  /\ idx' = [idx EXCEPT ![t] = Len(Order)]
  /\ Goto(t, "resume")
  /\ UNCHANGED <<slotVars, semVars, wakeupSource, mode, callVars>>

Suspended(t) ==
  /\ At(t, "suspend")
  /\ idx[t] > Len(Order)
  /\ Goto(t, IF mode[t] = "deep" THEN "off" ELSE "park")
  /\ UNCHANGED <<slotVars, semVars, wakeupSource, cbVars, ownVars, callVars>>

-----------------------------------------------------------------------------
(***************************************************************************)
(* The wait and the resume chain.                                          *)
(***************************************************************************)
\* Mutant: the semaphore is reset once the chain is done, not before.
Park_Resets(t) ==
  /\ At(t, "park")
  /\ wakeupSem' = 0
  /\ Goto(t, "parked")
  /\ UNCHANGED <<slotVars, resumeSem, wakeupSource, cbVars, ownVars, callVars>>

Park(t) ==
  /\ At(t, "park")
  /\ wakeupSem' = 0
  /\ Goto(t, IF wakeupSem = 1 THEN "wake" ELSE "parked")
  /\ UNCHANGED <<slotVars, resumeSem, wakeupSource, cbVars, ownVars, callVars>>

TimedOut(t) ==
  /\ At(t, "parked") /\ scene.timeouts /\ ~PowerGoing
  /\ Goto(t, "wake")
  /\ UNCHANGED <<slotVars, semVars, wakeupSource, cbVars, ownVars, callVars>>

\* The wait is over: is_sleeping still set says that no wakeup ended it.
EndWait(t, tail) ==
  /\ At(t, "wake")
  /\ \/ End("timeout") /\ Goto(t, "stamp")
     \/ ~sleeping /\ UNCHANGED <<sleeping, endedBy>> /\ Goto(t, "resume")
  /\ idx' = [idx EXCEPT ![t] = tail]
  /\ UNCHANGED <<lastMode, semVars, wakeupSource, cbVars, mode, failed, callVars>>

\* Mutant: the sleeper always says timeout.
Woken_Timeout(t) ==
  /\ At(t, "wake")
  /\ sleeping' = FALSE
  /\ endedBy' = IF sleeping THEN "timeout" ELSE endedBy
  /\ idx' = [idx EXCEPT ![t] = Len(Order)]
  /\ Goto(t, "stamp")
  /\ UNCHANGED <<lastMode, semVars, wakeupSource, cbVars, mode, failed, callVars>>

\* Mutant: the resume chain starts one before the tail.
Woken_SkipsTail(t) == EndWait(t, Len(Order) - 1)

Woken(t) == EndWait(t, Len(Order))

Stamp(t) ==
  /\ At(t, "stamp")
  /\ wakeupSource' = "timeout"
  /\ Goto(t, "resume")
  /\ UNCHANGED <<slotVars, semVars, cbVars, ownVars, callVars>>

Previous(t) == idx' = [idx EXCEPT ![t] = @ - 1]

ResumeSkip(t) ==
  /\ At(t, "resume")
  /\ idx[t] > 0 /\ Order[idx[t]] \notin suspended
  /\ Previous(t)
  /\ UNCHANGED <<slotVars, semVars, wakeupSource, cbVars, pc, mode, failed, callVars>>

ResumeCall(t) ==
  /\ At(t, "resume")
  /\ idx[t] > 0 /\ Order[idx[t]] \in suspended
  /\ told' = [told EXCEPT ![Order[idx[t]]] = "up"]
  /\ Goto(t, "inResume")
  /\ UNCHANGED <<slotVars, semVars, wakeupSource, suspended, ownVars, callVars>>

\* Mutant: the flag is not cleared.
ResumeDone_KeepsFlag(t) ==
  /\ At(t, "inResume")
  /\ Previous(t)
  /\ Goto(t, "resume")
  /\ UNCHANGED <<slotVars, semVars, wakeupSource, cbVars, mode, failed, callVars>>

\* An error of the callback is only logged.
ResumeDone(t) ==
  /\ At(t, "inResume")
  /\ suspended' = suspended \ {Order[idx[t]]}
  /\ Previous(t)
  /\ Goto(t, "resume")
  /\ UNCHANGED <<slotVars, semVars, wakeupSource, told, mode, failed, callVars>>

Resumed(t) ==
  /\ At(t, "resume")
  /\ idx[t] = 0
  /\ Goto(t, IF t \in failed THEN "abandon" ELSE "give")
  /\ UNCHANGED <<slotVars, semVars, wakeupSource, cbVars, ownVars, callVars>>

\* A failed sleep gives the slot back; whoever has it by now.
Abandon(t) ==
  /\ At(t, "abandon")
  /\ lastMode' = "none"
  /\ Goto(t, "release")
  /\ UNCHANGED <<sleeping, endedBy, semVars, wakeupSource, cbVars, ownVars, callVars>>

Release(t) ==
  /\ At(t, "release")
  /\ sleeping' = FALSE /\ endedBy' = "failure"
  /\ Goto(t, "free")
  /\ UNCHANGED <<lastMode, semVars, wakeupSource, cbVars, ownVars, callVars>>

\* Mutant: nobody is told that the resume chain is done.
GiveResumed_Silent(t) ==
  /\ At(t, "give")
  /\ Goto(t, "free")
  /\ UNCHANGED <<slotVars, semVars, wakeupSource, cbVars, ownVars, callVars>>

GiveResumed(t) ==
  /\ At(t, "give")
  /\ GiveTo(t, "free", "dWait", "dRetry", resumeSem)
  /\ UNCHANGED <<slotVars, wakeupSem, wakeupSource, cbVars, ownVars, callVars>>

-----------------------------------------------------------------------------
(***************************************************************************)
(* halo_pm_sleep_deep: entry, and the takeover of the slot.                *)
(***************************************************************************)
\* Mutant: last_mode is set before the slot is won.
DeepClaim_NotesEarly(t) ==
  /\ At(t, "dClaim")
  /\ Take(t, "note", "dReset")
  /\ lastMode' = "deep"
  /\ UNCHANGED <<semVars, wakeupSource, cbVars, ownVars, callVars>>

DeepClaim(t) ==
  /\ At(t, "dClaim")
  /\ Take(t, "note", "dReset")
  /\ UNCHANGED <<semVars, wakeupSource, lastMode, cbVars, ownVars, callVars>>

DeepReset(t) ==
  /\ At(t, "dReset")
  /\ ResetOf(t, "dWake", "dWait", "dRetry", resumeSem)
  /\ UNCHANGED <<slotVars, wakeupSem, wakeupSource, cbVars, ownVars, callVars>>

\* Mutant: the takeover does not wait for the resume chain.
DeepTake_NoWait(t) ==
  /\ At(t, "dTake")
  /\ Goto(t, "dRetry")
  /\ UNCHANGED <<slotVars, semVars, wakeupSource, cbVars, ownVars, callVars>>

DeepTake(t) ==
  /\ At(t, "dTake")
  /\ resumeSem' = 0
  /\ Goto(t, IF resumeSem = 1 THEN "dRetry" ELSE "dWait")
  /\ UNCHANGED <<slotVars, wakeupSem, wakeupSource, cbVars, ownVars, callVars>>

\* Thread t carries out a sleep and does not wait in it.
InChain(t) == pc[t] \in ChainLabels \cup {"park", "wake", "stamp", "give"}

\* Three seconds passed.
DeepTimeout(t) ==
  /\ At(t, "dWait") /\ ~PowerGoing
  /\ SlowChains \/ \A u \in Threads \ {t} : ~InChain(u)
  /\ Goto(t, "dRetry")
  /\ UNCHANGED <<slotVars, semVars, wakeupSource, cbVars, ownVars, callVars>>

DeepRetry(t) ==
  /\ At(t, "dRetry")
  /\ Take(t, "note", "free")
  /\ UNCHANGED <<semVars, wakeupSource, lastMode, cbVars, ownVars, callVars>>

(***************************************************************************)
(* halo_pm_wakeup, called from a thread or from the takeover.              *)
(***************************************************************************)
\* The takeover wakes as the button, whichever thread it runs on.
WakeTry(t, by, from, won, lost) ==
  /\ At(t, from)
  /\ \/ End(by) /\ Goto(t, won)
     \/ ~sleeping /\ UNCHANGED <<sleeping, endedBy>> /\ Goto(t, lost)
  /\ UNCHANGED <<lastMode, semVars, wakeupSource, cbVars, ownVars, callVars>>

WakeNote(t, by, from, to) ==
  /\ At(t, from)
  /\ wakeupSource' = by
  /\ Goto(t, to)
  /\ UNCHANGED <<slotVars, semVars, cbVars, ownVars, callVars>>

\* Mutant: only k_wakeup, which does nothing for a thread that is not waiting.
WakeGive_IfParked(t, from, to) ==
  /\ At(t, from)
  /\ pc' = [u \in Threads |-> IF u = t THEN to ELSE IF pc[u] = "parked" THEN "wake" ELSE pc[u]]
  /\ UNCHANGED <<slotVars, semVars, wakeupSource, cbVars, ownVars, callVars>>

WakeGive(t, from, to) ==
  /\ At(t, from)
  /\ GiveTo(t, to, "parked", "wake", wakeupSem)
  /\ UNCHANGED <<slotVars, resumeSem, wakeupSource, cbVars, ownVars, callVars>>

Call(t) == SleepLight(t) \/ SleepStandby(t) \/ SleepDeep(t) \/ Wakeup(t)

EntrySteps(t) == Check(t) \/ Arm(t) \/ Claim(t) \/ Note(t) \/ Quiet(t)

SuspendSteps(t) ==
  \/ SuspendSkip(t) \/ SuspendCall(t) \/ SuspendDone(t) \/ SuspendNotNeeded(t)
  \/ SuspendRefused(t) \/ Suspended(t)

ResumeSteps(t) ==
  \/ Woken(t) \/ Stamp(t) \/ ResumeSkip(t) \/ ResumeCall(t) \/ ResumeDone(t)
  \/ Resumed(t) \/ Abandon(t) \/ Release(t) \/ GiveResumed(t)

DeepSteps(t) ==
  \/ DeepClaim(t) \/ DeepReset(t) \/ WakeTry(t, "button", "dWake", "dNote", "dTake")
  \/ WakeNote(t, "button", "dNote", "dGive") \/ WakeGive(t, "dGive", "dTake")
  \/ DeepTake(t) \/ DeepTimeout(t) \/ DeepRetry(t)

WakeSteps(t) ==
  \/ WakeTry(t, Source[t], "wTry", "wNote", "free")
  \/ WakeNote(t, Source[t], "wNote", "wGive")
  \/ WakeGive(t, "wGive", "free")

ThreadStep(t) ==
  \/ EntrySteps(t) \/ SuspendSteps(t) \/ Park(t) \/ ResumeSteps(t)
  \/ DeepSteps(t) \/ WakeSteps(t)

Next == \E t \in Threads : Call(t) \/ ThreadStep(t) \/ TimedOut(t)

\* A call that was begun goes on: the scheduler runs ready threads, callbacks return,
\* the three seconds pass.  Nothing makes a call begin, and a sleep need not time out.
Fairness == \A t \in Threads : WF_vars(ThreadStep(t))

Spec == Init /\ [][Next]_vars
FairSpec == Spec /\ Fairness

-----------------------------------------------------------------------------
(***************************************************************************)
(* Scenarios whose sleeps do not overlap.                                  *)
(***************************************************************************)
\* Thread s alone sleeps, with no power-off, and every waker is above it: the REPL thread
\* sleeps for frame.light_sleep and frame.standby; callbacks of the stack and drivers wake it.
SleepsAlone(s, sc) ==
  /\ "deep" \notin sc.ops[s]
  /\ \A u \in Threads \ {s} : Prio[u] > Prio[s] /\ sc.ops[u] \subseteq {"wakeup"}

\* Thread u powers off, while s below it sleeps without a timeout or powers off itself, and
\* nobody else wakes it.
PowersOff(s, u, sc) ==
  /\ Prio[u] > Prio[s] /\ ~sc.timeouts /\ ~SlowChains
  /\ sc.ops[s] \subseteq Modes /\ sc.ops[u] \subseteq {"deep"}
  /\ \A v \in Threads \ {s, u} : sc.ops[v] = {}

Orderly(sc) ==
  \/ \E s \in Threads : SleepsAlone(s, sc)
  \/ \E s, u \in Threads : PowersOff(s, u, sc)

-----------------------------------------------------------------------------
(***************************************************************************)
(* Properties.                                                             *)
(***************************************************************************)
\* Every variable has a value its C counterpart can have; a callback index stays on
\* the list while a callback runs.
TypeOK ==
  /\ sleeping \in BOOLEAN
  /\ wakeupSem \in {0, 1} /\ resumeSem \in {0, 1}
  /\ wakeupSource \in Sources /\ lastMode \in Modes \cup {"none"}
  /\ suspended \subseteq Callbacks
  /\ told \in [Callbacks -> Modes \cup {"up"}]
  /\ endedBy \in Sources \cup {"nothing", "failure"}
  /\ pc \in [Threads -> Labels]
  /\ idx \in [Threads -> Nat] /\ mode \in [Threads -> Modes]
  /\ failed \subseteq Threads /\ left \in [Threads -> Nat] /\ scene \in Scenarios
  /\ \A t \in Threads : pc[t] \in {"inSuspend", "inResume"} => idx[t] \in DOMAIN Order

\* One chain runs at a time, as the comment on pm_notify_suspend has it: the list is
\* walked unlocked because "sleep entry is serialized by the is_sleeping atomic".
ChainsDoNotOverlap ==
  \A t, u \in Threads : pc[t] \in ChainLabels /\ pc[u] \in ChainLabels => t = u

\* A callback that asks halo_pm_get_sleep_mode() in its SUSPEND (the IMU and microphone
\* services do) is told the sleep it is suspended for, not one another thread began.
CallbackSeesItsMode ==
  \A t \in Threads : pc[t] = "inSuspend" => lastMode = mode[t]

\* The wakeup that ends a sleep reaches the sleeper, also one that arrives while the
\* suspend chain still runs: nobody stays parked in a sleep that was ended, except
\* until its waker gives the semaphore.
WakeNotLost ==
  \A t \in Threads :
    pc[t] = "parked" /\ ~sleeping
      => \E u \in Threads : pc[u] \in {"wNote", "wGive", "dNote", "dGive"}

\* A sleeper that returns finds in wakeup_source what really ended its sleep, even
\* when a timeout and a wakeup race.
WakeReason ==
  \A t \in Threads :
    pc[t] \in {"resume", "inResume", "give"} /\ t \notin failed => wakeupSource = endedBy

NobodySleeps == \A t \in Threads : pc[t] \notin ChainLabels \cup SleepLabels

\* With no sleep under way every component runs: all that suspended were resumed, after
\* a sleep, an early wakeup and a suspend chain that failed half way.
AwakeMeansResumed == NobodySleeps => \A c \in Callbacks : told[c] = "up"

\* With no sleep under way no suspended flag is set, even when chains overlapped: the
\* next sleep skips nobody.
NoFlagLeft == NobodySleeps => suspended = {}

\* At power-off every component has been told of the deep sleep, also when the sleep
\* slot was taken from a light or standby sleeper: none was skipped for a suspended flag
\* that a sleep left set (comment in halo_pm_sleep_deep).
PowerOffTellsAll ==
  \A t \in Threads : pc[t] = "off" => \A c \in Callbacks : told[c] = "deep"

\* A suspend chain goes down the priorities: when a component is asked to suspend, all of
\* higher priority have been told of the sleep, whatever the order they registered in
\* (pm_manager.h): BLE goes down before the runtime that talks through it.
HigherGoesFirst ==
  \A t \in Threads, c, d \in Callbacks :
    pc[t] = "inSuspend" /\ Order[idx[t]] = d /\ Priority[c] > Priority[d]
      => told[c] = mode[t] \/ mode[t] \in Skips[c]

\* A sleeper whose sleep was ended returns to its caller.
SleeperReturns ==
  \A t \in Threads : (pc[t] \in {"park", "parked"} /\ ~sleeping) ~> (pc[t] = "free")

\* An explicit power-off powers off, whatever sleep it finds ("a 3s hold is an explicit
\* power-off, so take over the sleep slot"), unless a callback refuses.
PowerOffHappens == \A t \in Threads : (pc[t] = "dClaim") ~> (PowerGoing \/ failed # {})
=============================================================================
