--------------------------- MODULE LuaRuntime_proof ---------------------------
(***************************************************************************)
(* Proofs about LuaRuntime, for every set of threads and sources and every *)
(* bound.                                                                  *)
(***************************************************************************)
EXTENDS LuaRuntime, TLAPS

\* The flags are Boolean.  (Apart, because it takes another prover than the rest.)
FlagsOK ==
  /\ hasL \in BOOLEAN /\ open \in BOOLEAN /\ armed \in BOOLEAN /\ running \in BOOLEAN
  /\ exited \in BOOLEAN /\ interrupted \in BOOLEAN /\ standbyHold \in BOOLEAN
  /\ sleeping \in BOOLEAN /\ svcLive \in BOOLEAN /\ fresh \in BOOLEAN /\ coArmed \in BOOLEAN

(***************************************************************************)
(* Type correctness.                                                       *)
(***************************************************************************)
\* The initial state is well typed.
LEMMA TypeInit == Init => TypeOK
<1> SUFFICES ASSUME Init PROVE TypeOK
  OBVIOUS
<1>1. FlagsOK
  BY Zenon DEF Init, FlagsOK
<1> QED
  BY <1>1, RuntimeAssumption DEF Init, TypeOK, FlagsOK, Callers, ReplLabels, CallLabels

\* The REPL thread preserves the types: one step per action.
LEMMA TypeRepl ==
  ASSUME TypeOK, FirmwareSteps \/ ScriptSteps
  PROVE  TypeOK'
<1> USE DEF TypeOK, FlagsOK, ReplAt, Move, MoveToCleanup, replVars, vmVars, coVars, InScript,
            flagVars, evVars, envVars, callVars, ChunkLabels, HookLabels
<1>1. {"outer", "create", "give", "done", "deinit", "deinitServe", "detach", "close", "clear",
       "setRunning", "clearBreak", "clearHold", "init", "initServe", "loop", "read", "line",
       "ended", "run", "hookStop", "hookBreak", "hookDisarm", "hookHold",
       "holding", "holdEnd", "drain", "callback"}
        \subseteq ReplLabels
  BY DEF ReplLabels, CleanLabels, LoopLabels, StartLabels, ChunkLabels, HookLabels
<1>2. Repl \in Callers /\ MaxLines \in Nat
  BY RuntimeAssumption DEF Callers
<1>3. CASE CleanupNothing
  BY <1>1, <1>2, <1>3 DEF CleanupNothing
<1>4. CASE CleanupNotify
  BY <1>1, <1>2, <1>4 DEF CleanupNotify, Acquire
<1>5. CASE CleanupServed
  <2>1. FlagsOK'
    BY <1>5, Zenon DEF CleanupServed
  <2> QED
    BY <1>1, <1>2, <1>5, <2>1 DEF CleanupServed, Release
<1>6. CASE CleanupDetach
  <2>1. FlagsOK'
    BY <1>6, Zenon DEF CleanupDetach
  <2> QED
    BY <1>1, <1>2, <1>6, <2>1 DEF CleanupDetach
<1>7. CASE CleanupClose
  <2>1. FlagsOK'
    BY <1>7, Zenon DEF CleanupClose
  <2> QED
    BY <1>1, <1>2, <1>7, <2>1 DEF CleanupClose
<1>8. CASE CleanupClear
  BY <1>1, <1>2, <1>8 DEF CleanupClear
<1>9. CASE OuterLoop
  BY <1>1, <1>2, <1>9 DEF OuterLoop
<1>10. CASE GiveExited
  BY <1>1, <1>2, <1>10 DEF GiveExited, Goto, Waiting, CallLabels, ExitLabels
<1>11. CASE Create
  <2>1. FlagsOK'
    BY <1>11, Zenon DEF Create
  <2> QED
    BY <1>1, <1>2, <1>11, <2>1 DEF Create
<1>12. CASE SetRunning
  BY <1>1, <1>2, <1>12 DEF SetRunning
<1>13. CASE ClearBreak
  <2>1. FlagsOK'
    BY <1>13, Zenon DEF ClearBreak
  <2> QED
    BY <1>1, <1>2, <1>13, <2>1 DEF ClearBreak
<1>14. CASE ClearHold
  <2>1. FlagsOK'
    BY <1>14, Zenon DEF ClearHold
  <2> QED
    BY <1>1, <1>2, <1>14, <2>1 DEF ClearHold
<1>15. CASE InitNotify
  BY <1>1, <1>2, <1>15 DEF InitNotify, Acquire
<1>16. CASE StartMain
  BY <1>1, <1>2, <1>16 DEF StartMain, Release
<1>17. CASE LoopTest
  BY <1>1, <1>2, <1>17 DEF LoopTest
<1>18. CASE ReadStopped
  BY <1>1, <1>2, <1>18 DEF ReadStopped
<1>19. CASE ReadData
  BY <1>1, <1>2, <1>19 DEF ReadData
<1>20. CASE ReadNothing
  BY <1>1, <1>2, <1>20 DEF ReadNothing
<1>21. CASE StartLine
  <2>1. FlagsOK'
    BY <1>21, Zenon DEF StartLine
  <2> QED
    BY <1>1, <1>2, <1>21, <2>1 DEF StartLine
<1>22. CASE ChunkEnded
  <2>1. FlagsOK'
    BY <1>22, Zenon DEF ChunkEnded
  <2> QED
    BY <1>1, <1>2, <1>22, <2>1 DEF ChunkEnded
<1>23. CASE HookEnter
  BY <1>1, <1>2, <1>23 DEF HookEnter
<1>24. CASE HookStopped
  <2>1. /\ guards' \in Nat /\ co' \in 0..guards'
        /\ repl' \in {"run", "ended"} /\ (co' # 0 => repl' = "run")
    BY <1>24 DEF HookStopped, Raise
  <2>2. coArmed' \in BOOLEAN
    BY <1>24 DEF HookStopped, Raise
  <2> QED
    BY <1>1, <1>2, <1>24, <2>1, <2>2 DEF HookStopped
<1>25. CASE HookRunning
  BY <1>1, <1>2, <1>25 DEF HookRunning
<1>26. CASE BreakRaised
  <2>1. /\ guards' \in Nat /\ co' \in 0..guards'
        /\ repl' \in {"run", "ended"} /\ (co' # 0 => repl' = "run")
    BY <1>26 DEF BreakRaised, Raise
  <2>2. coArmed' \in BOOLEAN
    BY <1>26 DEF BreakRaised, Raise
  <2>3. FlagsOK'
    BY <1>26, <2>2, Zenon DEF BreakRaised
  <2> QED
    BY <1>1, <1>2, <1>26, <2>1, <2>3 DEF BreakRaised
<1>27. CASE NoBreak
  BY <1>1, <1>2, <1>27 DEF NoBreak
<1>28. CASE HookDisarm
  <2>1. FlagsOK'
    BY <1>28, Zenon DEF HookDisarm
  <2> QED
    BY <1>1, <1>2, <1>28, <2>1 DEF HookDisarm
<1>29. CASE HoldTest
  BY <1>1, <1>2, <1>29 DEF HoldTest
<1>51. CASE HoldWakes
  BY <1>1, <1>2, <1>51 DEF HoldWakes
<1>52. CASE HoldEnd
  <2>1. FlagsOK'
    BY <1>52, Zenon DEF HoldEnd
  <2> QED
    BY <1>1, <1>2, <1>52, <2>1 DEF HoldEnd
<1>30. CASE DrainTake
  BY <1>1, <1>2, <1>30 DEF DrainTake
<1>31. CASE DrainDone
  BY <1>1, <1>2, <1>31 DEF DrainDone
<1>32. CASE EnterPcall
  BY <1>1, <1>2, <1>32 DEF EnterPcall
<1>33. CASE LeavePcall
  BY <1>1, <1>2, <1>33 DEF LeavePcall
<1>34. CASE FinishChunk
  BY <1>1, <1>2, <1>34 DEF FinishChunk
<1>53. CASE ResumeCo
  <2>1. FlagsOK'
    BY <1>53, Zenon DEF ResumeCo
  <2> QED
    BY <1>1, <1>2, <1>53, <2>1 DEF ResumeCo, ChunkLabels
<1>54. CASE YieldCo
  <2>1. FlagsOK'
    BY <1>54, Zenon DEF YieldCo
  <2> QED
    BY <1>1, <1>2, <1>54, <2>1 DEF YieldCo, ChunkLabels
<1> QED
  BY <1>3, <1>4, <1>5, <1>6, <1>7, <1>8, <1>9, <1>10, <1>11, <1>12, <1>13, <1>14, <1>15,
     <1>16, <1>17, <1>18, <1>19, <1>20, <1>21, <1>22, <1>23, <1>24, <1>25, <1>26,
     <1>27, <1>28, <1>29, <1>51, <1>52, <1>30, <1>31, <1>32, <1>33, <1>34,
     <1>53, <1>54
     DEF FirmwareSteps, CleanupSteps, StartSteps, LoopSteps, HookSteps, ScriptSteps

\* A step of a call preserves the types, whoever makes it.
LEMMA TypeCall ==
  ASSUME TypeOK, NEW t \in Callers, CallStep(t)
  PROVE  TypeOK'
<1> USE DEF TypeOK, FlagsOK, Begin, At, Goto, Pass, replVars, vmVars, coVars, flagVars, evVars,
            envVars
<1>1. {"free", "off", "iArm", "iLock", "iServe", "rArm", "sTest", "sArm", "xReset", "xMark",
       "xArm", "xLeave", "xStop", "xTake", "xWait", "xAbort", "xLock", "xServe", "xDetach",
       "xClose", "xClear", "xDone", "dLock", "dServe", "lLock", "lServe", "lStop", "lMark", "lArm",
       "lPark", "bLock", "bServe", "bTest", "bArm", "bPark", "bSkip", "bRelease",
       "bResumeLock", "bResumeServe"} \subseteq CallLabels
  BY DEF CallLabels, ExitLabels, LockLabels, ServeLabels, ParkLabels
<1>2. ASSUME NEW from, NEW to \in CallLabels, Arm(t, from, to)
      PROVE  TypeOK'
  <2>1. FlagsOK'
    BY <1>2, Zenon DEF Arm
  <2> QED
    BY <1>2, <2>1 DEF Arm
<1>3. ASSUME NEW from, NEW to \in CallLabels, Stop(t, from, to)
      PROVE  TypeOK'
  <2>1. FlagsOK'
    BY <1>3, Zenon DEF Stop
  <2> QED
    BY <1>3, <2>1 DEF Stop
<1>4. ASSUME NEW from, NEW to \in CallLabels, Mark(t, from, to)
      PROVE  TypeOK'
  <2>1. FlagsOK'
    BY <1>4, Zenon DEF Mark
  <2> QED
    BY <1>4, <2>1 DEF Mark
<1>5. ASSUME NEW from, NEW to \in CallLabels, Lock(t, from, to)
      PROVE  TypeOK'
  BY <1>5 DEF Lock, Acquire
<1>6. ASSUME NEW from, NEW to \in CallLabels, Unlock(t, from, to)
      PROVE  TypeOK'
  BY <1>6 DEF Unlock, Release
<1>7. ASSUME NEW from, NEW to \in CallLabels, Woken(t, from, to)
      PROVE  TypeOK'
  BY <1>7 DEF Woken
<1>8. ASSUME NEW from, Refuse(t, from)
      PROVE  TypeOK'
  <2>1. FlagsOK'
    BY <1>8, Zenon DEF Refuse
  <2> QED
    BY <1>1, <1>8, <2>1 DEF Refuse, Release
<1>9. ASSUME NEW o, NEW to \in CallLabels, Sleep(t, o, to)
      PROVE  TypeOK'
  <2>1. FlagsOK'
    BY <1>9, Zenon DEF Sleep
  <2> QED
    BY <1>9, <2>1 DEF Sleep
<1>10. CASE Interrupt(t)
  <2>1. FlagsOK'
    BY <1>10, Zenon DEF Interrupt
  <2> QED
    BY <1>1, <1>10, <2>1 DEF Interrupt
<1>11. CASE Restart(t)
  <2>1. FlagsOK'
    BY <1>11, Zenon DEF Restart
  <2> QED
    BY <1>1, <1>11, <2>1 DEF Restart
<1>12. CASE Signal(t)
  BY <1>1, <1>12 DEF Signal
<1>13. CASE SignalTest(t)
  BY <1>1, <1>13 DEF SignalTest
<1>14. CASE StandbyTest(t)
  <2>1. FlagsOK'
    BY <1>14, Zenon DEF StandbyTest
  <2> QED
    BY <1>1, <1>14, <2>1 DEF StandbyTest
<1>15. CASE StandbyRelease(t)
  <2>1. FlagsOK'
    BY <1>15, Zenon DEF StandbyRelease
  <2> QED
    BY <1>1, <1>15, <2>1 DEF StandbyRelease
<1>16. CASE DeepExit(t)
  BY <1>1, <1>16 DEF DeepExit, Release
<1>17. CASE Exit(t)
  BY <1>1, <1>17 DEF Exit
<1>18. CASE ExitReset(t)
  BY <1>1, <1>18 DEF ExitReset
<1>19. CASE ExitNoVm(t)
  BY <1>1, <1>19 DEF ExitNoVm
<1>20. CASE ExitLeave(t)
  <2>1. FlagsOK'
    BY <1>20, Zenon DEF ExitLeave
  <2> QED
    BY <1>1, <1>20, <2>1 DEF ExitLeave
<1>21. CASE ExitStop(t)
  <2>1. FlagsOK'
    BY <1>21, Zenon DEF ExitStop, Stop
  <2> QED
    BY <1>1, <1>21, <2>1 DEF ExitStop, Stop
<1>51. CASE ExitTake(t)
  BY <1>1, <1>51 DEF ExitTake
<1>22. CASE ExitTimeout(t)
  BY <1>1, <1>22 DEF ExitTimeout
<1>23. CASE ExitAbort(t)
  BY <1>1, <1>23 DEF ExitAbort, ReplLabels
<1>24. CASE ExitServed(t)
  <2>1. FlagsOK'
    BY <1>24, Zenon DEF ExitServed
  <2> QED
    BY <1>1, <1>24, <2>1 DEF ExitServed, Release
<1>25. CASE ExitDetach(t)
  <2>1. FlagsOK'
    BY <1>25, Zenon DEF ExitDetach
  <2> QED
    BY <1>1, <1>25, <2>1 DEF ExitDetach
<1>26. CASE ExitClose(t)
  <2>1. FlagsOK'
    BY <1>26, Zenon DEF ExitClose
  <2> QED
    BY <1>1, <1>26, <2>1 DEF ExitClose
<1>27. CASE ExitClear(t)
  BY <1>1, <1>27 DEF ExitClear
<1>28. CASE ExitDone(t)
  BY <1>1, <1>28 DEF ExitDone
<1> QED
  BY <1>1, <1>2, <1>3, <1>4, <1>5, <1>6, <1>7, <1>8, <1>9, <1>10, <1>11, <1>12, <1>13, <1>14,
     <1>15, <1>16, <1>17, <1>18, <1>19, <1>20, <1>21, <1>51, <1>22, <1>23, <1>24, <1>25,
     <1>26, <1>27, <1>28
     DEF CallStep, FlagSteps, ExitSteps, PmSteps, ExitMark

\* Next preserves the types; a step that changes nothing does too.
LEMMA TypeNext == TypeOK /\ [Next]_vars => TypeOK'
<1> SUFFICES ASSUME TypeOK, [Next]_vars PROVE TypeOK'
  OBVIOUS
<1>1. CASE FirmwareSteps \/ ScriptSteps
  BY <1>1, TypeRepl
<1>2. CASE Wake
  <2>1. FlagsOK'
    BY <1>2, Zenon DEF Wake, TypeOK, FlagsOK, vmVars, coVars, flagVars
  <2> QED
    BY <1>2, <2>1 DEF Wake, TypeOK, FlagsOK, replVars, vmVars, coVars, flagVars, evVars, callVars
<1>3. CASE \E t \in Callers : CallStep(t)
  BY <1>3, TypeCall
<1>4. CASE UNCHANGED vars
  BY <1>4 DEF vars, TypeOK, replVars, vmVars, coVars, flagVars, evVars, envVars, callVars
<1> QED
  BY <1>1, <1>2, <1>3, <1>4 DEF Next

\* Every variable always has a value of its C counterpart.
THEOREM TypeCorrect == Spec => []TypeOK
  BY TypeInit, TypeNext, PTL DEF Spec

-------------------------------------------------------------------------------
(***************************************************************************)
(* Who owns the VM.  What the safety properties lack to be inductive:      *)
(* where the REPL thread has and has lost the VM, that a thread tears the  *)
(* VM down itself only once it has aborted the REPL thread, and that the   *)
(* services have had their DEINIT by then.                                 *)
(***************************************************************************)
TearLabels == {"xLock", "xServe", "xDetach", "xClose", "xClear"}

Owners ==
  /\ hasL => open
  /\ repl \in VmLabels \cup {"deinitServe", "detach"} => hasL
  /\ repl = "close" => open /\ ~hasL
  /\ repl \in {"detach", "close"} => ~svcLive
  /\ svcLive => open
  /\ \A t \in Callers : pc[t] \in TearLabels => repl = "aborted"
  /\ \A t \in Callers : pc[t] \in {"xDetach", "xClose"} => ~svcLive
  /\ \A t \in Callers : pc[t] = "xClose" => open /\ ~hasL
  /\ \A t, u \in Callers : pc[t] = "xClose" /\ pc[u] = "xClose" => t = u

\* Owners is what the properties say, and more.
LEMMA OwnersImply == Owners => VmHasOneOwner /\ ReplHasItsVm /\ ServicesDieFirst
  BY DEF Owners, VmHasOneOwner, ReplHasItsVm, ServicesDieFirst, VmLabels, TearLabels

\* Before the first VM nobody owns anything.
LEMMA OwnersInit == Init => Owners
  BY DEF Init, Owners, VmLabels, ChunkLabels, HookLabels, StartLabels, LoopLabels, TearLabels

\* Only the REPL thread's cleanup and creation of a state touch the ownership.
LEMMA OwnersRepl ==
  ASSUME TypeOK, Owners, FirmwareSteps \/ ScriptSteps
  PROVE  Owners'
<1> USE DEF Owners, ReplAt, Move, MoveToCleanup, vmVars, coVars, InScript, envVars, callVars,
            VmLabels, ChunkLabels, HookLabels, StartLabels, LoopLabels, TearLabels
<1>1. after \in {"create", "give"}
  BY DEF TypeOK
<1>2. CASE CleanupNothing
  BY <1>1, <1>2 DEF CleanupNothing
<1>3. CASE CleanupNotify
  BY <1>1, <1>3 DEF CleanupNotify, Acquire
<1>4. CASE CleanupServed
  BY <1>1, <1>4 DEF CleanupServed, Release
<1>5. CASE CleanupDetach
  BY <1>1, <1>5 DEF CleanupDetach
<1>6. CASE CleanupClose
  BY <1>1, <1>6 DEF CleanupClose
<1>7. CASE CleanupClear
  BY <1>1, <1>7 DEF CleanupClear
<1>8. CASE OuterLoop
  BY <1>1, <1>8 DEF OuterLoop
<1>9. CASE GiveExited
  BY <1>1, <1>9 DEF GiveExited, Goto, Waiting, TypeOK
<1>10. CASE Create
  BY <1>1, <1>10 DEF Create
<1>11. CASE SetRunning
  BY <1>1, <1>11 DEF SetRunning
<1>12. CASE ClearBreak
  BY <1>1, <1>12 DEF ClearBreak
<1>13. CASE ClearHold
  BY <1>1, <1>13 DEF ClearHold
<1>14. CASE InitNotify
  BY <1>1, <1>14 DEF InitNotify, Acquire
<1>15. CASE StartMain
  BY <1>1, <1>15 DEF StartMain, Release
<1>16. CASE LoopTest
  BY <1>1, <1>16 DEF LoopTest
<1>17. CASE ReadStopped
  BY <1>1, <1>17 DEF ReadStopped
<1>18. CASE ReadData
  BY <1>1, <1>18 DEF ReadData
<1>19. CASE ReadNothing
  BY <1>1, <1>19 DEF ReadNothing
<1>20. CASE StartLine
  BY <1>1, <1>20 DEF StartLine
<1>21. CASE ChunkEnded
  BY <1>1, <1>21 DEF ChunkEnded
<1>22. CASE HookEnter
  BY <1>1, <1>22 DEF HookEnter
<1>23. CASE HookStopped
  BY <1>1, <1>23 DEF HookStopped, Raise
<1>24. CASE HookRunning
  BY <1>1, <1>24 DEF HookRunning
<1>25. CASE BreakRaised
  BY <1>1, <1>25 DEF BreakRaised, Raise
<1>26. CASE NoBreak
  BY <1>1, <1>26 DEF NoBreak
<1>27. CASE HookDisarm
  BY <1>1, <1>27 DEF HookDisarm
<1>28. CASE HoldTest
  BY <1>1, <1>28 DEF HoldTest
<1>51. CASE HoldWakes
  BY <1>1, <1>51 DEF HoldWakes
<1>52. CASE HoldEnd
  BY <1>1, <1>52 DEF HoldEnd
<1>29. CASE DrainTake
  BY <1>1, <1>29 DEF DrainTake
<1>30. CASE DrainDone
  BY <1>1, <1>30 DEF DrainDone
<1>31. CASE EnterPcall
  BY <1>1, <1>31 DEF EnterPcall
<1>32. CASE LeavePcall
  BY <1>1, <1>32 DEF LeavePcall
<1>33. CASE FinishChunk
  BY <1>1, <1>33 DEF FinishChunk
<1>53. CASE ResumeCo
  BY <1>1, <1>53 DEF ResumeCo
<1>54. CASE YieldCo
  BY <1>1, <1>54 DEF YieldCo
<1> QED
  BY <1>2, <1>3, <1>4, <1>5, <1>6, <1>7, <1>8, <1>9, <1>10, <1>11, <1>12, <1>13, <1>14,
     <1>15, <1>16, <1>17, <1>18, <1>19, <1>20, <1>21, <1>22, <1>23, <1>24, <1>25, <1>26,
     <1>27, <1>28, <1>51, <1>52, <1>29, <1>30, <1>31, <1>32, <1>33,
     <1>53, <1>54
     DEF FirmwareSteps, CleanupSteps, StartSteps, LoopSteps, HookSteps, ScriptSteps

\* A call touches it only where an exit tears the VM down.
LEMMA OwnersCall ==
  ASSUME TypeOK, Owners, NEW t \in Callers, CallStep(t)
  PROVE  Owners'
<1> USE
     DEF Owners, Begin, At, Goto, Pass, replVars, vmVars, coVars, flagVars, evVars, envVars,
         TearLabels
<1>1. pc \in [Callers -> CallLabels]
  BY DEF TypeOK
<1>2. ASSUME NEW from, NEW to, to \notin TearLabels, Arm(t, from, to)
      PROVE  Owners'
  BY <1>1, <1>2 DEF Arm
<1>3. ASSUME NEW from, NEW to, to \notin TearLabels, Stop(t, from, to)
      PROVE  Owners'
  BY <1>1, <1>3 DEF Stop
<1>4. ASSUME NEW from, NEW to, to \notin TearLabels, Mark(t, from, to)
      PROVE  Owners'
  BY <1>1, <1>4 DEF Mark
<1>5. ASSUME NEW from, NEW to, to \notin TearLabels, Lock(t, from, to)
      PROVE  Owners'
  BY <1>1, <1>5 DEF Lock, Acquire
<1>6. ASSUME NEW from, NEW to, to \notin TearLabels, Unlock(t, from, to)
      PROVE  Owners'
  BY <1>1, <1>6 DEF Unlock, Release
<1>7. ASSUME NEW from, NEW to, to \notin TearLabels, Woken(t, from, to)
      PROVE  Owners'
  BY <1>1, <1>7 DEF Woken
<1>8. ASSUME NEW from, Refuse(t, from)
      PROVE  Owners'
  BY <1>1, <1>8 DEF Refuse, Release
<1>9. ASSUME NEW o, NEW to, to \notin TearLabels, Sleep(t, o, to)
      PROVE  Owners'
  BY <1>1, <1>9 DEF Sleep
<1>10. CASE Lock(t, "xLock", "xServe")
  BY <1>1, <1>10 DEF Lock, Acquire
<1>11. CASE Interrupt(t)
  BY <1>1, <1>11 DEF Interrupt
<1>12. CASE Restart(t)
  BY <1>1, <1>12 DEF Restart
<1>13. CASE Signal(t)
  BY <1>1, <1>13 DEF Signal
<1>14. CASE SignalTest(t)
  BY <1>1, <1>14 DEF SignalTest
<1>15. CASE StandbyTest(t)
  BY <1>1, <1>15 DEF StandbyTest
<1>16. CASE StandbyRelease(t)
  BY <1>1, <1>16 DEF StandbyRelease
<1>17. CASE DeepExit(t)
  BY <1>1, <1>17 DEF DeepExit, Release
<1>18. CASE Exit(t)
  BY <1>1, <1>18 DEF Exit
<1>19. CASE ExitReset(t)
  BY <1>1, <1>19 DEF ExitReset
<1>20. CASE ExitNoVm(t)
  BY <1>1, <1>20 DEF ExitNoVm
<1>21. CASE ExitLeave(t)
  BY <1>1, <1>21 DEF ExitLeave
<1>22. CASE ExitStop(t)
  BY <1>1, <1>22 DEF ExitStop, Stop
<1>51. CASE ExitTake(t)
  BY <1>1, <1>51 DEF ExitTake
<1>23. CASE ExitTimeout(t)
  BY <1>1, <1>23 DEF ExitTimeout
<1>24. CASE ExitAbort(t)
  BY <1>1, <1>24 DEF ExitAbort, VmLabels, ChunkLabels, HookLabels,
                       StartLabels, LoopLabels
<1>25. CASE ExitServed(t)
  BY <1>1, <1>25 DEF ExitServed, Release
<1>26. CASE ExitDetach(t)
  BY <1>1, <1>26 DEF ExitDetach, VmLabels, ChunkLabels, HookLabels, StartLabels, LoopLabels
<1>27. CASE ExitClose(t)
  BY <1>1, <1>27 DEF ExitClose
<1>28. CASE ExitClear(t)
  BY <1>1, <1>28 DEF ExitClear
<1>29. CASE ExitDone(t)
  BY <1>1, <1>29 DEF ExitDone
<1> QED
  BY <1>2, <1>3, <1>4, <1>5, <1>6, <1>7, <1>8, <1>9, <1>10, <1>11, <1>12, <1>13, <1>14,
     <1>15, <1>16, <1>17, <1>18, <1>19, <1>20, <1>21, <1>22, <1>51, <1>23, <1>24, <1>25, <1>26,
     <1>27, <1>28, <1>29
     DEF CallStep, FlagSteps, ExitSteps, PmSteps, ExitMark

\* Every step of the runtime keeps the ownership.
LEMMA OwnersNext == TypeOK /\ Owners /\ [Next]_vars => Owners'
<1> SUFFICES ASSUME TypeOK, Owners, [Next]_vars PROVE Owners'
  OBVIOUS
<1>1. CASE FirmwareSteps \/ ScriptSteps
  BY <1>1, OwnersRepl
<1>2. CASE Wake
  BY <1>2 DEF Wake, Owners, replVars, vmVars, coVars, callVars
<1>3. CASE \E t \in Callers : CallStep(t)
  BY <1>3, OwnersCall
<1>4. CASE UNCHANGED vars
  BY <1>4 DEF vars, Owners, replVars, vmVars, coVars, envVars, callVars
<1> QED
  BY <1>1, <1>2, <1>3, <1>4 DEF Next

\* The ownership holds in every state.
LEMMA OwnersAlways == Spec => []Owners
  BY TypeCorrect, OwnersInit, OwnersNext, PTL DEF Spec

\* The lua_State is closed once, by whoever took it from lua_ctx.L under hook_lock, and
\* never while lua_ctx.L still offers it to the producers.
THEOREM OneOwner == Spec => []VmHasOneOwner
  BY OwnersAlways, OwnersImply, PTL

\* The REPL thread never runs on a state that an exit has torn down under it.
THEOREM NoUseAfterClose == Spec => []ReplHasItsVm
  BY OwnersAlways, OwnersImply, PTL

\* The services have dropped their Lua references before lua_close, on every path.
THEOREM DeinitBeforeClose == Spec => []ServicesDieFirst
  BY OwnersAlways, OwnersImply, PTL

-------------------------------------------------------------------------------
(***************************************************************************)
(* What holds when a VM is created: the one before is gone, nothing runs,  *)
(* and every event that is pending came when nobody could take it.  Until  *)
(* then an exit keeps the thread from coming here.                         *)
(***************************************************************************)
BeforeCreate == repl \in {"create", "setRunning"} \/ (repl = "deinit" /\ after = "create")

StartInv ==
  /\ repl \in {"clear", "give", "outer", "create", "done"} => ~hasL /\ ~open
  /\ repl \in CleanLabels /\ after = "create" => repl = "deinit" /\ ~hasL /\ ~open
  /\ repl = "deinit" /\ after = "give" => hasL
  /\ repl \in CleanLabels \cup {"give", "outer"} /\ ~exited => ~running
  /\ BeforeCreate => ~running
  /\ svcLive => hasL
  /\ BeforeCreate \/ (repl \in {"give", "outer"} /\ ~exited) => pending \subseteq early

\* The REPL thread comes to a new VM with the old one gone and the flags down.
LEMMA StartRepl ==
  ASSUME TypeOK, Owners, StartInv, FirmwareSteps \/ ScriptSteps
  PROVE  StartInv'
<1> USE DEF StartInv, BeforeCreate, ReplAt, Move, MoveToCleanup, replVars, vmVars, coVars,
            InScript, flagVars, evVars, envVars, callVars, CleanLabels
<1>1. after \in {"create", "give"}
  BY DEF TypeOK
<1>2. CASE CleanupNothing
  BY <1>1, <1>2 DEF CleanupNothing
<1>3. CASE CleanupNotify
  BY <1>1, <1>3 DEF CleanupNotify, Acquire
<1>4. CASE CleanupServed
  BY <1>1, <1>4 DEF CleanupServed, Release
<1>5. CASE CleanupDetach
  BY <1>1, <1>5 DEF CleanupDetach, Owners
<1>6. CASE CleanupClose
  BY <1>1, <1>6 DEF CleanupClose, Owners
<1>7. CASE CleanupClear
  BY <1>1, <1>7 DEF CleanupClear
<1>8. CASE OuterLoop
  BY <1>1, <1>8 DEF OuterLoop
<1>9. CASE GiveExited
  BY <1>1, <1>9 DEF GiveExited, Goto, Waiting
<1>10. CASE Create
  BY <1>1, <1>10 DEF Create
<1>11. CASE SetRunning
  BY <1>1, <1>11 DEF SetRunning
<1>12. CASE ClearBreak
  BY <1>1, <1>12 DEF ClearBreak
<1>13. CASE ClearHold
  BY <1>1, <1>13 DEF ClearHold
<1>14. CASE InitNotify
  BY <1>1, <1>14 DEF InitNotify, Acquire, Owners, VmLabels, StartLabels
<1>15. CASE StartMain
  BY <1>1, <1>15 DEF StartMain, Release
<1>16. CASE LoopTest
  BY <1>1, <1>16 DEF LoopTest, Owners, VmLabels, LoopLabels
<1>17. CASE ReadStopped
  BY <1>1, <1>17 DEF ReadStopped, Owners, VmLabels, LoopLabels
<1>18. CASE ReadData
  BY <1>1, <1>18 DEF ReadData
<1>19. CASE ReadNothing
  BY <1>1, <1>19 DEF ReadNothing
<1>20. CASE StartLine
  BY <1>1, <1>20 DEF StartLine
<1>21. CASE ChunkEnded
  BY <1>1, <1>21 DEF ChunkEnded
<1>22. CASE HookEnter
  BY <1>1, <1>22 DEF HookEnter
<1>23. CASE HookStopped
  BY <1>1, <1>23 DEF HookStopped, Raise
<1>24. CASE HookRunning
  BY <1>1, <1>24 DEF HookRunning
<1>25. CASE BreakRaised
  BY <1>1, <1>25 DEF BreakRaised, Raise
<1>26. CASE NoBreak
  BY <1>1, <1>26 DEF NoBreak
<1>27. CASE HookDisarm
  BY <1>1, <1>27 DEF HookDisarm
<1>28. CASE HoldTest
  BY <1>1, <1>28 DEF HoldTest
<1>51. CASE HoldWakes
  BY <1>1, <1>51 DEF HoldWakes
<1>52. CASE HoldEnd
  BY <1>1, <1>52 DEF HoldEnd
<1>29. CASE DrainTake
  BY <1>1, <1>29 DEF DrainTake
<1>30. CASE DrainDone
  BY <1>1, <1>30 DEF DrainDone
<1>31. CASE EnterPcall
  BY <1>1, <1>31 DEF EnterPcall
<1>32. CASE LeavePcall
  BY <1>1, <1>32 DEF LeavePcall
<1>33. CASE FinishChunk
  BY <1>1, <1>33 DEF FinishChunk
<1>53. CASE ResumeCo
  BY <1>1, <1>53 DEF ResumeCo
<1>54. CASE YieldCo
  BY <1>1, <1>54 DEF YieldCo
<1> QED
  BY <1>2, <1>3, <1>4, <1>5, <1>6, <1>7, <1>8, <1>9, <1>10, <1>11, <1>12, <1>13, <1>14,
     <1>15, <1>16, <1>17, <1>18, <1>19, <1>20, <1>21, <1>22, <1>23, <1>24, <1>25, <1>26,
     <1>27, <1>28, <1>51, <1>52, <1>29, <1>30, <1>31, <1>32, <1>33,
     <1>53, <1>54
     DEF FirmwareSteps, CleanupSteps, StartSteps, LoopSteps, HookSteps, ScriptSteps

\* No call brings one back.
LEMMA StartCall ==
  ASSUME TypeOK, Owners, StartInv, NEW t \in Callers, CallStep(t)
  PROVE  StartInv'
<1> USE DEF StartInv, BeforeCreate, Begin, At, Goto, Pass, replVars, vmVars, coVars, flagVars,
            evVars, envVars
<1>1. pc \in [Callers -> CallLabels]
  BY DEF TypeOK
<1>2. ASSUME NEW from, NEW to, Arm(t, from, to)
      PROVE  StartInv'
  BY <1>1, <1>2 DEF Arm
<1>3. ASSUME NEW from, NEW to, Stop(t, from, to)
      PROVE  StartInv'
  BY <1>1, <1>3 DEF Stop
<1>4. ASSUME NEW from, NEW to, Mark(t, from, to)
      PROVE  StartInv'
  BY <1>1, <1>4 DEF Mark
<1>5. ASSUME NEW from, NEW to, Lock(t, from, to)
      PROVE  StartInv'
  BY <1>1, <1>5 DEF Lock, Acquire
<1>6. ASSUME NEW from, NEW to, Unlock(t, from, to)
      PROVE  StartInv'
  BY <1>1, <1>6 DEF Unlock, Release
<1>7. ASSUME NEW from, NEW to, Woken(t, from, to)
      PROVE  StartInv'
  BY <1>1, <1>7 DEF Woken
<1>8. ASSUME NEW from, Refuse(t, from)
      PROVE  StartInv'
  BY <1>1, <1>8 DEF Refuse, Release
<1>9. ASSUME NEW o, NEW to, Sleep(t, o, to)
      PROVE  StartInv'
  BY <1>1, <1>9 DEF Sleep
<1>10. CASE Interrupt(t)
  BY <1>1, <1>10 DEF Interrupt
<1>11. CASE Restart(t)
  BY <1>1, <1>11 DEF Restart
<1>12. CASE Signal(t)
  BY <1>1, <1>12 DEF Signal
<1>13. CASE SignalTest(t)
  BY <1>1, <1>13 DEF SignalTest
<1>14. CASE StandbyTest(t)
  BY <1>1, <1>14 DEF StandbyTest
<1>15. CASE StandbyRelease(t)
  BY <1>1, <1>15 DEF StandbyRelease
<1>16. CASE DeepExit(t)
  BY <1>1, <1>16 DEF DeepExit, Release
<1>17. CASE Exit(t)
  BY <1>1, <1>17 DEF Exit
<1>18. CASE ExitReset(t)
  BY <1>1, <1>18 DEF ExitReset, Waiting
<1>19. CASE ExitNoVm(t)
  BY <1>1, <1>19 DEF ExitNoVm
<1>20. CASE ExitLeave(t)
  BY <1>1, <1>20 DEF ExitLeave
<1>21. CASE ExitStop(t)
  BY <1>1, <1>21 DEF ExitStop, Stop
<1>51. CASE ExitTake(t)
  BY <1>1, <1>51 DEF ExitTake
<1>22. CASE ExitTimeout(t)
  BY <1>1, <1>22 DEF ExitTimeout
<1>23. CASE ExitAbort(t)
  BY <1>23 DEF ExitAbort, CleanLabels
<1>24. CASE ExitServed(t)
  BY <1>1, <1>24 DEF ExitServed, Release
<1>25. CASE ExitDetach(t)
  BY <1>1, <1>25 DEF ExitDetach, Owners, TearLabels
<1>26. CASE ExitClose(t)
  BY <1>1, <1>26 DEF ExitClose, Owners, TearLabels
<1>27. CASE ExitClear(t)
  BY <1>1, <1>27 DEF ExitClear
<1>28. CASE ExitDone(t)
  BY <1>1, <1>28 DEF ExitDone
<1> QED
  BY <1>1, <1>2, <1>3, <1>4, <1>5, <1>6, <1>7, <1>8, <1>9, <1>10, <1>11, <1>12, <1>13,
     <1>14, <1>15, <1>16, <1>17, <1>18, <1>19, <1>20, <1>21, <1>51, <1>22, <1>23, <1>24, <1>25,
     <1>26, <1>27, <1>28
     DEF CallStep, FlagSteps, ExitSteps, PmSteps, ExitMark

(***************************************************************************)
(* Why no event waits for the next one: from the moment running is set an  *)
(* event that is not early has a producer on its way to arm the hook, an   *)
(* armed hook, or a drain that is yet to look.                             *)
(***************************************************************************)
ListenLabels == VmLabels \ {"setRunning", "hookHold", "holding", "holdEnd", "drain", "callback"}

ArmInv ==
  repl \in ListenLabels /\ running /\ pending \ early # {}
    => armed \/ \E t \in Callers : pc[t] \in {"sTest", "sArm"}

\* The hook goes only on the way to the drain.
LEMMA ArmRepl ==
  ASSUME TypeOK, StartInv, ArmInv, FirmwareSteps \/ ScriptSteps
  PROVE  ArmInv'
<1> USE DEF ArmInv, ReplAt, Move, MoveToCleanup, replVars, vmVars, coVars,
            InScript, flagVars, evVars, envVars, callVars, ListenLabels, VmLabels, ChunkLabels, HookLabels, StartLabels,
            LoopLabels
<1>1. after \in {"create", "give"}
  BY DEF TypeOK
<1>2. CASE CleanupNothing
  BY <1>1, <1>2 DEF CleanupNothing
<1>3. CASE CleanupNotify
  BY <1>1, <1>3 DEF CleanupNotify, Acquire
<1>4. CASE CleanupServed
  BY <1>1, <1>4 DEF CleanupServed, Release
<1>5. CASE CleanupDetach
  BY <1>1, <1>5 DEF CleanupDetach
<1>6. CASE CleanupClose
  BY <1>1, <1>6 DEF CleanupClose
<1>7. CASE CleanupClear
  BY <1>1, <1>7 DEF CleanupClear
<1>8. CASE OuterLoop
  BY <1>1, <1>8 DEF OuterLoop
<1>9. CASE GiveExited
  BY <1>9 DEF GiveExited
<1>10. CASE Create
  BY <1>1, <1>10 DEF Create
<1>11. CASE SetRunning
  BY <1>11 DEF SetRunning, StartInv, BeforeCreate
<1>12. CASE ClearBreak
  BY <1>1, <1>12 DEF ClearBreak
<1>13. CASE ClearHold
  BY <1>1, <1>13 DEF ClearHold
<1>14. CASE InitNotify
  BY <1>1, <1>14 DEF InitNotify, Acquire
<1>15. CASE StartMain
  BY <1>1, <1>15 DEF StartMain, Release
<1>16. CASE LoopTest
  BY <1>1, <1>16 DEF LoopTest
<1>17. CASE ReadStopped
  BY <1>1, <1>17 DEF ReadStopped
<1>18. CASE ReadData
  BY <1>1, <1>18 DEF ReadData
<1>19. CASE ReadNothing
  BY <1>1, <1>19 DEF ReadNothing
<1>20. CASE StartLine
  BY <1>1, <1>20 DEF StartLine
<1>21. CASE ChunkEnded
  BY <1>1, <1>21 DEF ChunkEnded
<1>22. CASE HookEnter
  BY <1>1, <1>22 DEF HookEnter
<1>23. CASE HookStopped
  BY <1>1, <1>23 DEF HookStopped, Raise
<1>24. CASE HookRunning
  BY <1>1, <1>24 DEF HookRunning
<1>25. CASE BreakRaised
  BY <1>1, <1>25 DEF BreakRaised, Raise
<1>26. CASE NoBreak
  BY <1>1, <1>26 DEF NoBreak
<1>27. CASE HookDisarm
  BY <1>1, <1>27 DEF HookDisarm
<1>28. CASE HoldTest
  BY <1>1, <1>28 DEF HoldTest
<1>51. CASE HoldWakes
  BY <1>1, <1>51 DEF HoldWakes
<1>52. CASE HoldEnd
  BY <1>1, <1>52 DEF HoldEnd
<1>29. CASE DrainTake
  BY <1>1, <1>29 DEF DrainTake
<1>30. CASE DrainDone
  BY <1>1, <1>30 DEF DrainDone
<1>31. CASE EnterPcall
  BY <1>1, <1>31 DEF EnterPcall
<1>32. CASE LeavePcall
  BY <1>1, <1>32 DEF LeavePcall
<1>33. CASE FinishChunk
  BY <1>1, <1>33 DEF FinishChunk
<1>53. CASE ResumeCo
  BY <1>1, <1>53 DEF ResumeCo
<1>54. CASE YieldCo
  BY <1>1, <1>54 DEF YieldCo
<1> QED
  BY <1>2, <1>3, <1>4, <1>5, <1>6, <1>7, <1>8, <1>9, <1>10, <1>11, <1>12, <1>13, <1>14,
     <1>15, <1>16, <1>17, <1>18, <1>19, <1>20, <1>21, <1>22, <1>23, <1>24, <1>25, <1>26,
     <1>27, <1>28, <1>51, <1>52, <1>29, <1>30, <1>31, <1>32, <1>33,
     <1>53, <1>54
     DEF FirmwareSteps, CleanupSteps, StartSteps, LoopSteps, HookSteps, ScriptSteps

\* A producer that arms has the VM to arm.
LEMMA ArmCall ==
  ASSUME TypeOK, Owners, ArmInv, NEW t \in Callers, CallStep(t)
  PROVE  ArmInv'
<1> USE DEF ArmInv, Begin, At, Goto, Pass, replVars, vmVars, coVars, flagVars, evVars, envVars
<1>1. pc \in [Callers -> CallLabels]
  BY DEF TypeOK
<1>2. repl \in ListenLabels => hasL /\ repl # "aborted"
  BY DEF Owners, ListenLabels, VmLabels, ChunkLabels, HookLabels, StartLabels, LoopLabels
<1>3. ASSUME NEW from, NEW to, from \notin {"sTest", "sArm"}, Arm(t, from, to)
      PROVE  ArmInv'
  BY <1>1, <1>2, <1>3 DEF Arm
<1>4. ASSUME NEW from, NEW to, from \notin {"sTest", "sArm"}, Stop(t, from, to)
      PROVE  ArmInv'
  BY <1>1, <1>2, <1>4 DEF Stop
<1>5. ASSUME NEW from, NEW to, from \notin {"sTest", "sArm"}, Mark(t, from, to)
      PROVE  ArmInv'
  BY <1>1, <1>2, <1>5 DEF Mark
<1>6. ASSUME NEW from, NEW to, from \notin {"sTest", "sArm"}, Lock(t, from, to)
      PROVE  ArmInv'
  BY <1>1, <1>2, <1>6 DEF Lock, Acquire
<1>7. ASSUME NEW from, NEW to, from \notin {"sTest", "sArm"}, Unlock(t, from, to)
      PROVE  ArmInv'
  BY <1>1, <1>2, <1>7 DEF Unlock, Release
<1>8. ASSUME NEW from, NEW to, from \notin {"sTest", "sArm"}, Woken(t, from, to)
      PROVE  ArmInv'
  BY <1>1, <1>2, <1>8 DEF Woken
<1>9. ASSUME NEW from, from \notin {"sTest", "sArm"}, Refuse(t, from)
      PROVE  ArmInv'
  BY <1>1, <1>2, <1>9 DEF Refuse, Release
<1>10. ASSUME NEW o, NEW to, Sleep(t, o, to)
      PROVE  ArmInv'
  BY <1>1, <1>2, <1>10 DEF Sleep
<1>11. CASE Arm(t, "sArm", "free")
  BY <1>1, <1>2, <1>11 DEF Arm
<1>12. CASE Interrupt(t)
  BY <1>1, <1>2, <1>12 DEF Interrupt
<1>13. CASE Restart(t)
  BY <1>1, <1>2, <1>13 DEF Restart
<1>14. CASE Signal(t)
  BY <1>1, <1>2, <1>14 DEF Signal
<1>15. CASE SignalTest(t)
  BY <1>1, <1>2, <1>15 DEF SignalTest
<1>16. CASE StandbyTest(t)
  BY <1>1, <1>2, <1>16 DEF StandbyTest
<1>17. CASE StandbyRelease(t)
  BY <1>1, <1>2, <1>17 DEF StandbyRelease
<1>18. CASE DeepExit(t)
  BY <1>1, <1>2, <1>18 DEF DeepExit, Release
<1>19. CASE Exit(t)
  BY <1>1, <1>2, <1>19 DEF Exit
<1>20. CASE ExitReset(t)
  BY <1>1, <1>2, <1>20 DEF ExitReset, Waiting
<1>21. CASE ExitNoVm(t)
  BY <1>1, <1>2, <1>21 DEF ExitNoVm
<1>22. CASE ExitLeave(t)
  BY <1>1, <1>2, <1>22 DEF ExitLeave
<1>23. CASE ExitStop(t)
  BY <1>1, <1>2, <1>23 DEF ExitStop, Stop
<1>51. CASE ExitTake(t)
  BY <1>1, <1>2, <1>51 DEF ExitTake
<1>24. CASE ExitTimeout(t)
  BY <1>1, <1>2, <1>24 DEF ExitTimeout
<1>25. CASE ExitAbort(t)
  BY <1>1, <1>25
     DEF ExitAbort, ListenLabels, VmLabels, ChunkLabels, HookLabels, StartLabels, LoopLabels
<1>26. CASE ExitServed(t)
  BY <1>1, <1>2, <1>26 DEF ExitServed, Release
<1>27. CASE ExitDetach(t)
  BY <1>1, <1>2, <1>27 DEF ExitDetach
<1>28. CASE ExitClose(t)
  BY <1>28
     DEF ExitClose, Owners, TearLabels, ListenLabels, VmLabels, ChunkLabels, HookLabels,
         StartLabels, LoopLabels
<1>29. CASE ExitClear(t)
  BY <1>1, <1>2, <1>29 DEF ExitClear
<1>30. CASE ExitDone(t)
  BY <1>1, <1>2, <1>30 DEF ExitDone
<1> QED
  BY <1>1, <1>2, <1>3, <1>4, <1>5, <1>6, <1>7, <1>8, <1>9, <1>10, <1>11, <1>12, <1>13,
     <1>14, <1>15, <1>16, <1>17, <1>18, <1>19, <1>20, <1>21, <1>22, <1>23, <1>51, <1>24, <1>25,
     <1>26, <1>27, <1>28, <1>29, <1>30
     DEF CallStep, FlagSteps, ExitSteps, PmSteps, ExitMark

(***************************************************************************)
(* Why an exit that returns leaves no VM: while it goes from the reset of   *)
(* the semaphore to the take the REPL thread has no turn, so what it takes  *)
(* was given after exited was set; the REPL thread then finds exited set.   *)
(***************************************************************************)
ExitInv ==
  /\ \A t \in Threads : pc[t] \in {"xMark", "xArm", "xLeave", "xStop", "xTake"} => exitedSem = 0
  /\ \A t \in Threads :
       pc[t] \in {"xStop", "xTake", "xWait", "xAbort", "xDone", "off"} \cup TearLabels => exited
  /\ \A t \in Threads :
       pc[t] \in {"xDone", "off"} => ~hasL /\ repl \in {"outer", "done", "aborted"}
  /\ \A t \in Callers : pc[t] = "xClear" => ~hasL

\* The REPL thread does not run during the calls, and goes nowhere after an exit.
LEMMA ExitRepl ==
  ASSUME TypeOK, Owners, StartInv, ExitInv, FirmwareSteps \/ ScriptSteps
  PROVE  ExitInv'
<1> USE DEF ExitInv, ReplAt, Move, MoveToCleanup, replVars, vmVars, coVars,
            InScript, flagVars, evVars, envVars, callVars
<1>1. after \in {"create", "give"}
  BY DEF TypeOK
<1>2. Threads \subseteq Callers /\ Repl \notin Threads
  BY RuntimeAssumption DEF Callers
<1>3. CASE CleanupNothing
  BY <1>1, <1>2, <1>3 DEF CleanupNothing
<1>4. CASE CleanupNotify
  BY <1>1, <1>2, <1>4 DEF CleanupNotify, Acquire
<1>5. CASE CleanupServed
  BY <1>1, <1>2, <1>5 DEF CleanupServed, Release
<1>6. CASE CleanupDetach
  BY <1>1, <1>2, <1>6 DEF CleanupDetach
<1>7. CASE CleanupClose
  BY <1>1, <1>2, <1>7 DEF CleanupClose
<1>8. CASE CleanupClear
  BY <1>1, <1>2, <1>8 DEF CleanupClear
<1>9. CASE OuterLoop
  BY <1>1, <1>2, <1>9 DEF OuterLoop
<1>10. CASE GiveExited
  <2>1. ReplTurn
    BY <1>10 DEF GiveExited
  <2>2. \A t \in Threads : pc[t] \notin {"xMark", "xArm", "xLeave", "xStop", "xTake"}
    BY <2>1 DEF ReplTurn, Ready, ServeLabels, ParkLabels, LockLabels
  <2> QED
    BY <1>1, <1>2, <2>2, <1>10 DEF GiveExited, Goto, Waiting, StartInv, TypeOK, TearLabels
<1>11. CASE Create
  BY <1>1, <1>2, <1>11 DEF Create, Owners, TearLabels
<1>12. CASE SetRunning
  BY <1>1, <1>2, <1>12 DEF SetRunning
<1>13. CASE ClearBreak
  BY <1>1, <1>2, <1>13 DEF ClearBreak
<1>14. CASE ClearHold
  BY <1>1, <1>2, <1>14 DEF ClearHold
<1>15. CASE InitNotify
  BY <1>1, <1>2, <1>15 DEF InitNotify, Acquire
<1>16. CASE StartMain
  BY <1>1, <1>2, <1>16 DEF StartMain, Release
<1>17. CASE LoopTest
  BY <1>1, <1>2, <1>17 DEF LoopTest
<1>18. CASE ReadStopped
  BY <1>1, <1>2, <1>18 DEF ReadStopped
<1>19. CASE ReadData
  BY <1>1, <1>2, <1>19 DEF ReadData
<1>20. CASE ReadNothing
  BY <1>1, <1>2, <1>20 DEF ReadNothing
<1>21. CASE StartLine
  BY <1>1, <1>2, <1>21 DEF StartLine
<1>22. CASE ChunkEnded
  BY <1>1, <1>2, <1>22 DEF ChunkEnded
<1>23. CASE HookEnter
  BY <1>1, <1>2, <1>23 DEF HookEnter
<1>24. CASE HookStopped
  BY <1>1, <1>2, <1>24 DEF HookStopped, Raise
<1>25. CASE HookRunning
  BY <1>1, <1>2, <1>25 DEF HookRunning
<1>26. CASE BreakRaised
  BY <1>1, <1>2, <1>26 DEF BreakRaised, Raise
<1>27. CASE NoBreak
  BY <1>1, <1>2, <1>27 DEF NoBreak
<1>28. CASE HookDisarm
  BY <1>1, <1>2, <1>28 DEF HookDisarm
<1>29. CASE HoldTest
  BY <1>1, <1>2, <1>29 DEF HoldTest
<1>51. CASE HoldWakes
  BY <1>1, <1>2, <1>51 DEF HoldWakes
<1>52. CASE HoldEnd
  BY <1>1, <1>2, <1>52 DEF HoldEnd
<1>30. CASE DrainTake
  BY <1>1, <1>2, <1>30 DEF DrainTake
<1>31. CASE DrainDone
  BY <1>1, <1>2, <1>31 DEF DrainDone
<1>32. CASE EnterPcall
  BY <1>1, <1>2, <1>32 DEF EnterPcall
<1>33. CASE LeavePcall
  BY <1>1, <1>2, <1>33 DEF LeavePcall
<1>34. CASE FinishChunk
  BY <1>1, <1>2, <1>34 DEF FinishChunk
<1>53. CASE ResumeCo
  BY <1>1, <1>2, <1>53 DEF ResumeCo
<1>54. CASE YieldCo
  BY <1>1, <1>2, <1>54 DEF YieldCo
<1> QED
  BY <1>3, <1>4, <1>5, <1>6, <1>7, <1>8, <1>9, <1>10, <1>11, <1>12, <1>13, <1>14, <1>15,
     <1>16, <1>17, <1>18, <1>19, <1>20, <1>21, <1>22, <1>23, <1>24, <1>25, <1>26, <1>27,
     <1>28, <1>29, <1>51, <1>52, <1>30, <1>31, <1>32, <1>33, <1>34,
     <1>53, <1>54
     DEF FirmwareSteps, CleanupSteps, StartSteps, LoopSteps, HookSteps, ScriptSteps

\* An exit that gives up waiting tears the VM down itself.
LEMMA ExitCall ==
  ASSUME TypeOK, Owners, ExitInv, NEW t \in Callers, CallStep(t)
  PROVE  ExitInv'
<1> USE DEF ExitInv, Begin, At, Goto, Pass, replVars, vmVars, coVars, flagVars, evVars, envVars,
            TearLabels
<1>1. pc \in [Callers -> CallLabels] /\ exitedSem \in {0, 1}
  BY DEF TypeOK
<1>2. Threads \subseteq Callers /\ Repl \notin Threads
  BY RuntimeAssumption DEF Callers
<1>3. ASSUME NEW from, NEW to, to \notin ExitLabels \cup {"off"}, Arm(t, from, to)
      PROVE  ExitInv'
  BY <1>1, <1>2, <1>3 DEF Arm, ExitLabels
<1>4. ASSUME NEW from, NEW to, to \notin ExitLabels \cup {"off"}, Stop(t, from, to)
      PROVE  ExitInv'
  BY <1>1, <1>2, <1>4 DEF Stop, ExitLabels
<1>5. ASSUME NEW from, NEW to, to \notin ExitLabels \cup {"off"}, Mark(t, from, to)
      PROVE  ExitInv'
  BY <1>1, <1>2, <1>5 DEF Mark, ExitLabels
<1>6. ASSUME NEW from, NEW to, to \notin ExitLabels \cup {"off"}, Lock(t, from, to)
      PROVE  ExitInv'
  BY <1>1, <1>2, <1>6 DEF Lock, Acquire, ExitLabels
<1>7. ASSUME NEW from, NEW to, to \notin ExitLabels \cup {"off"}, Unlock(t, from, to)
      PROVE  ExitInv'
  BY <1>1, <1>2, <1>7 DEF Unlock, Release, ExitLabels
<1>8. ASSUME NEW from, NEW to, to \notin ExitLabels \cup {"off"}, Woken(t, from, to)
      PROVE  ExitInv'
  BY <1>1, <1>2, <1>8 DEF Woken, ExitLabels
<1>9. ASSUME NEW from, Refuse(t, from)
      PROVE  ExitInv'
  BY <1>1, <1>2, <1>9 DEF Refuse, Release
<1>10. ASSUME NEW o, NEW to, to \notin ExitLabels \cup {"off"}, Sleep(t, o, to)
      PROVE  ExitInv'
  BY <1>1, <1>2, <1>10 DEF Sleep, ExitLabels
<1>11. CASE Lock(t, "xLock", "xServe")
  BY <1>1, <1>2, <1>11 DEF Lock, Acquire
<1>12. CASE Arm(t, "xArm", "xLeave")
  BY <1>1, <1>2, <1>12 DEF Arm
<1>13. CASE Mark(t, "xMark", "xArm")
  BY <1>1, <1>2, <1>13 DEF Mark
<1>14. CASE Interrupt(t)
  BY <1>1, <1>2, <1>14 DEF Interrupt
<1>15. CASE Restart(t)
  BY <1>1, <1>2, <1>15 DEF Restart
<1>16. CASE Signal(t)
  BY <1>1, <1>2, <1>16 DEF Signal
<1>17. CASE SignalTest(t)
  BY <1>1, <1>2, <1>17 DEF SignalTest
<1>18. CASE StandbyTest(t)
  BY <1>1, <1>2, <1>18 DEF StandbyTest
<1>19. CASE StandbyRelease(t)
  BY <1>1, <1>2, <1>19 DEF StandbyRelease
<1>20. CASE DeepExit(t)
  BY <1>1, <1>2, <1>20 DEF DeepExit, Release
<1>21. CASE Exit(t)
  BY <1>1, <1>2, <1>21 DEF Exit
<1>22. CASE ExitReset(t)
  BY <1>1, <1>2, <1>22 DEF ExitReset, Waiting
<1>23. CASE ExitNoVm(t)
  BY <1>1, <1>2, <1>23 DEF ExitNoVm
<1>24. CASE ExitLeave(t)
  BY <1>1, <1>2, <1>24 DEF ExitLeave
<1>25. CASE ExitStop(t)
  BY <1>1, <1>2, <1>25 DEF ExitStop, Stop
<1>51. CASE ExitTake(t)
  BY <1>1, <1>2, <1>51 DEF ExitTake
<1>26. CASE ExitTimeout(t)
  BY <1>1, <1>2, <1>26 DEF ExitTimeout
<1>27. CASE ExitAbort(t)
  BY <1>1, <1>2, <1>27 DEF ExitAbort
<1>28. CASE ExitServed(t)
  BY <1>1, <1>2, <1>28 DEF ExitServed, Release
<1>29. CASE ExitDetach(t)
  BY <1>1, <1>2, <1>29 DEF ExitDetach
<1>30. CASE ExitClose(t)
  BY <1>1, <1>2, <1>30 DEF ExitClose, Owners
<1>31. CASE ExitClear(t)
  BY <1>1, <1>2, <1>31 DEF ExitClear, Owners
<1>32. CASE ExitDone(t)
  BY <1>1, <1>2, <1>32 DEF ExitDone
<1> QED
  BY <1>1, <1>2, <1>3, <1>4, <1>5, <1>6, <1>7, <1>8, <1>9, <1>10, <1>11, <1>12, <1>13,
     <1>14, <1>15, <1>16, <1>17, <1>18, <1>19, <1>20, <1>21, <1>22, <1>23, <1>24, <1>25, <1>51,
     <1>26, <1>27, <1>28, <1>29, <1>30, <1>31, <1>32
     DEF CallStep, FlagSteps, ExitSteps, PmSteps, ExitMark, ExitLabels

\* A break that is asked for is fresh until it is raised or dropped.
FreshInv == interrupted => fresh

\* The REPL thread takes the flag down with the history.
LEMMA FreshRepl ==
  ASSUME FreshInv, FirmwareSteps \/ ScriptSteps
  PROVE  FreshInv'
<1> USE DEF FreshInv, ReplAt, Move, MoveToCleanup, replVars, vmVars, coVars,
            InScript, flagVars, evVars, envVars, callVars
<1>1. CASE CleanupNothing
  BY <1>1 DEF CleanupNothing
<1>2. CASE CleanupNotify
  BY <1>2 DEF CleanupNotify, Acquire
<1>3. CASE CleanupServed
  BY <1>3 DEF CleanupServed, Release
<1>4. CASE CleanupDetach
  BY <1>4 DEF CleanupDetach
<1>5. CASE CleanupClose
  BY <1>5 DEF CleanupClose
<1>6. CASE CleanupClear
  BY <1>6 DEF CleanupClear
<1>7. CASE OuterLoop
  BY <1>7 DEF OuterLoop
<1>8. CASE GiveExited
  BY <1>8 DEF GiveExited, Goto, Waiting
<1>9. CASE Create
  BY <1>9 DEF Create
<1>10. CASE SetRunning
  BY <1>10 DEF SetRunning
<1>11. CASE ClearBreak
  BY <1>11 DEF ClearBreak
<1>12. CASE ClearHold
  BY <1>12 DEF ClearHold
<1>13. CASE InitNotify
  BY <1>13 DEF InitNotify, Acquire
<1>14. CASE StartMain
  BY <1>14 DEF StartMain, Release
<1>15. CASE LoopTest
  BY <1>15 DEF LoopTest
<1>16. CASE ReadStopped
  BY <1>16 DEF ReadStopped
<1>17. CASE ReadData
  BY <1>17 DEF ReadData
<1>18. CASE ReadNothing
  BY <1>18 DEF ReadNothing
<1>19. CASE StartLine
  BY <1>19 DEF StartLine
<1>20. CASE ChunkEnded
  BY <1>20 DEF ChunkEnded
<1>21. CASE HookEnter
  BY <1>21 DEF HookEnter
<1>22. CASE HookStopped
  BY <1>22 DEF HookStopped, Raise
<1>23. CASE HookRunning
  BY <1>23 DEF HookRunning
<1>24. CASE BreakRaised
  BY <1>24 DEF BreakRaised, Raise
<1>25. CASE NoBreak
  BY <1>25 DEF NoBreak
<1>26. CASE HookDisarm
  BY <1>26 DEF HookDisarm
<1>27. CASE HoldTest
  BY <1>27 DEF HoldTest
<1>51. CASE HoldWakes
  BY <1>51 DEF HoldWakes
<1>52. CASE HoldEnd
  BY <1>52 DEF HoldEnd
<1>28. CASE DrainTake
  BY <1>28 DEF DrainTake
<1>29. CASE DrainDone
  BY <1>29 DEF DrainDone
<1>30. CASE EnterPcall
  BY <1>30 DEF EnterPcall
<1>31. CASE LeavePcall
  BY <1>31 DEF LeavePcall
<1>32. CASE FinishChunk
  BY <1>32 DEF FinishChunk
<1>53. CASE ResumeCo
  BY <1>53 DEF ResumeCo
<1>54. CASE YieldCo
  BY <1>54 DEF YieldCo
<1> QED
  BY <1>1, <1>2, <1>3, <1>4, <1>5, <1>6, <1>7, <1>8, <1>9, <1>10, <1>11, <1>12, <1>13,
     <1>14, <1>15, <1>16, <1>17, <1>18, <1>19, <1>20, <1>21, <1>22, <1>23, <1>24, <1>25,
     <1>26, <1>27, <1>51, <1>52, <1>28, <1>29, <1>30, <1>31, <1>32,
     <1>53, <1>54
     DEF FirmwareSteps, CleanupSteps, StartSteps, LoopSteps, HookSteps, ScriptSteps

\* Who sets the flag sets the history.
LEMMA FreshCall ==
  ASSUME FreshInv, NEW t \in Callers, CallStep(t)
  PROVE  FreshInv'
<1> USE DEF FreshInv, Begin, At, Goto, Pass, replVars, vmVars, coVars, flagVars, evVars, envVars
<1>1. ASSUME NEW from, NEW to, Arm(t, from, to)
      PROVE  FreshInv'
  BY <1>1 DEF Arm
<1>2. ASSUME NEW from, NEW to, Stop(t, from, to)
      PROVE  FreshInv'
  BY <1>2 DEF Stop
<1>3. ASSUME NEW from, NEW to, Mark(t, from, to)
      PROVE  FreshInv'
  BY <1>3 DEF Mark
<1>4. ASSUME NEW from, NEW to, Lock(t, from, to)
      PROVE  FreshInv'
  BY <1>4 DEF Lock, Acquire
<1>5. ASSUME NEW from, NEW to, Unlock(t, from, to)
      PROVE  FreshInv'
  BY <1>5 DEF Unlock, Release
<1>6. ASSUME NEW from, NEW to, Woken(t, from, to)
      PROVE  FreshInv'
  BY <1>6 DEF Woken
<1>7. ASSUME NEW from, Refuse(t, from)
      PROVE  FreshInv'
  BY <1>7 DEF Refuse, Release
<1>8. ASSUME NEW o, NEW to, Sleep(t, o, to)
      PROVE  FreshInv'
  BY <1>8 DEF Sleep
<1>9. CASE Interrupt(t)
  BY <1>9 DEF Interrupt
<1>10. CASE Restart(t)
  BY <1>10 DEF Restart
<1>11. CASE Signal(t)
  BY <1>11 DEF Signal
<1>12. CASE SignalTest(t)
  BY <1>12 DEF SignalTest
<1>13. CASE StandbyTest(t)
  BY <1>13 DEF StandbyTest
<1>14. CASE StandbyRelease(t)
  BY <1>14 DEF StandbyRelease
<1>15. CASE DeepExit(t)
  BY <1>15 DEF DeepExit, Release
<1>16. CASE Exit(t)
  BY <1>16 DEF Exit
<1>17. CASE ExitReset(t)
  BY <1>17 DEF ExitReset, Waiting
<1>18. CASE ExitNoVm(t)
  BY <1>18 DEF ExitNoVm
<1>19. CASE ExitLeave(t)
  BY <1>19 DEF ExitLeave
<1>20. CASE ExitStop(t)
  BY <1>20 DEF ExitStop, Stop
<1>51. CASE ExitTake(t)
  BY <1>51 DEF ExitTake
<1>21. CASE ExitTimeout(t)
  BY <1>21 DEF ExitTimeout
<1>22. CASE ExitAbort(t)
  BY <1>22 DEF ExitAbort
<1>23. CASE ExitServed(t)
  BY <1>23 DEF ExitServed, Release
<1>24. CASE ExitDetach(t)
  BY <1>24 DEF ExitDetach
<1>25. CASE ExitClose(t)
  BY <1>25 DEF ExitClose
<1>26. CASE ExitClear(t)
  BY <1>26 DEF ExitClear
<1>27. CASE ExitDone(t)
  BY <1>27 DEF ExitDone
<1> QED
  BY <1>1, <1>2, <1>3, <1>4, <1>5, <1>6, <1>7, <1>8, <1>9, <1>10, <1>11, <1>12, <1>13,
     <1>14, <1>15, <1>16, <1>17, <1>18, <1>19, <1>20, <1>51, <1>21, <1>22, <1>23, <1>24, <1>25,
     <1>26, <1>27
     DEF CallStep, FlagSteps, ExitSteps, PmSteps, ExitMark

-------------------------------------------------------------------------------
(***************************************************************************)
(* The runtime implements VmLife.                                          *)
(***************************************************************************)
\* A step that only may bring the runtime down.
Quiet == UNCHANGED <<hasL, open, svcLive>> /\ (Down => Down')

\* It is a step of VmLife.
LEMMA QuietLife ==
  ASSUME TypeOK, TypeOK', StartInv, Quiet
  PROVE  [Life!Next]_Life!vars
<1>1. CASE Down' = Down
  BY <1>1, Zenon DEF Quiet, Life!vars
<1>2. CASE Down' # Down
  <2>1. Down' = TRUE
    BY <1>2 DEF Quiet, Down, TypeOK
  <2>2. ~hasL' /\ ~hasL /\ ~svcLive
    BY <2>1 DEF Down, Quiet, StartInv, TypeOK
  <2>3. Life!GoDown
    BY <2>1, <2>2 DEF Life!GoDown, Quiet
  <2> QED
    BY <2>3 DEF Life!Next
<1> QED
  BY <1>1, <1>2

\* The REPL thread creates, starts, stops and ends VMs in order.
LEMMA LifeRepl ==
  ASSUME TypeOK, TypeOK', Owners, StartInv, StartInv', FirmwareSteps \/ ScriptSteps
  PROVE  Quiet \/ Life!Next
<1> USE DEF Quiet, Down, ReplAt, Move, MoveToCleanup, replVars, vmVars, coVars,
            InScript, flagVars, evVars, envVars, callVars
<1>1. CASE CleanupNothing
  BY <1>1 DEF CleanupNothing
<1>2. CASE CleanupNotify
  BY <1>2 DEF CleanupNotify, Acquire
<1>3. CASE CleanupServed
  <2>1. CASE svcLive
    BY <1>3, <2>1 DEF CleanupServed, Release, Life!Stop, Life!Next
  <2>2. CASE ~svcLive
    BY <1>3, <2>2 DEF CleanupServed, Release, TypeOK
  <2> QED
    BY <2>1, <2>2
<1>4. CASE CleanupDetach
  BY <1>4 DEF CleanupDetach, Owners, Life!Detach, Life!Next
<1>5. CASE CleanupClose
  BY <1>5 DEF CleanupClose, Owners, Life!Close, Life!Next
<1>6. CASE CleanupClear
  BY <1>6 DEF CleanupClear
<1>7. CASE OuterLoop
  BY <1>7 DEF OuterLoop
<1>8. CASE GiveExited
  BY <1>8 DEF GiveExited, Goto, Waiting
<1>9. CASE Create
  <2>1. CASE hasL'
    BY <1>9, <2>1 DEF Create, StartInv, Life!Create, Life!Next
  <2>2. CASE ~hasL'
    BY <1>9, <2>2 DEF Create, StartInv
  <2> QED
    BY <2>1, <2>2
<1>10. CASE SetRunning
  BY <1>10 DEF SetRunning
<1>11. CASE ClearBreak
  BY <1>11 DEF ClearBreak
<1>12. CASE ClearHold
  BY <1>12 DEF ClearHold
<1>13. CASE InitNotify
  <2>1. CASE svcLive
    BY <1>13, <2>1 DEF InitNotify, Acquire, TypeOK
  <2>2. CASE ~svcLive
    BY <1>13, <2>2 DEF InitNotify, Acquire, Owners, VmLabels, StartLabels, Life!Start, Life!Next
  <2> QED
    BY <2>1, <2>2
<1>14. CASE StartMain
  BY <1>14 DEF StartMain, Release
<1>15. CASE LoopTest
  BY <1>15 DEF LoopTest
<1>16. CASE ReadStopped
  BY <1>16 DEF ReadStopped
<1>17. CASE ReadData
  BY <1>17 DEF ReadData
<1>18. CASE ReadNothing
  BY <1>18 DEF ReadNothing
<1>19. CASE StartLine
  BY <1>19 DEF StartLine
<1>20. CASE ChunkEnded
  BY <1>20 DEF ChunkEnded
<1>21. CASE HookEnter
  BY <1>21 DEF HookEnter
<1>22. CASE HookStopped
  BY <1>22 DEF HookStopped, Raise
<1>23. CASE HookRunning
  BY <1>23 DEF HookRunning
<1>24. CASE BreakRaised
  BY <1>24 DEF BreakRaised, Raise
<1>25. CASE NoBreak
  BY <1>25 DEF NoBreak
<1>26. CASE HookDisarm
  BY <1>26 DEF HookDisarm
<1>27. CASE HoldTest
  BY <1>27 DEF HoldTest
<1>51. CASE HoldWakes
  BY <1>51 DEF HoldWakes
<1>52. CASE HoldEnd
  BY <1>52 DEF HoldEnd
<1>28. CASE DrainTake
  BY <1>28 DEF DrainTake
<1>29. CASE DrainDone
  BY <1>29 DEF DrainDone
<1>30. CASE EnterPcall
  BY <1>30 DEF EnterPcall
<1>31. CASE LeavePcall
  BY <1>31 DEF LeavePcall
<1>32. CASE FinishChunk
  BY <1>32 DEF FinishChunk
<1>53. CASE ResumeCo
  BY <1>53 DEF ResumeCo
<1>54. CASE YieldCo
  BY <1>54 DEF YieldCo
<1> QED
  BY <1>1, <1>2, <1>3, <1>4, <1>5, <1>6, <1>7, <1>8, <1>9, <1>10, <1>11, <1>12, <1>13,
     <1>14, <1>15, <1>16, <1>17, <1>18, <1>19, <1>20, <1>21, <1>22, <1>23, <1>24, <1>25,
     <1>26, <1>27, <1>51, <1>52, <1>28, <1>29, <1>30, <1>31, <1>32,
     <1>53, <1>54
     DEF FirmwareSteps, CleanupSteps, StartSteps, LoopSteps, HookSteps, ScriptSteps

\* An exit that aborted the REPL thread ends the VM in the same order.
LEMMA LifeCall ==
  ASSUME TypeOK, TypeOK', Owners, StartInv, StartInv', NEW t \in Callers, CallStep(t)
  PROVE  Quiet \/ Life!Next
<1> USE DEF Quiet, Down, Begin, At, Goto, Pass, replVars, vmVars, coVars, flagVars, evVars, envVars
<1>1. ASSUME NEW from, NEW to, Arm(t, from, to)
      PROVE  Quiet \/ Life!Next
  BY <1>1 DEF Arm
<1>2. ASSUME NEW from, NEW to, Stop(t, from, to)
      PROVE  Quiet \/ Life!Next
  BY <1>2 DEF Stop
<1>3. ASSUME NEW from, NEW to, Mark(t, from, to)
      PROVE  Quiet \/ Life!Next
  BY <1>3 DEF Mark
<1>4. ASSUME NEW from, NEW to, Lock(t, from, to)
      PROVE  Quiet \/ Life!Next
  BY <1>4 DEF Lock, Acquire
<1>5. ASSUME NEW from, NEW to, Unlock(t, from, to)
      PROVE  Quiet \/ Life!Next
  BY <1>5 DEF Unlock, Release
<1>6. ASSUME NEW from, NEW to, Woken(t, from, to)
      PROVE  Quiet \/ Life!Next
  BY <1>6 DEF Woken
<1>7. ASSUME NEW from, Refuse(t, from)
      PROVE  Quiet \/ Life!Next
  BY <1>7 DEF Refuse, Release
<1>8. ASSUME NEW o, NEW to, Sleep(t, o, to)
      PROVE  Quiet \/ Life!Next
  BY <1>8 DEF Sleep
<1>9. CASE Interrupt(t)
  BY <1>9 DEF Interrupt
<1>10. CASE Restart(t)
  BY <1>10 DEF Restart
<1>11. CASE Signal(t)
  BY <1>11 DEF Signal
<1>12. CASE SignalTest(t)
  BY <1>12 DEF SignalTest
<1>13. CASE StandbyTest(t)
  BY <1>13 DEF StandbyTest
<1>14. CASE StandbyRelease(t)
  BY <1>14 DEF StandbyRelease
<1>15. CASE DeepExit(t)
  BY <1>15 DEF DeepExit, Release
<1>16. CASE Exit(t)
  BY <1>16 DEF Exit
<1>17. CASE ExitReset(t)
  BY <1>17 DEF ExitReset, Waiting
<1>18. CASE ExitNoVm(t)
  BY <1>18 DEF ExitNoVm
<1>19. CASE ExitLeave(t)
  BY <1>19 DEF ExitLeave
<1>20. CASE ExitStop(t)
  BY <1>20 DEF ExitStop, Stop
<1>51. CASE ExitTake(t)
  BY <1>51 DEF ExitTake
<1>21. CASE ExitTimeout(t)
  BY <1>21 DEF ExitTimeout
<1>22. CASE ExitAbort(t)
  BY <1>22 DEF ExitAbort
<1>23. CASE ExitServed(t)
  <2>1. CASE svcLive
    BY <1>23, <2>1 DEF ExitServed, Release, Life!Stop, Life!Next
  <2>2. CASE ~svcLive
    BY <1>23, <2>2 DEF ExitServed, Release, TypeOK
  <2> QED
    BY <2>1, <2>2
<1>24. CASE ExitDetach(t)
  <2>1. CASE hasL
    <3>1. ~svcLive /\ open
      BY <1>24, <2>1 DEF ExitDetach, Owners
    <3> QED
      BY <1>24, <2>1, <3>1 DEF ExitDetach, Life!Detach, Life!Next
  <2>2. CASE ~hasL
    BY <1>24, <2>2 DEF ExitDetach, TypeOK
  <2> QED
    BY <2>1, <2>2
<1>25. CASE ExitClose(t)
  BY <1>25 DEF ExitClose, Owners, Life!Close, Life!Next
<1>26. CASE ExitClear(t)
  BY <1>26 DEF ExitClear
<1>27. CASE ExitDone(t)
  BY <1>27 DEF ExitDone
<1> QED
  BY <1>1, <1>2, <1>3, <1>4, <1>5, <1>6, <1>7, <1>8, <1>9, <1>10, <1>11, <1>12, <1>13,
     <1>14, <1>15, <1>16, <1>17, <1>18, <1>19, <1>20, <1>51, <1>21, <1>22, <1>23, <1>24, <1>25,
     <1>26, <1>27
     DEF CallStep, FlagSteps, ExitSteps, PmSteps, ExitMark

-------------------------------------------------------------------------------
\* The whole inductive invariant.
Inv == TypeOK /\ Owners /\ StartInv /\ ArmInv /\ ExitInv /\ FreshInv

\* It holds at the start.
LEMMA InvInit == Init => Inv
<1> SUFFICES ASSUME Init PROVE Inv
  OBVIOUS
<1>1. TypeOK /\ Owners
  BY TypeInit, OwnersInit
<1>2. StartInv /\ ArmInv /\ FreshInv
  BY DEF Init, StartInv, BeforeCreate, CleanLabels, ArmInv, ListenLabels, VmLabels, ChunkLabels,
         HookLabels, StartLabels, LoopLabels, FreshInv
<1>3. ExitInv
  BY RuntimeAssumption DEF Init, ExitInv, TearLabels, Callers
<1> QED
  BY <1>1, <1>2, <1>3 DEF Inv

\* Every step keeps it.
LEMMA InvNext == Inv /\ [Next]_vars => Inv'
<1> SUFFICES ASSUME Inv, [Next]_vars PROVE Inv'
  OBVIOUS
<1>1. TypeOK' /\ Owners'
  BY TypeNext, OwnersNext DEF Inv
<1>2. CASE FirmwareSteps \/ ScriptSteps
  BY <1>1, <1>2, StartRepl, ArmRepl, ExitRepl, FreshRepl DEF Inv
<1>3. CASE \E t \in Callers : CallStep(t)
  BY <1>1, <1>3, StartCall, ArmCall, ExitCall, FreshCall DEF Inv
<1>4. CASE Wake \/ UNCHANGED vars
  <2>1. UNCHANGED <<replVars, vmVars, flagVars, evVars, exitedSem, svcLive, callVars, fresh>>
    BY <1>4 DEF Wake, vars, envVars
  <2>2. StartInv' /\ ArmInv' /\ ExitInv' /\ FreshInv'
    BY <2>1
     DEF Inv, StartInv, BeforeCreate, ArmInv, ExitInv, FreshInv, replVars, vmVars, coVars, flagVars,
                evVars, callVars
  <2> QED
    BY <1>1, <2>2 DEF Inv
<1> QED
  BY <1>2, <1>3, <1>4 DEF Next

\* It holds in every state.
LEMMA InvAlways == Spec => []Inv
  BY InvInit, InvNext, PTL DEF Spec

\* A running chunk cannot sleep on an event: halo_lua_event_signal sets the bit before it
\* looks at running, and lua_hook_dispatch takes the hook down before it looks at the bits.
THEOREM EventsArm == Spec => []EventsArmTheHook
<1>1. Inv => EventsArmTheHook
  BY DEF Inv, ArmInv, EventsArmTheHook, ListenLabels, VmLabels, ChunkLabels
<1> QED
  BY <1>1, InvAlways, PTL

\* When halo_lua_runtime_exit has returned to a thread that waited there is no VM, and the
\* REPL thread will not make another: of any number of exits, restarts and timeouts.
THEOREM ExitLeavesNoVm == Spec => []ExitClosesVm
<1>1. Inv => ExitClosesVm
  BY DEF Inv, ExitInv, ExitClosesVm
<1> QED
  BY <1>1, InvAlways, PTL

\* lua_hook_dispatch raises a break only for a request made since the last command began.
THEOREM OneBreakPerRequest == Spec => BreakRaisedOnce
<1>1. Inv /\ [Next]_vars => [BreakRaised => fresh]_vars
  BY DEF Inv, FreshInv, BreakRaised
<1> QED
  BY <1>1, InvAlways, PTL DEF Spec, BreakRaisedOnce

\* The runtime implements VmLife: lua_repl_thread_fn, lua_vm_init, lua_vm_cleanup and
\* halo_lua_runtime_exit take every VM through one life, for any threads and timeouts.
THEOREM VmLivesOnce == Spec => VmLifeCycle
<1>1. Init => Life!Init
  BY Zenon DEF Init, Life!Init, Down
<1>2. Inv /\ Inv' /\ [Next]_vars => [Life!Next]_Life!vars
  <2> SUFFICES ASSUME Inv, Inv', [Next]_vars PROVE [Life!Next]_Life!vars
    OBVIOUS
  <2>1. CASE FirmwareSteps \/ ScriptSteps
    BY <2>1, LifeRepl, QuietLife DEF Inv
  <2>2. CASE \E t \in Callers : CallStep(t)
    BY <2>2, LifeCall, QuietLife DEF Inv
  <2>3. CASE Wake \/ UNCHANGED vars
    <3>1. Quiet
      BY <2>3 DEF Wake, vars, Quiet, Down, replVars, vmVars, coVars, flagVars, envVars
    <3> QED
      BY <3>1, QuietLife DEF Inv
  <2> QED
    BY <2>1, <2>2, <2>3 DEF Next
<1> QED
  BY <1>1, <1>2, InvAlways, PTL DEF Spec, VmLifeCycle, Life!Spec
===============================================================================
