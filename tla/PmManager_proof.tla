--------------------------- MODULE PmManager_proof ---------------------------
(***************************************************************************)
(* Proofs about PmManager: for any threads, priorities and callbacks,      *)
(* whatever chains overlap.                                                *)
(***************************************************************************)
EXTENDS PmManager, TLAPS

\* Where a thread is in the callback list, by what it does.
PositionOK ==
  \A t \in Threads :
    /\ idx[t] <= Len(Order) + 1
    /\ pc[t] \in {"quiet", "suspend", "inSuspend"} => idx[t] >= 1
    /\ pc[t] \in {"resume", "inSuspend", "inResume"} => idx[t] <= Len(Order)
    /\ pc[t] = "inResume" => idx[t] >= 1
    /\ pc[t] = "stamp" => idx[t] = Len(Order)

\* The type invariant, made inductive.
TypeInv == TypeOK /\ PositionOK

(***************************************************************************)
(* Type correctness.                                                       *)
(***************************************************************************)
\* The list of callbacks is a list of callbacks.
LEMMA OrderFacts ==
  /\ Len(Order) \in Nat
  /\ DOMAIN Order = 1..Len(Order)
  /\ \A i \in 1..Len(Order) : Order[i] \in Callbacks
  BY PmAssumption DEF PmAssumption

\* The initial state is well typed.
LEMMA TypeInit == Init => TypeInv
<1> SUFFICES ASSUME Init PROVE TypeInv
  OBVIOUS
<1>1. sleeping \in BOOLEAN
  BY Zenon DEF Init
<1>2. wakeupSource \in Sources /\ lastMode \in Modes \cup {"none"}
      /\ endedBy \in Sources \cup {"nothing", "failure"} /\ suspended \subseteq Callbacks
      /\ failed \subseteq Threads /\ wakeupSem \in {0, 1} /\ resumeSem \in {0, 1}
  BY DEF Init, Sources
<1>3. told \in [Callbacks -> Modes \cup {"up"}] /\ mode \in [Threads -> Modes]
      /\ idx \in [Threads -> Nat] /\ left \in [Threads -> Nat]
  BY PmAssumption DEF Init, Modes, PmAssumption
<1>4. pc \in [Threads -> Labels] /\ \A t \in Threads : pc[t] = "free" /\ idx[t] = 0
  BY DEF Init, Labels
<1>5. scene \in Scenarios
  BY DEF Init
<1> QED
  BY <1>1, <1>2, <1>3, <1>4, <1>5, OrderFacts DEF TypeInv, TypeOK, PositionOK

\* A call begins well typed.
LEMMA TypeCall ==
  ASSUME TypeInv, NEW t \in Threads, Call(t)
  PROVE  TypeInv'
<1> USE DEF TypeInv, TypeOK, PositionOK
<1>1. PICK o \in OpNames, l \in {"check", "dClaim", "wTry"} :
        Begin(t, o, l) /\ (o # "wakeup" => o \in Modes)
  BY DEF Call, SleepLight, SleepStandby, SleepDeep, Wakeup, OpNames, Modes
<1>2. UNCHANGED <<slotVars, semVars, wakeupSource, cbVars, idx, failed, scene>>
      /\ pc' = [pc EXCEPT ![t] = l] /\ left' = [left EXCEPT ![t] = @ - 1] /\ left[t] > 0
      /\ mode' = [mode EXCEPT ![t] = IF o = "wakeup" THEN @ ELSE o]
  BY <1>1, Zenon DEF Begin, Goto
<1>3. l \in Labels
  BY DEF Labels, EnterLabels, DeepLabels, WakeLabels
<1>4. pc' \in [Threads -> Labels] /\ mode' \in [Threads -> Modes] /\ left' \in [Threads -> Nat]
  BY <1>1, <1>2, <1>3
<1> QED
  BY <1>1, <1>2, <1>4 DEF slotVars, semVars, cbVars

\* Every other step preserves the types.
LEMMA TypeStep ==
  ASSUME TypeInv, NEW t \in Threads, ThreadStep(t) \/ TimedOut(t)
  PROVE  TypeInv'
<1> USE OrderFacts DEF TypeInv, TypeOK, PositionOK, At, Goto, slotVars, semVars, cbVars, ownVars,
                       callVars
<1>1. {"free", "check", "arm", "claim", "note", "quiet", "suspend", "inSuspend", "resume",
       "inResume", "abandon", "release", "park", "parked", "wake", "stamp", "give", "off", "dClaim", "dReset",
       "dWake", "dNote", "dGive", "dTake", "dWait", "dRetry", "wTry", "wNote", "wGive"}
        \subseteq Labels
  BY DEF Labels, EnterLabels, ChainLabels, SleepLabels, DeepLabels, WakeLabels
<1>2. CASE Check(t)
  BY <1>1, <1>2 DEF Check
<1>3. CASE Arm(t)
  BY <1>1, <1>3 DEF Arm, ResetOf, Sources
<1>4. CASE Claim(t)
  <2>1. sleeping' \in BOOLEAN
    BY <1>4, Zenon DEF Claim, Take
  <2> QED
    BY <1>1, <1>4, <2>1 DEF Claim, Take
<1>5. CASE Note(t)
  BY <1>1, <1>5 DEF Note, Modes
<1>6. CASE Quiet(t)
  BY <1>1, <1>6 DEF Quiet
<1>7. CASE SuspendSkip(t)
  BY <1>1, <1>7 DEF SuspendSkip, Next1
<1>8. CASE SuspendCall(t)
  BY <1>1, <1>8 DEF SuspendCall
<1>9. CASE SuspendDone(t)
  BY <1>1, <1>9 DEF SuspendDone, Next1
<1>10. CASE SuspendNotNeeded(t)
  BY <1>1, <1>10 DEF SuspendNotNeeded, Next1
<1>11. CASE SuspendRefused(t)
  BY <1>1, <1>11 DEF SuspendRefused
<1>12. CASE Suspended(t)
  BY <1>1, <1>12 DEF Suspended
<1>13. CASE Park(t)
  BY <1>1, <1>13 DEF Park
<1>14. CASE TimedOut(t)
  BY <1>1, <1>14 DEF TimedOut
<1>15. CASE Woken(t)
  <2>1. sleeping' \in BOOLEAN
    BY <1>15, Zenon DEF Woken, EndWait, End
  <2> QED
    BY <1>1, <1>15, <2>1 DEF Woken, EndWait, End, Sources
<1>16. CASE ResumeSkip(t)
  BY <1>1, <1>16 DEF ResumeSkip, Previous
<1>17. CASE ResumeCall(t)
  BY <1>1, <1>17 DEF ResumeCall
<1>18. CASE ResumeDone(t)
  BY <1>1, <1>18 DEF ResumeDone, Previous
<1>19. CASE Resumed(t)
  BY <1>1, <1>19 DEF Resumed
<1>20. CASE Abandon(t)
  BY <1>1, <1>20 DEF Abandon
<1>21. CASE GiveResumed(t)
  BY <1>1, <1>21 DEF GiveResumed, GiveTo, Pended
<1>22. CASE DeepClaim(t)
  <2>1. sleeping' \in BOOLEAN
    BY <1>22, Zenon DEF DeepClaim, Take
  <2> QED
    BY <1>1, <1>22, <2>1 DEF DeepClaim, Take
<1>23. CASE DeepReset(t)
  BY <1>1, <1>23 DEF DeepReset, ResetOf
<1>24. CASE DeepTake(t)
  BY <1>1, <1>24 DEF DeepTake
<1>25. CASE DeepTimeout(t)
  BY <1>1, <1>25 DEF DeepTimeout
<1>26. CASE DeepRetry(t)
  <2>1. sleeping' \in BOOLEAN
    BY <1>26, Zenon DEF DeepRetry, Take
  <2> QED
    BY <1>1, <1>26, <2>1 DEF DeepRetry, Take
<1>27. CASE WakeTry(t, "button", "dWake", "dNote", "dTake")
  <2>1. sleeping' \in BOOLEAN
    BY <1>27, Zenon DEF WakeTry, End, Sources
  <2> QED
    BY <1>1, <1>27, <2>1 DEF WakeTry, End, Sources
<1>28. CASE WakeTry(t, Source[t], "wTry", "wNote", "free")
  <2>1. sleeping' \in BOOLEAN
    BY <1>28, Zenon DEF WakeTry, End, Sources
  <2> QED
    BY <1>1, <1>28, <2>1 DEF WakeTry, End, Sources
<1>29. CASE WakeNote(t, "button", "dNote", "dGive")
  BY <1>1, <1>29 DEF WakeNote, Sources
<1>30. CASE WakeNote(t, Source[t], "wNote", "wGive")
  BY <1>1, <1>30 DEF WakeNote, Sources
<1>31. CASE WakeGive(t, "dGive", "dTake")
  BY <1>1, <1>31 DEF WakeGive, GiveTo, Pended
<1>32. CASE WakeGive(t, "wGive", "free")
  BY <1>1, <1>32 DEF WakeGive, GiveTo, Pended
<1>33. CASE Stamp(t)
  BY <1>1, <1>33 DEF Stamp, Sources
<1>34. CASE Release(t)
  <2>1. sleeping' \in BOOLEAN
    BY <1>34, Zenon DEF Release
  <2> QED
    BY <1>1, <1>34, <2>1 DEF Release
<1> QED
  BY <1>2, <1>3, <1>4, <1>5, <1>6, <1>7, <1>8, <1>9, <1>10, <1>11, <1>12, <1>13, <1>14,
     <1>15, <1>16, <1>17, <1>18, <1>19, <1>20, <1>21, <1>22, <1>23, <1>24, <1>25, <1>26,
     <1>27, <1>28, <1>29, <1>30, <1>31, <1>32, <1>33, <1>34
     DEF ThreadStep, EntrySteps, SuspendSteps, ResumeSteps, DeepSteps, WakeSteps

(***************************************************************************)
(* No suspended flag is left behind.                                       *)
(***************************************************************************)
\* Thread t is in a sleep whose resume chain is yet to begin, or has yet to reach c.
WillResume(t, c) ==
  \/ pc[t] \in {"suspend", "inSuspend", "park", "parked", "wake", "stamp", "off"}
  \/ /\ pc[t] \in {"resume", "inResume"}
     /\ \E i \in 1..idx[t] : Order[i] = c

\* Every callback marked suspended has a thread that will resume it.
Covered == \A c \in suspended : \E t \in Threads : WillResume(t, c)

\* The whole inductive invariant.
Inv == TypeInv /\ Covered

\* Somebody resumes every marked callback, so with nobody asleep there is none.
LEMMA CoveredImplies == TypeInv /\ Covered => NoFlagLeft
<1> SUFFICES ASSUME TypeInv, Covered, NobodySleeps, NEW c \in suspended PROVE FALSE
  BY DEF NoFlagLeft
<1>1. PICK t \in Threads : WillResume(t, c)
  BY DEF Covered
<1>2. pc[t] \notin ChainLabels \cup SleepLabels
  BY DEF NobodySleeps
<1> QED
  BY <1>1, <1>2 DEF WillResume, ChainLabels, SleepLabels

\* A step that marks nothing and moves nobody out of a sleep keeps the cover.
LEMMA CoverKept ==
  ASSUME Covered, suspended' \subseteq suspended,
         \A u \in Threads, c \in suspended' : WillResume(u, c) => WillResume(u, c)'
  PROVE  Covered'
  BY DEF Covered

\* A call touches no flag and moves only threads that are not asleep.
LEMMA CoverCall ==
  ASSUME Inv, NEW t \in Threads, Call(t)
  PROVE  Covered'
<1>1. PICK o \in OpNames, l \in {"check", "dClaim", "wTry"} : Begin(t, o, l)
  BY DEF Call, SleepLight, SleepStandby, SleepDeep, Wakeup, OpNames, Modes
<1>2. pc[t] = "free" /\ pc' = [pc EXCEPT ![t] = l] /\ idx' = idx /\ suspended' = suspended
  BY <1>1 DEF Begin, At, Goto, cbVars
<1>3. \A u \in Threads, c \in suspended' : WillResume(u, c) => WillResume(u, c)'
  BY <1>2 DEF WillResume, Inv, TypeInv, TypeOK
<1> QED
  BY <1>2, <1>3, CoverKept DEF Inv

\* Every other step keeps a resumer for every marked callback.
LEMMA CoverStep ==
  ASSUME Inv, NEW t \in Threads, ThreadStep(t) \/ TimedOut(t)
  PROVE  Covered'
<1> DEFINE Kept == \A u \in Threads, c \in suspended' : WillResume(u, c) => WillResume(u, c)'
<1> USE OrderFacts DEF Inv, TypeInv, TypeOK, PositionOK, WillResume, At, Goto, cbVars, ownVars,
                       callVars
<1>1. \A c \in Callbacks : \E i \in 1..Len(Order) : Order[i] = c
  BY PmAssumption DEF PmAssumption
<1>2. CASE Check(t)
  <2>1. suspended' \subseteq suspended
    BY <1>2 DEF Check
  <2>2. Kept
    BY <1>1, <1>2 DEF Check
  <2> QED
    BY <2>1, <2>2, CoverKept
<1>3. CASE Arm(t)
  <2>1. suspended' \subseteq suspended
    BY <1>3 DEF Arm
  <2>2. Kept
    BY <1>1, <1>3 DEF Arm, ResetOf
  <2> QED
    BY <2>1, <2>2, CoverKept
<1>4. CASE Claim(t)
  <2>1. suspended' \subseteq suspended
    BY <1>4 DEF Claim
  <2>2. Kept
    BY <1>1, <1>4 DEF Claim, Take
  <2> QED
    BY <2>1, <2>2, CoverKept
<1>5. CASE Note(t)
  <2>1. suspended' \subseteq suspended
    BY <1>5 DEF Note
  <2>2. Kept
    BY <1>1, <1>5 DEF Note
  <2> QED
    BY <2>1, <2>2, CoverKept
<1>6. CASE Quiet(t)
  <2>1. suspended' \subseteq suspended
    BY <1>6 DEF Quiet
  <2>2. Kept
    BY <1>1, <1>6 DEF Quiet
  <2> QED
    BY <2>1, <2>2, CoverKept
<1>7. CASE SuspendSkip(t)
  <2>1. suspended' \subseteq suspended
    BY <1>7 DEF SuspendSkip
  <2>2. Kept
    BY <1>1, <1>7 DEF SuspendSkip, Next1
  <2> QED
    BY <2>1, <2>2, CoverKept
<1>8. CASE SuspendCall(t)
  <2>1. suspended' \subseteq suspended
    BY <1>8 DEF SuspendCall
  <2>2. Kept
    BY <1>1, <1>8 DEF SuspendCall
  <2> QED
    BY <2>1, <2>2, CoverKept
<1>9. CASE SuspendDone(t)
  <2>1. Order[idx[t]] \in Callbacks /\ \A c \in Callbacks : WillResume(t, c)'
    BY <1>9 DEF SuspendDone, Next1
  <2>2. \A u \in Threads, c \in suspended : WillResume(u, c) => WillResume(u, c)'
    BY <1>9 DEF SuspendDone, Next1
  <2>3. suspended' = suspended \cup {Order[idx[t]]}
    BY <1>9 DEF SuspendDone
  <2> HIDE DEF WillResume
  <2> QED
    BY <2>1, <2>2, <2>3 DEF Covered
<1>10. CASE SuspendNotNeeded(t)
  <2>1. suspended' \subseteq suspended
    BY <1>10 DEF SuspendNotNeeded
  <2>2. Kept
    BY <1>1, <1>10 DEF SuspendNotNeeded, Next1
  <2> QED
    BY <2>1, <2>2, CoverKept
<1>11. CASE SuspendRefused(t)
  <2>1. suspended' \subseteq suspended
    BY <1>11 DEF SuspendRefused
  <2>2. Kept
    BY <1>1, <1>11 DEF SuspendRefused
  <2> QED
    BY <2>1, <2>2, CoverKept
<1>12. CASE Suspended(t)
  <2>1. suspended' \subseteq suspended
    BY <1>12 DEF Suspended
  <2>2. Kept
    BY <1>1, <1>12 DEF Suspended
  <2> QED
    BY <2>1, <2>2, CoverKept
<1>13. CASE Park(t)
  <2>1. suspended' \subseteq suspended
    BY <1>13 DEF Park
  <2>2. Kept
    BY <1>1, <1>13 DEF Park
  <2> QED
    BY <2>1, <2>2, CoverKept
<1>14. CASE TimedOut(t)
  <2>1. suspended' \subseteq suspended
    BY <1>14 DEF TimedOut
  <2>2. Kept
    BY <1>1, <1>14 DEF TimedOut
  <2> QED
    BY <2>1, <2>2, CoverKept
<1>15. CASE Woken(t)
  <2>1. suspended' \subseteq suspended
    BY <1>15 DEF Woken, EndWait
  <2>2. Kept
    BY <1>1, <1>15 DEF Woken, EndWait, End
  <2> QED
    BY <2>1, <2>2, CoverKept
<1>16. CASE ResumeSkip(t)
  <2>1. suspended' \subseteq suspended
    BY <1>16 DEF ResumeSkip
  <2>2. Kept
    BY <1>1, <1>16 DEF ResumeSkip, Previous
  <2> QED
    BY <2>1, <2>2, CoverKept
<1>17. CASE ResumeCall(t)
  <2>1. suspended' \subseteq suspended
    BY <1>17 DEF ResumeCall
  <2>2. Kept
    BY <1>1, <1>17 DEF ResumeCall
  <2> QED
    BY <2>1, <2>2, CoverKept
<1>18. CASE ResumeDone(t)
  <2>1. suspended' \subseteq suspended
    BY <1>18 DEF ResumeDone
  <2>2. Kept
    BY <1>1, <1>18 DEF ResumeDone, Previous
  <2> QED
    BY <2>1, <2>2, CoverKept
<1>19. CASE Resumed(t)
  <2>1. suspended' \subseteq suspended
    BY <1>19 DEF Resumed
  <2>2. Kept
    BY <1>1, <1>19 DEF Resumed
  <2> QED
    BY <2>1, <2>2, CoverKept
<1>20. CASE Abandon(t)
  <2>1. suspended' \subseteq suspended
    BY <1>20 DEF Abandon
  <2>2. Kept
    BY <1>1, <1>20 DEF Abandon
  <2> QED
    BY <2>1, <2>2, CoverKept
<1>21. CASE GiveResumed(t)
  <2>1. suspended' \subseteq suspended
    BY <1>21 DEF GiveResumed
  <2>2. Kept
    BY <1>1, <1>21 DEF GiveResumed, GiveTo, Pended
  <2> QED
    BY <2>1, <2>2, CoverKept
<1>22. CASE DeepClaim(t)
  <2>1. suspended' \subseteq suspended
    BY <1>22 DEF DeepClaim
  <2>2. Kept
    BY <1>1, <1>22 DEF DeepClaim, Take
  <2> QED
    BY <2>1, <2>2, CoverKept
<1>23. CASE DeepReset(t)
  <2>1. suspended' \subseteq suspended
    BY <1>23 DEF DeepReset
  <2>2. Kept
    BY <1>1, <1>23 DEF DeepReset, ResetOf
  <2> QED
    BY <2>1, <2>2, CoverKept
<1>24. CASE DeepTake(t)
  <2>1. suspended' \subseteq suspended
    BY <1>24 DEF DeepTake
  <2>2. Kept
    BY <1>1, <1>24 DEF DeepTake
  <2> QED
    BY <2>1, <2>2, CoverKept
<1>25. CASE DeepTimeout(t)
  <2>1. suspended' \subseteq suspended
    BY <1>25 DEF DeepTimeout
  <2>2. Kept
    BY <1>1, <1>25 DEF DeepTimeout
  <2> QED
    BY <2>1, <2>2, CoverKept
<1>26. CASE DeepRetry(t)
  <2>1. suspended' \subseteq suspended
    BY <1>26 DEF DeepRetry
  <2>2. Kept
    BY <1>1, <1>26 DEF DeepRetry, Take
  <2> QED
    BY <2>1, <2>2, CoverKept
<1>27. CASE WakeTry(t, "button", "dWake", "dNote", "dTake")
  <2>1. suspended' \subseteq suspended
    BY <1>27 DEF WakeTry
  <2>2. Kept
    BY <1>1, <1>27 DEF WakeTry, End
  <2> QED
    BY <2>1, <2>2, CoverKept
<1>28. CASE WakeTry(t, Source[t], "wTry", "wNote", "free")
  <2>1. suspended' \subseteq suspended
    BY <1>28 DEF WakeTry
  <2>2. Kept
    BY <1>1, <1>28 DEF WakeTry, End
  <2> QED
    BY <2>1, <2>2, CoverKept
<1>29. CASE WakeNote(t, "button", "dNote", "dGive")
  <2>1. suspended' \subseteq suspended
    BY <1>29 DEF WakeNote
  <2>2. Kept
    BY <1>1, <1>29 DEF WakeNote
  <2> QED
    BY <2>1, <2>2, CoverKept
<1>30. CASE WakeNote(t, Source[t], "wNote", "wGive")
  <2>1. suspended' \subseteq suspended
    BY <1>30 DEF WakeNote
  <2>2. Kept
    BY <1>1, <1>30 DEF WakeNote
  <2> QED
    BY <2>1, <2>2, CoverKept
<1>31. CASE WakeGive(t, "dGive", "dTake")
  <2>1. suspended' \subseteq suspended
    BY <1>31 DEF WakeGive
  <2>2. Kept
    BY <1>1, <1>31 DEF WakeGive, GiveTo, Pended
  <2> QED
    BY <2>1, <2>2, CoverKept
<1>32. CASE WakeGive(t, "wGive", "free")
  <2>1. suspended' \subseteq suspended
    BY <1>32 DEF WakeGive
  <2>2. Kept
    BY <1>1, <1>32 DEF WakeGive, GiveTo, Pended
  <2> QED
    BY <2>1, <2>2, CoverKept
<1>33. CASE Stamp(t)
  <2>1. suspended' \subseteq suspended
    BY <1>33 DEF Stamp
  <2>2. Kept
    BY <1>1, <1>33 DEF Stamp
  <2> QED
    BY <2>1, <2>2, CoverKept
<1>34. CASE Release(t)
  <2>1. suspended' \subseteq suspended
    BY <1>34 DEF Release
  <2>2. Kept
    BY <1>1, <1>34 DEF Release
  <2> QED
    BY <2>1, <2>2, CoverKept
<1> QED
  BY <1>2, <1>3, <1>4, <1>5, <1>6, <1>7, <1>8, <1>9, <1>10, <1>11, <1>12, <1>13, <1>14,
     <1>15, <1>16, <1>17, <1>18, <1>19, <1>20, <1>21, <1>22, <1>23, <1>24, <1>25, <1>26,
     <1>27, <1>28, <1>29, <1>30, <1>31, <1>32, <1>33, <1>34
     DEF ThreadStep, EntrySteps, SuspendSteps, ResumeSteps, DeepSteps, WakeSteps

(***************************************************************************)
(* Theorems.                                                               *)
(***************************************************************************)
\* The invariant holds in every state.
LEMMA Invariance == Spec => []Inv
<1>1. Init => Inv
  BY TypeInit DEF Inv, Covered, Init
<1>2. Inv /\ [Next]_vars => Inv'
  <2> SUFFICES ASSUME Inv, [Next]_vars PROVE Inv'
    OBVIOUS
  <2>1. CASE \E t \in Threads : Call(t)
    BY <2>1, TypeCall, CoverCall DEF Inv
  <2>2. CASE \E t \in Threads : ThreadStep(t) \/ TimedOut(t)
    BY <2>2, TypeStep, CoverStep DEF Inv
  <2>3. CASE UNCHANGED vars
    BY <2>3 DEF Inv, TypeInv, TypeOK, PositionOK, Covered, WillResume, vars, slotVars, semVars,
                cbVars, ownVars, callVars
  <2> QED
    BY <2>1, <2>2, <2>3 DEF Next
<1> QED
  BY <1>1, <1>2, PTL DEF Spec

\* Every variable keeps the values its C counterpart can have: the semaphores their limit,
\* a running callback its place on the list.
THEOREM TypeCorrect == Spec => []TypeOK
<1>1. Inv => TypeOK
  BY DEF Inv, TypeInv
<1> QED
  BY <1>1, Invariance, PTL

\* pm_notify_suspend and pm_notify_resume leave no suspended flag set once nobody sleeps,
\* however sleeps, wakeups and takeovers of any threads interleave and chains overlap.
THEOREM FlagsCleared == Spec => []NoFlagLeft
<1>1. Inv => NoFlagLeft
  BY CoveredImplies DEF Inv
<1> QED
  BY <1>1, Invariance, PTL

==============================================================================
