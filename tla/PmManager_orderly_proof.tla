------------------------ MODULE PmManager_orderly_proof ------------------------
(***************************************************************************)
(* Proofs about PmManager where sleeps do not overlap: for any threads,    *)
(* callbacks and priorities, and any number of calls in a scenario that is *)
(* Orderly.                                                                *)
(***************************************************************************)
EXTENDS PmManager_proof, CallbackList_proof

Asleep == ChainLabels \cup SleepLabels

\* "Sleep entry is serialized by the is_sleeping atomic" (pm_notify_suspend): from the slot
\* taken to the slot given back, one thread at a time.
OneSleep == \A t, u \in Threads : pc[t] \in Asleep /\ pc[u] \in Asleep => t = u

(***************************************************************************)
(* What the steps of a thread change.                                      *)
(***************************************************************************)
\* A step between the two ends of a chain: it touches neither slot nor semaphores.
ChainMove(t) ==
  /\ UNCHANGED <<sleeping, endedBy, semVars, wakeupSource, mode>>
  /\ \A v \in Threads \ {t} : pc'[v] = pc[v] /\ (v \in failed' <=> v \in failed)
  /\ \/ pc[t] = "note" /\ pc'[t] = IF mode[t] = "deep" THEN "quiet" ELSE "suspend"
     \/ pc[t] = "quiet" /\ pc'[t] = "suspend"
     \/ pc[t] = "suspend" /\ pc'[t] \in {"suspend", "inSuspend"}
     \/ pc[t] = "suspend" /\ pc'[t] = IF mode[t] = "deep" THEN "off" ELSE "park"
     \/ pc[t] = "inSuspend" /\ pc'[t] = "suspend"
     \/ pc[t] = "inSuspend" /\ pc'[t] = "resume" /\ t \in failed'
     \/ /\ pc[t] \in {"resume", "inResume"} /\ pc'[t] \in {"resume", "inResume"}
        /\ t \in failed' <=> t \in failed
     \/ /\ pc[t] = "resume" /\ pc'[t] = IF t \in failed THEN "abandon" ELSE "give"
        /\ t \in failed' <=> t \in failed

ChainStep(t) ==
  \/ Note(t) \/ Quiet(t) \/ SuspendSteps(t)
  \/ ResumeSkip(t) \/ ResumeCall(t) \/ ResumeDone(t) \/ Resumed(t)

\* The steps of both chains are such.
LEMMA ChainMoves ==
  ASSUME TypeOK, NEW t \in Threads, ChainStep(t)
  PROVE  ChainMove(t) /\ Turn(t) /\ UNCHANGED callVars
<1> USE DEF TypeOK, At, Goto, slotVars, cbVars, ownVars, ChainMove
<1>1. CASE Note(t)
  BY <1>1 DEF Note
<1>2. CASE Quiet(t)
  BY <1>2 DEF Quiet
<1>3. CASE SuspendSkip(t)
  BY <1>3 DEF SuspendSkip
<1>4. CASE SuspendCall(t)
  BY <1>4 DEF SuspendCall
<1>5. CASE SuspendDone(t)
  BY <1>5 DEF SuspendDone
<1>6. CASE SuspendNotNeeded(t)
  BY <1>6 DEF SuspendNotNeeded
<1>7. CASE SuspendRefused(t)
  BY <1>7 DEF SuspendRefused
<1>8. CASE Suspended(t)
  BY <1>8 DEF Suspended
<1>9. CASE ResumeSkip(t)
  BY <1>9 DEF ResumeSkip
<1>10. CASE ResumeCall(t)
  BY <1>10 DEF ResumeCall
<1>11. CASE ResumeDone(t)
  BY <1>11 DEF ResumeDone
<1>12. CASE Resumed(t)
  BY <1>12 DEF Resumed
<1> QED
  BY <1>1, <1>2, <1>3, <1>4, <1>5, <1>6, <1>7, <1>8, <1>9, <1>10, <1>11, <1>12
     DEF ChainStep, SuspendSteps

\* The steps around the wait, and of a sleep given up.
WaitStep(t) ==
  \/ Park(t) \/ TimedOut(t) \/ Woken(t) \/ Stamp(t) \/ GiveResumed(t)
  \/ Abandon(t) \/ Release(t)

WaitLabels == {"park", "parked", "wake", "stamp", "give", "abandon", "release"}

\* The steps of a thread by where it is: entering a sleep, in a chain, waiting in the sleep,
\* powering off, waking somebody.
LEMMA StepKinds ==
  ASSUME NEW t \in Threads, ThreadStep(t) \/ TimedOut(t)
  PROVE  \/ (Check(t) \/ Arm(t) \/ Claim(t)) /\ pc[t] \in EnterLabels
         \/ ChainStep(t)
         \/ WaitStep(t) /\ pc[t] \in WaitLabels
         \/ DeepSteps(t) /\ pc[t] \in DeepLabels
         \/ WakeSteps(t) /\ pc[t] \in WakeLabels
<1>1. EntrySteps(t) => \/ (Check(t) \/ Arm(t) \/ Claim(t)) /\ pc[t] \in EnterLabels
                       \/ ChainStep(t)
  BY DEF EntrySteps, Check, Arm, Claim, At, EnterLabels, ChainStep
<1>2. SuspendSteps(t) => ChainStep(t)
  BY DEF ChainStep
<1>3. WaitStep(t) => pc[t] \in WaitLabels
  BY DEF WaitStep, WaitLabels, Park, TimedOut, Woken, EndWait, Stamp, GiveResumed, Abandon,
         Release, At
<1>4. Park(t) \/ TimedOut(t) \/ ResumeSteps(t) => WaitStep(t) \/ ChainStep(t)
  BY DEF ResumeSteps, WaitStep, ChainStep
<1>5. DeepSteps(t) => pc[t] \in DeepLabels
  BY DEF DeepSteps, DeepClaim, DeepReset, WakeTry, WakeNote, WakeGive, DeepTake, DeepTimeout,
         DeepRetry, At, DeepLabels
<1>6. WakeSteps(t) => pc[t] \in WakeLabels
  BY DEF WakeSteps, WakeTry, WakeNote, WakeGive, At, WakeLabels
<1> QED
  BY <1>1, <1>2, <1>3, <1>4, <1>5, <1>6 DEF ThreadStep

(***************************************************************************)
(* What each component has been told, while sleeps do not overlap.         *)
(***************************************************************************)
\* A component prepared for a sleep is marked, or its callback still runs.
ToldOrMarked ==
  \A c \in Callbacks :
    told[c] # "up" =>
      c \in suspended \/ \E t \in Threads : pc[t] = "inSuspend" /\ Order[idx[t]] = c

\* How far the suspend chain of t has come: it found nobody marked, last_mode says what it
\* is for, and everybody above the callback at hand was told or sits this sleep out.
ToldOf(t) ==
  /\ pc[t] = "quiet" => idx[t] = 1
  /\ pc[t] \in {"quiet", "suspend", "inSuspend"} => lastMode = mode[t]
  /\ pc[t] \in {"suspend", "inSuspend"} =>
       /\ \A i \in DOMAIN Order :
            i < idx[t] => told[Order[i]] = mode[t] \/ mode[t] \in Skips[Order[i]]
       /\ \A c \in suspended : told[c] = mode[t]
  /\ pc[t] = "inSuspend" => told[Order[idx[t]]] = mode[t]
  /\ pc[t] = "inResume" => told[Order[idx[t]]] = "up"
  /\ pc[t] = "off" => \A c \in Callbacks : told[c] = "deep"

ToldInv == ToldOrMarked /\ \A t \in Threads : ToldOf(t)

\* Whoever is not asleep leaves components, flags and last_mode alone.
LEMMA AwakeAside ==
  ASSUME TypeOK, NEW t \in Threads, pc[t] \notin Asleep, Call(t) \/ ThreadStep(t) \/ TimedOut(t)
  PROVE  /\ UNCHANGED <<suspended, told, lastMode, idx>>
         /\ pc'[t] \notin Asleep \ {"note"}
         /\ \A u \in Threads \ {t} :
              /\ mode'[u] = mode[u]
              /\ \/ pc'[u] = pc[u]
                 \/ pc[u] = "parked" /\ pc'[u] = "wake"
                 \/ pc[u] = "dWait" /\ pc'[u] = "dRetry"
<1> USE DEF At, Goto, slotVars, cbVars, ownVars, TypeOK, Asleep, ChainLabels, SleepLabels
<1>1. CASE Call(t)
  <2>1. PICK o \in OpNames, l \in {"check", "dClaim", "wTry"} : Begin(t, o, l)
    BY <1>1 DEF Call, SleepLight, SleepStandby, SleepDeep, Wakeup, OpNames, Modes
  <2>2. /\ UNCHANGED <<suspended, told, lastMode, idx>> /\ pc' = [pc EXCEPT ![t] = l]
        /\ mode' = [mode EXCEPT ![t] = IF o = "wakeup" THEN @ ELSE o]
    BY <2>1, Zenon DEF Begin
  <2> QED
    BY <2>2
<1>2. CASE ThreadStep(t) \/ TimedOut(t)
  <2>1. \/ Check(t) \/ Arm(t) \/ Claim(t)
        \/ DeepSteps(t)
        \/ WakeSteps(t)
    <3>1. ChainStep(t) => pc[t] \in Asleep
      BY ChainMoves DEF ChainMove
    <3> QED
      BY <1>2, <3>1, StepKinds DEF WaitLabels
  <2>2. CASE Check(t)
    BY <2>2 DEF Check
  <2>3. CASE Arm(t)
    BY <2>3 DEF Arm, ResetOf
  <2>4. CASE Claim(t)
    BY <2>4 DEF Claim, Take
  <2>5. CASE DeepClaim(t) \/ DeepRetry(t)
    BY <2>5 DEF DeepClaim, DeepRetry, Take
  <2>6. CASE DeepReset(t)
    BY <2>6 DEF DeepReset, ResetOf
  <2>7. CASE DeepTake(t) \/ DeepTimeout(t)
    BY <2>7 DEF DeepTake, DeepTimeout
  <2>8. CASE WakeTry(t, "button", "dWake", "dNote", "dTake") \/ WakeTry(t, Source[t], "wTry", "wNote", "free")
    BY <2>8 DEF WakeTry, End
  <2>9. CASE WakeNote(t, "button", "dNote", "dGive") \/ WakeNote(t, Source[t], "wNote", "wGive")
    BY <2>9 DEF WakeNote
  <2>10. CASE WakeGive(t, "dGive", "dTake") \/ WakeGive(t, "wGive", "free")
    BY <2>10 DEF WakeGive, GiveTo, Pended
  <2> QED
    BY <2>1, <2>2, <2>3, <2>4, <2>5, <2>6, <2>7, <2>8, <2>9, <2>10 DEF DeepSteps, WakeSteps
<1> QED
  BY <1>1, <1>2

\* Whoever is asleep moves nobody else, but for a power-off that waits for it.
LEMMA AsleepAside ==
  ASSUME TypeOK, NEW t \in Threads, pc[t] \in Asleep, Call(t) \/ ThreadStep(t) \/ TimedOut(t)
  PROVE  /\ ThreadStep(t) \/ TimedOut(t)
         /\ UNCHANGED mode
         /\ \A u \in Threads \ {t} : \/ pc'[u] = pc[u]
                                     \/ pc[u] = "dWait" /\ pc'[u] = "dRetry"
<1> USE DEF At, Goto, slotVars, cbVars, ownVars, TypeOK
<1>1. ~Call(t)
  BY DEF Call, SleepLight, SleepStandby, SleepDeep, Wakeup, Begin, Asleep, ChainLabels, SleepLabels
<1>2. ChainStep(t) \/ WaitStep(t)
  BY <1>1, StepKinds
     DEF Asleep, ChainLabels, SleepLabels, EnterLabels, DeepLabels, WakeLabels
<1>3. CASE ChainStep(t)
  BY <1>1, <1>3, ChainMoves DEF ChainMove
<1>4. CASE Park(t) \/ TimedOut(t) \/ Woken(t) \/ Stamp(t) \/ Abandon(t) \/ Release(t)
  BY <1>1, <1>4 DEF Park, TimedOut, Woken, EndWait, Stamp, Abandon, Release
<1>5. CASE GiveResumed(t)
  BY <1>1, <1>5 DEF GiveResumed, GiveTo, Pended
<1> QED
  BY <1>2, <1>3, <1>4, <1>5 DEF WaitStep

\* At its start a sleep finds no component marked: nobody else is there to resume it.
LEMMA NobodyMarked ==
  ASSUME Inv, OneSleep, NEW t \in Threads, pc[t] \in {"note", "quiet"}
  PROVE  suspended = {}
<1> SUFFICES ASSUME NEW c \in suspended PROVE FALSE
  OBVIOUS
<1>1. PICK u \in Threads : WillResume(u, c)
  BY DEF Inv, Covered
<1>2. pc[u] \in Asleep /\ pc[t] \in Asleep
  BY <1>1 DEF WillResume, Asleep, ChainLabels, SleepLabels
<1>3. u = t
  BY <1>2 DEF OneSleep
<1> QED
  BY <1>1, <1>3 DEF WillResume

\* Every step keeps it, if no other sleep is under way.
LEMMA ToldStep ==
  ASSUME Inv, OneSleep, ToldInv, NEW t \in Threads, Call(t) \/ ThreadStep(t) \/ TimedOut(t)
  PROVE  ToldInv'
<1> USE OrderFacts DEF At, Goto, slotVars, cbVars, ownVars
<1>0. TypeOK /\ PositionOK
  BY DEF Inv, TypeInv
<1>1. CASE pc[t] \notin Asleep
  <2>1. /\ UNCHANGED <<suspended, told, lastMode, idx>>
        /\ pc'[t] \notin Asleep \ {"note"}
        /\ \A u \in Threads \ {t} :
             /\ mode'[u] = mode[u]
             /\ \/ pc'[u] = pc[u]
                \/ pc[u] = "parked" /\ pc'[u] = "wake"
                \/ pc[u] = "dWait" /\ pc'[u] = "dRetry"
    BY <1>0, <1>1, AwakeAside
  <2>2. ToldOf(t)'
    BY <2>1 DEF ToldOf, Asleep, ChainLabels, SleepLabels
  <2>3. \A u \in Threads \ {t} : ToldOf(u)'
    BY <2>1 DEF ToldInv, ToldOf
  <2>4. \A u \in Threads : pc[u] = "inSuspend" => pc'[u] = "inSuspend"
    BY <1>1, <2>1 DEF Asleep, ChainLabels
  <2>5. ToldOrMarked'
    BY <2>1, <2>4 DEF ToldInv, ToldOrMarked
  <2> QED
    BY <2>2, <2>3, <2>5 DEF ToldInv
<1>2. CASE pc[t] \in Asleep
  <2>1. /\ ThreadStep(t) \/ TimedOut(t)
        /\ UNCHANGED mode
        /\ \A u \in Threads \ {t} : pc'[u] = pc[u] \/ (pc[u] = "dWait" /\ pc'[u] = "dRetry")
    BY <1>0, <1>2, AsleepAside
  <2>2. \A u \in Threads \ {t} : pc[u] \notin Asleep /\ pc'[u] \notin Asleep
    <3>1. \A u \in Threads \ {t} : pc[u] \notin Asleep
      BY <1>2 DEF OneSleep
    <3>2. "dRetry" \notin Asleep
      BY DEF Asleep, ChainLabels, SleepLabels
    <3> QED
      BY <2>1, <3>1, <3>2
  <2>3. \A u \in Threads \ {t} : ToldOf(u)'
    BY <2>2 DEF ToldOf, Asleep, ChainLabels, SleepLabels
  <2>4. \A u \in Threads : pc[u] = "inSuspend" => u = t
    BY <2>2 DEF Asleep, ChainLabels
  <2>5. /\ \A c \in Callbacks : told[c] # "up" =>
             c \in suspended \/ (pc[t] = "inSuspend" /\ Order[idx[t]] = c)
        /\ ToldOf(t)
    BY <2>4 DEF ToldInv, ToldOrMarked
  <2>6. ASSUME /\ \A c \in Callbacks : told'[c] # "up" =>
                    c \in suspended' \/ (pc'[t] = "inSuspend" /\ Order[idx'[t]] = c)
               /\ ToldOf(t)'
        PROVE  ToldInv'
    BY <2>3, <2>6 DEF ToldInv, ToldOrMarked
  <2>7. ASSUME UNCHANGED <<suspended, told, lastMode, idx>>, pc[t] # "inSuspend",
               pc'[t] \notin {"quiet", "suspend", "inSuspend", "inResume", "off"}
        PROVE  ToldInv'
    <3>1. ToldOf(t)'
      BY <2>7 DEF ToldOf
    <3> QED
      BY <2>5, <2>6, <2>7, <3>1
  <2> USE <1>0, <2>1, <2>5 DEF TypeOK, PositionOK, ToldOf
  <2>8. CASE Note(t)
    <3>1. pc[t] = "note" /\ suspended = {} /\ suspended' = {} /\ told' = told
          /\ lastMode' = mode[t] /\ mode'[t] = mode[t] /\ idx'[t] = 1
          /\ pc'[t] \in {"quiet", "suspend"}
      BY <2>8, NobodyMarked DEF Note
    <3> QED
      BY <2>6, <3>1
  <2>9. CASE Quiet(t)
    <3>1. pc[t] = "quiet" /\ suspended = {} /\ UNCHANGED <<suspended, told, lastMode, idx>>
          /\ mode'[t] = mode[t] /\ pc'[t] = "suspend"
      BY <2>9, NobodyMarked DEF Quiet
    <3> QED
      BY <2>6, <3>1
  <2>10. CASE SuspendSkip(t)
    <3>1. /\ pc[t] = "suspend" /\ Order[idx[t]] \in suspended /\ pc'[t] = "suspend"
          /\ idx'[t] = idx[t] + 1 /\ UNCHANGED <<suspended, told, lastMode>>
      BY <2>10 DEF SuspendSkip, Next1
    <3>2. told[Order[idx[t]]] = mode[t]
      BY <3>1
    <3>3. \A i \in DOMAIN Order : i < idx[t] + 1 => i < idx[t] \/ i = idx[t]
      OBVIOUS
    <3>4. \A i \in DOMAIN Order :
            i < idx'[t] => told'[Order[i]] = mode'[t] \/ mode'[t] \in Skips[Order[i]]
      BY <3>1, <3>2, <3>3
    <3>5. ToldOf(t)'
      BY <3>1, <3>4
    <3> QED
      BY <2>6, <3>1, <3>5
  <2>11. CASE SuspendCall(t)
    <3>1. /\ pc[t] = "suspend" /\ pc'[t] = "inSuspend" /\ UNCHANGED <<suspended, lastMode, idx>>
          /\ idx[t] \in DOMAIN Order /\ Order[idx[t]] \in Callbacks
          /\ told' = [told EXCEPT ![Order[idx[t]]] = mode[t]]
      BY <2>11 DEF SuspendCall
    <3>2. \A c \in Callbacks : told'[c] = IF c = Order[idx[t]] THEN mode[t] ELSE told[c]
      BY <3>1
    <3>3. \A i \in DOMAIN Order :
            i < idx'[t] => told'[Order[i]] = mode'[t] \/ mode'[t] \in Skips[Order[i]]
      BY <3>1, <3>2
    <3>4. ToldOf(t)'
      BY <3>1, <3>2, <3>3
    <3> QED
      BY <2>6, <3>1, <3>2, <3>4
  <2>12. CASE SuspendDone(t)
    <3>1. /\ pc[t] = "inSuspend" /\ pc'[t] = "suspend" /\ UNCHANGED <<told, lastMode>>
          /\ idx'[t] = idx[t] + 1 /\ suspended' = suspended \cup {Order[idx[t]]}
      BY <2>12 DEF SuspendDone, Next1
    <3>2. \A i \in DOMAIN Order : i < idx[t] + 1 => i < idx[t] \/ i = idx[t]
      OBVIOUS
    <3>3. \A i \in DOMAIN Order :
            i < idx'[t] => told'[Order[i]] = mode'[t] \/ mode'[t] \in Skips[Order[i]]
      BY <3>1, <3>2
    <3>4. ToldOf(t)'
      BY <3>1, <3>3
    <3> QED
      BY <2>6, <3>1, <3>4
  <2>13. CASE SuspendNotNeeded(t)
    <3>1. /\ pc[t] = "inSuspend" /\ pc'[t] = "suspend" /\ UNCHANGED lastMode
          /\ idx[t] \in DOMAIN Order /\ Order[idx[t]] \in Callbacks
          /\ mode[t] \in Skips[Order[idx[t]]]
          /\ idx'[t] = idx[t] + 1 /\ suspended' = suspended \ {Order[idx[t]]}
          /\ told' = [told EXCEPT ![Order[idx[t]]] = "up"]
      BY <2>13 DEF SuspendNotNeeded, Next1
    <3>2. \A c \in Callbacks : told'[c] = IF c = Order[idx[t]] THEN "up" ELSE told[c]
      BY <3>1
    <3>3. \A i \in DOMAIN Order : i < idx[t] + 1 => i < idx[t] \/ i = idx[t]
      OBVIOUS
    <3>4. \A i \in DOMAIN Order :
            i < idx'[t] => told'[Order[i]] = mode'[t] \/ mode'[t] \in Skips[Order[i]]
      BY <3>1, <3>2, <3>3
    <3>5. ToldOf(t)'
      BY <3>1, <3>2, <3>4
    <3> QED
      BY <2>6, <3>1, <3>2, <3>5
  <2>14. CASE SuspendRefused(t)
    <3>1. /\ pc[t] = "inSuspend" /\ pc'[t] = "resume"
          /\ idx[t] \in DOMAIN Order /\ Order[idx[t]] \in Callbacks
          /\ suspended' = suspended \ {Order[idx[t]]}
          /\ told' = [told EXCEPT ![Order[idx[t]]] = "up"]
      BY <2>14 DEF SuspendRefused
    <3>2. \A c \in Callbacks : told'[c] = IF c = Order[idx[t]] THEN "up" ELSE told[c]
      BY <3>1
    <3> QED
      BY <2>6, <3>1, <3>2
  <2>15. CASE Suspended(t)
    <3>1. /\ pc[t] = "suspend" /\ idx[t] > Len(Order) /\ UNCHANGED <<suspended, told, lastMode, idx>>
          /\ pc'[t] = IF mode[t] = "deep" THEN "off" ELSE "park"
      BY <2>15 DEF Suspended
    <3>2. CASE mode[t] = "deep"
      <4>1. ASSUME NEW c \in Callbacks PROVE told[c] = "deep"
        <5>1. PICK i \in DOMAIN Order : Order[i] = c
          BY PmAssumption DEF PmAssumption
        <5>2. told[c] = "deep" \/ "deep" \in Skips[c]
          BY <3>1, <3>2, <5>1
        <5>3. Skips[c] \subseteq {"light", "standby"}
          BY PmAssumption DEF PmAssumption
        <5> QED
          BY <5>2, <5>3
      <4>2. ToldOf(t)'
        BY <3>1, <3>2, <4>1
      <4> QED
        BY <2>6, <3>1, <4>2
    <3>3. CASE mode[t] # "deep"
      BY <2>7, <3>1, <3>3
    <3> QED
      BY <3>2, <3>3
  <2>16. CASE ResumeSkip(t)
    <3>1. pc[t] = "resume" /\ pc'[t] = "resume" /\ UNCHANGED <<suspended, told, lastMode>>
      BY <2>16 DEF ResumeSkip
    <3> QED
      BY <2>6, <3>1
  <2>17. CASE ResumeCall(t)
    <3>1. /\ pc[t] = "resume" /\ pc'[t] = "inResume" /\ UNCHANGED <<suspended, idx>>
          /\ Order[idx[t]] \in Callbacks /\ Order[idx[t]] \in suspended
          /\ told' = [told EXCEPT ![Order[idx[t]]] = "up"]
      BY <2>17 DEF ResumeCall
    <3>2. \A c \in Callbacks : told'[c] = IF c = Order[idx[t]] THEN "up" ELSE told[c]
      BY <3>1
    <3> QED
      BY <2>6, <3>1, <3>2
  <2>18. CASE ResumeDone(t)
    <3>1. /\ pc[t] = "inResume" /\ pc'[t] = "resume" /\ UNCHANGED told
          /\ suspended' = suspended \ {Order[idx[t]]} /\ told[Order[idx[t]]] = "up"
      BY <2>18 DEF ResumeDone
    <3> QED
      BY <2>6, <3>1
  <2>19. CASE Resumed(t)
    <3>1. /\ UNCHANGED <<suspended, told, lastMode, idx>> /\ pc[t] = "resume"
          /\ pc'[t] \in {"abandon", "give"}
      BY <2>19 DEF Resumed
    <3> QED
      BY <2>7, <3>1
  <2>20. CASE Park(t) \/ TimedOut(t)
    <3>1. /\ UNCHANGED <<suspended, told, lastMode, idx>> /\ pc[t] # "inSuspend"
          /\ pc'[t] \in {"wake", "parked"}
      BY <2>20 DEF Park, TimedOut
    <3> QED
      BY <2>7, <3>1
  <2>21. CASE Woken(t)
    <3>1. pc[t] = "wake" /\ pc'[t] \in {"stamp", "resume"} /\ UNCHANGED <<suspended, told>>
      BY <2>21 DEF Woken, EndWait
    <3> QED
      BY <2>6, <3>1
  <2>22. CASE Abandon(t)
    <3>1. pc[t] = "abandon" /\ pc'[t] = "release" /\ UNCHANGED <<suspended, told>>
      BY <2>22 DEF Abandon
    <3> QED
      BY <2>6, <3>1
  <2>23. CASE GiveResumed(t)
    <3>1. pc[t] = "give" /\ pc'[t] = "free" /\ UNCHANGED <<suspended, told>>
      BY <2>23 DEF GiveResumed, GiveTo, Pended
    <3> QED
      BY <2>6, <3>1
  <2>24. CASE Stamp(t) \/ Release(t)
    <3>1. /\ pc[t] \in {"stamp", "release"} /\ pc'[t] \in {"resume", "free"}
          /\ UNCHANGED <<suspended, told>>
      BY <2>24 DEF Stamp, Release
    <3> QED
      BY <2>6, <3>1
  <2> QED
    BY <1>2, <2>8, <2>9, <2>10, <2>11, <2>12, <2>13, <2>14, <2>15, <2>16, <2>17, <2>18, <2>19,
       <2>20, <2>21, <2>22, <2>23, <2>24, StepKinds
       DEF ChainStep, WaitStep, SuspendSteps, Asleep, ChainLabels, SleepLabels, EnterLabels, DeepLabels,
           WakeLabels
<1> QED
  BY <1>1, <1>2

(***************************************************************************)
(* One sleeper, and wakers above it.                                       *)
(***************************************************************************)
\* From the slot taken to the wait, before anything ended the sleep or a callback refused.
Going == {"note", "suspend", "inSuspend", "park"}

\* Thread t resumes after a sleep it slept.
Resuming(t) == pc[t] \in {"resume", "inResume", "give"} /\ t \notin failed

\* Who is where.
AloneLabels(s) ==
  /\ \A u \in Threads \ {s} : pc[u] \in {"free"} \cup WakeLabels
  /\ pc[s] \in {"free", "wTry"} \cup EnterLabels \cup (Asleep \ {"quiet", "off"})
  /\ mode[s] # "deep"

\* The slot is with the sleeper until its sleep is ended; a waker between its
\* compare-and-swap and its give has ended it.
AloneSlot(s) ==
  /\ sleeping => pc[s] \in Asleep /\ ~Resuming(s)
  /\ pc[s] = "give" => s \notin failed
  /\ pc[s] = "stamp" => ~sleeping /\ endedBy = "timeout"
  /\ \A u \in Threads \ {s} : pc[u] \in {"wNote", "wGive"} => ~sleeping /\ pc[s] # "stamp"
  /\ \A u \in Threads \ {s} : pc[u] = "wNote" => endedBy = Source[u]

\* A sleep that was ended has the semaphore, or a waker about to give it.
AloneWake(s) ==
  ~sleeping =>
    /\ pc[s] \in Going =>
         wakeupSem = 1 \/ \E u \in Threads \ {s} : pc[u] \in {"wNote", "wGive"}
    /\ pc[s] = "parked" => \E u \in Threads \ {s} : pc[u] \in {"wNote", "wGive"}

\* It has its reason too, or a waker about to note it.
AloneReason(s) ==
  /\ ~sleeping /\ pc[s] \in Going \cup {"parked", "wake"}
       => wakeupSource = endedBy \/ \E u \in Threads \ {s} : pc[u] = "wNote"
  /\ Resuming(s) => wakeupSource = endedBy

AloneInv(s) == AloneLabels(s) /\ AloneSlot(s) /\ AloneWake(s) /\ AloneReason(s)

\* When the sleeper runs, no waker is inside: each is above it and ready.
LEMMA AloneCalm ==
  ASSUME NEW s \in Threads, SleepsAlone(s, scene), AloneLabels(s), AloneSlot(s), Turn(s)
  PROVE  \A u \in Threads \ {s} : pc[u] = "free"
<1>1. \A u \in Threads \ {s} : pc[u] # "free" => ~Ready(u)
  BY DEF SleepsAlone, Turn, AloneLabels
<1>2. \A u \in Threads \ {s} : pc[u] \in WakeLabels \ {"wNote"} => Ready(u)
  BY DEF Ready, Blocked, Locking, WakeLabels
<1>3. \A u \in Threads \ {s} : pc[u] = "wNote" => Ready(u)
  BY DEF AloneLabels, AloneSlot, Ready, Locked, Blocked, WakeLabels
<1> QED
  BY <1>1, <1>2, <1>3 DEF AloneLabels

\* So its steps keep the invariant if they do as far as it is concerned.
LEMMA AloneOwn ==
  ASSUME NEW s \in Threads, \A u \in Threads \ {s} : pc'[u] = "free",
         pc'[s] \in {"free", "wTry"} \cup EnterLabels \cup (Asleep \ {"quiet", "off"}),
         mode'[s] # "deep", sleeping' => pc'[s] \in Asleep /\ ~Resuming(s)',
         pc'[s] = "give" => s \notin failed',
         pc'[s] = "stamp" => ~sleeping' /\ endedBy' = "timeout",
         ~sleeping' /\ pc'[s] \in Going => wakeupSem' = 1,
         ~sleeping' => pc'[s] # "parked",
         ~sleeping' /\ pc'[s] \in Going \cup {"parked", "wake"} => wakeupSource' = endedBy',
         Resuming(s)' => wakeupSource' = endedBy'
  PROVE  AloneInv(s)'
  BY DEF AloneInv, AloneLabels, AloneSlot, AloneWake, AloneReason, WakeLabels

\* The first state.
LEMMA AloneInit ==
  ASSUME Init, NEW s \in Threads
  PROVE  AloneInv(s)
<1>1. sleeping = FALSE /\ (\A t \in Threads : pc[t] = "free") /\ mode[s] = "light"
  BY DEF Init
<1> QED
  BY <1>1
     DEF AloneInv, AloneLabels, AloneSlot, AloneWake, AloneReason, WakeLabels, Going, Resuming

\* A step of the sleeper keeps it.
LEMMA AloneSleeper ==
  ASSUME TypeOK, NEW s \in Threads, SleepsAlone(s, scene), AloneInv(s),
         Call(s) \/ ThreadStep(s) \/ TimedOut(s)
  PROVE  AloneInv(s)'
<1> USE DEF At, Goto, slotVars, semVars, cbVars, ownVars, TypeOK
<1>1. CASE Call(s)
  <2>1. Turn(s) /\ pc[s] = "free"
    BY <1>1 DEF Call, SleepLight, SleepStandby, SleepDeep, Wakeup, Begin
  <2>2. \A u \in Threads \ {s} : pc[u] = "free"
    BY <2>1, AloneCalm DEF AloneInv
  <2>3. ~SleepDeep(s)
    BY DEF SleepDeep, Begin, SleepsAlone
  <2>4. PICK o \in OpNames \ {"deep"}, l \in {"check", "wTry"} : Begin(s, o, l)
    BY <1>1, <2>3 DEF Call, SleepLight, SleepStandby, Wakeup, OpNames, Modes
  <2>5. /\ UNCHANGED <<sleeping, endedBy, semVars, wakeupSource, failed>>
        /\ pc' = [pc EXCEPT ![s] = l] /\ mode' = [mode EXCEPT ![s] = IF o = "wakeup" THEN @ ELSE o]
    BY <2>4, Zenon DEF Begin
  <2>6. /\ pc'[s] = l /\ (\A u \in Threads \ {s} : pc'[u] = "free") /\ mode'[s] # "deep" /\ ~sleeping'
    BY <2>1, <2>2, <2>5 DEF AloneInv, AloneLabels, AloneSlot, Asleep, ChainLabels, SleepLabels
  <2> QED
    BY <2>6, AloneOwn DEF Going, Resuming, EnterLabels
<1>2. CASE ThreadStep(s) \/ TimedOut(s)
  <2>1. \/ Check(s) \/ Arm(s) \/ Claim(s) \/ ChainStep(s)
        \/ WaitStep(s)
        \/ WakeSteps(s) /\ pc[s] = "wTry"
    BY <1>2, StepKinds
       DEF AloneInv, AloneLabels, Asleep, ChainLabels, SleepLabels, EnterLabels, DeepLabels,
           WakeLabels
  <2>2. Turn(s)
    BY <2>1, ChainMoves
       DEF Check, Arm, Claim, WaitStep, Park, TimedOut, Woken, EndWait, Stamp, Abandon, Release,
           GiveResumed, WakeSteps, WakeTry, WakeNote, WakeGive
  <2>3. \A u \in Threads \ {s} : pc[u] = "free"
    BY <2>2, AloneCalm DEF AloneInv
  <2>4. /\ pc[s] # "quiet" /\ (pc[s] \notin Asleep => ~sleeping)
        /\ sleeping => ~Resuming(s)
        /\ mode[s] # "deep"
        /\ pc[s] = "give" => s \notin failed
        /\ pc[s] = "stamp" => ~sleeping /\ endedBy = "timeout"
        /\ ~sleeping /\ pc[s] \in Going => wakeupSem = 1
        /\ ~sleeping => pc[s] # "parked"
        /\ ~sleeping /\ pc[s] \in Going \cup {"parked", "wake"} => wakeupSource = endedBy
        /\ Resuming(s) => wakeupSource = endedBy
    BY <2>3
       DEF AloneInv, AloneLabels, AloneSlot, AloneWake, AloneReason, EnterLabels
  <2> USE <2>3, <2>4, AloneOwn DEF Going, Resuming, Asleep, ChainLabels, SleepLabels, EnterLabels
  <2>5. CASE Check(s)
    BY <2>5 DEF Check
  <2>6. CASE Arm(s)
    <3>1. pc[s] = "arm" /\ pc'[s] = "claim" /\ (\A u \in Threads \ {s} : pc'[u] = "free")
          /\ UNCHANGED <<sleeping, mode>>
      BY <2>6 DEF Arm, ResetOf
    <3> QED
      BY <3>1
  <2>7. CASE Claim(s)
    <3>1. /\ pc[s] = "claim" /\ (\A u \in Threads \ {s} : pc'[u] = "free") /\ UNCHANGED mode
          /\ sleeping' /\ pc'[s] = "note"
      BY <2>7 DEF Claim, Take
    <3> QED
      BY <3>1
  <2>8. CASE ChainStep(s)
    <3>1. ChainMove(s)
      BY <2>8, ChainMoves
    <3>2. /\ \A u \in Threads \ {s} : pc'[u] = "free"
          /\ UNCHANGED <<sleeping, endedBy, wakeupSem, wakeupSource, mode>>
          /\ pc'[s] \notin {"parked", "wake", "stamp"}
      BY <3>1 DEF ChainMove
    <3>3. /\ pc[s] \in Going \cup {"resume", "inResume"}
          /\ pc'[s] \in Asleep \ {"quiet", "off"}
          /\ pc'[s] \in Going => pc[s] \in Going
      BY <3>1 DEF ChainMove
    <3>4. Resuming(s)' => Resuming(s)
      BY <3>1 DEF ChainMove
    <3>5. pc'[s] = "give" => s \notin failed'
      BY <3>1 DEF ChainMove
    <3> QED
      BY <3>2, <3>3, <3>4, <3>5
  <2>9. CASE Park(s)
    <3>1. /\ pc[s] = "park" /\ pc'[s] = IF wakeupSem = 1 THEN "wake" ELSE "parked"
          /\ (\A u \in Threads \ {s} : pc'[u] = "free")
          /\ UNCHANGED <<sleeping, endedBy, wakeupSource, mode, failed>>
      BY <2>9 DEF Park
    <3> QED
      BY <3>1
  <2>10. CASE TimedOut(s)
    <3>1. /\ pc[s] = "parked" /\ pc'[s] = "wake" /\ (\A u \in Threads \ {s} : pc'[u] = "free")
          /\ UNCHANGED <<sleeping, endedBy, wakeupSource, mode, failed>>
      BY <2>10 DEF TimedOut
    <3> QED
      BY <3>1
  <2>11. CASE Woken(s)
    <3>1. /\ pc[s] = "wake" /\ (\A u \in Threads \ {s} : pc'[u] = "free")
          /\ ~sleeping' /\ UNCHANGED <<wakeupSource, mode, failed>>
          /\ \/ pc'[s] = "stamp" /\ endedBy' = "timeout"
             \/ pc'[s] = "resume" /\ UNCHANGED <<sleeping, endedBy>>
      BY <2>11 DEF Woken, EndWait, End
    <3> QED
      BY <3>1
  <2>12. CASE Abandon(s)
    <3>1. /\ pc[s] = "abandon" /\ pc'[s] = "release" /\ (\A u \in Threads \ {s} : pc'[u] = "free")
          /\ UNCHANGED mode
      BY <2>12 DEF Abandon
    <3> QED
      BY <3>1
  <2>13. CASE GiveResumed(s)
    <3>1. /\ pc[s] = "give" /\ pc'[s] = "free" /\ (\A u \in Threads \ {s} : pc'[u] = "free")
          /\ UNCHANGED <<sleeping, mode>>
      BY <2>13 DEF GiveResumed, GiveTo, Pended
    <3> QED
      BY <3>1
  <2>14. CASE WakeSteps(s) /\ pc[s] = "wTry"
    <3>1. WakeTry(s, Source[s], "wTry", "wNote", "free")
      BY <2>14 DEF WakeSteps, WakeNote, WakeGive
    <3>2. pc'[s] = "free" /\ (\A u \in Threads \ {s} : pc'[u] = "free") /\ ~sleeping' /\ UNCHANGED mode
      BY <2>14, <3>1 DEF WakeTry, End
    <3> QED
      BY <3>2
  <2>15. CASE Stamp(s)
    <3>1. /\ pc[s] = "stamp" /\ pc'[s] = "resume" /\ (\A u \in Threads \ {s} : pc'[u] = "free")
          /\ wakeupSource' = "timeout" /\ UNCHANGED <<sleeping, endedBy, mode>>
      BY <2>15 DEF Stamp
    <3> QED
      BY <3>1
  <2>16. CASE Release(s)
    <3>1. /\ pc'[s] = "free" /\ (\A u \in Threads \ {s} : pc'[u] = "free")
          /\ ~sleeping' /\ UNCHANGED mode
      BY <2>16 DEF Release
    <3> QED
      BY <3>1
  <2> QED
    BY <2>1, <2>5, <2>6, <2>7, <2>8, <2>9, <2>10, <2>11, <2>12, <2>13, <2>14, <2>15, <2>16
       DEF WaitStep
<1> QED
  BY <1>1, <1>2

\* A step of a waker keeps it.
LEMMA AloneWaker ==
  ASSUME TypeOK, NEW s \in Threads, SleepsAlone(s, scene), AloneInv(s),
         NEW t \in Threads \ {s}, Call(t) \/ ThreadStep(t) \/ TimedOut(t)
  PROVE  AloneInv(s)'
<1> USE DEF At, Goto, slotVars, semVars, cbVars, ownVars, TypeOK
<1>1. pc[t] \in {"free"} \cup WakeLabels
  BY DEF AloneInv, AloneLabels
<1>2. CASE Call(t)
  <2>1. Begin(t, "wakeup", "wTry")
    BY <1>2 DEF Call, SleepLight, SleepStandby, SleepDeep, Wakeup, Begin, SleepsAlone
  <2>2. /\ UNCHANGED <<sleeping, endedBy, semVars, wakeupSource, failed>>
        /\ pc[t] = "free" /\ pc' = [pc EXCEPT ![t] = "wTry"]
        /\ mode'[s] = mode[s]
    BY <2>1 DEF Begin
  <2>3. pc'[t] = "wTry" /\ \A u \in Threads : u # t => pc'[u] = pc[u]
    BY <2>2
  <2> QED
    BY <2>2, <2>3
       DEF AloneInv, AloneLabels, AloneSlot, AloneWake, AloneReason, WakeLabels, Resuming
<1>3. CASE ThreadStep(t) \/ TimedOut(t)
  <2>1. WakeSteps(t)
    <3>1. ChainStep(t) => pc[t] \in ChainLabels
      BY ChainMoves DEF ChainMove, ChainLabels
    <3> QED
      BY <1>1, <1>3, <3>1, StepKinds
         DEF EnterLabels, DeepLabels, WakeLabels, WaitLabels, ChainLabels
  <2>2. UNCHANGED <<mode, failed>>
    BY <2>1 DEF WakeSteps, WakeTry, WakeNote, WakeGive
  <2>3. CASE WakeTry(t, Source[t], "wTry", "wNote", "free")
    <3>1. /\ pc[t] = "wTry" /\ UNCHANGED <<semVars, wakeupSource>>
          /\ \A u \in Threads : u # t => pc'[u] = pc[u]
          /\ \/ sleeping /\ ~sleeping' /\ endedBy' = Source[t] /\ pc'[t] = "wNote"
             \/ UNCHANGED <<sleeping, endedBy>> /\ pc'[t] = "free"
      BY <2>3 DEF WakeTry, End
    <3>2. CASE sleeping /\ ~sleeping' /\ endedBy' = Source[t] /\ pc'[t] = "wNote"
      <4>1. \A u \in Threads \ {s} : u # t => pc'[u] \notin {"wNote", "wGive"}
        BY <3>1, <3>2 DEF AloneInv, AloneSlot
      <4>2. ~Resuming(s)'
        BY <2>2, <3>1, <3>2 DEF AloneInv, AloneSlot, Resuming
      <4> QED
        BY <2>2, <3>1, <3>2, <4>1, <4>2
           DEF AloneInv, AloneLabels, AloneSlot, AloneWake, AloneReason, WakeLabels
    <3>3. CASE UNCHANGED <<sleeping, endedBy>> /\ pc'[t] = "free"
      BY <2>2, <3>1, <3>3
         DEF AloneInv, AloneLabels, AloneSlot, AloneWake, AloneReason, WakeLabels, Resuming
    <3> QED
      BY <3>1, <3>2, <3>3
  <2>4. CASE WakeNote(t, Source[t], "wNote", "wGive")
    <3>1. /\ pc[t] = "wNote" /\ pc'[t] = "wGive" /\ UNCHANGED <<sleeping, endedBy, semVars>>
          /\ wakeupSource' = Source[t] /\ \A u \in Threads : u # t => pc'[u] = pc[u]
      BY <2>4 DEF WakeNote
    <3>2. ~sleeping /\ endedBy = Source[t]
      BY <3>1 DEF AloneInv, AloneSlot
    <3> QED
      BY <2>2, <3>1, <3>2
         DEF AloneInv, AloneLabels, AloneSlot, AloneWake, AloneReason, WakeLabels, Resuming
  <2>5. CASE WakeGive(t, "wGive", "free")
    <3>1. /\ pc[t] = "wGive" /\ pc'[t] = "free" /\ UNCHANGED <<sleeping, endedBy, wakeupSource>>
          /\ \A u \in Threads \ {s, t} : pc'[u] = pc[u]
          /\ \/ pc[s] # "parked" /\ pc'[s] = pc[s] /\ wakeupSem' = 1
             \/ pc[s] = "parked" /\ pc'[s] = "wake" /\ wakeupSem' = wakeupSem
      <4>1. \A u \in Threads \ {s} : pc[u] # "parked"
        BY DEF AloneInv, AloneLabels, WakeLabels
      <4> QED
        BY <2>5, <4>1 DEF WakeGive, GiveTo, Pended
    <3>2. ~sleeping
      BY <3>1 DEF AloneInv, AloneSlot
    <3>3. AloneLabels(s)'
      BY <2>2, <3>1 DEF AloneInv, AloneLabels, WakeLabels, Asleep, ChainLabels, SleepLabels
    <3>4. AloneSlot(s)'
      BY <2>2, <3>1, <3>2 DEF AloneInv, AloneSlot, Resuming
    <3>5. AloneWake(s)'
      BY <3>1, <3>2 DEF AloneInv, AloneWake, Going
    <3>6. AloneReason(s)'
      BY <2>2, <3>1, <3>2 DEF AloneInv, AloneReason, Going, Resuming
    <3> QED
      BY <3>3, <3>4, <3>5, <3>6 DEF AloneInv
  <2> QED
    BY <2>1, <2>3, <2>4, <2>5 DEF WakeSteps
<1> QED
  BY <1>2, <1>3

(***************************************************************************)
(* A power-off, and a sleeper below it that may power off too.             *)
(***************************************************************************)
\* Power-off t ended a sleep, and waits for whoever slept it to resume everybody.
TakingOver == {"dNote", "dGive", "dTake", "dWait"}

\* The mode of a sleep goes with its place: a power-off does not wait, and resumes only after
\* a refusal.
ModeOf(t) ==
  /\ pc[t] # "stamp"
  /\ pc[t] \in DeepLabels \cup {"quiet", "off"} => mode[t] = "deep"
  /\ pc[t] \in EnterLabels \cup {"park", "parked", "wake", "give"} => mode[t] # "deep"
  /\ pc[t] \in {"resume", "inResume"} /\ mode[t] = "deep" => t \in failed
  /\ pc[t] = "give" => t \notin failed

\* Who is where.
PairLabels(s, u) ==
  /\ \A v \in Threads \ {s, u} : pc[v] = "free"
  /\ pc[s] \in {"free"} \cup EnterLabels \cup DeepLabels \cup Asleep
  /\ pc[u] \in {"free", "off"} \cup DeepLabels \cup ChainLabels
  /\ pc[u] # "free" => mode[u] = "deep"
  /\ ModeOf(s) /\ ModeOf(u)

\* Whoever sleeps has the slot, unless the other is taking it over; which nobody leaves
\* before the sleeper is done, as the semaphore that says so was emptied first.
PairSlot(s, u) ==
  /\ pc[s] \in Asleep => pc[u] \notin Asleep /\ (sleeping \/ pc[u] \in TakingOver)
  /\ pc[u] \in Asleep => sleeping \/ pc[s] \in TakingOver
  /\ sleeping => (pc[s] \in Asleep \/ pc[u] \in Asleep) /\ ~Resuming(s)
  /\ pc[u] \in {"dNote", "dGive"} => ~sleeping /\ pc[s] \in Asleep
  /\ pc[u] = "dNote" => endedBy = "button"
  /\ \A t \in {s, u} : pc[t] \in {"dWake", "dNote", "dGive", "dTake"} => resumeSem = 0

\* The sleeper's semaphore is empty until its sleep is taken over; then it has it, or the
\* power-off is about to give it.
PairWake(s, u) ==
  /\ pc[s] = "claim" => wakeupSem = 0
  /\ pc[s] \in Going /\ mode[s] # "deep" =>
       IF sleeping THEN wakeupSem = 0 ELSE wakeupSem = 1 \/ pc[u] \in {"dNote", "dGive"}
  /\ pc[s] = "parked" => sleeping \/ pc[u] \in {"dNote", "dGive"}
  /\ pc[s] = "wake" => ~sleeping

\* It has its reason too, or the power-off is about to note it.
PairReason(s, u) ==
  /\ ~sleeping /\ pc[s] \in Going \cup {"parked", "wake"} /\ mode[s] # "deep"
       => wakeupSource = endedBy \/ pc[u] = "dNote"
  /\ Resuming(s) => wakeupSource = endedBy

PairInv(s, u) == PairLabels(s, u) /\ PairSlot(s, u) /\ PairWake(s, u) /\ PairReason(s, u)

\* The first state.
LEMMA PairInit ==
  ASSUME Init, NEW s \in Threads, NEW u \in Threads
  PROVE  PairInv(s, u)
<1>1. sleeping = FALSE /\ \A t \in Threads : pc[t] = "free"
  BY DEF Init
<1> QED
  BY <1>1
     DEF PairInv, PairLabels, ModeOf, PairSlot, PairWake, PairReason, Going, Resuming, Asleep,
         ChainLabels, SleepLabels, EnterLabels, DeepLabels

\* Nobody else takes a step.
LEMMA PairOthers ==
  ASSUME NEW s \in Threads, NEW u \in Threads, PowersOff(s, u, scene), PairInv(s, u),
         NEW t \in Threads, Call(t) \/ ThreadStep(t) \/ TimedOut(t), TypeOK
  PROVE  t \in {s, u}
<1> SUFFICES ASSUME t \notin {s, u} PROVE FALSE
  OBVIOUS
<1>1. pc[t] = "free" /\ scene.ops[t] = {}
  BY DEF PairInv, PairLabels, PowersOff
<1>2. ~Call(t)
  BY <1>1 DEF Call, SleepLight, SleepStandby, SleepDeep, Wakeup, Begin
<1>3. ~ChainStep(t)
  BY <1>1, ChainMoves DEF ChainMove
<1> QED
  BY <1>1, <1>2, <1>3, StepKinds DEF EnterLabels, DeepLabels, WakeLabels, WaitLabels

\* A step of the sleeper keeps it: the power-off above it is blocked.
LEMMA PairSleeper ==
  ASSUME TypeOK, NEW s \in Threads, NEW u \in Threads, PowersOff(s, u, scene), PairInv(s, u),
         Call(s) \/ ThreadStep(s) \/ TimedOut(s)
  PROVE  PairInv(s, u)'
<1> USE DEF At, Goto, slotVars, semVars, cbVars, ownVars, TypeOK
<1>0. s # u
  BY PmAssumption DEF PmAssumption, PowersOff
<1>1. Turn(s) => pc[u] \in {"free", "off", "quiet", "inSuspend", "inResume", "dWait"}
  <2>1. ~Locked
    BY DEF Locked, PairInv, PairLabels, ModeOf
  <2> QED
    BY <2>1 DEF Turn, Ready, Blocked, PowersOff, PairInv, PairLabels, DeepLabels, ChainLabels
<1>2. ASSUME pc[u] \in {"free", "off", "quiet", "inSuspend", "inResume", "dWait"},
             pc'[s] \in {"free"} \cup EnterLabels \cup DeepLabels \cup Asleep,
             ModeOf(s)', UNCHANGED mode[u], u \in failed' <=> u \in failed,
             \/ pc'[u] = pc[u]
             \/ pc[u] = "dWait" /\ pc'[u] = "dRetry",
             \A v \in Threads \ {s, u} : pc'[v] = pc[v]
      PROVE  PairLabels(s, u)'
  <2>1. PairLabels(s, u)
    BY DEF PairInv
  <2>2. /\ pc'[u] \in {"free", "off"} \cup DeepLabels \cup ChainLabels
        /\ pc'[u] # "free" => mode'[u] = "deep"
    BY <1>2, <2>1 DEF PairLabels, DeepLabels
  <2>3. ModeOf(u)'
    BY <1>2, <2>1 DEF PairLabels, ModeOf, DeepLabels, EnterLabels
  <2> QED
    BY <1>2, <2>1, <2>2, <2>3 DEF PairLabels
<1>3. CASE Call(s)
  <2>1. PICK o \in Modes, l \in {"check", "dClaim"} :
          Begin(s, o, l) /\ (l = "dClaim" <=> o = "deep")
    BY <1>3 DEF Call, SleepLight, SleepStandby, SleepDeep, Wakeup, Begin, PowersOff, Modes
  <2>2. /\ UNCHANGED <<sleeping, endedBy, semVars, wakeupSource, failed>> /\ pc[s] = "free"
        /\ pc' = [pc EXCEPT ![s] = l] /\ mode' = [mode EXCEPT ![s] = IF o = "wakeup" THEN @ ELSE o]
    BY <2>1, Zenon DEF Begin
  <2>3. Turn(s)
    BY <2>1 DEF Begin
  <2>4. /\ pc'[s] = l /\ mode'[s] = o /\ pc'[u] = pc[u] /\ mode'[u] = mode[u]
        /\ \A v \in Threads \ {s, u} : pc'[v] = pc[v]
    BY <1>0, <2>2 DEF Modes
  <2>5. PairLabels(s, u)'
    BY <1>1, <1>2, <2>1, <2>2, <2>3, <2>4 DEF ModeOf, EnterLabels, DeepLabels
  <2> QED
    BY <1>1, <2>2, <2>3, <2>4, <2>5
       DEF PairInv, PairSlot, PairWake, PairReason, Going, Resuming, Asleep, ChainLabels,
           SleepLabels, TakingOver
<1>4. CASE ThreadStep(s) \/ TimedOut(s)
  <2>1. ~TimedOut(s) /\ pc[s] \notin WakeLabels
    BY DEF TimedOut, PowersOff, PairInv, PairLabels, EnterLabels, DeepLabels, Asleep, ChainLabels,
           SleepLabels, WakeLabels
  <2>2. \/ Check(s) \/ Arm(s) \/ Claim(s) \/ ChainStep(s)
        \/ Park(s) \/ Woken(s) \/ Abandon(s) \/ Release(s) \/ GiveResumed(s) \/ DeepSteps(s)
    BY <1>4, <2>1, StepKinds DEF WaitStep, Stamp, PairInv, PairLabels, ModeOf
  <2>3. Turn(s)
    BY <2>2, ChainMoves
       DEF Check, Arm, Claim, Park, Woken, EndWait, Abandon, Release, GiveResumed, DeepSteps,
           DeepClaim, DeepReset, WakeTry, WakeNote, WakeGive, DeepTake, DeepTimeout, DeepRetry
  <2>4. pc[u] \in {"free", "off", "quiet", "inSuspend", "inResume", "dWait"}
    BY <1>1, <2>3
  <2>5. PairLabels(s, u) /\ PairSlot(s, u) /\ PairWake(s, u) /\ PairReason(s, u)
    BY DEF PairInv
  <2> USE <1>0, <1>2, <2>4, <2>5
      DEF PairInv, PairLabels, ModeOf, PairSlot, PairWake, PairReason, Going, Resuming, Asleep,
          TakingOver, ChainLabels, SleepLabels, EnterLabels, DeepLabels
  <2>6. CASE Check(s)
    <3>1. /\ pc[s] = "check" /\ pc'[s] \in {"free", "arm"}
          /\ \A v \in Threads \ {s} : pc'[v] = pc[v]
          /\ UNCHANGED <<sleeping, endedBy, wakeupSem, resumeSem, wakeupSource, mode, failed>>
      BY <2>6 DEF Check
    <3> QED
      BY <3>1
  <2>7. CASE Arm(s)
    <3>1. /\ pc[s] = "arm" /\ pc'[s] = "claim" /\ wakeupSem' = 0
          /\ \A v \in Threads \ {s} : pc'[v] = pc[v]
          /\ UNCHANGED <<sleeping, endedBy, resumeSem, mode, failed>>
      BY <2>7 DEF Arm, ResetOf
    <3> QED
      BY <3>1
  <2>8. CASE Claim(s)
    <3>1. /\ pc[s] = "claim" /\ \A v \in Threads \ {s} : pc'[v] = pc[v]
          /\ UNCHANGED <<wakeupSem, resumeSem, wakeupSource, mode, failed>>
          /\ \/ ~sleeping /\ sleeping' /\ pc'[s] = "note"
             \/ sleeping /\ UNCHANGED <<sleeping, endedBy>> /\ pc'[s] = "free"
      BY <2>8 DEF Claim, Take
    <3> QED
      BY <3>1
  <2>9. CASE ChainStep(s)
    <3>1. ChainMove(s)
      BY <2>9, ChainMoves
    <3> QED
      BY <3>1 DEF ChainMove
  <2>10. CASE Park(s)
    <3>1. /\ pc[s] = "park" /\ pc'[s] = IF wakeupSem = 1 THEN "wake" ELSE "parked"
          /\ \A v \in Threads \ {s} : pc'[v] = pc[v]
          /\ UNCHANGED <<sleeping, endedBy, resumeSem, wakeupSource, mode, failed>>
      BY <2>10 DEF Park
    <3> QED
      BY <3>1
  <2>11. CASE Woken(s)
    <3>1. /\ pc[s] = "wake" /\ pc'[s] = "resume" /\ \A v \in Threads \ {s} : pc'[v] = pc[v]
          /\ UNCHANGED <<sleeping, endedBy, wakeupSem, resumeSem, wakeupSource, mode, failed>>
      BY <2>11 DEF Woken, EndWait, End
    <3> QED
      BY <3>1
  <2>12. CASE Abandon(s)
    <3>1. /\ pc[s] = "abandon" /\ pc'[s] = "release" /\ \A v \in Threads \ {s} : pc'[v] = pc[v]
          /\ UNCHANGED <<sleeping, endedBy, wakeupSem, resumeSem, wakeupSource, mode, failed>>
      BY <2>12 DEF Abandon
    <3> QED
      BY <3>1
  <2>13. CASE GiveResumed(s)
    <3>1. /\ pc[s] = "give" /\ pc'[s] = "free" /\ \A v \in Threads \ {s, u} : pc'[v] = pc[v]
          /\ pc'[u] = pc[u] \/ (pc[u] = "dWait" /\ pc'[u] = "dRetry")
          /\ UNCHANGED <<sleeping, endedBy, wakeupSem, wakeupSource, mode, failed>>
      BY <2>13 DEF GiveResumed, GiveTo, Pended
    <3> QED
      BY <3>1
  <2>14. CASE DeepClaim(s) \/ DeepRetry(s)
    <3>1. /\ pc[s] \in {"dClaim", "dRetry"} /\ \A v \in Threads \ {s} : pc'[v] = pc[v]
          /\ UNCHANGED <<wakeupSem, resumeSem, wakeupSource, mode, failed>>
          /\ \/ ~sleeping /\ sleeping' /\ pc'[s] = "note"
             \/ sleeping /\ UNCHANGED <<sleeping, endedBy>> /\ pc'[s] \in {"free", "dReset"}
      BY <2>14 DEF DeepClaim, DeepRetry, Take
    <3> QED
      BY <3>1
  <2>15. CASE DeepReset(s)
    <3>1. /\ pc[s] = "dReset" /\ pc'[s] = "dWake" /\ resumeSem' = 0
          /\ pc'[u] = IF pc[u] = "dWait" THEN "dRetry" ELSE pc[u]
          /\ \A v \in Threads \ {s, u} : pc'[v] = pc[v]
          /\ UNCHANGED <<sleeping, endedBy, wakeupSem, wakeupSource, mode, failed>>
      BY <2>15 DEF DeepReset, ResetOf
    <3> QED
      BY <3>1
  <2>16. CASE WakeTry(s, "button", "dWake", "dNote", "dTake")
    <3>1. /\ pc[s] = "dWake" /\ pc'[s] \in {"dNote", "dTake"}
          /\ \A v \in Threads \ {s} : pc'[v] = pc[v]
          /\ ~sleeping' /\ UNCHANGED <<wakeupSem, resumeSem, wakeupSource, mode, failed>>
      BY <2>16 DEF WakeTry, End
    <3> QED
      BY <3>1
  <2>17. CASE WakeNote(s, "button", "dNote", "dGive")
    <3>1. /\ pc[s] = "dNote" /\ pc'[s] = "dGive" /\ \A v \in Threads \ {s} : pc'[v] = pc[v]
          /\ UNCHANGED <<sleeping, endedBy, wakeupSem, resumeSem, mode, failed>>
      BY <2>17 DEF WakeNote
    <3> QED
      BY <3>1
  <2>18. CASE WakeGive(s, "dGive", "dTake")
    <3>1. /\ pc[s] = "dGive" /\ pc'[s] = "dTake" /\ \A v \in Threads \ {s} : pc'[v] = pc[v]
          /\ UNCHANGED <<sleeping, endedBy, wakeupSource, resumeSem, mode, failed>>
      BY <2>18 DEF WakeGive, GiveTo, Pended
    <3> QED
      BY <3>1
  <2>19. CASE DeepTake(s)
    <3>1. /\ pc[s] = "dTake" /\ pc'[s] = "dWait" /\ \A v \in Threads \ {s} : pc'[v] = pc[v]
          /\ UNCHANGED <<sleeping, endedBy, wakeupSem, wakeupSource, mode, failed>>
      BY <2>19 DEF DeepTake
    <3> QED
      BY <3>1
  <2>20. CASE DeepTimeout(s)
    <3>1. /\ pc[s] = "dWait" /\ pc'[s] = "dRetry" /\ \A v \in Threads \ {s} : pc'[v] = pc[v]
          /\ UNCHANGED <<sleeping, endedBy, wakeupSem, resumeSem, wakeupSource, mode, failed>>
      BY <2>20 DEF DeepTimeout
    <3>2. pc[u] \notin Asleep
      BY <2>20 DEF DeepTimeout, PowerGoing, InChain, PowersOff
    <3> QED
      BY <3>1, <3>2
  <2>21. CASE Release(s)
    <3>1. /\ pc[s] = "release" /\ pc'[s] = "free" /\ \A v \in Threads \ {s} : pc'[v] = pc[v]
          /\ ~sleeping' /\ UNCHANGED <<wakeupSem, resumeSem, wakeupSource, mode, failed>>
      BY <2>21 DEF Release
    <3> QED
      BY <3>1
  <2> QED
    BY <2>2, <2>6, <2>7, <2>8, <2>9, <2>10, <2>11, <2>12, <2>13, <2>14, <2>15, <2>16, <2>17,
       <2>18, <2>19, <2>20, <2>21 DEF DeepSteps
<1> QED
  BY <1>3, <1>4

\* A step of the power-off keeps it.
LEMMA PairTaker ==
  ASSUME TypeOK, NEW s \in Threads, NEW u \in Threads, PowersOff(s, u, scene), PairInv(s, u),
         Call(u) \/ ThreadStep(u) \/ TimedOut(u)
  PROVE  PairInv(s, u)'
<1> USE DEF At, Goto, slotVars, semVars, cbVars, ownVars, TypeOK
<1>0. s # u
  BY PmAssumption DEF PmAssumption, PowersOff
<1>1. PairLabels(s, u) /\ PairSlot(s, u) /\ PairWake(s, u) /\ PairReason(s, u)
  BY DEF PairInv
<1>2. ASSUME pc'[u] \in {"free", "off"} \cup DeepLabels \cup ChainLabels,
             pc'[u] # "free" => mode'[u] = "deep", ModeOf(u)', UNCHANGED mode[s],
             s \in failed' <=> s \in failed,
             \/ pc'[s] = pc[s]
             \/ pc[s] = "parked" /\ pc'[s] = "wake"
             \/ pc[s] = "dWait" /\ pc'[s] = "dRetry",
             \A v \in Threads \ {s, u} : pc'[v] = pc[v]
      PROVE  PairLabels(s, u)'
  <2>1. pc'[s] \in {"free"} \cup EnterLabels \cup DeepLabels \cup Asleep
    BY <1>1, <1>2 DEF PairLabels, DeepLabels, Asleep, SleepLabels
  <2>2. ModeOf(s)'
    BY <1>1, <1>2 DEF PairLabels, ModeOf, DeepLabels, EnterLabels
  <2> QED
    BY <1>1, <1>2, <2>1, <2>2 DEF PairLabels
<1>3. CASE Call(u)
  <2>1. Begin(u, "deep", "dClaim")
    BY <1>3 DEF Call, SleepLight, SleepStandby, SleepDeep, Wakeup, Begin, PowersOff
  <2>2. /\ UNCHANGED <<sleeping, endedBy, semVars, wakeupSource, failed>> /\ pc[u] = "free"
        /\ pc'[u] = "dClaim" /\ mode'[u] = "deep" /\ mode'[s] = mode[s]
        /\ \A v \in Threads \ {u} : pc'[v] = pc[v]
    BY <1>0, <2>1 DEF Begin
  <2>3. PairLabels(s, u)'
    BY <1>0, <1>2, <2>2 DEF ModeOf, EnterLabels, DeepLabels
  <2> QED
    BY <1>0, <1>1, <2>2, <2>3
       DEF PairInv, PairSlot, PairWake, PairReason, Going, Resuming, Asleep, ChainLabels,
           SleepLabels, TakingOver
<1>4. CASE ThreadStep(u) \/ TimedOut(u)
  <2>1. ChainStep(u) \/ Abandon(u) \/ Release(u) \/ DeepSteps(u)
    <3>1. pc[u] \notin EnterLabels \cup WakeLabels \cup {"park", "parked", "wake", "stamp", "give"}
      BY <1>1 DEF PairLabels, ModeOf, EnterLabels, DeepLabels, ChainLabels, WakeLabels
    <3> QED
      BY <1>4, <3>1, StepKinds DEF WaitStep, Park, TimedOut, Woken, EndWait, Stamp, GiveResumed
  <2> USE <1>0, <1>1, <1>2
      DEF PairInv, PairLabels, ModeOf, PairSlot, PairWake, PairReason, Going, Resuming, Asleep,
          TakingOver, ChainLabels, SleepLabels, EnterLabels, DeepLabels
  <2>2. CASE ChainStep(u)
    <3>1. ChainMove(u)
      BY <2>2, ChainMoves
    <3> QED
      BY <3>1 DEF ChainMove
  <2>3. CASE Abandon(u)
    <3>1. /\ pc[u] = "abandon" /\ pc'[u] = "release" /\ \A v \in Threads \ {u} : pc'[v] = pc[v]
          /\ UNCHANGED <<sleeping, endedBy, wakeupSem, resumeSem, wakeupSource, mode, failed>>
      BY <2>3 DEF Abandon
    <3> QED
      BY <3>1
  <2>4. CASE DeepClaim(u) \/ DeepRetry(u)
    <3>1. /\ pc[u] \in {"dClaim", "dRetry"} /\ \A v \in Threads \ {u} : pc'[v] = pc[v]
          /\ UNCHANGED <<wakeupSem, resumeSem, wakeupSource, mode, failed>>
          /\ \/ ~sleeping /\ sleeping' /\ pc'[u] = "note"
             \/ sleeping /\ UNCHANGED <<sleeping, endedBy>> /\ pc'[u] \in {"free", "dReset"}
      BY <2>4 DEF DeepClaim, DeepRetry, Take
    <3> QED
      BY <3>1
  <2>5. CASE DeepReset(u)
    <3>1. /\ pc[u] = "dReset" /\ pc'[u] = "dWake" /\ resumeSem' = 0
          /\ pc'[s] = IF pc[s] = "dWait" THEN "dRetry" ELSE pc[s]
          /\ \A v \in Threads \ {s, u} : pc'[v] = pc[v]
          /\ UNCHANGED <<sleeping, endedBy, wakeupSem, wakeupSource, mode, failed>>
      BY <2>5 DEF DeepReset, ResetOf
    <3> QED
      BY <3>1
  <2>6. CASE WakeTry(u, "button", "dWake", "dNote", "dTake")
    <3>1. /\ pc[u] = "dWake" /\ \A v \in Threads \ {u} : pc'[v] = pc[v]
          /\ UNCHANGED <<wakeupSem, resumeSem, wakeupSource, mode, failed>>
          /\ \/ sleeping /\ ~sleeping' /\ endedBy' = "button" /\ pc'[u] = "dNote"
             \/ ~sleeping /\ UNCHANGED <<sleeping, endedBy>> /\ pc'[u] = "dTake"
      BY <2>6 DEF WakeTry, End
    <3> QED
      BY <3>1
  <2>7. CASE WakeNote(u, "button", "dNote", "dGive")
    <3>1. /\ pc[u] = "dNote" /\ pc'[u] = "dGive" /\ \A v \in Threads \ {u} : pc'[v] = pc[v]
          /\ wakeupSource' = "button"
          /\ UNCHANGED <<sleeping, endedBy, wakeupSem, resumeSem, mode, failed>>
      BY <2>7 DEF WakeNote
    <3> QED
      BY <3>1
  <2>8. CASE WakeGive(u, "dGive", "dTake")
    <3>1. /\ pc[u] = "dGive" /\ pc'[u] = "dTake" /\ \A v \in Threads \ {s, u} : pc'[v] = pc[v]
          /\ UNCHANGED <<sleeping, endedBy, wakeupSource, resumeSem, mode, failed>>
          /\ \/ pc[s] # "parked" /\ pc'[s] = pc[s] /\ wakeupSem' = 1
             \/ pc[s] = "parked" /\ pc'[s] = "wake" /\ wakeupSem' = wakeupSem
      BY <2>8 DEF WakeGive, GiveTo, Pended
    <3> QED
      BY <3>1
  <2>9. CASE DeepTake(u)
    <3>1. /\ pc[u] = "dTake" /\ pc'[u] = "dWait" /\ \A v \in Threads \ {u} : pc'[v] = pc[v]
          /\ resumeSem' = 0 /\ UNCHANGED <<sleeping, endedBy, wakeupSem, wakeupSource, mode, failed>>
      BY <2>9 DEF DeepTake
    <3> QED
      BY <3>1
  <2>10. CASE DeepTimeout(u)
    <3>1. /\ pc[u] = "dWait" /\ pc'[u] = "dRetry" /\ \A v \in Threads \ {u} : pc'[v] = pc[v]
          /\ UNCHANGED <<sleeping, endedBy, wakeupSem, resumeSem, wakeupSource, mode, failed>>
      BY <2>10 DEF DeepTimeout
    <3>2. pc[s] \in Asleep => pc[s] = "parked"
      BY <2>10 DEF DeepTimeout, PowerGoing, InChain, PowersOff
    <3> QED
      BY <3>1, <3>2
  <2>11. CASE Release(u)
    <3>1. /\ pc[u] = "release" /\ pc'[u] = "free" /\ \A v \in Threads \ {u} : pc'[v] = pc[v]
          /\ ~sleeping' /\ UNCHANGED <<wakeupSem, resumeSem, wakeupSource, mode, failed>>
      BY <2>11 DEF Release
    <3> QED
      BY <3>1
  <2> QED
    BY <2>1, <2>2, <2>3, <2>4, <2>5, <2>6, <2>7, <2>8, <2>9, <2>10, <2>11 DEF DeepSteps
<1> QED
  BY <1>3, <1>4

(***************************************************************************)
(* The invariant of the orderly scenarios.                                 *)
(***************************************************************************)
OrderlyInv ==
  \/ \E s \in Threads : SleepsAlone(s, scene) /\ AloneInv(s)
  \/ \E s, u \in Threads : PowersOff(s, u, scene) /\ PairInv(s, u)

\* It keeps sleeps apart.
LEMMA OrderlyOneSleep ==
  ASSUME OrderlyInv
  PROVE  OneSleep
<1> SUFFICES ASSUME NEW t1 \in Threads, NEW t2 \in Threads, pc[t1] \in Asleep, pc[t2] \in Asleep
             PROVE  t1 = t2
  BY DEF OneSleep
<1>1. CASE \E s \in Threads : SleepsAlone(s, scene) /\ AloneInv(s)
  <2>1. PICK s \in Threads : \A u \in Threads \ {s} : pc[u] \in {"free"} \cup WakeLabels
    BY <1>1 DEF AloneInv, AloneLabels
  <2> QED
    BY <2>1 DEF WakeLabels, Asleep, ChainLabels, SleepLabels
<1>2. CASE \E s, u \in Threads : PowersOff(s, u, scene) /\ PairInv(s, u)
  <2>1. PICK s \in Threads, u \in Threads :
          /\ \A v \in Threads \ {s, u} : pc[v] = "free"
          /\ pc[s] \in Asleep => pc[u] \notin Asleep
    BY <1>2 DEF PairInv, PairLabels, PairSlot
  <2>2. "free" \notin Asleep
    BY DEF Asleep, ChainLabels, SleepLabels
  <2> QED
    BY <2>1, <2>2
<1> QED
  BY <1>1, <1>2 DEF OrderlyInv

\* Every step keeps it; the scenario stays.
LEMMA OrderlyStep ==
  ASSUME TypeOK, OrderlyInv, NEW t \in Threads, Call(t) \/ ThreadStep(t) \/ TimedOut(t)
  PROVE  OrderlyInv'
<1>1. scene' = scene
  <2>1. Call(t) => scene' = scene
    BY DEF Call, SleepLight, SleepStandby, SleepDeep, Wakeup, Begin
  <2>2. ChainStep(t) => scene' = scene
    BY ChainMoves DEF callVars
  <2>3. ThreadStep(t) \/ TimedOut(t) => scene' = scene
    BY <2>2, StepKinds
       DEF Check, Arm, Claim, WaitStep, Park, TimedOut, Woken, EndWait, Stamp, Abandon, Release,
           GiveResumed, DeepSteps, DeepClaim, DeepReset, DeepTake, DeepTimeout, DeepRetry,
           WakeSteps, WakeTry, WakeNote, WakeGive, callVars
  <2> QED
    BY <2>1, <2>3
<1>2. CASE \E s \in Threads : SleepsAlone(s, scene) /\ AloneInv(s)
  <2>1. PICK s \in Threads : SleepsAlone(s, scene) /\ AloneInv(s)
    BY <1>2
  <2>2. AloneInv(s)'
    BY <2>1, AloneSleeper, AloneWaker
  <2>3. SleepsAlone(s, scene')
    BY <1>1, <2>1
  <2> QED
    BY <2>2, <2>3 DEF OrderlyInv
<1>3. CASE \E s, u \in Threads : PowersOff(s, u, scene) /\ PairInv(s, u)
  <2>1. PICK s \in Threads, u \in Threads : PowersOff(s, u, scene) /\ PairInv(s, u)
    BY <1>3
  <2>2. PairInv(s, u)'
    BY <2>1, PairOthers, PairSleeper, PairTaker
  <2>3. PowersOff(s, u, scene')
    BY <1>1, <2>1
  <2> QED
    BY <2>2, <2>3 DEF OrderlyInv
<1> QED
  BY <1>2, <1>3 DEF OrderlyInv

\* The whole invariant: flags covered, sleeps apart, components told.
OInv == Inv /\ OrderlyInv /\ ToldInv

\* It holds in every state of an orderly scenario.
LEMMA OrderlyInvariance == Spec /\ Orderly(scene) => []OInv
<1>1. Init /\ Orderly(scene) => OInv
  <2> SUFFICES ASSUME Init, Orderly(scene) PROVE OInv
    OBVIOUS
  <2>1. Inv
    BY TypeInit DEF Inv, Covered, Init
  <2>2. OrderlyInv
    BY AloneInit, PairInit DEF Orderly, OrderlyInv
  <2>3. ToldInv
    BY DEF Init, ToldInv, ToldOrMarked, ToldOf
  <2> QED
    BY <2>1, <2>2, <2>3 DEF OInv
<1>2. OInv /\ [Next]_vars => OInv'
  <2> SUFFICES ASSUME OInv, [Next]_vars PROVE OInv'
    OBVIOUS
  <2>1. ASSUME NEW t \in Threads, Call(t) \/ ThreadStep(t) \/ TimedOut(t)
        PROVE  OInv'
    <3>1. Inv'
      BY <2>1, TypeCall, CoverCall, TypeStep, CoverStep DEF OInv, Inv
    <3>2. OrderlyInv'
      BY <2>1, OrderlyStep DEF OInv, Inv, TypeInv
    <3>3. ToldInv'
      BY <2>1, OrderlyOneSleep, ToldStep DEF OInv
    <3> QED
      BY <3>1, <3>2, <3>3 DEF OInv
  <2>2. CASE UNCHANGED vars
    BY <2>2 DEF OInv, Inv, TypeInv, TypeOK, PositionOK, Covered, WillResume, OrderlyInv, AloneInv,
                AloneLabels, AloneSlot, AloneWake, AloneReason, PairInv, PairLabels, ModeOf,
                PairSlot, PairWake, PairReason, Resuming, ToldInv, ToldOrMarked, ToldOf, vars,
                slotVars, semVars, cbVars, ownVars, callVars
  <2> QED
    BY <2>1, <2>2 DEF Next
<1> QED
  BY <1>1, <1>2, PTL DEF Spec

(***************************************************************************)
(* Theorems.                                                               *)
(***************************************************************************)
\* What the invariant says of the sleeper, and of everybody asleep.
LEMMA OrderlyImplies == OInv => WakeNotLost /\ WakeReason /\ AwakeMeansResumed
<1> SUFFICES ASSUME OInv PROVE WakeNotLost /\ WakeReason /\ AwakeMeansResumed
  OBVIOUS
<1>1. ASSUME \E s \in Threads : SleepsAlone(s, scene) /\ AloneInv(s)
      PROVE  WakeNotLost /\ WakeReason
  <2>1. PICK s \in Threads : AloneInv(s)
    BY <1>1
  <2>2. \A t \in Threads \ {s} : pc[t] \in {"free"} \cup WakeLabels
    BY <2>1 DEF AloneInv, AloneLabels
  <2>3. WakeNotLost
    BY <2>1, <2>2 DEF AloneInv, AloneWake, WakeNotLost, WakeLabels
  <2>4. WakeReason
    <3>1. pc[s] \in {"resume", "inResume", "give"} /\ s \notin failed => wakeupSource = endedBy
      BY <2>1 DEF AloneInv, AloneReason, Resuming
    <3>2. \A t \in Threads \ {s} : pc[t] \notin {"resume", "inResume", "give"}
      BY <2>2 DEF WakeLabels
    <3> QED
      BY <3>1, <3>2 DEF WakeReason
  <2> QED
    BY <2>3, <2>4
<1>2. ASSUME \E s, u \in Threads : PowersOff(s, u, scene) /\ PairInv(s, u)
      PROVE  WakeNotLost /\ WakeReason
  <2>1. PICK s \in Threads, u \in Threads : PairInv(s, u)
    BY <1>2
  <2>2. /\ \A t \in Threads \ {s, u} : pc[t] = "free"
        /\ pc[u] \in {"free", "off"} \cup DeepLabels \cup ChainLabels
        /\ pc[u] \in {"resume", "inResume"} => u \in failed
    BY <2>1 DEF PairInv, PairLabels, ModeOf
  <2>3. WakeNotLost
    BY <2>1, <2>2 DEF PairInv, PairWake, WakeNotLost, DeepLabels, ChainLabels
  <2>4. WakeReason
    <3>1. pc[s] \in {"resume", "inResume", "give"} /\ s \notin failed => wakeupSource = endedBy
      BY <2>1 DEF PairInv, PairReason, Resuming
    <3>2. \A t \in Threads \ {s} : pc[t] \in {"resume", "inResume", "give"} => t \in failed
      BY <2>2 DEF DeepLabels, ChainLabels
    <3> QED
      BY <3>1, <3>2 DEF WakeReason
  <2> QED
    BY <2>3, <2>4
<1>3. AwakeMeansResumed
  <2> SUFFICES ASSUME NobodySleeps, NEW c \in Callbacks, told[c] # "up" PROVE FALSE
    BY DEF AwakeMeansResumed
  <2>1. suspended = {}
    BY CoveredImplies DEF OInv, Inv, NoFlagLeft
  <2>2. \A t \in Threads : pc[t] # "inSuspend"
    BY DEF NobodySleeps, ChainLabels
  <2> QED
    BY <2>1, <2>2 DEF OInv, ToldInv, ToldOrMarked
<1> QED
  BY <1>1, <1>2, <1>3 DEF OInv, OrderlyInv

\* A wakeup reaches the sleeper whenever it comes, also while pm_notify_suspend runs: the
\* semaphore, armed before the slot is taken, keeps it (comment in halo_pm_sleep_light).
THEOREM WakeupReachesSleeper == Spec /\ Orderly(scene) => []WakeNotLost
  BY OrderlyInvariance, OrderlyImplies, PTL

\* halo_pm_get_wakeup_source() tells the sleeper what ended its sleep, when a timeout and a
\* wakeup, or wakeups of several threads, race to clear is_sleeping.
THEOREM WakeupReasonTold == Spec /\ Orderly(scene) => []WakeReason
  BY OrderlyInvariance, OrderlyImplies, PTL

\* Every component that prepared for a sleep is resumed, wherever the sleep ends: at the
\* timeout, at a wakeup before the wait, at a callback that refuses, at a takeover.
THEOREM EverybodyResumes == Spec /\ Orderly(scene) => []AwakeMeansResumed
  BY OrderlyInvariance, OrderlyImplies, PTL

\* The callback list is walked by one chain at a time, as the comment on pm_notify_suspend
\* claims, also when a power-off takes the slot over.
THEOREM OneChain == Spec /\ Orderly(scene) => []ChainsDoNotOverlap
<1>1. OInv => ChainsDoNotOverlap
  BY OrderlyOneSleep DEF OInv, OneSleep, Asleep, ChainsDoNotOverlap
<1> QED
  BY <1>1, OrderlyInvariance, PTL

\* halo_pm_get_sleep_mode() tells a callback the sleep it is suspended for.
THEOREM ModeSeen == Spec /\ Orderly(scene) => []CallbackSeesItsMode
<1>1. OInv => CallbackSeesItsMode
  BY DEF OInv, ToldInv, ToldOf, CallbackSeesItsMode
<1> QED
  BY <1>1, OrderlyInvariance, PTL

\* Power goes when every component was told of it, whatever sleep halo_pm_sleep_deep took
\* over: its chain starts when the chains of that sleep are done.
THEOREM AllToldOfPowerOff == Spec /\ Orderly(scene) => []PowerOffTellsAll
<1>1. OInv => PowerOffTellsAll
  BY DEF OInv, ToldInv, ToldOf, PowerOffTellsAll
<1> QED
  BY <1>1, OrderlyInvariance, PTL

\* The callbacks registered by these calls, each with its priority; the list is what
\* registration made of them.
Registers(calls) ==
  /\ calls \in Seq({n \in [cb : Callbacks, priority : Int] : n.priority = Priority[n.cb]})
  /\ Order = [i \in 1..Len(calls) |-> Registered(calls)[i].cb]

\* So it is in order of priority.
LEMMA OrderSorted ==
  ASSUME NEW calls, Registers(calls)
  PROVE  \A i, j \in DOMAIN Order : i < j => Priority[Order[i]] >= Priority[Order[j]]
<1> DEFINE N == {n \in [cb : Callbacks, priority : Int] : n.priority = Priority[n.cb]}
<1>1. Nodes(N) /\ calls \in Seq(N)
  BY DEF Nodes, Registers
<1>2. PICK list : list = Registered(calls)
  OBVIOUS
<1>3. list \in Seq(N) /\ Len(list) = Len(calls) /\ Descending(list)
  <2> HIDE DEF N
  <2> QED
    BY <1>1, <1>2, RegistrationSorts
<1>4. DOMAIN Order = 1..Len(list) /\ \A i \in 1..Len(list) : Order[i] = list[i].cb
  BY <1>2, <1>3 DEF Registers
<1>5. \A i \in 1..Len(list) : list[i].priority = Priority[list[i].cb]
  BY <1>3
<1> QED
  BY <1>3, <1>4, <1>5 DEF Descending

\* A suspend chain over the list that registration made suspends a component after all of
\* higher priority, whatever the order they registered in.
THEOREM PriorityOrder ==
  ASSUME NEW calls, Registers(calls)
  PROVE  Spec /\ Orderly(scene) => []HigherGoesFirst
<1>1. OInv => HigherGoesFirst
  <2> SUFFICES ASSUME OInv, NEW t \in Threads, NEW c \in Callbacks, NEW d \in Callbacks,
                      pc[t] = "inSuspend", Order[idx[t]] = d, Priority[c] > Priority[d]
               PROVE  told[c] = mode[t] \/ mode[t] \in Skips[c]
    BY DEF HigherGoesFirst
  <2>1. PICK i \in DOMAIN Order : Order[i] = c
    BY PmAssumption DEF PmAssumption
  <2>2. idx[t] \in DOMAIN Order
    BY DEF OInv, Inv, TypeInv, TypeOK
  <2>3. i < idx[t]
    <3>1. Priority[c] \in Int /\ Priority[d] \in Int
      BY PmAssumption DEF PmAssumption
    <3>2. ~(idx[t] < i) /\ idx[t] # i
      BY <2>1, <2>2, <3>1, OrderSorted
    <3> QED
      BY <2>2, <3>2, OrderFacts
  <2> QED
    BY <2>1, <2>3 DEF OInv, ToldInv, ToldOf
<1> QED
  BY <1>1, OrderlyInvariance, PTL

==============================================================================
