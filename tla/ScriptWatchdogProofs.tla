------------------------- MODULE ScriptWatchdogProofs -------------------------
(***************************************************************************)
(* What holds of the services of a view for any number of tasks, timeouts, *)
(* clients, downloads and clips.                                           *)
(*                                                                         *)
(* The script watchdog: its types, and to which deadline the monitor holds *)
(* a task.  The DevTools endpoint: whose a socket and a session are.       *)
(* Downloads: what the host hears of them, and in which order.  The audio  *)
(* player: its clock.                                                      *)
(***************************************************************************)
EXTENDS MCServices, SequenceTheorems, TLAPS

(* TypeOK, and what main still has to do.                                  *)
Typed ==
  /\ TypeOK
  /\ main \in {"cancel_before", "first"} => generation < MaxTasks
  /\ main = "second" => tasks # <<>> /\ generation > 0

(* The order of WillProcessTask that the code has.                         *)
LEMMA Order == Bumps = "first" /\ Arms = "second"
BY DEF Bumps, Arms

LEMMA TypedInit == Init => Typed
<1>1. <<>> \in Seq(Generations) /\ <<>> \in Seq(Nat) BY EmptySeq
<1>2. 0 \in Generations /\ 1 \in 1 .. MaxTime BY ConstantsAssumption DEF Generations
<1> SUFFICES ASSUME Init PROVE Typed OBVIOUS
<1>3. TypeOK
  <2> USE DEF Init
  <2>1. timeout \in Timeouts /\ deadline \in Nat /\ d \in Nat /\ now \in 1 .. MaxTime
        BY <1>2
  <2>2. generation \in Generations /\ g \in Generations BY <1>2
  <2>3. tasks \in Seq(Generations) /\ armed \in Seq(Nat) BY <1>1
  <2>4. nested \subseteq Generations /\ killed \subseteq Generations \X BOOLEAN OBVIOUS
  <2> QED BY <2>1, <2>2, <2>3, <2>4 DEF TypeOK
<1> QED BY <1>3 DEF Typed, Init

LEMMA TickInTime == now \in 1 .. MaxTime /\ Tick => now' \in 1 .. MaxTime
BY ConstantsAssumption DEF Tick

LEMMA FrontOfTasks ==
  tasks \in Seq(Generations) /\ Depth \in Nat \ {0} =>
    SubSeq(tasks, 1, Depth - 1) \in Seq(Generations)
      /\ Len(SubSeq(tasks, 1, Depth - 1)) = Depth - 1
<1> SUFFICES ASSUME tasks \in Seq(Generations), Depth \in Nat \ {0}
             PROVE  SubSeq(tasks, 1, Depth - 1) \in Seq(Generations)
                      /\ Len(SubSeq(tasks, 1, Depth - 1)) = Depth - 1
    OBVIOUS
<1>1. \A i \in 1 .. Len(tasks) : tasks[i] \in Generations BY LenProperties
<1>2. \A i \in 1 .. (Depth - 1) : tasks[i] \in Generations BY <1>1 DEF Depth
<1> QED BY <1>2, SubSeqProperties

LEMMA TickOnlyTime ==
  Tick => /\ now' = now + 1
          /\ UNCHANGED <<timeout, deadline, generation, terminated, running, terminate>>
          /\ UNCHANGED <<main, tasks, runaway, monitor, d, g, armed, nested, killed>>
BY DEF Tick, mainVars, monitorVars, history

LEMMA TickForward == Typed /\ Tick => now \in Int /\ now' \in Int /\ now' > now
<1> SUFFICES ASSUME Typed, Tick PROVE now \in Int /\ now' \in Int /\ now' > now OBVIOUS
<1>1. now \in 1 .. MaxTime BY Zenon DEF Typed, TypeOK
<1>2. now \in Int BY <1>1
<1>3. now' = now + 1 BY TickOnlyTime, Zenon
<1> QED BY <1>2, <1>3

LEMMA TypedTick == Typed /\ Tick => Typed'
<1> SUFFICES ASSUME Typed, Tick PROVE Typed' OBVIOUS
<1>1. now' \in 1 .. MaxTime BY TickInTime DEF Typed, TypeOK
<1>2. /\ UNCHANGED <<timeout, deadline, generation, terminated, running, terminate>>
      /\ UNCHANGED <<main, tasks, runaway, monitor, d, g, armed, nested, killed>>
      BY TickOnlyTime, Zenon
<1>4. TypeOK'
  <2>1. /\ tasks' \in Seq(Generations) /\ armed' \in Seq(Nat) /\ nested' \subseteq Generations
        /\ killed' \subseteq Generations \X BOOLEAN
        BY <1>2, Zenon DEF Typed, TypeOK
  <2>2. /\ timeout' \in Timeouts /\ deadline' \in Nat /\ d' \in Nat
        /\ generation' \in Generations /\ g' \in Generations
        /\ terminated' \in BOOLEAN /\ running' \in BOOLEAN /\ terminate' \in BOOLEAN
        /\ runaway' \in BOOLEAN /\ (tasks' = <<>> => deadline' = 0)
        BY <1>2, Zenon DEF Typed, TypeOK
  <2>3. UNCHANGED <<main, monitor>> BY <1>2, Zenon
  <2> QED BY <1>1, <2>1, <2>2, <2>3, Zenon DEF Typed, TypeOK
<1>3. UNCHANGED <<main, generation, tasks>> BY TickOnlyTime, Zenon
<1> QED BY <1>4, <1>3, Zenon DEF Typed

(* The steps of the host, of the clock and of the monitor.                 *)
LEMMA TypedElsewhere ==
  Typed /\ (Start \/ Stop \/ Join \/ Tick \/ Monitor \/ \E t \in Timeouts : SetTimeoutMs(t))
    => Typed'
<1> SUFFICES ASSUME Typed,
                    Start \/ Stop \/ Join \/ Tick \/ Monitor
                      \/ \E t \in Timeouts : SetTimeoutMs(t)
             PROVE  Typed'
    OBVIOUS
<1> USE ConstantsAssumption DEF Typed, TypeOK, shared, mainVars, monitorVars, history,
                                Generations, Goes
<1>1. CASE Start BY <1>1 DEF Start
<1>2. CASE Stop BY <1>2 DEF Stop
<1>3. CASE Join BY <1>3 DEF Join
<1>4. CASE Tick BY <1>4, TypedTick
<1>5. CASE \E t \in Timeouts : SetTimeoutMs(t) BY <1>5 DEF SetTimeoutMs
<1>6. CASE Wake BY <1>6 DEF Wake
<1>7. CASE Leave BY <1>7 DEF Leave
<1>8. CASE ReadGeneration BY <1>8 DEF ReadGeneration
<1>9. CASE Claim BY <1>9 DEF Claim
<1>10. CASE Check BY <1>10 DEF Check
<1>11. CASE Mark BY <1>11 DEF Mark
<1>12. CASE TerminateExecution BY <1>12 DEF TerminateExecution
<1>13. CASE Recheck BY <1>13 DEF Recheck
<1>14. CASE Undo BY <1>14 DEF Undo
<1>15. CASE Unmark BY <1>15 DEF Unmark
<1> QED BY <1>1, <1>2, <1>3, <1>4, <1>5, <1>6, <1>7, <1>8, <1>9, <1>10, <1>11, <1>12,
           <1>13, <1>14, <1>15 DEF Monitor

(* The steps of the main thread.                                           *)
LEMMA TypedMain ==
  Typed /\ (WillProcessTask \/ CancelBefore \/ Bump \/ Arm \/ RunScript
              \/ ScriptIsTerminated \/ DidProcessTask \/ Ended \/ CancelAfter)
    => Typed'
<1> SUFFICES ASSUME Typed,
                    WillProcessTask \/ CancelBefore \/ Bump \/ Arm \/ RunScript
                      \/ ScriptIsTerminated \/ DidProcessTask \/ Ended \/ CancelAfter
             PROVE  Typed'
    OBVIOUS
<1> USE ConstantsAssumption, Order
    DEF Typed, TypeOK, shared, mainVars, monitorVars, history, Generations, After
<1>1. CASE WillProcessTask BY <1>1 DEF WillProcessTask
<1>2. CASE CancelBefore BY <1>2 DEF CancelBefore
<1>3. CASE Bump
  <2>1. generation' \in Generations /\ generation' > 0 BY <1>3 DEF Bump
  <2>2. tasks \in Seq(Generations) /\ tasks' = Append(tasks, generation') BY <1>3 DEF Bump
  <2>3. tasks' \in Seq(Generations) /\ Len(tasks') = Len(tasks) + 1 /\ Len(tasks) \in Nat
        BY ONLY <2>1, <2>2
  <2>4. tasks' # <<>> BY ONLY <2>3
  <2>5. nested' \subseteq Generations BY <1>3, <2>1 DEF Bump
  <2> QED BY <1>3, <2>1, <2>3, <2>4, <2>5 DEF Bump
<1>4. CASE Arm
  <2>1. deadline' \in Nat BY <1>4 DEF Arm
  <2>2. armed' \in Seq(Nat) BY <1>4, <2>1 DEF Arm
  <2> QED BY <1>4, <2>1, <2>2 DEF Arm
<1>5. CASE RunScript BY <1>5 DEF RunScript
<1>6. CASE ScriptIsTerminated
  <2>1. Innermost \in Generations BY <1>6 DEF ScriptIsTerminated, Innermost, Depth
  <2>2. HasOverrun \in BOOLEAN BY Zenon DEF HasOverrun
  <2>3. killed' \subseteq Generations \X BOOLEAN BY <1>6, <2>1, <2>2 DEF ScriptIsTerminated
  <2> QED BY <1>6, <2>3 DEF ScriptIsTerminated
<1>7. CASE DidProcessTask
  <2>1. Depth \in Nat \ {0} BY <1>7, EmptySeq DEF DidProcessTask, Depth
  <2>2. tasks' \in Seq(Generations) /\ Len(tasks') = Depth - 1
        BY <1>7, <2>1, FrontOfTasks DEF DidProcessTask
  <2>3. tasks' = <<>> => deadline' = 0
        BY <1>7, <2>1, <2>2 DEF DidProcessTask, Disarms
  <2> QED BY <1>7, <2>2, <2>3 DEF DidProcessTask
<1>8. CASE Ended BY <1>8 DEF Ended
<1>9. CASE CancelAfter BY <1>9 DEF CancelAfter
<1> QED BY <1>1, <1>2, <1>3, <1>4, <1>5, <1>6, <1>7, <1>8, <1>9

LEMMA TypedStep == Typed /\ [Next]_vars => Typed'
<1> SUFFICES ASSUME Typed, [Next]_vars PROVE Typed' OBVIOUS
<1>1. CASE UNCHANGED vars
  <2>1. TypeOK'
        BY <1>1, Zenon DEF Typed, TypeOK, vars, shared, mainVars, monitorVars, history
  <2>2. UNCHANGED <<main, generation, tasks>>
        BY <1>1, Zenon DEF vars, shared, mainVars
  <2> QED BY <2>1, <2>2, Zenon DEF Typed
<1>2. CASE Next BY <1>2, TypedElsewhere, TypedMain DEF Next
<1> QED BY <1>1, <1>2

LEMMA TypedAlways == Spec => []Typed
BY TypedInit, TypedStep, PTL DEF Spec

(* The types hold whatever runs inside what, and a deadline is never armed *)
(* outside of a task.                                                      *)
THEOREM TypeCorrect == Spec => []TypeOK
<1>1. Typed => TypeOK BY DEF Typed
<1> QED BY <1>1, TypedAlways, PTL
------------------------------------------------------------------------------
(* A deadline that is armed is the last one armed, and can only be while a *)
(* task runs; between the steps of WillProcessTask it is one that the task *)
(* outside has left.  The generation read after a deadline is, as long as  *)
(* that deadline is there to be claimed, that of its task or of a task     *)
(* inside it which has not armed its own yet.                              *)
LastArmed ==
  /\ Len(armed) = IF main = "second" THEN generation - 1 ELSE generation
  /\ deadline # 0 => tasks # <<>> /\ Len(armed) > 0 /\ armed[Len(armed)] = deadline
  /\ main = "second" /\ deadline # 0 => generation \in nested
  /\ monitor \in {"read", "claim"} => d # 0 /\ d < now
  /\ monitor = "claim" /\ deadline = d =>
       \/ g = Len(armed)
       \/ g = Len(armed) + 1 /\ g \in nested

Claimed == Typed /\ LastArmed /\ ClaimIsOfItsTask

LEMMA ClaimedInit == Init => Claimed
<1>1. Init => LastArmed BY EmptySeq DEF Init, LastArmed
<1>2. Init => ClaimIsOfItsTask BY DEF Init, ClaimIsOfItsTask, Holds
<1> QED BY <1>1, <1>2, TypedInit DEF Claimed

LEMMA StaysPast == \A x, y, z \in Int : x < y /\ z > y => x < z
OBVIOUS

LEMMA Later ==
  ASSUME Typed, Tick
  PROVE  d < now => d < now'
<1>1. d \in Int
  <2>1. d \in Nat BY Zenon DEF Typed, TypeOK
  <2> QED BY <2>1
<1> QED BY <1>1, TickForward, StaysPast, Zenon

LEMMA LastArmedTick == Typed /\ LastArmed /\ Tick => LastArmed'
<1> SUFFICES ASSUME Typed, LastArmed, Tick PROVE LastArmed' OBVIOUS
<1>1. d < now => d < now' BY Later
<1> QED BY <1>1, TickOnlyTime, Zenon DEF LastArmed

LEMMA LastArmedRead == Typed /\ LastArmed /\ ReadGeneration => LastArmed'
<1> SUFFICES ASSUME Typed, LastArmed, ReadGeneration PROVE LastArmed' OBVIOUS
<1>1. /\ monitor = "read" /\ monitor' = "claim" /\ g' = generation
      /\ d' = d /\ now' = now /\ deadline' = deadline /\ generation' = generation
      /\ main' = main /\ tasks' = tasks /\ armed' = armed /\ nested' = nested
      BY DEF ReadGeneration, Goes, shared, mainVars, history
<1>2. generation \in Nat /\ Len(armed) \in Nat
      BY LenProperties, ConstantsAssumption DEF Typed, TypeOK, Generations, ConstantsAssumption
<1>3. d # 0 /\ d < now BY <1>1, Zenon DEF LastArmed
<1>4. CASE main = "second"
  <2>1. Len(armed) = generation - 1 BY <1>4, Zenon DEF LastArmed
  <2>2. generation = Len(armed) + 1 BY <2>1, <1>2
  <2>3. deadline = d => generation \in nested BY <1>3, <1>4, Zenon DEF LastArmed
  <2> QED BY <1>1, <1>3, <2>2, <2>3, Zenon DEF LastArmed
<1>5. CASE main # "second"
  <2>1. Len(armed) = generation BY <1>5, Zenon DEF LastArmed
  <2>2. g' = Len(armed') /\ Len(armed') = generation' BY <1>1, <2>1
  <2>3. main' # "second" BY <1>1, <1>5
  <2>4. deadline' # 0 =>
          tasks' # <<>> /\ Len(armed') > 0 /\ armed'[Len(armed')] = deadline'
        BY <1>1 DEF LastArmed
  <2>5. d' # 0 /\ d' < now' BY <1>1, <1>3
  <2> QED BY <2>2, <2>3, <2>4, <2>5, Zenon DEF LastArmed
<1> QED BY <1>4, <1>5

LEMMA LastArmedStep ==
  ASSUME Typed, LastArmed, Next
  PROVE  LastArmed'
<1> USE ConstantsAssumption, Order
    DEF LastArmed, Typed, TypeOK, shared, mainVars, monitorVars, history, After, Goes, Depth
<1>1. Len(tasks) \in Nat /\ Len(armed) \in Nat BY LenProperties
<1>2. generation \in Nat BY DEF Generations
<1>3. CASE Start BY <1>3 DEF Start
<1>4. CASE Stop BY <1>4 DEF Stop
<1>5. CASE Join BY <1>5 DEF Join
<1>6. CASE \E t \in Timeouts : SetTimeoutMs(t) BY <1>6 DEF SetTimeoutMs
<1>7. CASE WillProcessTask BY <1>7 DEF WillProcessTask
<1>8. CASE CancelBefore BY <1>8 DEF CancelBefore
<1>9. CASE Bump
  <2>1. Len(tasks') = Len(tasks) + 1 BY <1>9, AppendProperties DEF Bump, Generations
  <2>2. tasks' # <<>> BY <2>1, <1>1
  <2>3. deadline # 0 => generation' \in nested' BY <1>9 DEF Bump
  <2>4. nested \subseteq nested' BY <1>9 DEF Bump
  <2> QED BY <1>9, <1>1, <1>2, <2>2, <2>3, <2>4 DEF Bump
<1>10. CASE Arm
  <2>1. deadline' \in Nat BY <1>10 DEF Arm
  <2>2. Len(armed') = Len(armed) + 1 /\ armed'[Len(armed) + 1] = deadline'
        BY <1>10, <2>1, AppendProperties DEF Arm
  <2>3. tasks' # <<>> BY <1>10 DEF Arm
  <2>4. deadline' # 0 => deadline' >= now BY <1>10 DEF Arm
  <2>5. monitor' = "claim" => deadline' # d' BY <1>10, <2>4 DEF Arm
  <2> QED BY <1>10, <1>1, <1>2, <2>1, <2>2, <2>3, <2>5 DEF Arm
<1>11. CASE RunScript BY <1>11 DEF RunScript
<1>12. CASE ScriptIsTerminated BY <1>12 DEF ScriptIsTerminated
<1>13. CASE DidProcessTask
  <2>1. Depth \in Nat \ {0} BY <1>13, EmptySeq DEF DidProcessTask, Depth
  <2>2. Len(tasks') = Depth - 1 BY <1>13, <2>1, FrontOfTasks DEF DidProcessTask
  <2>3. deadline' # 0 => tasks' # <<>> /\ deadline' = deadline
        BY <1>13, <2>1, <2>2 DEF DidProcessTask, Disarms
  <2> QED BY <1>13, <2>3 DEF DidProcessTask
<1>14. CASE Ended BY <1>14 DEF Ended
<1>15. CASE CancelAfter BY <1>15 DEF CancelAfter
<1>16. CASE Wake BY <1>16 DEF Wake
<1>17. CASE Leave BY <1>17 DEF Leave
<1>18. CASE ReadGeneration BY <1>18, LastArmedRead
<1>19. CASE Claim BY <1>19 DEF Claim, Claims
<1>20. CASE Check BY <1>20 DEF Check
<1>21. CASE Mark BY <1>21 DEF Mark
<1>22. CASE TerminateExecution BY <1>22 DEF TerminateExecution
<1>23. CASE Recheck BY <1>23 DEF Recheck
<1>24. CASE Undo BY <1>24 DEF Undo
<1>25. CASE Unmark BY <1>25 DEF Unmark
<1>26. CASE Tick BY <1>26, LastArmedTick
<1> QED BY <1>3, <1>4, <1>5, <1>6, <1>7, <1>8, <1>9, <1>10, <1>11, <1>12, <1>13, <1>14,
           <1>15, <1>16, <1>17, <1>18, <1>19, <1>20, <1>21, <1>22, <1>23, <1>24, <1>25,
           <1>26 DEF Next, Monitor

(* Only Claim begins a claim; deadlines once armed stay on record.         *)
LEMMA ClaimStep ==
  ASSUME Typed, LastArmed, ClaimIsOfItsTask, Next
  PROVE  ClaimIsOfItsTask'
<1>1. CASE Claim
  <2>1. UNCHANGED <<d, g, armed, nested, now>> BY <1>1 DEF Claim, mainVars, history
  <2>2. CASE ~Claims(d)
    <3>1. monitor' = "sleep" BY <1>1, <2>2, Zenon DEF Claim, Goes
    <3> QED BY <3>1 DEF ClaimIsOfItsTask, Holds
  <2>3. CASE Claims(d)
    <3>1. monitor = "claim" /\ deadline = d
          BY <1>1, <2>3, Zenon DEF Claim, Goes, Claims
    <3>2. /\ d # 0 /\ d < now
          /\ \/ g = Len(armed)
             \/ g = Len(armed) + 1 /\ g \in nested
          BY <3>1 DEF LastArmed
    <3>3. Len(armed) > 0 /\ armed[Len(armed)] = d BY <3>1, <3>2 DEF LastArmed
    <3>4. DOMAIN armed = 1 .. Len(armed) /\ Len(armed) \in Nat
          BY LenProperties DEF Typed, TypeOK
    <3>5. Len(armed) \in DOMAIN armed BY <3>3, <3>4
    <3>6. g = Len(armed) + 1 => g - 1 = Len(armed) BY <3>4
    <3>7. \/ g \in DOMAIN armed /\ armed[g] = d
          \/ g \in nested /\ g - 1 \in DOMAIN armed /\ armed[g - 1] = d
          BY <3>2, <3>3, <3>5, <3>6, Zenon
    <3> QED BY <2>1, <3>2, <3>7, Zenon DEF ClaimIsOfItsTask
  <2> QED BY <2>2, <2>3
<1>2. CASE Arm
  <2>1. armed \in Seq(Nat) BY Zenon DEF Typed, TypeOK
  <2>2. deadline' \in Nat
    <3>1. now \in 1 .. MaxTime /\ timeout \in Nat
          BY ConstantsAssumption, Zenon DEF ConstantsAssumption, Typed, TypeOK
    <3>2. now \in Nat BY <3>1
    <3> QED BY <1>2, <3>1, <3>2 DEF Arm
  <2>3. armed' = Append(armed, deadline') BY <1>2, Zenon DEF Arm
  <2>4. \A i \in DOMAIN armed : i \in DOMAIN armed' /\ armed'[i] = armed[i]
    <3>1. Append(armed, deadline') \in Seq(Nat) BY <2>1, <2>2, AppendProperties
    <3>2. DOMAIN armed = 1 .. Len(armed) /\ Len(armed) \in Nat BY <2>1, LenProperties
    <3>3. DOMAIN armed' = 1 .. Len(armed) + 1
          BY <2>1, <2>2, <2>3, <3>1, AppendProperties, LenProperties
    <3>4. \A i \in 1 .. Len(armed) : Append(armed, deadline')[i] = armed[i]
          BY <2>1, <2>2, AppendProperties
    <3> QED BY <2>3, <3>2, <3>3, <3>4
  <2>5. UNCHANGED <<monitor, d, g, now, nested>> BY <1>2 DEF Arm, monitorVars
  <2> QED BY <2>4, <2>5, Zenon DEF ClaimIsOfItsTask, Holds
<1>3. CASE Tick
  <2>1. d < now => d < now' BY <1>3, Later
  <2>2. UNCHANGED <<monitor, d, g, armed, nested>> BY <1>3, TickOnlyTime
  <2> QED BY <2>1, <2>2, Zenon DEF ClaimIsOfItsTask, Holds
<1>4. CASE Check \/ Mark \/ TerminateExecution \/ Recheck \/ Undo \/ Unmark
  <2>1. UNCHANGED <<d, g, now, armed, nested>>
        BY <1>4 DEF Check, Mark, TerminateExecution, Recheck, Undo, Unmark, shared,
                    mainVars, monitorVars, history
  <2>2. Holds
        BY <1>4 DEF Holds, Check, Mark, TerminateExecution, Recheck, Undo, Unmark, Goes
  <2> QED BY <2>1, <2>2, Zenon DEF ClaimIsOfItsTask
<1>5. CASE Start \/ Wake \/ Leave \/ ReadGeneration
  <2>1. ~Holds'
        BY <1>5 DEF Holds, Start, Wake, Leave, ReadGeneration, Goes
  <2> QED BY <2>1, Zenon DEF ClaimIsOfItsTask
<1>6. CASE \/ Stop \/ Join \/ WillProcessTask \/ CancelBefore \/ RunScript
           \/ ScriptIsTerminated \/ DidProcessTask \/ Ended \/ CancelAfter
           \/ \E t \in Timeouts : SetTimeoutMs(t)
  <2>1. UNCHANGED <<monitor, d, g, now, armed, nested>>
        BY <1>6 DEF Stop, Join, WillProcessTask, CancelBefore, RunScript,
                    ScriptIsTerminated, DidProcessTask, Ended, CancelAfter, SetTimeoutMs,
                    shared, monitorVars, history
  <2> QED BY <2>1, Zenon DEF ClaimIsOfItsTask, Holds
<1>7. CASE Bump
  <2>1. UNCHANGED <<monitor, d, g, now, armed>> BY <1>7 DEF Bump, monitorVars
  <2>2. nested \subseteq nested' BY <1>7 DEF Bump
  <2> QED BY <2>1, <2>2, Zenon DEF ClaimIsOfItsTask, Holds
<1> QED BY <1>1, <1>2, <1>3, <1>4, <1>5, <1>6, <1>7, Zenon DEF Next, Monitor

LEMMA ClaimedStep == Claimed /\ [Next]_vars => Claimed'
<1> SUFFICES ASSUME Claimed, [Next]_vars PROVE Claimed' OBVIOUS
<1>1. Typed' BY TypedStep DEF Claimed
<1>2. CASE Next BY <1>1, <1>2, LastArmedStep, ClaimStep DEF Claimed
<1>3. CASE UNCHANGED vars
  <2>1. LastArmed'
        BY <1>3 DEF Claimed, LastArmed, vars, shared, mainVars, monitorVars, history
  <2>2. ClaimIsOfItsTask'
        BY <1>3 DEF Claimed, ClaimIsOfItsTask, Holds, vars, shared, mainVars, monitorVars,
                    history
  <2> QED BY <1>1, <2>1, <2>2 DEF Claimed
<1> QED BY <1>2, <1>3

(* Whatever runs inside what: the deadline that the monitor claims has     *)
(* passed, and it is that of the task whose generation the monitor goes by *)
(* or of the task around it, if that one had not armed its own yet.        *)
THEOREM ClaimsAreSound == Spec => []ClaimIsOfItsTask
<1>1. Claimed => ClaimIsOfItsTask BY DEF Claimed
<1> QED BY <1>1, ClaimedInit, ClaimedStep, PTL DEF Spec

------------------------------------------------------------------------------
(* The DevTools endpoint.                                                  *)
Wants == {"attach", "send", "detach"}
Requested == [by : Clients, what : Wants]

FrameKinds == {"message", "ping", "close"}

ThreadStates ==
  {"none", "headers", "waits", "refused", "attached", "read", "pong", "writes", "leaves",
   "detached", "closes", "done"}

EndpointTyped ==
  /\ conns \subseteq Clients
  /\ thread \in [Clients -> ThreadStates]
  /\ fd \in [Clients -> {"none", "open", "shut", "closed"}]
  /\ closed \in [Clients -> BOOLEAN]
  /\ writer \in [Clients -> Clients \cup {Host, None}]
  /\ engine \in [at : {"idle", "send", "writes", "stop", "join"},
                 to : Clients \cup {None}, left : SUBSET Clients]
  /\ asked \in Seq(Requested)
  /\ target \in [Clients -> Addresses \cup {None}]
  /\ view \in [Addresses -> Nat] /\ views \in Nat
  /\ devtools \in [Addresses -> Clients \cup {Host, None}]
  /\ client \in [Clients -> {"none", "there", "deaf", "gone"}]
  /\ wire \in [Clients -> Seq(FrameKinds)]

Asks(c, w) == \E n \in DOMAIN asked : asked[n].by = c /\ asked[n].what = w

(* From its attachment to its detachment.                                  *)
InSession(c) ==
  \/ thread[c] \in {"attached", "read", "pong", "writes", "leaves"}
  \/ thread[c] = "waits" /\ ~Asks(c, "attach")

(* A connection asks for one thing at a time, and waits.                   *)
AskedInv ==
  /\ \A m, n \in DOMAIN asked : asked[m].by = asked[n].by => m = n
  /\ \A n \in DOMAIN asked : thread[asked[n].by] = "waits"
  /\ \A c \in Clients : thread[c] \notin {"none", "headers", "done"} => target[c] \in Addresses
  /\ \A c \in Clients : client[c] = "none" => thread[c] = "none"

(* A socket is closed when its thread is done; and it is on the list, or   *)
(* written to, only by those whom the engine thread may answer.            *)
SocketInv ==
  /\ \A c \in Clients : fd[c] \in {"open", "shut"} <=> thread[c] \notin {"none", "done"}
  /\ \A c \in conns : InSession(c) /\ thread[c] # "attached" /\ ~Asks(c, "detach")
  /\ engine.at = "stop" => engine.left \subseteq conns
  /\ engine.at \in {"send", "writes"} => engine.to \in Clients
  /\ \A c \in Clients : engine.at \in {"send", "writes"} /\ engine.to = c => InSession(c)
  /\ \A c \in Clients :
       /\ writer[c] \in Clients => writer[c] = c /\ thread[c] = "writes"
       /\ writer[c] = Host => engine.at = "writes" /\ engine.to = c

(* A session is that of a client which asked for its view.                 *)
SessionInv ==
  /\ \A a \in Addresses, c \in Clients : devtools[a] = c => target[c] = a /\ InSession(c)
  /\ \A a \in Addresses : view[a] = 0 => devtools[a] = None

EndpointInv == EndpointTyped /\ AskedInv /\ SocketInv /\ SessionInv

LEMMA EndpointInit == ASSUME Endpoint!Init PROVE EndpointInv
<1>1. EndpointTyped
  BY DEF Endpoint!Init, Endpoint!Idle, EndpointTyped, ThreadStates
<1>2. /\ asked = <<>> /\ conns = {} /\ engine.at = "idle"
      /\ \A c \in Clients : thread[c] = "none" /\ fd[c] = "none" /\ writer[c] = None
      /\ \A a \in Addresses : devtools[a] = None
  BY DEF Endpoint!Init, Endpoint!Idle
<1>3. AskedInv /\ SocketInv /\ SessionInv
  BY <1>2, ServicesAssumption DEF AskedInv, SocketInv, SessionInv
<1> QED
  BY <1>1, <1>3 DEF EndpointInv

Present == {"attached", "read", "pong", "writes", "leaves"}

(* Nothing changes about who is in a session, and with which view.         *)
SameSessions ==
  /\ \A c \in Clients : InSession(c)' => InSession(c) /\ target'[c] = target[c]
  /\ UNCHANGED <<view, views, devtools>>

(* A step of a connection's thread that asks for nothing.                  *)
Moves(c, s) ==
  /\ thread[c] # "waits" /\ s \notin {"waits", "attached", "none"}
  /\ thread' = [thread EXCEPT ![c] = s]
  /\ s \in Present <=> thread[c] \in Present
  /\ s \in {"headers", "done"} \/ thread[c] \notin {"none", "headers", "done"}
  /\ \/ conns' = conns
     \/ thread[c] = "attached" /\ conns' = conns \cup {c}
  /\ fd' \in [Clients -> {"none", "open", "shut", "closed"}]
  /\ \A e \in Clients : e # c => fd'[e] = fd[e]
  /\ fd'[c] \in {"open", "shut"} <=> s # "done"
  /\ closed' \in [Clients -> BOOLEAN]
  /\ writer' \in [Clients -> Clients \cup {Host, None}]
  /\ \A e \in Clients : e # c => writer'[e] = writer[e]
  /\ \/ writer'[c] = None
     \/ writer'[c] = c /\ s = "writes"
     \/ writer'[c] = Host /\ writer[c] = Host
  /\ \A e \in Clients : client'[e] = "none" => client[e] = "none" /\ e # c
  /\ client' \in [Clients -> {"none", "there", "deaf", "gone"}]
  /\ wire' \in [Clients -> Seq(FrameKinds)]
  /\ UNCHANGED <<asked, engine, devtools, view, views, target>>

LEMMA ThreadMoves ==
  ASSUME EndpointInv, NEW c \in Clients, NEW s \in ThreadStates, Moves(c, s)
  PROVE  EndpointInv' /\ SameSessions
<1> USE ServicesAssumption DEF Moves
<1>1. EndpointTyped'
  BY DEF EndpointInv, EndpointTyped
<1>2. /\ thread \in [Clients -> ThreadStates] /\ thread'[c] = s /\ conns \subseteq Clients
      /\ \A e \in Clients : e # c => thread'[e] = thread[e]
      /\ \A e, w : Asks(e, w)' <=> Asks(e, w)
      /\ \A n \in DOMAIN asked : asked[n].by \in Clients /\ asked[n].by # c
  <2>1. \A n \in DOMAIN asked : asked[n] \in Requested
    BY DEF EndpointInv, EndpointTyped
  <2>2. \A n \in DOMAIN asked : asked[n].by \in Clients
    BY <2>1 DEF Requested
  <2>3. \A n \in DOMAIN asked : asked[n].by # c
    BY DEF EndpointInv, AskedInv
  <2> QED
    BY <2>2, <2>3 DEF EndpointInv, EndpointTyped, Asks
<1>3. AskedInv'
  BY <1>2 DEF EndpointInv, AskedInv
<1>4. \A e \in Clients : InSession(e)' <=> InSession(e)
  BY <1>2 DEF InSession, Present
<1>5. SocketInv'
  <2>1. \A e \in conns : e # c => e \in conns'
    OBVIOUS
  <2>2. \A e \in conns' : InSession(e)' /\ thread'[e] # "attached" /\ ~Asks(e, "detach")'
    <3>1. ~Asks(c, "detach")
      BY <1>2 DEF Asks
    <3>2. thread[c] = "attached" => InSession(c)
      BY DEF InSession
    <3> QED
      BY <1>2, <1>4, <3>1, <3>2 DEF EndpointInv, SocketInv
  <2>3. \A e \in Clients : fd'[e] \in {"open", "shut"} <=> thread'[e] \notin {"none", "done"}
    <3>1. \A e \in Clients : fd[e] \in {"open", "shut"} <=> thread[e] \notin {"none", "done"}
      BY DEF EndpointInv, SocketInv
    <3>2. \A e \in Clients : e # c => fd'[e] = fd[e] /\ thread'[e] = thread[e]
      BY <1>2
    <3>3. fd'[c] \in {"open", "shut"} <=> thread'[c] \notin {"none", "done"}
      BY <1>2
    <3> QED
      BY <3>1, <3>2, <3>3
  <2>4. /\ engine'.at = "stop" => engine'.left \subseteq conns'
        /\ engine'.at \in {"send", "writes"} => engine'.to \in Clients
        /\ \A e \in Clients : engine'.at \in {"send", "writes"} /\ engine'.to = e => InSession(e)'
    BY <1>4 DEF EndpointInv, SocketInv
  <2>5. \A e \in Clients :
          /\ writer'[e] \in Clients => writer'[e] = e /\ thread'[e] = "writes"
          /\ writer'[e] = Host => engine'.at = "writes" /\ engine'.to = e
    BY <1>2 DEF EndpointInv, SocketInv
  <2> QED
    BY <2>2, <2>3, <2>4, <2>5 DEF SocketInv
<1>6. SessionInv'
  BY <1>4 DEF EndpointInv, SessionInv
<1>7. SameSessions
  BY <1>4 DEF SameSessions
<1> QED
  BY <1>1, <1>3, <1>5, <1>6, <1>7 DEF EndpointInv

(* A connection asks, and waits.                                           *)
LEMMA ThreadAsks ==
  ASSUME EndpointInv, NEW c \in Clients, NEW w \in Wants,
         thread' = [thread EXCEPT ![c] = "waits"],
         asked' = Append(asked, [by |-> c, what |-> w]),
         \/ thread[c] = "headers" /\ w = "attach" /\ conns' = conns
         \/ thread[c] = "read" /\ w = "send" /\ conns' = conns /\ target' = target
         \/ /\ thread[c] = "leaves" /\ w = "detach" /\ engine.at # "stop" /\ target' = target
            /\ conns' = conns \ {c},
         target' \in [Clients -> Addresses \cup {None}], target'[c] \in Addresses,
         \A e \in Clients : e # c => target'[e] = target[e],
         wire' \in [Clients -> Seq(FrameKinds)],
         UNCHANGED <<fd, closed, writer, engine, devtools, view, views, client>>
  PROVE  EndpointInv' /\ SameSessions
<1> USE ServicesAssumption
<1> PICK r \in Requested : r = [by |-> c, what |-> w]
  BY DEF Requested
<1>1. r.by = c /\ r.what = w /\ asked' = Append(asked, r) /\ asked \in Seq(Requested)
  BY DEF EndpointInv, EndpointTyped
<1>2. EndpointTyped'
  <2>1. asked' \in Seq(Requested)
    BY <1>1
  <2> QED
    BY <2>1 DEF EndpointInv, EndpointTyped, ThreadStates
<1>3. /\ thread'[c] = "waits"
      /\ \A e \in Clients : e # c => thread'[e] = thread[e]
  BY DEF EndpointInv, EndpointTyped
<1>4. /\ Len(asked) \in Nat /\ DOMAIN asked = 1 .. Len(asked)
      /\ DOMAIN asked' = 1 .. Len(asked) + 1
      /\ \A n \in DOMAIN asked : asked'[n] = asked[n] /\ asked[n].by \in Clients
      /\ asked'[Len(asked) + 1] = r
  <2>1. \A n \in DOMAIN asked : asked[n] \in Requested
    BY <1>1
  <2> QED
    BY <1>1, <2>1 DEF Requested
<1>5. \A n \in DOMAIN asked : asked[n].by # c
  BY <1>1 DEF EndpointInv, AskedInv
<1>6. \A e, x : Asks(e, x)' <=> (Asks(e, x) \/ (e = c /\ x = w))
  <2>1. \A n \in DOMAIN asked' : n \in DOMAIN asked \/ n = Len(asked) + 1
    BY <1>4
  <2>2. \A n \in DOMAIN asked : n \in DOMAIN asked' /\ asked'[n] = asked[n]
    BY <1>4
  <2>3. Len(asked) + 1 \in DOMAIN asked' /\ asked'[Len(asked) + 1] = r
    BY <1>4
  <2>4. ASSUME NEW e, NEW x, Asks(e, x)'
        PROVE  Asks(e, x) \/ (e = c /\ x = w)
    <3>1. PICK n \in DOMAIN asked' : asked'[n].by = e /\ asked'[n].what = x
      BY <2>4 DEF Asks
    <3>2. CASE n \in DOMAIN asked
      BY <2>2, <3>1, <3>2 DEF Asks
    <3>3. CASE n = Len(asked) + 1
      BY <1>1, <2>3, <3>1, <3>3
    <3> QED
      BY <2>1, <3>2, <3>3
  <2>5. ASSUME NEW e, NEW x, Asks(e, x) \/ (e = c /\ x = w)
        PROVE  Asks(e, x)'
    <3>1. CASE Asks(e, x)
      BY <2>2, <3>1 DEF Asks
    <3>2. CASE e = c /\ x = w
      BY <1>1, <2>3, <3>2 DEF Asks
    <3> QED
      BY <2>5, <3>1, <3>2
  <2> QED
    BY <2>4, <2>5
<1>7. \A x : ~Asks(c, x)
  BY <1>5 DEF Asks
<1>8. AskedInv'
  <2>1. \A m, n \in DOMAIN asked' : asked'[m].by = asked'[n].by => m = n
    BY <1>1, <1>4, <1>5 DEF EndpointInv, AskedInv
  <2>2. \A n \in DOMAIN asked' : thread'[asked'[n].by] = "waits"
    BY <1>1, <1>3, <1>4 DEF EndpointInv, AskedInv
  <2>3. \A e \in Clients : thread'[e] \notin {"none", "headers", "done"} => target'[e] \in Addresses
    BY <1>3 DEF EndpointInv, AskedInv
  <2>4. \A e \in Clients : client'[e] = "none" => thread'[e] = "none"
    BY <1>3 DEF EndpointInv, AskedInv
  <2> QED
    BY <2>1, <2>2, <2>3, <2>4 DEF AskedInv
<1>9. \A e \in Clients : InSession(e)' <=> InSession(e)
  BY <1>3, <1>6, <1>7 DEF InSession, Wants
<1>10. SocketInv'
  <2>1. \A e \in conns' : InSession(e)' /\ thread'[e] # "attached" /\ ~Asks(e, "detach")'
    BY <1>3, <1>6, <1>7, <1>9 DEF EndpointInv, EndpointTyped, SocketInv, InSession
  <2>2. /\ engine'.at = "stop" => engine'.left \subseteq conns'
        /\ engine'.at \in {"send", "writes"} => engine'.to \in Clients
        /\ \A e \in Clients : engine'.at \in {"send", "writes"} /\ engine'.to = e => InSession(e)'
    BY <1>9 DEF EndpointInv, SocketInv
  <2>3. \A e \in Clients : fd'[e] \in {"open", "shut"} <=> thread'[e] \notin {"none", "done"}
    BY <1>3 DEF EndpointInv, SocketInv
  <2>4. \A e \in Clients :
          /\ writer'[e] \in Clients => writer'[e] = e /\ thread'[e] = "writes"
          /\ writer'[e] = Host => engine'.at = "writes" /\ engine'.to = e
    BY <1>3 DEF EndpointInv, SocketInv
  <2> QED
    BY <2>1, <2>2, <2>3, <2>4 DEF SocketInv
<1>11. SessionInv'
  BY <1>9 DEF EndpointInv, SessionInv, InSession
<1>12. SameSessions
  <2>1. InSession(c)' => target'[c] = target[c]
    BY <1>3, <1>6 DEF InSession
  <2> QED
    BY <1>9, <2>1 DEF SameSessions
<1> QED
  BY <1>2, <1>8, <1>10, <1>11, <1>12 DEF EndpointInv

(* What the thread of a connection does.                                   *)
LEMMA ThreadStep ==
  ASSUME EndpointInv, NEW c \in Clients, Endpoint!Accept(c) \/ Endpoint!Thread(c)
  PROVE  EndpointInv' /\ SameSessions
<1> USE ServicesAssumption
<1>0. /\ thread \in [Clients -> ThreadStates]
      /\ fd \in [Clients -> {"none", "open", "shut", "closed"}]
      /\ closed \in [Clients -> BOOLEAN]
      /\ writer \in [Clients -> Clients \cup {Host, None}]
      /\ target \in [Clients -> Addresses \cup {None}]
      /\ \A e \in Clients : client[e] = "none" => thread[e] = "none"
      /\ \A e \in Clients : thread[e] \notin {"none", "headers", "done"} => target[e] \in Addresses
      /\ \A e \in Clients : fd[e] \in {"open", "shut"} <=> thread[e] \notin {"none", "done"}
      /\ \A e \in Clients : writer[e] \in Clients => writer[e] = e /\ thread[e] = "writes"
      /\ writer[c] \in Clients \cup {Host, None}
      /\ client \in [Clients -> {"none", "there", "deaf", "gone"}]
      /\ wire \in [Clients -> Seq(FrameKinds)]
  BY DEF EndpointInv, EndpointTyped, AskedInv, SocketInv
<1>1. CASE Endpoint!Accept(c)
  <2>1. client' = [client EXCEPT ![c] = "there"] /\ client[c] = "none"
    BY <1>1 DEF Endpoint!Accept
  <2>2. client \in [Clients -> {"none", "there", "deaf", "gone"}]
    BY DEF EndpointInv, EndpointTyped
  <2>3. \A e \in Clients : client'[e] = "none" => client[e] = "none" /\ e # c
    BY <2>1, <2>2
  <2>4. Moves(c, "headers")
    BY <1>0, <1>1, <2>3 DEF Endpoint!Accept, Endpoint!Goes, Endpoint!serverVars, Endpoint!viewVars,
       ThreadStates, Present, Moves
  <2> QED
    BY <2>4, ThreadMoves DEF ThreadStates
<1>2. CASE Endpoint!HandleConnection(c)
  <2>1. CASE Endpoint!Closes(c) /\ UNCHANGED <<asked, target>>
    <3>1. Moves(c, "done")
      BY <1>0, <1>2, <2>1 DEF Endpoint!HandleConnection, Endpoint!Closes, Endpoint!Goes,
         Endpoint!serverVars, Endpoint!viewVars, Endpoint!clientVars, ThreadStates, Present, Moves
    <3> QED
      BY <3>1, ThreadMoves DEF ThreadStates
  <2>2. ASSUME NEW a \in Addresses, target' = [target EXCEPT ![c] = a],
               Endpoint!RunOnMainSync(c, "attach"), Endpoint!Goes(c, "waits"), UNCHANGED fd
        PROVE  EndpointInv' /\ SameSessions
    <3>1. /\ target' \in [Clients -> Addresses \cup {None}] /\ target'[c] \in Addresses
          /\ \A e \in Clients : e # c => target'[e] = target[e]
      BY <1>0, <2>2
    <3>2. /\ thread[c] = "headers" /\ thread' = [thread EXCEPT ![c] = "waits"]
          /\ asked' = Append(asked, [by |-> c, what |-> "attach"])
          /\ UNCHANGED <<fd, closed, writer, engine, devtools, view, views, client, conns, wire>>
      BY <1>2, <2>2 DEF Endpoint!HandleConnection, Endpoint!RunOnMainSync, Endpoint!Goes,
         Endpoint!serverVars, Endpoint!viewVars, Endpoint!clientVars
    <3> QED
      BY <1>0, <3>1, <3>2, ThreadAsks DEF Wants
  <2> QED
    BY <1>2, <2>1, <2>2 DEF Endpoint!HandleConnection
<1>3. CASE Endpoint!Refuse(c)
  <2>1. Moves(c, "done")
    BY <1>0, <1>3 DEF Endpoint!Refuse, Endpoint!Closes, Endpoint!Goes,
       Endpoint!serverVars, Endpoint!viewVars, Endpoint!clientVars, ThreadStates, Present, Moves
  <2> QED
    BY <2>1, ThreadMoves DEF ThreadStates
<1>4. CASE Endpoint!RegisterConn(c)
  <2>1. Moves(c, "read")
    BY <1>0, <1>4 DEF Endpoint!RegisterConn, Endpoint!ConnsUnlocked, Endpoint!Goes,
       Endpoint!viewVars, Endpoint!clientVars, ThreadStates, Present, Moves
  <2> QED
    BY <2>1, ThreadMoves DEF ThreadStates
<1>5. CASE Endpoint!ReadLoop(c)
  <2>1. UNCHANGED <<conns, fd, closed, writer, target, engine, devtools, view, views, client>>
    BY <1>5 DEF Endpoint!ReadLoop, Endpoint!serverVars, Endpoint!viewVars
  <2>2. thread[c] = "read"
    BY <1>5 DEF Endpoint!ReadLoop
  <2>6. /\ wire' \in [Clients -> Seq(FrameKinds)]
        /\ wire[c] # <<>> => Head(wire[c]) \in FrameKinds
    <3>1. wire[c] \in Seq(FrameKinds)
      BY <1>0
    <3>2. wire[c] # <<>> => Head(wire[c]) \in FrameKinds /\ Tail(wire[c]) \in Seq(FrameKinds)
      BY <3>1, HeadTailProperties
    <3>3. CASE UNCHANGED wire
      BY <1>0, <3>2, <3>3
    <3>4. CASE wire[c] # <<>> /\ wire' = [wire EXCEPT ![c] = Tail(@)]
      BY <1>0, <3>2, <3>4
    <3> QED
      BY <1>5, <3>3, <3>4 DEF Endpoint!ReadLoop
  <2>3. CASE Endpoint!Goes(c, "waits") /\ Endpoint!RunOnMainSync(c, "send")
    BY <1>0, <2>1, <2>2, <2>3, <2>6, ThreadAsks DEF Endpoint!RunOnMainSync, Endpoint!Goes, Wants
  <2>4. CASE Endpoint!Goes(c, "leaves") /\ UNCHANGED asked
    <3>1. Moves(c, "leaves")
      BY <1>0, <2>1, <2>2, <2>4, <2>6 DEF Endpoint!Goes, ThreadStates, Present, Moves
    <3> QED
      BY <3>1, ThreadMoves DEF ThreadStates
  <2>5. CASE Endpoint!Goes(c, "pong") /\ UNCHANGED asked
    <3>1. Moves(c, "pong")
      BY <1>0, <2>1, <2>2, <2>5, <2>6 DEF Endpoint!Goes, ThreadStates, Present, Moves
    <3> QED
      BY <3>1, ThreadMoves DEF ThreadStates
  <2> QED
    BY <1>5, <2>3, <2>4, <2>5, <2>6 DEF Endpoint!ReadLoop, FrameKinds
<1>6. CASE Endpoint!SendControl(c)
  <2>1. CASE closed[c]
    <3>1. Moves(c, "read")
      BY <1>0, <1>6, <2>1 DEF Endpoint!SendControl, Endpoint!Goes,
         Endpoint!serverVars, Endpoint!viewVars, Endpoint!clientVars, ThreadStates, Present, Moves
    <3> QED
      BY <3>1, ThreadMoves DEF ThreadStates
  <2>2. CASE ~closed[c]
    <3>1. writer' = [writer EXCEPT ![c] = c] /\ thread' = [thread EXCEPT ![c] = "writes"]
      BY <1>6, <2>2 DEF Endpoint!SendControl, Endpoint!Goes
    <3>2. /\ writer' \in [Clients -> Clients \cup {Host, None}] /\ writer'[c] = c
          /\ \A e \in Clients : e # c => writer'[e] = writer[e]
      BY <1>0, <3>1
    <3>3. /\ thread[c] = "pong"
          /\ UNCHANGED <<conns, fd, closed, client, wire, asked, engine, devtools, view, views, target>>
      BY <1>6 DEF Endpoint!SendControl, Endpoint!serverVars, Endpoint!viewVars, Endpoint!clientVars
    <3>4. Moves(c, "writes")
      BY <1>0, <3>1, <3>2, <3>3 DEF ThreadStates, Present, Moves
    <3> QED
      BY <3>4, ThreadMoves DEF ThreadStates
  <2> QED
    BY <2>1, <2>2
<1>7. CASE Endpoint!ControlWritten(c)
  <2>1. Moves(c, "read")
    BY <1>0, <1>7 DEF Endpoint!ControlWritten, Endpoint!WriteAll, Endpoint!Goes,
       Endpoint!serverVars, Endpoint!viewVars, Endpoint!clientVars, ThreadStates, Present, Moves
  <2> QED
    BY <2>1, ThreadMoves DEF ThreadStates
<1>8. CASE Endpoint!UnregisterConn(c)
  <2>1. /\ thread[c] = "leaves" /\ engine.at # "stop" /\ conns' = conns \ {c}
        /\ asked' = Append(asked, [by |-> c, what |-> "detach"])
        /\ thread' = [thread EXCEPT ![c] = "waits"]
        /\ UNCHANGED <<fd, closed, writer, engine, devtools, view, views, client, target, wire>>
    BY <1>8 DEF Endpoint!UnregisterConn, Endpoint!ConnsUnlocked, Endpoint!RunOnMainSync, Endpoint!Goes,
       Endpoint!viewVars, Endpoint!clientVars
  <2>2. target[c] \in Addresses
    BY <1>0, <2>1
  <2> QED
    BY <1>0, <2>1, <2>2, ThreadAsks DEF Wants
<1>9. CASE Endpoint!MarkClosed(c)
  <2>1. Moves(c, "closes")
    BY <1>0, <1>9 DEF Endpoint!MarkClosed, Endpoint!Goes,
       Endpoint!serverVars, Endpoint!viewVars, Endpoint!clientVars, ThreadStates, Present, Moves
  <2> QED
    BY <2>1, ThreadMoves DEF ThreadStates
<1>10. CASE Endpoint!SocketClose(c)
  <2>1. Moves(c, "done")
    BY <1>0, <1>10 DEF Endpoint!SocketClose, Endpoint!Closes, Endpoint!Goes,
       Endpoint!serverVars, Endpoint!viewVars, Endpoint!clientVars, ThreadStates, Present, Moves
  <2> QED
    BY <2>1, ThreadMoves DEF ThreadStates
<1> QED
  BY <1>1, <1>2, <1>3, <1>4, <1>5, <1>6, <1>7, <1>8, <1>9, <1>10 DEF Endpoint!Thread

(* The engine thread.                                                      *)
LEMMA ViewsChange ==
  ASSUME EndpointInv, NEW a \in Addresses,
         \/ Endpoint!CreateView(a) \/ Endpoint!DestroyView(a)
         \/ Endpoint!HostAttach(a) \/ Endpoint!HostDetach(a)
  PROVE  EndpointInv'
<1> USE ServicesAssumption
<1>1. /\ UNCHANGED <<conns, thread, fd, closed, writer, target, engine, asked, client, wire>>
      /\ view \in [Addresses -> Nat] /\ views \in Nat
      /\ devtools \in [Addresses -> Clients \cup {Host, None}]
      /\ \A b \in Addresses : view[b] = 0 => devtools[b] = None
  BY DEF EndpointInv, EndpointTyped, SessionInv, Endpoint!CreateView, Endpoint!DestroyView,
     Endpoint!HostAttach, Endpoint!HostDetach, Endpoint!EndSession, Endpoint!serverVars,
     Endpoint!threadVars, Endpoint!clientVars
<1>2. /\ view' \in [Addresses -> Nat] /\ views' \in Nat
      /\ devtools' \in [Addresses -> Clients \cup {Host, None}]
      /\ \A b \in Addresses : devtools'[b] \in {devtools[b], None, Host}
      /\ \A b \in Addresses : view'[b] = 0 => devtools'[b] = None
  <2>1. CASE Endpoint!CreateView(a)
    <3>1. view' = [view EXCEPT ![a] = views'] /\ views' = views + 1 /\ devtools' = devtools
      BY <2>1 DEF Endpoint!CreateView
    <3>2. views' \in Nat /\ views' # 0
      BY <1>1, <3>1
    <3> QED
      BY <1>1, <3>1, <3>2
  <2>2. CASE Endpoint!DestroyView(a)
    BY <1>1, <2>2 DEF Endpoint!DestroyView, Endpoint!EndSession
  <2>3. CASE Endpoint!HostAttach(a)
    BY <1>1, <2>3 DEF Endpoint!HostAttach
  <2>4. CASE Endpoint!HostDetach(a)
    BY <1>1, <2>4 DEF Endpoint!HostDetach, Endpoint!EndSession
  <2> QED
    BY <2>1, <2>2, <2>3, <2>4
<1>3. EndpointTyped'
  BY <1>1, <1>2 DEF EndpointInv, EndpointTyped
<1>4. AskedInv'
  BY <1>1 DEF EndpointInv, AskedInv
<1>5. \A c : InSession(c)' <=> InSession(c)
  BY <1>1 DEF InSession, Asks
<1>6. SocketInv'
  BY <1>1, <1>5 DEF EndpointInv, SocketInv, Asks
<1>7. SessionInv'
  BY <1>1, <1>2, <1>5 DEF EndpointInv, SessionInv
<1> QED
  BY <1>3, <1>4, <1>6, <1>7 DEF EndpointInv

(* Writing to a client, and stopping.                                      *)
LEMMA EngineMoves ==
  ASSUME EndpointInv,
         \/ \E a \in Addresses : Endpoint!Forward(a)
         \/ Endpoint!SendText \/ Endpoint!TextWritten
         \/ Endpoint!Stop \/ (\E c \in Clients : Endpoint!StopConn(c))
         \/ Endpoint!StopJoins \/ Endpoint!Stopped
  PROVE  EndpointInv'
<1> USE ServicesAssumption
<1>1. UNCHANGED <<conns, thread, target, asked, view, views, devtools, client, wire>>
  BY DEF Endpoint!Forward, Endpoint!SendText, Endpoint!TextWritten, Endpoint!Stop, Endpoint!StopConn,
     Endpoint!StopJoins, Endpoint!Stopped, Endpoint!serverVars, Endpoint!threadVars,
     Endpoint!viewVars, Endpoint!clientVars
<1>2. \A c : InSession(c)' <=> InSession(c)
  BY <1>1 DEF InSession, Asks
<1>3. /\ fd \in [Clients -> {"none", "open", "shut", "closed"}]
      /\ closed \in [Clients -> BOOLEAN] /\ conns \subseteq Clients
      /\ writer \in [Clients -> Clients \cup {Host, None}]
      /\ engine \in [at : {"idle", "send", "writes", "stop", "join"},
                     to : Clients \cup {None}, left : SUBSET Clients]
      /\ engine.at = "stop" => engine.left \subseteq conns
      /\ engine.at \in {"send", "writes"} => engine.to \in Clients
      /\ \A c \in Clients :
           /\ engine.at \in {"send", "writes"} /\ engine.to = c => InSession(c)
           /\ writer[c] \in Clients => writer[c] = c /\ thread[c] = "writes"
           /\ writer[c] = Host => engine.at = "writes" /\ engine.to = c
      /\ \A a \in Addresses, c \in Clients : devtools[a] = c => InSession(c)
  BY DEF EndpointInv, EndpointTyped, SocketInv, SessionInv
<1>4. /\ closed' \in [Clients -> BOOLEAN]
      /\ fd' \in [Clients -> {"none", "open", "shut", "closed"}]
      /\ \A c \in Clients : fd'[c] \in {"open", "shut"} <=> fd[c] \in {"open", "shut"}
  <2>1. ASSUME NEW c \in Clients, Endpoint!StopConn(c)
        PROVE  <1>4
    BY <1>3, <2>1 DEF Endpoint!StopConn
  <2>2. CASE UNCHANGED <<closed, fd>>
    BY <1>3, <2>2
  <2> QED
    BY <2>1, <2>2 DEF Endpoint!Forward, Endpoint!SendText, Endpoint!TextWritten, Endpoint!Stop,
       Endpoint!StopJoins, Endpoint!Stopped, Endpoint!threadVars
<1>5. /\ writer' \in [Clients -> Clients \cup {Host, None}]
      /\ engine' \in [at : {"idle", "send", "writes", "stop", "join"},
                      to : Clients \cup {None}, left : SUBSET Clients]
      /\ engine'.at = "stop" => engine'.left \subseteq conns
      /\ engine'.at \in {"send", "writes"} => engine'.to \in Clients
      /\ \A c \in Clients :
           /\ engine'.at \in {"send", "writes"} /\ engine'.to = c => InSession(c)
           /\ writer'[c] \in Clients => writer'[c] = c /\ thread[c] = "writes"
           /\ writer'[c] = Host => engine'.at = "writes" /\ engine'.to = c
  <2>1. ASSUME NEW a \in Addresses, Endpoint!Forward(a)
        PROVE  <1>5
    <3>1. /\ writer' = writer /\ engine' = [at |-> "send", to |-> devtools[a], left |-> {}]
          /\ devtools[a] \in Clients /\ engine.at = "idle"
      BY <2>1 DEF Endpoint!Forward, Endpoint!Idle, Endpoint!threadVars
    <3> QED
      BY <1>3, <3>1
  <2>2. CASE Endpoint!SendText
    <3>1. CASE writer' = writer /\ engine' = Endpoint!Idle
      BY <1>3, <2>2, <3>1 DEF Endpoint!SendText, Endpoint!Idle
    <3>2. CASE /\ engine' = [engine EXCEPT !.at = "writes"]
               /\ writer' = [writer EXCEPT ![engine.to] = Host]
      <4>1. PICK c \in Clients : c = engine.to
        BY <1>3, <2>2 DEF Endpoint!SendText
      <4>2. writer' = [writer EXCEPT ![c] = Host] /\ engine.at = "send"
        BY <2>2, <3>2, <4>1 DEF Endpoint!SendText
      <4>3. engine'.at = "writes" /\ engine'.to = c
        BY <1>3, <3>2, <4>1
      <4> QED
        BY <1>3, <3>2, <4>1, <4>2, <4>3
    <3> QED
      BY <2>2, <3>1, <3>2 DEF Endpoint!SendText
  <2>3. CASE Endpoint!TextWritten
    <3>1. PICK c \in Clients : c = engine.to
      BY <1>3, <2>3 DEF Endpoint!TextWritten
    <3>2. writer' = [writer EXCEPT ![c] = None] /\ engine' = [at |-> "idle", to |-> None, left |-> {}]
      BY <2>3, <3>1 DEF Endpoint!TextWritten, Endpoint!WriteAll, Endpoint!Idle
    <3> QED
      BY <1>3, <3>1, <3>2
  <2>4. CASE Endpoint!Stop
    BY <1>3, <2>4 DEF Endpoint!Stop, Endpoint!Idle, Endpoint!threadVars
  <2>5. ASSUME NEW c \in Clients, Endpoint!StopConn(c)
        PROVE  <1>5
    BY <1>3, <2>5 DEF Endpoint!StopConn
  <2>6. CASE Endpoint!StopJoins
    BY <1>3, <2>6 DEF Endpoint!StopJoins, Endpoint!threadVars
  <2>7. CASE Endpoint!Stopped
    BY <1>3, <2>7 DEF Endpoint!Stopped, Endpoint!Idle, Endpoint!threadVars
  <2> QED
    BY <2>1, <2>2, <2>3, <2>4, <2>5, <2>6, <2>7
<1>6. EndpointTyped'
  BY <1>1, <1>4, <1>5 DEF EndpointInv, EndpointTyped
<1>7. AskedInv'
  BY <1>1 DEF EndpointInv, AskedInv
<1>8. SocketInv'
  BY <1>1, <1>2, <1>4, <1>5 DEF EndpointInv, SocketInv, Asks
<1>9. SessionInv'
  BY <1>1, <1>2 DEF EndpointInv, SessionInv
<1> QED
  BY <1>6, <1>7, <1>8, <1>9 DEF EndpointInv

(* What becomes of the connection c, whose task w was run.                 *)
Served(c, w, s) ==
  /\ thread[c] = "waits" /\ thread' = [thread EXCEPT ![c] = s]
  /\ s = "read" <=> w = "send"
  /\ s = "detached" <=> w = "detach"
  /\ \A x : Asks(c, x) <=> x = w
  /\ \A e, x : Asks(e, x)' <=> (Asks(e, x) /\ e # c)
  /\ target[c] \in Addresses /\ UNCHANGED <<target, view, views>>
  /\ \/ /\ s = "attached" /\ view[target[c]] # 0 /\ devtools[target[c]] = None
        /\ devtools' = [devtools EXCEPT ![target[c]] = c]
     \/ s \in {"refused", "read"} /\ devtools' = devtools
     \/ s = "detached" /\ devtools' = [devtools EXCEPT ![target[c]] = None]
  /\ w = "attach" \/ devtools[target[c]] = c \/ c \in lost => strays' = strays
  /\ lost' = IF s = "detached"
             THEN (lost \cup ({devtools[target[c]]} \ {Host, None})) \ {c} ELSE lost

SomeServed ==
  \E c \in Clients, w \in Wants, s \in {"attached", "refused", "read", "detached"} : Served(c, w, s)

(* The task of a connection, which waits for nothing else.                 *)
LEMMA TaskRuns ==
  ASSUME EndpointInv, Endpoint!RunTask
  PROVE  EndpointInv' /\ SomeServed
<1> USE ServicesAssumption
<1>1. /\ asked \in Seq(Requested) /\ asked # <<>> /\ asked' = Tail(asked) /\ engine.at = "idle"
      /\ UNCHANGED <<conns, fd, closed, writer, target, engine, view, views, client, wire>>
      /\ thread \in [Clients -> ThreadStates]
      /\ devtools \in [Addresses -> Clients \cup {Host, None}]
  BY DEF EndpointInv, EndpointTyped, Endpoint!RunTask, Endpoint!Idle, Endpoint!serverVars,
     Endpoint!clientVars
<1>2. PICK r \in Requested : r = Head(asked)
  BY <1>1
<1>3. PICK c \in Clients : c = r.by
  BY DEF Requested
<1>4. PICK w \in Wants : w = r.what
  BY DEF Requested
<1>5. /\ Len(asked) \in Nat /\ DOMAIN asked = 1 .. Len(asked) /\ Len(asked) > 0
      /\ asked' \in Seq(Requested) /\ DOMAIN asked' = 1 .. Len(asked) - 1
      /\ \A n \in DOMAIN asked' : asked'[n] = asked[n + 1]
      /\ asked[1] = r
      /\ \A m, n \in DOMAIN asked : asked[m].by = asked[n].by => m = n
      /\ \A n \in DOMAIN asked : thread[asked[n].by] = "waits"
  <2>1. Len(asked) \in Nat /\ DOMAIN asked = 1 .. Len(asked) /\ Len(asked) > 0 /\ asked[1] = r
    BY <1>1, <1>2, EmptySeq
  <2>2. /\ asked' \in Seq(Requested) /\ DOMAIN asked' = 1 .. Len(asked) - 1
        /\ \A n \in DOMAIN asked' : asked'[n] = asked[n + 1]
    BY <1>1, HeadTailProperties
  <2> QED
    BY <2>1, <2>2 DEF EndpointInv, AskedInv
<1>6. /\ thread[c] = "waits"
      /\ \A x : Asks(c, x) <=> x = w
  BY <1>3, <1>4, <1>5 DEF Asks
<1>7. \A e, x : Asks(e, x)' <=> (Asks(e, x) /\ e # c)
  <2>1. \A n \in DOMAIN asked' : n + 1 \in DOMAIN asked /\ n + 1 # 1
    BY <1>5
  <2>2. \A n \in DOMAIN asked : n # 1 => n - 1 \in DOMAIN asked' /\ (n - 1) + 1 = n
    BY <1>5
  <2>3. ASSUME NEW e, NEW x, Asks(e, x)'
        PROVE  Asks(e, x) /\ e # c
    <3>1. PICK n \in DOMAIN asked' : asked'[n].by = e /\ asked'[n].what = x
      BY <2>3 DEF Asks
    <3>2. n + 1 \in DOMAIN asked /\ n + 1 # 1 /\ 1 \in DOMAIN asked
          /\ asked[n + 1].by = e /\ asked[n + 1].what = x /\ asked[1].by = c
      BY <1>3, <1>5, <2>1, <3>1
    <3> QED
      BY <1>5, <3>2 DEF Asks
  <2>4. ASSUME NEW e, NEW x, Asks(e, x), e # c
        PROVE  Asks(e, x)'
    <3>1. PICK n \in DOMAIN asked : asked[n].by = e /\ asked[n].what = x
      BY <2>4 DEF Asks
    <3>2. n # 1
      BY <1>3, <1>5, <2>4, <3>1
    <3>3. n - 1 \in DOMAIN asked' /\ asked'[n - 1] = asked[n]
      BY <1>5, <2>2, <3>2
    <3> QED
      BY <3>1, <3>3 DEF Asks
  <2> QED
    BY <2>3, <2>4
<1>8. target[c] \in Addresses /\ c \notin {Host, None}
  BY <1>6 DEF EndpointInv, AskedInv
<1>9. \E s \in {"attached", "refused", "read", "detached"} : Served(c, w, s)
  <2>1. CASE w = "attach"
    <3>1. Endpoint!AttachDevTools(c) /\ UNCHANGED <<lost, strays>>
      BY <1>2, <1>3, <1>4, <2>1 DEF Endpoint!RunTask, Endpoint!history
    <3> QED
      BY <1>1, <1>6, <1>7, <1>8, <2>1, <3>1 DEF Endpoint!AttachDevTools, Endpoint!Goes, Served
  <2>2. CASE w = "send"
    <3>1. Endpoint!Goes(c, "read") /\ UNCHANGED <<devtools, lost>> /\ Endpoint!Strays(c)
      BY <1>2, <1>3, <1>4, <2>2 DEF Endpoint!RunTask
    <3> QED
      BY <1>1, <1>6, <1>7, <1>8, <2>2, <3>1 DEF Endpoint!Goes, Endpoint!Strays, Served
  <2>3. CASE w = "detach"
    <3>1. /\ Endpoint!Goes(c, "detached") /\ Endpoint!Strays(c)
          /\ devtools' = [devtools EXCEPT ![target[c]] = None]
          /\ lost' = (lost \cup ({devtools[target[c]]} \ {Host, None})) \ {c}
      BY <1>2, <1>3, <1>4, <2>3 DEF Endpoint!RunTask, Endpoint!EndSession
    <3> QED
      BY <1>1, <1>6, <1>7, <1>8, <2>3, <3>1 DEF Endpoint!Goes, Endpoint!Strays, Served
  <2> QED
    BY <2>1, <2>2, <2>3 DEF Wants
<1> PICK s \in {"attached", "refused", "read", "detached"} : Served(c, w, s)
  BY <1>9
<1>10. /\ thread' = [thread EXCEPT ![c] = s]
       /\ s = "read" <=> w = "send"
       /\ s = "detached" <=> w = "detach"
       /\ devtools' \in [Addresses -> Clients \cup {Host, None}]
       /\ \A a \in Addresses :
            \/ devtools'[a] = None
            \/ devtools'[a] = devtools[a] /\ (a # target[c] \/ w # "detach")
            \/ devtools'[a] = c /\ a = target[c] /\ s = "attached" /\ view[a] # 0
  BY <1>1, <1>8 DEF Served
<1>11. /\ thread' \in [Clients -> ThreadStates] /\ thread'[c] = s
       /\ \A e \in Clients : e # c => thread'[e] = thread[e]
  BY <1>1, <1>10 DEF ThreadStates
<1>12. \A e \in Clients : e # c => (InSession(e)' <=> InSession(e))
  BY <1>7, <1>11 DEF InSession
<1>13. /\ s \in {"attached", "read"} => InSession(c)'
       /\ InSession(c) => w # "attach" /\ s \in {"read", "detached"}
  BY <1>6, <1>10, <1>11 DEF InSession, Wants
<1>14. EndpointTyped'
  BY <1>1, <1>5, <1>10, <1>11 DEF EndpointInv, EndpointTyped
<1>15. AskedInv'
  <2>1. \A n \in DOMAIN asked' : n + 1 \in DOMAIN asked /\ 1 \in DOMAIN asked /\ n + 1 # 1
    BY <1>5
  <2>2. \A m, n \in DOMAIN asked' : asked'[m].by = asked'[n].by => m = n
    BY <1>5, <2>1
  <2>3. \A n \in DOMAIN asked' : thread'[asked'[n].by] = "waits"
    <3>1. \A n \in DOMAIN asked : asked[n] \in Requested
      BY <1>1
    <3>2. \A n \in DOMAIN asked : asked[n].by \in Clients
      BY <3>1 DEF Requested
    <3>3. \A n \in DOMAIN asked' : asked[n + 1].by # c
      BY <1>3, <1>5, <2>1
    <3> QED
      BY <1>5, <1>11, <2>1, <3>2, <3>3
  <2>4. \A e \in Clients : thread'[e] \notin {"none", "headers", "done"} => target'[e] \in Addresses
    BY <1>1, <1>8, <1>11 DEF EndpointInv, AskedInv
  <2>5. \A e \in Clients : client'[e] = "none" => thread'[e] = "none"
    BY <1>1, <1>6, <1>11 DEF EndpointInv, AskedInv
  <2> QED
    BY <2>2, <2>3, <2>4, <2>5 DEF AskedInv
<1>16. SocketInv'
  <2>1. \A e \in Clients : fd'[e] \in {"open", "shut"} <=> thread'[e] \notin {"none", "done"}
    BY <1>1, <1>6, <1>11 DEF EndpointInv, SocketInv
  <2>2. \A e \in conns' : InSession(e)' /\ thread'[e] # "attached" /\ ~Asks(e, "detach")'
    BY <1>1, <1>6, <1>7, <1>10, <1>11, <1>12, <1>13 DEF EndpointInv, EndpointTyped, SocketInv
  <2>3. /\ engine'.at = "stop" => engine'.left \subseteq conns'
        /\ engine'.at \in {"send", "writes"} => engine'.to \in Clients
        /\ \A e \in Clients : engine'.at \in {"send", "writes"} /\ engine'.to = e => InSession(e)'
    BY <1>1
  <2>4. \A e \in Clients :
          /\ writer'[e] \in Clients => writer'[e] = e /\ thread'[e] = "writes"
          /\ writer'[e] = Host => engine'.at = "writes" /\ engine'.to = e
    BY <1>1, <1>6, <1>11 DEF EndpointInv, SocketInv
  <2> QED
    BY <2>1, <2>2, <2>3, <2>4 DEF SocketInv
<1>17. SessionInv'
  <2>1. ASSUME NEW a \in Addresses, NEW e \in Clients, devtools'[a] = e
        PROVE  target'[e] = a /\ InSession(e)'
    <3>1. CASE devtools'[a] = devtools[a] /\ (a # target[c] \/ w # "detach")
      <4>1. target[e] = a /\ InSession(e)
        BY <2>1, <3>1 DEF EndpointInv, SessionInv
      <4>2. e = c => s = "read"
        BY <1>10, <1>13, <3>1, <4>1
      <4> QED
        BY <1>1, <1>12, <1>13, <4>1, <4>2
    <3>2. CASE devtools'[a] = c /\ a = target[c] /\ s = "attached"
      BY <1>1, <1>11, <1>13, <2>1, <3>2
    <3> QED
      BY <1>10, <2>1, <3>1, <3>2
  <2>2. \A a \in Addresses : view'[a] = 0 => devtools'[a] = None
    BY <1>1, <1>10 DEF EndpointInv, SessionInv
  <2> QED
    BY <2>1, <2>2 DEF SessionInv
<1> QED
  BY <1>14, <1>15, <1>16, <1>17 DEF EndpointInv, SomeServed

LEMMA EndpointNext ==
  ASSUME EndpointInv, Endpoint!Next
  PROVE  EndpointInv'
<1>1. CASE \E c \in Clients : Endpoint!Accept(c) \/ Endpoint!Thread(c)
  BY <1>1, ThreadStep
<1>2. CASE \E a \in Addresses : \/ Endpoint!CreateView(a) \/ Endpoint!DestroyView(a)
                               \/ Endpoint!HostAttach(a) \/ Endpoint!HostDetach(a)
  BY <1>2, ViewsChange
<1>3. CASE \/ \E a \in Addresses : Endpoint!Forward(a)
           \/ Endpoint!SendText \/ Endpoint!TextWritten
           \/ Endpoint!Stop \/ (\E c \in Clients : Endpoint!StopConn(c))
           \/ Endpoint!StopJoins \/ Endpoint!Stopped
  BY <1>3, EngineMoves
<1>4. CASE Endpoint!RunTask
  BY <1>4, TaskRuns
<1>5. CASE \/ \E c \in Clients : \/ Endpoint!HangUp(c)
                               \/ Endpoint!StopsReading(c) \/ Endpoint!ReadsAgain(c)
                               \/ \E f \in FrameKinds : Endpoint!SendFrame(c, f)
           \/ Endpoint!AcceptLoopEnds \/ Endpoint!Start
  <2>1. UNCHANGED <<conns, thread, fd, closed, writer, target, engine, asked, view, views, devtools>>
    BY <1>5 DEF Endpoint!HangUp, Endpoint!StopsReading, Endpoint!ReadsAgain, Endpoint!SendFrame,
       Endpoint!AcceptLoopEnds, Endpoint!Start, Endpoint!serverVars, Endpoint!threadVars,
       Endpoint!viewVars
  <2>2. /\ client' \in [Clients -> {"none", "there", "deaf", "gone"}]
        /\ \A c \in Clients : client'[c] = "none" => client[c] = "none"
        /\ wire' \in [Clients -> Seq(FrameKinds)]
    <3>0. /\ client \in [Clients -> {"none", "there", "deaf", "gone"}]
          /\ wire \in [Clients -> Seq(FrameKinds)]
      BY DEF EndpointInv, EndpointTyped
    <3>1. ASSUME NEW c \in Clients,
                 Endpoint!HangUp(c) \/ Endpoint!StopsReading(c) \/ Endpoint!ReadsAgain(c)
          PROVE  <2>2
      BY <3>0, <3>1 DEF Endpoint!HangUp, Endpoint!StopsReading, Endpoint!ReadsAgain
    <3>2. ASSUME NEW c \in Clients, NEW f \in FrameKinds, Endpoint!SendFrame(c, f)
          PROVE  <2>2
      <4>1. client' = client /\ wire' = [wire EXCEPT ![c] = Append(wire[c], f)]
        BY <3>2 DEF Endpoint!SendFrame
      <4>2. Append(wire[c], f) \in Seq(FrameKinds)
        BY <3>0
      <4> QED
        BY <3>0, <4>1, <4>2
    <3>3. CASE UNCHANGED <<client, wire>>
      BY <3>0, <3>3
    <3> QED
      BY <1>5, <3>1, <3>2, <3>3 DEF Endpoint!AcceptLoopEnds, Endpoint!Start, Endpoint!clientVars
  <2>3. EndpointTyped'
    BY <2>1, <2>2 DEF EndpointInv, EndpointTyped
  <2>4. \A c : InSession(c)' <=> InSession(c)
    BY <2>1 DEF InSession, Asks
  <2>5. AskedInv'
    BY <2>1, <2>2 DEF EndpointInv, AskedInv
  <2>6. SocketInv'
    BY <2>1, <2>4 DEF EndpointInv, SocketInv, Asks
  <2>7. SessionInv'
    BY <2>1, <2>4 DEF EndpointInv, SessionInv
  <2> QED
    BY <2>3, <2>5, <2>6, <2>7 DEF EndpointInv
<1> QED
  BY <1>1, <1>2, <1>3, <1>4, <1>5 DEF Endpoint!Next, Endpoint!EngineThread, FrameKinds

LEMMA EndpointSound ==
  ASSUME EndpointInv
  PROVE  Endpoint!TypeOK /\ Endpoint!SocketsAreTheirOwn /\ Endpoint!SessionsFollowClients
<1> USE ServicesAssumption
<1>1. Endpoint!TypeOK
  BY DEF EndpointInv, EndpointTyped, SessionInv, Endpoint!TypeOK
<1>2. Endpoint!SocketsAreTheirOwn
  <2>1. \A c \in Clients : InSession(c) => thread[c] \notin {"none", "done"}
    BY DEF InSession
  <2>2. \A c \in Clients : fd[c] \in {"open", "shut"} <=> thread[c] \notin {"none", "done"}
    BY DEF EndpointInv, SocketInv
  <2>3. \A c \in conns : c \in Clients /\ InSession(c)
    BY DEF EndpointInv, EndpointTyped, SocketInv
  <2>4. ASSUME NEW c \in Clients, writer[c] # None
        PROVE  thread[c] \notin {"none", "done"}
    <3>1. CASE writer[c] = Host
      BY <2>1, <3>1 DEF EndpointInv, SocketInv
    <3>2. CASE writer[c] \in Clients
      BY <3>2 DEF EndpointInv, SocketInv
    <3>3. writer[c] \in Clients \cup {Host, None}
      BY DEF EndpointInv, EndpointTyped
    <3> QED
      BY <2>4, <3>1, <3>2, <3>3
  <2>5. engine.at = "stop" => engine.left \subseteq conns
    BY DEF EndpointInv, SocketInv
  <2> QED
    BY <2>1, <2>2, <2>3, <2>4, <2>5 DEF Endpoint!SocketsAreTheirOwn
<1>3. Endpoint!SessionsFollowClients
  BY DEF EndpointInv, SessionInv, InSession, Endpoint!SessionsFollowClients
<1> QED
  BY <1>1, <1>2, <1>3

------------------------------------------------------------------------------
(* A client in a session has it for itself, until it is ended under it.    *)
OwnInv ==
  /\ \A c \in Clients : InSession(c) => devtools[target[c]] = c \/ c \in lost
  /\ strays = {}

LEMMA OwnInit == ASSUME Endpoint!Init PROVE OwnInv
<1>1. strays = {} /\ \A c \in Clients : thread[c] = "none"
  BY DEF Endpoint!Init
<1> QED
  BY <1>1 DEF OwnInv, InSession

LEMMA OwnStays ==
  ASSUME OwnInv, SameSessions, UNCHANGED <<lost, strays>>
  PROVE  OwnInv'
BY DEF OwnInv, SameSessions

LEMMA OwnStep ==
  ASSUME EndpointInv, OwnInv, Endpoint!Next
  PROVE  OwnInv'
<1> USE ServicesAssumption
<1>1. ASSUME NEW c \in Clients, Endpoint!Accept(c) \/ Endpoint!Thread(c)
      PROVE  OwnInv'
  <2>1. UNCHANGED <<lost, strays>>
    BY <1>1 DEF Endpoint!Accept, Endpoint!Thread, Endpoint!HandleConnection, Endpoint!Refuse,
       Endpoint!RegisterConn, Endpoint!ReadLoop, Endpoint!SendControl, Endpoint!ControlWritten,
       Endpoint!UnregisterConn, Endpoint!MarkClosed, Endpoint!SocketClose, Endpoint!history
  <2> QED
    BY <1>1, <2>1, ThreadStep, OwnStays
<1>2. CASE \/ \E a \in Addresses : Endpoint!Forward(a)
           \/ Endpoint!SendText \/ Endpoint!TextWritten
           \/ Endpoint!Stop \/ (\E c \in Clients : Endpoint!StopConn(c))
           \/ Endpoint!StopJoins \/ Endpoint!Stopped
           \/ \E c \in Clients : \/ Endpoint!HangUp(c)
                              \/ Endpoint!StopsReading(c) \/ Endpoint!ReadsAgain(c)
                              \/ \E f \in FrameKinds : Endpoint!SendFrame(c, f)
           \/ Endpoint!AcceptLoopEnds \/ Endpoint!Start
  <2>1. UNCHANGED <<thread, target, asked, view, views, devtools, lost, strays>>
    BY <1>2 DEF Endpoint!Forward, Endpoint!SendText, Endpoint!TextWritten, Endpoint!Stop,
       Endpoint!StopConn, Endpoint!StopJoins, Endpoint!Stopped, Endpoint!HangUp,
       Endpoint!StopsReading, Endpoint!ReadsAgain, Endpoint!SendFrame,
       Endpoint!AcceptLoopEnds, Endpoint!Start,
       Endpoint!threadVars, Endpoint!viewVars, Endpoint!history
  <2>2. SameSessions
    BY <2>1 DEF SameSessions, InSession, Asks
  <2> QED
    BY <2>1, <2>2, OwnStays
<1>3. ASSUME NEW a \in Addresses,
             \/ Endpoint!CreateView(a) \/ Endpoint!DestroyView(a)
             \/ Endpoint!HostAttach(a) \/ Endpoint!HostDetach(a)
      PROVE  OwnInv'
  <2>1. UNCHANGED <<thread, target, asked, strays>>
    BY <1>3 DEF Endpoint!CreateView, Endpoint!DestroyView, Endpoint!HostAttach, Endpoint!HostDetach,
       Endpoint!threadVars, Endpoint!history
  <2>2. \A c \in Clients : InSession(c)' <=> InSession(c)
    BY <2>1 DEF InSession, Asks
  <2>3. /\ devtools \in [Addresses -> Clients \cup {Host, None}]
        /\ \A c \in Clients : InSession(c) => devtools[target[c]] = c \/ c \in lost
        /\ strays = {}
    BY DEF EndpointInv, EndpointTyped, OwnInv
  <2>4. CASE Endpoint!CreateView(a)
    BY <2>1, <2>2, <2>3, <2>4 DEF Endpoint!CreateView, Endpoint!history, OwnInv
  <2>5. CASE Endpoint!EndSession(a, Host)
    <3>1. /\ devtools' = [devtools EXCEPT ![a] = None]
          /\ lost' = (lost \cup ({devtools[a]} \ {Host, None})) \ {Host}
      BY <2>5 DEF Endpoint!EndSession
    <3>2. \A c \in Clients : c \in lost \/ devtools[a] = c => c \in lost'
      BY <3>1
    <3>3. \A c \in Clients : target[c] # a => devtools'[target[c]] = devtools[target[c]]
      BY <2>3, <3>1
    <3> QED
      BY <2>1, <2>2, <2>3, <3>2, <3>3 DEF OwnInv
  <2>6. CASE Endpoint!HostAttach(a)
    <3>1. /\ devtools[a] = None /\ devtools' = [devtools EXCEPT ![a] = Host]
          /\ lost' = lost
      BY <2>6 DEF Endpoint!HostAttach, Endpoint!history
    <3>2. \A c \in Clients : target[c] # a => devtools'[target[c]] = devtools[target[c]]
      BY <2>3, <3>1
    <3> QED
      BY <2>1, <2>2, <2>3, <3>1, <3>2 DEF OwnInv
  <2> QED
    BY <1>3, <2>4, <2>5, <2>6 DEF Endpoint!DestroyView, Endpoint!HostDetach
<1>4. CASE Endpoint!RunTask
  <2>1. PICK c \in Clients, w \in Wants, s \in {"attached", "refused", "read", "detached"} :
          Served(c, w, s)
    BY <1>4, TaskRuns DEF SomeServed
  <2>2. /\ thread \in [Clients -> ThreadStates]
        /\ devtools \in [Addresses -> Clients \cup {Host, None}]
        /\ \A e \in Clients : InSession(e) => devtools[target[e]] = e \/ e \in lost
    BY DEF EndpointInv, EndpointTyped, OwnInv
  <2>3. /\ thread'[c] = s /\ \A e \in Clients : e # c => thread'[e] = thread[e]
        /\ target' = target /\ target[c] \in Addresses
    BY <2>1, <2>2 DEF Served
  <2>4. \A e \in Clients : e # c => (InSession(e)' <=> InSession(e))
    BY <2>1, <2>3 DEF InSession, Served
  <2>5. InSession(c) <=> w # "attach"
    BY <2>1 DEF InSession, Served
  <2>6. InSession(c)' => s \in {"attached", "read"}
    BY <2>1, <2>3 DEF InSession, Served
  <2>7. strays' = {}
    <3>1. w = "attach" \/ devtools[target[c]] = c \/ c \in lost
      BY <2>2, <2>5
    <3> QED
      BY <2>1, <3>1 DEF OwnInv, Served
  <2>8. CASE s = "attached"
    <3>1. /\ devtools[target[c]] = None /\ lost' = lost
          /\ devtools' = [devtools EXCEPT ![target[c]] = c]
      BY <2>1, <2>8 DEF Served
    <3>2. devtools'[target[c]] = c /\ \A b : b # target[c] => devtools'[b] = devtools[b]
      BY <2>2, <2>3, <3>1
    <3> QED
      BY <2>2, <2>3, <2>4, <2>7, <3>1, <3>2 DEF OwnInv
  <2>9. CASE s \in {"refused", "read"}
    <3>1. devtools' = devtools /\ lost' = lost /\ (s = "read" => InSession(c))
      BY <2>1, <2>5, <2>9 DEF Served
    <3> QED
      BY <2>2, <2>3, <2>4, <2>6, <2>7, <2>9, <3>1 DEF OwnInv
  <2>10. CASE s = "detached"
    <3>1. /\ devtools' = [devtools EXCEPT ![target[c]] = None]
          /\ lost' = (lost \cup ({devtools[target[c]]} \ {Host, None})) \ {c}
      BY <2>1, <2>10 DEF Served
    <3>2. \A b : b # target[c] => devtools'[b] = devtools[b]
      BY <2>2, <3>1
    <3>3. \A e \in Clients : e # c /\ (e \in lost \/ devtools[target[c]] = e) => e \in lost'
      BY <3>1
    <3> QED
      BY <2>2, <2>3, <2>4, <2>6, <2>7, <2>10, <3>2, <3>3 DEF OwnInv
  <2> QED
    BY <2>8, <2>9, <2>10
<1> QED
  BY <1>1, <1>2, <1>3, <1>4 DEF Endpoint!Next, Endpoint!EngineThread, FrameKinds


------------------------------------------------------------------------------
(* Downloads.                                                              *)
Tasks == [id : 1 .. MaxDownloads, do : {"begin", "chunk", "body"}]
           \cup [id : 1 .. MaxDownloads, do : {"done"}, ok : BOOLEAN]
Streams == [chunks : Nat, end : {"eof", "failure", "status"}, began : BOOLEAN]
Hearing == [begins : Nat, chunks : Nat, finishes : Nat, ok : BOOLEAN,
            canceled : BOOLEAN, lapsed : BOOLEAN, late : BOOLEAN]

DownloadsTyped ==
  /\ next \in 0 .. MaxDownloads /\ sink \in BOOLEAN /\ alive \in BOOLEAN
  /\ View!Running \subseteq 1 .. next
  /\ \A id \in View!Running : downloads[id] \in [received : Nat, canceled : BOOLEAN]
  /\ DOMAIN streams \subseteq 1 .. next
  /\ \A id \in DOMAIN streams : streams[id] \in Streams
  /\ bodies \in Seq(Tasks) /\ \A n \in DOMAIN bodies : bodies[n].id \in 1 .. next
  /\ body \in [id : 0 .. MaxDownloads, at : {"none", "begun", "delivered"}]
  /\ body.at # "none" => body.id \in 1 .. next
  /\ host_heard \in [1 .. MaxDownloads -> Hearing]

(* DownloadsAreOrderly, and that a download that runs has not been heard   *)
(* to finish, nor one that was not started at all.                         *)
Orderly(h) ==
  /\ h.begins <= 1 /\ h.finishes <= 1 /\ ~h.late
  /\ h.chunks > 0 /\ ~h.lapsed => h.begins = 1
  /\ h.ok => ~h.canceled

HeardOf(h, download) ==
  /\ h.finishes = 0 /\ ~h.ok
  /\ h.canceled => download.canceled
  /\ ~h.lapsed => h.chunks = download.received

HeardInv ==
  /\ ~alive => /\ View!Running = {} /\ body.at = "none"
               /\ \A id \in 1 .. MaxDownloads : host_heard[id] = View!Unheard
  /\ \A id \in 1 .. MaxDownloads : id > next => host_heard[id] = View!Unheard
  /\ \A id \in 1 .. MaxDownloads : Orderly(host_heard[id])
  /\ \A id \in View!Running : HeardOf(host_heard[id], downloads[id])

Begun(id) ==
  id \in View!Running /\ ~downloads[id].canceled
    => host_heard[id].begins = 1 \/ host_heard[id].lapsed

Opens(t) == t.do \in {"begin", "body"}
BeginQueued(id) == \E n \in DOMAIN bodies : bodies[n].id = id /\ bodies[n].do = "begin"

(* One task begins a download, before anything else is told of it; and     *)
(* what came of a stream, or comes from it next, follows its begin.        *)
OpenInv ==
  /\ \A n \in DOMAIN bodies : Opens(bodies[n]) => host_heard[bodies[n].id].begins = 0
  /\ \A m, n \in DOMAIN bodies :
       Opens(bodies[m]) /\ Opens(bodies[n]) /\ bodies[m].id = bodies[n].id => m = n

ChunkInv ==
  /\ \A n \in DOMAIN bodies, id \in 1 .. next :
       bodies[n].do = "chunk" /\ bodies[n].id = id => BeginQueued(id) \/ Begun(id)
  /\ \A m, n \in DOMAIN bodies :
       bodies[m].do = "begin" /\ bodies[n].do = "chunk" /\ bodies[m].id = bodies[n].id => m < n

StreamFits(id) ==
  /\ \A n \in DOMAIN bodies : bodies[n].id = id => bodies[n].do # "body"
  /\ body.at # "none" => body.id # id
  /\ ~streams[id].began => /\ host_heard[id].begins = 0
                           /\ \A n \in DOMAIN bodies : bodies[n].id # id
  /\ streams[id].began => BeginQueued(id) \/ Begun(id)

StreamInv == \A id \in DOMAIN streams : StreamFits(id)

BodyInv ==
  /\ body.at # "none" => \A n \in DOMAIN bodies : Opens(bodies[n]) => bodies[n].id # body.id
  /\ body.at = "begun" => Begun(body.id)

QueueInv == OpenInv /\ ChunkInv /\ StreamInv /\ BodyInv
DownloadsInv == DownloadsTyped /\ HeardInv /\ QueueInv

LEMMA DownloadsInit == ASSUME View!Init PROVE DownloadsInv
<1> USE ServicesAssumption
<1>1. /\ alive = TRUE /\ sink = TRUE /\ next = 0 /\ downloads = <<>> /\ streams = <<>>
      /\ bodies = <<>> /\ body = [id |-> 0, at |-> "none"]
      /\ host_heard = [id \in 1 .. MaxDownloads |-> View!Unheard]
  BY DEF View!Init, View!NoTask, View!Ids
<1>2. View!Running = {} /\ DOMAIN streams = {} /\ DOMAIN bodies = {} /\ bodies \in Seq(Tasks)
  BY <1>1, EmptySeq DEF View!Running
<1>3. View!Unheard \in Hearing
  BY DEF View!Unheard, Hearing
<1>4. DownloadsTyped
  BY <1>1, <1>2, <1>3 DEF DownloadsTyped
<1>5. HeardInv
  BY <1>1, <1>2 DEF HeardInv, Orderly, View!Unheard
<1>6. QueueInv
  BY <1>1, <1>2 DEF QueueInv, OpenInv, ChunkInv, StreamInv, StreamFits, BodyInv
<1> QED
  BY <1>4, <1>5, <1>6 DEF DownloadsInv

------------------------------------------------------------------------------
(* What the host hears.                                                    *)
(* A host with callbacks hears what it is told, one without misses it.     *)
LEMMA IsTold ==
  ASSUME NEW id \in 1 .. MaxDownloads, host_heard \in [1 .. MaxDownloads -> Hearing],
         NEW more \in Hearing, ~more.canceled, more.finishes = 0, ~more.late,
         View!Told(id, more)
  PROVE  \/ sink /\ host_heard' = [host_heard EXCEPT ![id] = more]
         \/ ~sink /\ host_heard' = [host_heard EXCEPT ![id].lapsed = TRUE]
<1>1. CASE sink
  <2>1. PICK told2 : told2 = [more EXCEPT !.late = more.late \/ more.canceled \/ more.finishes > 0]
    OBVIOUS
  <2>2. told2 \in Hearing /\ told2.late = FALSE
    BY <2>1 DEF Hearing
  <2>3. /\ told2.begins = more.begins /\ told2.chunks = more.chunks
        /\ told2.finishes = more.finishes /\ told2.ok = more.ok
        /\ told2.canceled = more.canceled /\ told2.lapsed = more.lapsed
    BY <2>1 DEF Hearing
  <2>4. told2 = more
    BY <2>2, <2>3 DEF Hearing
  <2>5. host_heard' = [host_heard EXCEPT ![id] = told2]
    BY <1>1, <2>1 DEF View!Told
  <2> QED
    BY <1>1, <2>4, <2>5
<1>2. CASE ~sink
  BY <1>2 DEF View!Told
<1> QED
  BY <1>1, <1>2

(* What a begin or a chunk makes of a hearing h.                           *)
Grows(h, more) ==
  /\ more \in Hearing
  /\ more.finishes = h.finishes /\ more.ok = h.ok
  /\ more.canceled = h.canceled /\ more.lapsed = h.lapsed /\ more.late = h.late

LEMMA MoreBegins ==
  ASSUME NEW h \in Hearing, h.begins = 0
  PROVE  /\ Grows(h, [h EXCEPT !.begins = @ + 1]) /\ [h EXCEPT !.begins = @ + 1].begins = 1
         /\ [h EXCEPT !.begins = @ + 1].chunks = h.chunks
<1>1. [h EXCEPT !.begins = @ + 1] = [h EXCEPT !.begins = 1]
  BY DEF Hearing
<1>2. PICK r : r = [h EXCEPT !.begins = 1]
  OBVIOUS
<1>3. Grows(h, r) /\ r.begins = 1 /\ r.chunks = h.chunks
  BY <1>2 DEF Hearing, Grows
<1> QED
  BY <1>1, <1>2, <1>3

LEMMA MoreChunks ==
  ASSUME NEW h \in Hearing
  PROVE  /\ Grows(h, [h EXCEPT !.chunks = @ + 1])
         /\ [h EXCEPT !.chunks = @ + 1].chunks = h.chunks + 1
         /\ [h EXCEPT !.chunks = @ + 1].begins = h.begins
<1> PICK k \in Nat : k = h.chunks + 1
  BY DEF Hearing
<1>1. [h EXCEPT !.chunks = @ + 1] = [h EXCEPT !.chunks = k]
  BY DEF Hearing
<1>2. PICK r : r = [h EXCEPT !.chunks = k]
  OBVIOUS
<1>3. Grows(h, r) /\ r.chunks = k /\ r.begins = h.begins
  BY <1>2 DEF Hearing, Grows
<1> QED
  BY <1>1, <1>2, <1>3

LEMMA HearsBegin ==
  ASSUME DownloadsTyped, HeardInv, NEW id \in 1 .. next, host_heard[id].begins = 0,
         View!OnDownloadStreamBegin(id), UNCHANGED <<alive, sink, next, downloads>>,
         body'.at = "none" \/ alive
  PROVE  /\ HeardInv' /\ host_heard' \in [1 .. MaxDownloads -> Hearing]
         /\ Begun(id)'
         /\ \A e \in 1 .. next : e # id => host_heard'[e] = host_heard[e]
<1> USE ServicesAssumption
<1>0. id \in 1 .. MaxDownloads /\ host_heard \in [1 .. MaxDownloads -> Hearing]
      /\ View!Running' = View!Running /\ next \in Nat /\ next <= MaxDownloads
  BY DEF DownloadsTyped, View!Running
<1>1. CASE id \notin View!Running \/ downloads[id].canceled
  <2>1. UNCHANGED host_heard
    BY <1>1 DEF View!OnDownloadStreamBegin
  <2> QED
    BY <1>0, <1>1, <2>1 DEF HeardInv, Begun
<1>2. CASE id \in View!Running /\ ~downloads[id].canceled
  <2> PICK h \in Hearing : h = host_heard[id]
    BY <1>0
  <2> PICK more : more = [h EXCEPT !.begins = @ + 1]
    OBVIOUS
  <2>1. View!Told(id, more) /\ alive
    BY <1>2 DEF View!OnDownloadStreamBegin, HeardInv
  <2>2. Grows(h, more) /\ more.begins = 1 /\ more.chunks = h.chunks
    BY MoreBegins
  <2>3. ~h.canceled /\ h.finishes = 0 /\ ~h.late /\ Orderly(h) /\ HeardOf(h, downloads[id])
    BY <1>0, <1>2 DEF HeardInv, Orderly, HeardOf
  <2>4. \/ sink /\ host_heard' = [host_heard EXCEPT ![id] = more]
        \/ ~sink /\ host_heard' = [host_heard EXCEPT ![id].lapsed = TRUE]
    BY <1>0, <2>1, <2>2, <2>3, IsTold DEF Grows
  <2>5. /\ host_heard' \in [1 .. MaxDownloads -> Hearing]
        /\ \A e \in 1 .. MaxDownloads : e # id => host_heard'[e] = host_heard[e]
        /\ host_heard'[id].begins = 1 \/ host_heard'[id].lapsed
        /\ Orderly(host_heard'[id]) /\ HeardOf(host_heard'[id], downloads[id])
    <3>1. CASE host_heard' = [host_heard EXCEPT ![id] = more]
      <4>1. Orderly(more) /\ HeardOf(more, downloads[id])
        BY <2>2, <2>3 DEF Grows, Orderly, HeardOf
      <4> QED
        BY <1>0, <2>2, <3>1, <4>1 DEF Grows
    <3>2. CASE host_heard' = [host_heard EXCEPT ![id].lapsed = TRUE]
      <4> PICK missed : missed = [h EXCEPT !.lapsed = TRUE]
        OBVIOUS
      <4>1. /\ missed \in Hearing /\ missed.lapsed
            /\ Orderly(missed) /\ HeardOf(missed, downloads[id])
        BY <2>3 DEF Hearing, Orderly, HeardOf
      <4> QED
        BY <1>0, <3>2, <4>1
    <3> QED
      BY <2>4, <3>1, <3>2
  <2>6. HeardInv'
    <3>1. \A e \in 1 .. MaxDownloads : Orderly(host_heard'[e])
      BY <2>5 DEF HeardInv
    <3>2. \A e \in View!Running : HeardOf(host_heard'[e], downloads[e])
      BY <1>0, <2>5 DEF HeardInv, DownloadsTyped
    <3>3. \A e \in 1 .. MaxDownloads : e > next => host_heard'[e] = View!Unheard
      BY <1>0, <2>5 DEF HeardInv
    <3> QED
      BY <1>0, <2>1, <3>1, <3>2, <3>3 DEF HeardInv
  <2>7. Begun(id)'
    BY <2>5 DEF Begun
  <2> QED
    BY <1>0, <2>5, <2>6, <2>7
<1> QED
  BY <1>1, <1>2

DownloadsFit ==
  /\ View!Running \subseteq 1 .. next
  /\ \A id \in View!Running : downloads[id] \in [received : Nat, canceled : BOOLEAN]
  /\ host_heard \in [1 .. MaxDownloads -> Hearing]

(* No begin is undone or doubled.                                          *)
Milder ==
  \A e \in 1 .. next : /\ Begun(e) => Begun(e)'
                       /\ host_heard[e].begins = 0 => host_heard'[e].begins = 0

LEMMA HearsChunk ==
  ASSUME DownloadsTyped, HeardInv, NEW id \in 1 .. next, Begun(id),
         View!OnDownloadStreamChunk(id), UNCHANGED <<alive, sink, next>>,
         body'.at = "none" \/ alive
  PROVE  HeardInv' /\ DownloadsFit' /\ Milder /\ View!Running' = View!Running
<1> USE ServicesAssumption
<1>0. /\ id \in 1 .. MaxDownloads /\ host_heard \in [1 .. MaxDownloads -> Hearing]
      /\ next \in Nat /\ next <= MaxDownloads
      /\ View!Running \subseteq 1 .. next /\ View!Running = DOMAIN downloads
      /\ View!Running' = DOMAIN downloads'
      /\ \A e \in View!Running : downloads[e] \in [received : Nat, canceled : BOOLEAN]
  BY DEF DownloadsTyped, View!Running
<1>1. CASE id \notin View!Running \/ downloads[id].canceled
  <2>1. UNCHANGED <<downloads, host_heard>>
    BY <1>1 DEF View!OnDownloadStreamChunk
  <2>2. View!Running' = View!Running
    BY <1>0, <2>1
  <2> QED
    BY <1>0, <2>1, <2>2 DEF HeardInv, DownloadsFit, Milder, Begun
<1>2. CASE id \in View!Running /\ ~downloads[id].canceled
  <2> PICK h \in Hearing : h = host_heard[id]
    BY <1>0
  <2> PICK more : more = [h EXCEPT !.chunks = @ + 1]
    OBVIOUS
  <2> PICK k \in Nat : k = downloads[id].received + 1
    BY <1>0, <1>2
  <2>1. /\ View!Told(id, more) /\ alive
        /\ downloads' = [downloads EXCEPT ![id].received = k]
    BY <1>2 DEF View!OnDownloadStreamChunk, HeardInv
  <2>2. Grows(h, more) /\ more.chunks = h.chunks + 1 /\ more.begins = h.begins
    BY MoreChunks
  <2>3. /\ ~h.canceled /\ h.finishes = 0 /\ ~h.late /\ Orderly(h) /\ HeardOf(h, downloads[id])
        /\ h.begins = 1 \/ h.lapsed
    BY <1>0, <1>2 DEF HeardInv, Orderly, HeardOf, Begun
  <2>4. \/ sink /\ host_heard' = [host_heard EXCEPT ![id] = more]
        \/ ~sink /\ host_heard' = [host_heard EXCEPT ![id].lapsed = TRUE]
    BY <1>0, <2>1, <2>2, <2>3, IsTold DEF Grows
  <2> PICK new : new = [downloads[id] EXCEPT !.received = k]
    OBVIOUS
  <2>5. /\ new \in [received : Nat, canceled : BOOLEAN] /\ new.received = k
        /\ new.canceled = downloads[id].canceled
        /\ View!Running' = View!Running /\ downloads'[id] = new
        /\ \A e \in View!Running : e # id => downloads'[e] = downloads[e]
    BY <1>0, <1>2, <2>1
  <2>6. /\ host_heard' \in [1 .. MaxDownloads -> Hearing]
        /\ \A e \in 1 .. MaxDownloads : e # id => host_heard'[e] = host_heard[e]
        /\ host_heard'[id].begins = h.begins /\ (h.lapsed => host_heard'[id].lapsed)
        /\ Orderly(host_heard'[id]) /\ HeardOf(host_heard'[id], new)
    <3>1. CASE host_heard' = [host_heard EXCEPT ![id] = more]
      <4>1. Orderly(more) /\ HeardOf(more, new)
        BY <2>2, <2>3, <2>5 DEF Grows, Orderly, HeardOf
      <4> QED
        BY <1>0, <2>2, <3>1, <4>1 DEF Grows
    <3>2. CASE host_heard' = [host_heard EXCEPT ![id].lapsed = TRUE]
      <4> PICK missed : missed = [h EXCEPT !.lapsed = TRUE]
        OBVIOUS
      <4>1. /\ missed \in Hearing /\ missed.lapsed /\ missed.begins = h.begins
            /\ Orderly(missed) /\ HeardOf(missed, new)
        BY <2>3, <2>5 DEF Hearing, Orderly, HeardOf
      <4> QED
        BY <1>0, <3>2, <4>1
    <3> QED
      BY <2>4, <3>1, <3>2
  <2>7. HeardInv'
    <3>1. \A e \in 1 .. MaxDownloads : Orderly(host_heard'[e])
      BY <2>6 DEF HeardInv
    <3>2. \A e \in View!Running : HeardOf(host_heard'[e], downloads'[e])
      BY <1>0, <2>5, <2>6 DEF HeardInv
    <3>3. \A e \in 1 .. MaxDownloads : e > next => host_heard'[e] = View!Unheard
      BY <1>0, <2>6 DEF HeardInv
    <3> QED
      BY <1>0, <2>1, <2>5, <3>1, <3>2, <3>3 DEF HeardInv
  <2>8. DownloadsFit'
    BY <1>0, <2>5, <2>6 DEF DownloadsFit
  <2>9. Milder
    <3>1. \A e \in 1 .. next : e # id => (Begun(e) => Begun(e)')
      BY <1>0, <2>5, <2>6 DEF Begun
    <3>2. Begun(id)'
      BY <2>3, <2>6 DEF Begun
    <3> QED
      BY <1>0, <2>6, <3>1, <3>2 DEF Milder
  <2> QED
    BY <2>5, <2>7, <2>8, <2>9
<1> QED
  BY <1>1, <1>2

LEMMA HearsDone ==
  ASSUME DownloadsTyped, HeardInv, NEW id \in 1 .. next, NEW ok \in BOOLEAN,
         View!OnDownloadStreamDone(id, ok), UNCHANGED <<alive, sink, next>>,
         body'.at = "none" \/ alive
  PROVE  HeardInv' /\ DownloadsFit' /\ Milder
<1> USE ServicesAssumption
<1>0. /\ id \in 1 .. MaxDownloads /\ host_heard \in [1 .. MaxDownloads -> Hearing]
      /\ next \in Nat /\ next <= MaxDownloads
      /\ View!Running \subseteq 1 .. next /\ View!Running = DOMAIN downloads
      /\ View!Running' = DOMAIN downloads'
      /\ \A e \in View!Running : downloads[e] \in [received : Nat, canceled : BOOLEAN]
  BY DEF DownloadsTyped, View!Running
<1>1. CASE id \notin View!Running
  <2>1. UNCHANGED <<downloads, host_heard>>
    BY <1>1 DEF View!OnDownloadStreamDone
  <2>2. View!Running' = View!Running
    BY <1>0, <2>1
  <2> QED
    BY <1>0, <2>1, <2>2 DEF HeardInv, DownloadsFit, Milder, Begun
<1>2. CASE id \in View!Running
  <2> PICK h \in Hearing : h = host_heard[id]
    BY <1>0
  <2> PICK success \in BOOLEAN : success = (ok /\ ~downloads[id].canceled)
    BY <1>0, <1>2
  <2>1. /\ alive
        /\ downloads' = [e \in View!Running \ {id} |-> downloads[e]]
    BY <1>2 DEF View!OnDownloadStreamDone, View!Finishes, View!Restrict, HeardInv
  <2>2. \/ host_heard' = [host_heard EXCEPT ![id].finishes = @ + 1, ![id].ok = success]
        \/ host_heard' = [host_heard EXCEPT ![id].lapsed = TRUE]
    BY <1>2 DEF View!OnDownloadStreamDone, View!Finishes
  <2>3. /\ h.finishes = 0 /\ Orderly(h) /\ HeardOf(h, downloads[id])
        /\ success => ~h.canceled
    BY <1>0, <1>2 DEF HeardInv, HeardOf
  <2>4. /\ View!Running' = View!Running \ {id}
        /\ \A e \in View!Running' : downloads'[e] = downloads[e]
    BY <1>0, <2>1
  <2>5. /\ host_heard' \in [1 .. MaxDownloads -> Hearing]
        /\ \A e \in 1 .. MaxDownloads : e # id => host_heard'[e] = host_heard[e]
        /\ host_heard'[id].begins = h.begins /\ Orderly(host_heard'[id])
    <3>1. CASE host_heard' = [host_heard EXCEPT ![id].finishes = @ + 1, ![id].ok = success]
      <4> PICK once : once = [h EXCEPT !.finishes = 1]
        OBVIOUS
      <4> PICK told2 : told2 = [once EXCEPT !.ok = success]
        OBVIOUS
      <4> PICK mid : mid = [host_heard EXCEPT ![id].finishes = @ + 1]
        OBVIOUS
      <4>3. once \in Hearing /\ once.begins = h.begins /\ once.chunks = h.chunks
            /\ once.finishes = 1 /\ once.canceled = h.canceled /\ once.lapsed = h.lapsed
            /\ once.late = h.late
        BY DEF Hearing
      <4>4. mid = [host_heard EXCEPT ![id] = once]
        BY <1>0, <2>3
      <4>5. host_heard' = [mid EXCEPT ![id].ok = success]
        BY <3>1
      <4>1. host_heard' = [host_heard EXCEPT ![id] = told2]
        BY <1>0, <4>3, <4>4, <4>5
      <4>6. told2 \in Hearing /\ told2.begins = h.begins /\ told2.chunks = h.chunks
            /\ told2.finishes = 1 /\ told2.canceled = h.canceled /\ told2.lapsed = h.lapsed
            /\ told2.late = h.late /\ told2.ok = success
        BY <4>3 DEF Hearing
      <4>2. Orderly(told2)
        BY <2>3, <4>6 DEF Orderly
      <4> QED
        BY <1>0, <4>1, <4>2, <4>6
    <3>2. CASE host_heard' = [host_heard EXCEPT ![id].lapsed = TRUE]
      <4> PICK missed : missed = [h EXCEPT !.lapsed = TRUE]
        OBVIOUS
      <4>1. missed \in Hearing /\ missed.begins = h.begins /\ Orderly(missed)
        BY <2>3 DEF Hearing, Orderly
      <4> QED
        BY <1>0, <3>2, <4>1
    <3> QED
      BY <2>2, <3>1, <3>2
  <2>6. HeardInv'
    <3>1. \A e \in 1 .. MaxDownloads : Orderly(host_heard'[e])
      BY <2>5 DEF HeardInv
    <3>2. \A e \in View!Running' : HeardOf(host_heard'[e], downloads'[e])
      BY <1>0, <2>4, <2>5 DEF HeardInv
    <3>3. \A e \in 1 .. MaxDownloads : e > next => host_heard'[e] = View!Unheard
      BY <1>0, <2>5 DEF HeardInv
    <3> QED
      BY <1>0, <2>1, <3>1, <3>2, <3>3 DEF HeardInv
  <2>7. DownloadsFit'
    BY <1>0, <2>4, <2>5 DEF DownloadsFit
  <2>8. Milder
    BY <1>0, <2>4, <2>5 DEF Milder, Begun
  <2> QED
    BY <2>6, <2>7, <2>8
<1> QED
  BY <1>1, <1>2

------------------------------------------------------------------------------
(* The queue of the main thread.                                           *)
LEMMA QueueStays ==
  ASSUME DownloadsTyped, QueueInv, Milder, UNCHANGED <<bodies, streams>>,
         \/ body'.at = "none"
         \/ body.at # "none" /\ body'.id = body.id /\ (body'.at = "begun" => body.at = "begun")
  PROVE  QueueInv'
<1> USE ServicesAssumption
<1>1. /\ \A n \in DOMAIN bodies : bodies[n].id \in 1 .. next
      /\ \A id \in DOMAIN streams : id \in 1 .. next
      /\ body.at # "none" => body.id \in 1 .. next
  BY DEF DownloadsTyped
<1>2. OpenInv'
  BY <1>1 DEF QueueInv, OpenInv, Milder, Opens
<1>3. \A id : BeginQueued(id)' <=> BeginQueued(id)
  BY DEF BeginQueued
<1>4. ChunkInv'
  BY <1>1, <1>3 DEF QueueInv, ChunkInv, Milder
<1>5. StreamInv'
  BY <1>1, <1>3 DEF QueueInv, StreamInv, StreamFits, Milder
<1>6. BodyInv'
  BY <1>1 DEF QueueInv, BodyInv, Milder, Opens
<1> QED
  BY <1>2, <1>4, <1>5, <1>6 DEF QueueInv

(* The first task is taken from the queue.                                 *)
TakenFirst(t) ==
  /\ bodies \in Seq(Tasks) /\ Len(bodies) \in Nat /\ DOMAIN bodies = 1 .. Len(bodies)
  /\ Len(bodies) > 0 /\ t = bodies[1] /\ t \in Tasks /\ t.id \in 1 .. next
  /\ bodies' \in Seq(Tasks) /\ DOMAIN bodies' = 1 .. Len(bodies) - 1
  /\ \A n \in DOMAIN bodies' : /\ bodies'[n] = bodies[n + 1]
                               /\ n + 1 \in DOMAIN bodies /\ n + 1 # 1

LEMMA Takes ==
  ASSUME DownloadsTyped, bodies # <<>>, bodies' = Tail(bodies)
  PROVE  TakenFirst(Head(bodies))
<1>1. bodies \in Seq(Tasks) /\ \A n \in DOMAIN bodies : bodies[n].id \in 1 .. next
  BY DEF DownloadsTyped
<1>2. Len(bodies) \in Nat /\ DOMAIN bodies = 1 .. Len(bodies) /\ Len(bodies) > 0
  BY <1>1, EmptySeq
<1>3. Head(bodies) = bodies[1] /\ 1 \in DOMAIN bodies
  BY <1>1, <1>2
<1>4. bodies[1] \in Tasks
  BY <1>1, <1>3
<1>5. /\ bodies' \in Seq(Tasks) /\ DOMAIN bodies' = 1 .. Len(bodies) - 1
      /\ \A n \in DOMAIN bodies' : bodies'[n] = bodies[n + 1]
  BY <1>1, <1>2, HeadTailProperties
<1> QED
  BY <1>1, <1>2, <1>3, <1>4, <1>5 DEF TakenFirst

(* What it does otherwise: a begin is undone for nobody, and doubled only  *)
(* for the download that the task opens.                                   *)
LEMMA HeadLeaves ==
  ASSUME DownloadsTyped, QueueInv, NEW t, TakenFirst(t), UNCHANGED <<streams, next>>,
         body.at = "none",
         \A e \in 1 .. next :
           /\ Begun(e) => Begun(e)'
           /\ host_heard[e].begins = 0 /\ (e # t.id \/ ~Opens(t)) => host_heard'[e].begins = 0,
         t.do = "begin" => Begun(t.id)',
         \/ body'.at = "none"
         \/ body'.id = t.id /\ t.do = "body" /\ Begun(t.id)'
  PROVE  QueueInv'
<1> USE ServicesAssumption
<1>1. /\ \A n \in DOMAIN bodies : bodies[n].id \in 1 .. next
      /\ \A id \in DOMAIN streams : id \in 1 .. next
  BY DEF DownloadsTyped
<1>2. 1 \in DOMAIN bodies
  BY DEF TakenFirst
<1>3. \A n \in DOMAIN bodies' : Opens(bodies'[n]) /\ Opens(t) => bodies'[n].id # t.id
  BY <1>2 DEF TakenFirst, QueueInv, OpenInv
<1>4. OpenInv'
  <2>1. \A n \in DOMAIN bodies' : Opens(bodies'[n]) => host_heard'[bodies'[n].id].begins = 0
    BY <1>1, <1>3 DEF TakenFirst, QueueInv, OpenInv
  <2>2. \A m, n \in DOMAIN bodies' :
          Opens(bodies'[m]) /\ Opens(bodies'[n]) /\ bodies'[m].id = bodies'[n].id => m = n
    BY DEF TakenFirst, QueueInv, OpenInv
  <2> QED
    BY <2>1, <2>2 DEF OpenInv, Opens
<1>5. \A id : BeginQueued(id) => BeginQueued(id)' \/ (id = t.id /\ t.do = "begin")
  <2>1. ASSUME NEW id, NEW n \in DOMAIN bodies, bodies[n].id = id, bodies[n].do = "begin", n # 1
        PROVE  BeginQueued(id)'
    <3>1. n - 1 \in DOMAIN bodies' /\ bodies'[n - 1] = bodies[n]
      BY <2>1 DEF TakenFirst
    <3> QED
      BY <2>1, <3>1 DEF BeginQueued
  <2> QED
    BY <2>1 DEF BeginQueued, TakenFirst
<1>6. \A id \in 1 .. next : BeginQueued(id) \/ Begun(id) => (BeginQueued(id) \/ Begun(id))'
  BY <1>5
<1>7. ChunkInv'
  <2>1. \A n \in DOMAIN bodies', id \in 1 .. next :
          bodies'[n].do = "chunk" /\ bodies'[n].id = id => (BeginQueued(id) \/ Begun(id))'
    BY <1>1, <1>6 DEF TakenFirst, QueueInv, ChunkInv
  <2>2. \A m, n \in DOMAIN bodies' :
         bodies'[m].do = "begin" /\ bodies'[n].do = "chunk" /\ bodies'[m].id = bodies'[n].id => m < n
    BY DEF TakenFirst, QueueInv, ChunkInv
  <2> QED
    BY <2>1, <2>2 DEF ChunkInv
<1>8. StreamInv'
  <2> SUFFICES ASSUME NEW id \in DOMAIN streams
               PROVE  /\ \A n \in DOMAIN bodies' : bodies'[n].id = id => bodies'[n].do # "body"
                      /\ body'.at # "none" => body'.id # id
                      /\ ~streams[id].began => /\ host_heard'[id].begins = 0
                                               /\ \A n \in DOMAIN bodies' : bodies'[n].id # id
                      /\ streams[id].began => (BeginQueued(id) \/ Begun(id))'
    BY DEF StreamInv, StreamFits
  <2>1. \A n \in DOMAIN bodies' : bodies'[n].id = id => bodies'[n].do # "body"
    BY DEF TakenFirst, QueueInv, StreamInv, StreamFits
  <2>2. body'.at # "none" => body'.id # id
    BY <1>2 DEF TakenFirst, QueueInv, StreamInv, StreamFits
  <2>3. ~streams[id].began => /\ host_heard'[id].begins = 0
                              /\ \A n \in DOMAIN bodies' : bodies'[n].id # id
    BY <1>1, <1>2 DEF TakenFirst, QueueInv, StreamInv, StreamFits
  <2>4. streams[id].began => (BeginQueued(id) \/ Begun(id))'
    BY <1>1, <1>6 DEF QueueInv, StreamInv, StreamFits
  <2> QED
    BY <2>1, <2>2, <2>3, <2>4
<1>9. BodyInv'
  <2>1. body'.at # "none" => \A n \in DOMAIN bodies' : Opens(bodies'[n]) => bodies'[n].id # body'.id
    BY <1>3 DEF Opens
  <2>2. body'.at = "begun" => Begun(body.id)'
    BY DEF Begun
  <2> QED
    BY <2>1, <2>2 DEF BodyInv, Opens
<1> QED
  BY <1>4, <1>7, <1>8, <1>9 DEF QueueInv

LEMMA TasksRun ==
  ASSUME DownloadsInv, View!RunBegin \/ View!RunChunk \/ View!RunDone \/ View!BodyBegins
  PROVE  DownloadsInv'
<1> USE ServicesAssumption
<1>1. /\ bodies # <<>> /\ bodies' = Tail(bodies) /\ body.at = "none"
      /\ UNCHANGED <<alive, sink, next, streams>>
  BY DEF View!RunBegin, View!RunChunk, View!RunDone, View!BodyBegins, View!Task, View!NoTask
<1> PICK t : t = Head(bodies)
  OBVIOUS
<1>2. TakenFirst(t) /\ t \in Tasks /\ t.id \in 1 .. next
  BY <1>1, Takes DEF DownloadsInv, TakenFirst
<1>3. \A n \in DOMAIN bodies' : bodies'[n].id \in 1 .. next
  BY <1>2 DEF DownloadsInv, DownloadsTyped, TakenFirst
<1>4. CASE View!RunBegin
  <2>1. /\ t.do = "begin" /\ View!OnDownloadStreamBegin(t.id) /\ UNCHANGED <<downloads, body>>
    BY <1>4 DEF View!RunBegin, View!Task
  <2>2. host_heard[t.id].begins = 0
    BY <1>2, <2>1 DEF TakenFirst, DownloadsInv, QueueInv, OpenInv, Opens
  <2>3. /\ HeardInv' /\ host_heard' \in [1 .. MaxDownloads -> Hearing]
        /\ Begun(t.id)'
        /\ \A e \in 1 .. next : e # t.id => host_heard'[e] = host_heard[e]
    BY <1>1, <1>2, <2>1, <2>2, HearsBegin DEF DownloadsInv
  <2>4. \A e \in 1 .. next : Begun(e) => Begun(e)'
    BY <2>1, <2>3 DEF Begun, View!Running
  <2>5. QueueInv'
    BY <1>1, <1>2, <2>1, <2>3, <2>4, HeadLeaves DEF DownloadsInv, Opens
  <2>6. DownloadsTyped'
    BY <1>1, <1>2, <1>3, <2>1, <2>3 DEF DownloadsInv, DownloadsTyped, TakenFirst, View!Running
  <2> QED
    BY <2>3, <2>5, <2>6 DEF DownloadsInv
<1>5. CASE View!RunChunk
  <2>1. /\ t.do = "chunk" /\ View!OnDownloadStreamChunk(t.id) /\ body' = body
    BY <1>5 DEF View!RunChunk, View!Task
  <2>2. Begun(t.id)
    <3>1. ASSUME BeginQueued(t.id) PROVE FALSE
      <4>1. PICK m \in DOMAIN bodies : bodies[m].id = t.id /\ bodies[m].do = "begin"
        BY <3>1 DEF BeginQueued
      <4>2. m < 1 /\ m \in 1 .. Len(bodies)
        BY <1>2, <2>1, <4>1 DEF TakenFirst, DownloadsInv, QueueInv, ChunkInv
      <4> QED
        BY <1>2, <4>2 DEF TakenFirst
    <3> QED
      BY <1>2, <2>1, <3>1 DEF TakenFirst, DownloadsInv, QueueInv, ChunkInv
  <2>3. HeardInv' /\ DownloadsFit' /\ Milder
    BY <1>1, <1>2, <2>1, <2>2, HearsChunk DEF DownloadsInv
  <2>4. QueueInv'
    BY <1>1, <1>2, <2>1, <2>3, HeadLeaves DEF DownloadsInv, Milder
  <2>5. DownloadsTyped'
    BY <1>1, <1>2, <1>3, <2>1, <2>3 DEF DownloadsInv, DownloadsTyped, DownloadsFit, TakenFirst
  <2> QED
    BY <2>3, <2>4, <2>5 DEF DownloadsInv
<1>6. CASE View!RunDone
  <2>1. /\ t.do = "done" /\ View!OnDownloadStreamDone(t.id, t.ok) /\ body' = body
    BY <1>6 DEF View!RunDone, View!Task
  <2>2. t.ok \in BOOLEAN
    BY <1>2, <2>1 DEF Tasks
  <2>3. HeardInv' /\ DownloadsFit' /\ Milder
    BY <1>1, <1>2, <2>1, <2>2, HearsDone DEF DownloadsInv
  <2>4. QueueInv'
    BY <1>1, <1>2, <2>1, <2>3, HeadLeaves DEF DownloadsInv, Milder
  <2>5. DownloadsTyped'
    BY <1>1, <1>2, <1>3, <2>1, <2>3 DEF DownloadsInv, DownloadsTyped, DownloadsFit, TakenFirst
  <2> QED
    BY <2>3, <2>4, <2>5 DEF DownloadsInv
<1>7. CASE View!BodyBegins
  <2>1. t.do = "body" /\ downloads' = downloads
    BY <1>7 DEF View!BodyBegins, View!Task
  <2>2. CASE alive
    <3>1. body' = [id |-> t.id, at |-> "begun"] /\ View!OnDownloadStreamBegin(t.id)
      BY <1>7, <2>2 DEF View!BodyBegins
    <3>2. host_heard[t.id].begins = 0
      BY <1>2, <2>1 DEF TakenFirst, DownloadsInv, QueueInv, OpenInv, Opens
    <3>3. /\ HeardInv' /\ host_heard' \in [1 .. MaxDownloads -> Hearing]
          /\ Begun(t.id)'
          /\ \A e \in 1 .. next : e # t.id => host_heard'[e] = host_heard[e]
      BY <1>1, <1>2, <2>1, <2>2, <3>1, <3>2, HearsBegin DEF DownloadsInv
    <3>4. \A e \in 1 .. next : Begun(e) => Begun(e)'
      BY <2>1, <3>3 DEF Begun, View!Running
    <3>5. QueueInv'
      BY <1>1, <1>2, <2>1, <3>1, <3>3, <3>4, HeadLeaves DEF DownloadsInv, Opens
    <3>6. DownloadsTyped'
      BY <1>1, <1>2, <1>3, <2>1, <3>1, <3>3 DEF DownloadsInv, DownloadsTyped, TakenFirst, View!Running
    <3> QED
      BY <3>3, <3>5, <3>6 DEF DownloadsInv
  <2>3. CASE ~alive
    <3>1. UNCHANGED <<body, host_heard>>
      BY <1>7, <2>3 DEF View!BodyBegins
    <3>2. HeardInv'
      BY <1>1, <2>1, <3>1 DEF DownloadsInv, HeardInv, View!Running
    <3>3. \A e \in 1 .. next : Begun(e) => Begun(e)'
      BY <2>1, <3>1 DEF Begun, View!Running
    <3>4. QueueInv'
      BY <1>1, <1>2, <2>1, <3>1, <3>3, HeadLeaves DEF DownloadsInv
    <3>5. DownloadsTyped'
      BY <1>1, <1>2, <1>3, <2>1, <3>1 DEF DownloadsInv, DownloadsTyped, TakenFirst, View!Running
    <3> QED
      BY <3>2, <3>4, <3>5 DEF DownloadsInv
  <2> QED
    BY <2>2, <2>3
<1> QED
  BY <1>4, <1>5, <1>6, <1>7

LEMMA BodyRuns ==
  ASSUME DownloadsInv, View!BodyDelivered \/ View!BodyDone
  PROVE  DownloadsInv'
<1> USE ServicesAssumption
<1>1. /\ UNCHANGED <<alive, sink, next, streams, bodies>> /\ body.at # "none"
      /\ body.id \in 1 .. next
      /\ body \in [id : 0 .. MaxDownloads, at : {"none", "begun", "delivered"}]
  BY DEF View!BodyDelivered, View!BodyDone, DownloadsInv, DownloadsTyped
<1>2. alive
  BY <1>1 DEF DownloadsInv, HeardInv
<1>3. CASE View!BodyDelivered
  <2>1. /\ body.at = "begun" /\ View!OnDownloadStreamChunk(body.id)
        /\ body' = [body EXCEPT !.at = "delivered"] \/ body' = [id |-> 0, at |-> "none"]
    BY <1>3 DEF View!BodyDelivered, View!NoTask
  <2>2. Begun(body.id)
    BY <2>1 DEF DownloadsInv, QueueInv, BodyInv
  <2>3. HeardInv' /\ DownloadsFit' /\ Milder
    BY <1>1, <1>2, <2>1, <2>2, HearsChunk DEF DownloadsInv
  <2>4. /\ body' \in [id : 0 .. MaxDownloads, at : {"none", "begun", "delivered"}]
        /\ body'.at = "none" \/ (body'.id = body.id /\ body'.at = "delivered")
    BY <1>1, <2>1
  <2>5. QueueInv'
    BY <1>1, <2>3, <2>4, QueueStays DEF DownloadsInv
  <2>6. DownloadsTyped'
    BY <1>1, <2>3, <2>4 DEF DownloadsInv, DownloadsTyped, DownloadsFit
  <2> QED
    BY <2>3, <2>5, <2>6 DEF DownloadsInv
<1>4. CASE View!BodyDone
  <2>1. /\ View!OnDownloadStreamDone(body.id, TRUE) /\ body' = [id |-> 0, at |-> "none"]
    BY <1>4 DEF View!BodyDone, View!NoTask
  <2>2. HeardInv' /\ DownloadsFit' /\ Milder
    BY <1>1, <1>2, <2>1, HearsDone DEF DownloadsInv
  <2>3. QueueInv'
    BY <1>1, <2>1, <2>2, QueueStays DEF DownloadsInv
  <2>4. DownloadsTyped'
    BY <1>1, <2>1, <2>2 DEF DownloadsInv, DownloadsTyped, DownloadsFit
  <2> QED
    BY <2>2, <2>3, <2>4 DEF DownloadsInv
<1> QED
  BY <1>3, <1>4

------------------------------------------------------------------------------
(* The host and the page.                                                  *)
LEMMA HostActs ==
  ASSUME DownloadsInv,
         View!CancelDownload \/ View!SetDownloadStreamCallbacks \/ View!DestroyView \/ View!StartFails
  PROVE  DownloadsInv'
<1> USE ServicesAssumption
<1>0. /\ host_heard \in [1 .. MaxDownloads -> Hearing] /\ alive
      /\ next \in Nat /\ next <= MaxDownloads /\ sink \in BOOLEAN
      /\ View!Running \subseteq 1 .. next /\ View!Running = DOMAIN downloads
      /\ View!Running' = DOMAIN downloads'
      /\ \A e \in View!Running : downloads[e] \in [received : Nat, canceled : BOOLEAN]
      /\ UNCHANGED <<streams, bodies, body>>
  BY DEF DownloadsInv, DownloadsTyped, View!Running, View!CancelDownload,
     View!SetDownloadStreamCallbacks, View!DestroyView, View!StartFails
<1>1. ASSUME NEW id \in View!Running, View!CancelDownload, ~downloads[id].canceled,
             downloads' = [downloads EXCEPT ![id].canceled = TRUE],
             host_heard' = [host_heard EXCEPT ![id].canceled = TRUE]
      PROVE  DownloadsInv'
  <2>0. UNCHANGED <<alive, sink, next>>
    BY <1>1 DEF View!CancelDownload
  <2> PICK h \in Hearing : h = host_heard[id]
    BY <1>0
  <2> PICK new : new = [downloads[id] EXCEPT !.canceled = TRUE]
    OBVIOUS
  <2> PICK ended2 : ended2 = [h EXCEPT !.canceled = TRUE]
    OBVIOUS
  <2>1. /\ new \in [received : Nat, canceled : BOOLEAN] /\ new.canceled
        /\ new.received = downloads[id].received
        /\ View!Running' = View!Running /\ downloads'[id] = new
        /\ \A e \in View!Running : e # id => downloads'[e] = downloads[e]
    BY <1>0, <1>1
  <2>2. Orderly(h) /\ HeardOf(h, downloads[id])
    BY <1>0, <1>1 DEF DownloadsInv, HeardInv
  <2>3. /\ ended2 \in Hearing /\ ended2.begins = h.begins /\ ended2.lapsed = h.lapsed
        /\ Orderly(ended2) /\ HeardOf(ended2, new)
    BY <2>1, <2>2 DEF Hearing, Orderly, HeardOf
  <2>4. /\ host_heard' \in [1 .. MaxDownloads -> Hearing] /\ host_heard'[id] = ended2
        /\ \A e \in 1 .. MaxDownloads : e # id => host_heard'[e] = host_heard[e]
    <3>1. id \in 1 .. MaxDownloads
      BY <1>0
    <3>2. host_heard' = [host_heard EXCEPT ![id] = ended2]
      BY <1>0, <1>1, <3>1
    <3> QED
      BY <1>0, <2>3, <3>1, <3>2
  <2>5. HeardInv'
    <3>1. \A e \in 1 .. MaxDownloads : Orderly(host_heard'[e])
      BY <2>3, <2>4 DEF DownloadsInv, HeardInv
    <3>2. \A e \in View!Running : HeardOf(host_heard'[e], downloads'[e])
      BY <1>0, <2>1, <2>3, <2>4 DEF DownloadsInv, HeardInv
    <3>3. \A e \in 1 .. MaxDownloads : e > next => host_heard'[e] = View!Unheard
      BY <1>0, <1>1, <2>4 DEF DownloadsInv, HeardInv
    <3> QED
      BY <1>0, <2>0, <2>1, <3>1, <3>2, <3>3 DEF HeardInv
  <2>6. Milder
    BY <1>0, <1>1, <2>1, <2>3, <2>4 DEF Milder, Begun
  <2>7. QueueInv'
    BY <1>0, <2>6, QueueStays DEF DownloadsInv
  <2>8. DownloadsTyped'
    BY <1>0, <2>0, <2>1, <2>4 DEF DownloadsInv, DownloadsTyped
  <2> QED
    BY <2>5, <2>7, <2>8 DEF DownloadsInv
<1>2. CASE View!SetDownloadStreamCallbacks
  <2>1. UNCHANGED <<alive, next, downloads, host_heard>> /\ sink' = ~sink
    BY <1>2 DEF View!SetDownloadStreamCallbacks
  <2>2. View!Running' = View!Running
    BY <1>0, <2>1
  <2>3. Milder
    BY <2>1, <2>2 DEF Milder, Begun
  <2>4. HeardInv'
    BY <1>0, <2>1, <2>2 DEF DownloadsInv, HeardInv
  <2>5. DownloadsTyped'
    BY <1>0, <2>1, <2>2 DEF DownloadsInv, DownloadsTyped
  <2> QED
    BY <1>0, <2>3, <2>4, <2>5, QueueStays DEF DownloadsInv
<1>3. CASE View!DestroyView
  <2>1. /\ UNCHANGED <<sink, next>> /\ downloads' = <<>> /\ alive' = FALSE /\ body.at = "none"
        /\ host_heard' = [id \in 1 .. MaxDownloads |-> View!Unheard]
    BY <1>3 DEF View!DestroyView, View!NoTask, View!Ids
  <2>2. View!Running' = {}
    BY <1>0, <2>1
  <2>3. /\ View!Unheard \in Hearing /\ View!Unheard.begins = 0 /\ Orderly(View!Unheard)
    BY DEF View!Unheard, Hearing, Orderly
  <2>4. Milder
    BY <1>0, <2>1, <2>2, <2>3 DEF Milder, Begun
  <2>5. HeardInv'
    BY <1>0, <2>1, <2>2, <2>3 DEF HeardInv
  <2>6. DownloadsTyped'
    BY <1>0, <2>1, <2>2, <2>3 DEF DownloadsInv, DownloadsTyped
  <2> QED
    BY <1>0, <2>4, <2>5, <2>6, QueueStays DEF DownloadsInv
<1>4. CASE View!StartFails
  <2>1. UNCHANGED <<alive, sink, downloads, host_heard>> /\ next' = next + 1 /\ next < MaxDownloads
    BY <1>4 DEF View!StartFails
  <2>2. View!Running' = View!Running
    BY <1>0, <2>1
  <2>3. Milder
    BY <2>1, <2>2 DEF Milder, Begun
  <2>4. HeardInv'
    BY <1>0, <2>1, <2>2 DEF DownloadsInv, HeardInv
  <2>5. DownloadsTyped'
    BY <1>0, <2>1, <2>2 DEF DownloadsInv, DownloadsTyped
  <2>6. QueueInv'
    BY <1>0, <2>1, <2>3, QueueStays DEF DownloadsInv
  <2> QED
    BY <2>4, <2>5, <2>6 DEF DownloadsInv
<1>5. ASSUME View!CancelDownload
      PROVE  DownloadsInv'
  BY <1>1, <1>5 DEF View!CancelDownload, View!Cancels
<1> QED
  BY <1>2, <1>3, <1>4, <1>5

(* Tasks are added to the queue.                                           *)
QueueKept ==
  /\ bodies \in Seq(Tasks) /\ Len(bodies) \in Nat /\ DOMAIN bodies = 1 .. Len(bodies)
  /\ bodies' \in Seq(Tasks)
  /\ \A n \in DOMAIN bodies : n \in DOMAIN bodies' /\ bodies'[n] = bodies[n]

AddsOne(t) ==
  /\ QueueKept /\ Len(bodies) + 1 \in DOMAIN bodies'
  /\ \A n \in DOMAIN bodies' : \/ n \in DOMAIN bodies /\ bodies'[n] = bodies[n]
                               \/ n = Len(bodies) + 1 /\ bodies'[n] = t

AddsTwo(t, u) ==
  /\ QueueKept /\ Len(bodies) + 1 \in DOMAIN bodies'
  /\ \A n \in DOMAIN bodies' : \/ n \in DOMAIN bodies /\ bodies'[n] = bodies[n]
                               \/ n = Len(bodies) + 1 /\ bodies'[n] = t
                               \/ n = Len(bodies) + 2 /\ bodies'[n] = u

LEMMA AppendAdds ==
  ASSUME bodies \in Seq(Tasks), NEW t \in Tasks, bodies' = Append(bodies, t)
  PROVE  AddsOne(t)
<1>1. /\ bodies' \in Seq(Tasks) /\ Len(bodies) \in Nat /\ DOMAIN bodies = 1 .. Len(bodies)
      /\ DOMAIN bodies' = 1 .. Len(bodies) + 1 /\ bodies'[Len(bodies) + 1] = t
      /\ \A n \in DOMAIN bodies : bodies'[n] = bodies[n]
  BY AppendProperties
<1>2. \A n \in DOMAIN bodies' : n \in DOMAIN bodies \/ n = Len(bodies) + 1
  BY <1>1
<1>3. Len(bodies) + 1 \in DOMAIN bodies' /\ \A n \in DOMAIN bodies : n \in DOMAIN bodies'
  BY <1>1
<1> QED
  BY <1>1, <1>2, <1>3 DEF AddsOne, QueueKept

LEMMA AppendAddsTwo ==
  ASSUME bodies \in Seq(Tasks), NEW t \in Tasks, NEW u \in Tasks,
         bodies' = bodies \o <<t>> \o <<u>>
  PROVE  AddsTwo(t, u)
<1> PICK more \in Seq(Tasks) : more = Append(bodies, t)
  BY AppendProperties
<1>1. bodies' = Append(more, u)
  <2>1. bodies \o <<t>> = more
    OBVIOUS
  <2>2. bodies' = more \o <<u>>
    BY <2>1
  <2> QED
    BY <2>2
<1>2. /\ Len(bodies) \in Nat /\ DOMAIN bodies = 1 .. Len(bodies) /\ Len(more) = Len(bodies) + 1
      /\ DOMAIN more = 1 .. Len(bodies) + 1 /\ more[Len(bodies) + 1] = t
      /\ \A n \in DOMAIN bodies : more[n] = bodies[n]
  BY AppendProperties
<1>3. /\ bodies' \in Seq(Tasks) /\ DOMAIN bodies' = 1 .. Len(bodies) + 2
      /\ bodies'[Len(bodies) + 2] = u
      /\ \A n \in DOMAIN more : bodies'[n] = more[n]
  BY <1>1, <1>2, AppendProperties
<1>4. \A n \in DOMAIN bodies' : n \in DOMAIN bodies \/ n = Len(bodies) + 1 \/ n = Len(bodies) + 2
  BY <1>2, <1>3
<1>5. /\ Len(bodies) + 1 \in DOMAIN bodies' /\ Len(bodies) + 1 \in DOMAIN more
      /\ \A n \in DOMAIN bodies : n \in DOMAIN bodies' /\ n \in DOMAIN more
  BY <1>2, <1>3
<1> QED
  BY <1>2, <1>3, <1>4, <1>5 DEF AddsTwo, QueueKept

LEMMA BeginsStayQueued == ASSUME QueueKept, NEW e, BeginQueued(e) PROVE BeginQueued(e)'
BY DEF QueueKept, BeginQueued

(* A new download, for which nothing is queued.                            *)
LEMMA Starts ==
  ASSUME DownloadsInv, NEW id \in 1 .. MaxDownloads, View!NewDownload(id), alive, sink,
         UNCHANGED <<alive, sink, body>>
  PROVE  /\ HeardInv' /\ DownloadsFit' /\ Milder
         /\ host_heard'[id].begins = 0 /\ id > next /\ next' = id
<1> USE ServicesAssumption
<1>0. /\ host_heard \in [1 .. MaxDownloads -> Hearing]
      /\ next \in Nat /\ next <= MaxDownloads
      /\ View!Running \subseteq 1 .. next /\ View!Running = DOMAIN downloads
      /\ View!Running' = DOMAIN downloads'
      /\ \A e \in View!Running : downloads[e] \in [received : Nat, canceled : BOOLEAN]
      /\ \A e \in 1 .. MaxDownloads : e > next => host_heard[e] = View!Unheard
  BY DEF DownloadsInv, DownloadsTyped, HeardInv, View!Running
<1> PICK new \in [received : Nat, canceled : BOOLEAN] : new = [received |-> 0, canceled |-> FALSE]
  OBVIOUS
<1>1. /\ next' = id /\ id = next + 1
      /\ downloads' = [e \in View!Running \cup {id} |-> IF e = id THEN new ELSE downloads[e]]
      /\ host_heard' = [host_heard EXCEPT ![id].lapsed = FALSE]
  BY DEF View!NewDownload
<1>2. /\ View!Running' = View!Running \cup {id} /\ id \notin View!Running /\ downloads'[id] = new
      /\ \A e \in View!Running : downloads'[e] = downloads[e]
  BY <1>0, <1>1
<1>3. host_heard' = host_heard /\ host_heard[id] = View!Unheard
  <2>1. host_heard[id] = View!Unheard
    BY <1>0, <1>1
  <2>2. [View!Unheard EXCEPT !.lapsed = FALSE] = View!Unheard
    <3> PICK h \in Hearing : h = View!Unheard
      BY DEF View!Unheard, Hearing
    <3>1. h.lapsed = FALSE
      BY DEF View!Unheard
    <3>2. [h EXCEPT !.lapsed = FALSE] = h
      BY <3>1 DEF Hearing
    <3> QED
      BY <3>2
  <2> QED
    BY <1>0, <1>1, <2>1, <2>2
<1>4. /\ View!Unheard.begins = 0 /\ HeardOf(View!Unheard, new)
  BY DEF View!Unheard, HeardOf
<1>5. HeardInv'
  <2>1. \A e \in View!Running' : HeardOf(host_heard[e], downloads'[e])
    BY <1>2, <1>3, <1>4 DEF DownloadsInv, HeardInv
  <2>2. \A e \in 1 .. MaxDownloads : e > next' => host_heard[e] = View!Unheard
    BY <1>0, <1>1
  <2> QED
    BY <1>3, <2>1, <2>2 DEF DownloadsInv, HeardInv
<1>6. DownloadsFit'
  BY <1>0, <1>1, <1>2, <1>3 DEF DownloadsFit
<1>7. Milder
  BY <1>0, <1>1, <1>2, <1>3 DEF Milder, Begun
<1> QED
  BY <1>0, <1>1, <1>3, <1>4, <1>5, <1>6, <1>7

LEMMA AnswersAreStreams ==
  ASSUME NEW answer \in View!Answers
  PROVE  answer \in Streams /\ ~answer.began
<1> USE ServicesAssumption
<1>1. ASSUME NEW a \in [chunks : 0 .. MaxChunks, end : {"eof", "failure"}, began : {FALSE}]
      PROVE  a \in Streams /\ ~a.began
  <2>1. a.chunks \in Nat /\ a.end \in {"eof", "failure", "status"}
    OBVIOUS
  <2>2. a.began = FALSE
    OBVIOUS
  <2>3. a = [chunks |-> a.chunks, end |-> a.end, began |-> a.began]
    OBVIOUS
  <2> QED
    BY <2>1, <2>2, <2>3 DEF Streams
<1>2. ASSUME NEW a \in [chunks : {1}, end : {"status"}, began : {FALSE}]
      PROVE  a \in Streams /\ ~a.began
  <2>1. a.chunks \in Nat /\ a.end \in {"eof", "failure", "status"}
    OBVIOUS
  <2>2. a.began = FALSE
    OBVIOUS
  <2>3. a = [chunks |-> a.chunks, end |-> a.end, began |-> a.began]
    OBVIOUS
  <2> QED
    BY <2>1, <2>2, <2>3 DEF Streams
<1> QED
  BY <1>1, <1>2 DEF View!Answers

LEMMA DownloadStarts ==
  ASSUME DownloadsInv, View!StartDownloadStream \/ View!PostSynthesizedDownload
  PROVE  DownloadsInv'
<1> USE ServicesAssumption
<1>1. CASE View!StartDownloadStream
  <2>1. alive /\ sink /\ UNCHANGED <<alive, sink, bodies, body>>
    BY <1>1 DEF View!StartDownloadStream
  <2>2. PICK id \in 1 .. MaxDownloads, answer \in View!Answers :
          /\ View!NewDownload(id)
          /\ streams' = [i \in DOMAIN streams \cup {id} |-> IF i = id THEN answer ELSE streams[i]]
    BY <1>1 DEF View!StartDownloadStream, View!Ids
  <2>3. /\ HeardInv' /\ DownloadsFit' /\ Milder
        /\ host_heard'[id].begins = 0 /\ id > next /\ next' = id
    BY <2>1, <2>2, Starts
  <2>4. answer \in Streams /\ ~answer.began
    BY AnswersAreStreams
  <2>5. /\ \A n \in DOMAIN bodies : bodies[n].id \in 1 .. next
        /\ \A e \in DOMAIN streams : e \in 1 .. next
        /\ body.at # "none" => body.id \in 1 .. next
        /\ next \in Nat
    BY DEF DownloadsInv, DownloadsTyped
  <2>6. /\ DOMAIN streams' = DOMAIN streams \cup {id} /\ streams'[id] = answer
        /\ id \notin DOMAIN streams
        /\ \A e \in DOMAIN streams : streams'[e] = streams[e]
    BY <2>2, <2>3, <2>5
  <2>7. \A e : BeginQueued(e)' <=> BeginQueued(e)
    BY <2>1 DEF BeginQueued
  <2>8. DownloadsTyped'
    BY <2>1, <2>3, <2>4, <2>5, <2>6 DEF DownloadsInv, DownloadsTyped, DownloadsFit
  <2>9. OpenInv' /\ BodyInv'
    BY <2>1, <2>3, <2>5 DEF DownloadsInv, QueueInv, OpenInv, BodyInv, Milder, Opens
  <2>10. ChunkInv'
    BY <2>1, <2>3, <2>5, <2>7 DEF DownloadsInv, QueueInv, ChunkInv, Milder
  <2>11. StreamInv'
    <3>1. ASSUME NEW e \in DOMAIN streams
          PROVE  /\ \A n \in DOMAIN bodies : bodies[n].id = e => bodies[n].do # "body"
                 /\ body.at # "none" => body.id # e
                 /\ ~streams[e].began => /\ host_heard'[e].begins = 0
                                         /\ \A n \in DOMAIN bodies : bodies[n].id # e
                 /\ streams[e].began => BeginQueued(e)' \/ Begun(e)'
      BY <2>3, <2>5, <2>7 DEF DownloadsInv, QueueInv, StreamInv, StreamFits, Milder
    <3> QED
      BY <2>1, <2>3, <2>4, <2>5, <2>6, <3>1 DEF StreamInv, StreamFits
  <2> QED
    BY <2>3, <2>8, <2>9, <2>10, <2>11 DEF DownloadsInv, QueueInv
<1>2. CASE View!PostSynthesizedDownload
  <2>1. alive /\ sink /\ UNCHANGED <<alive, sink, streams, body>>
    BY <1>2 DEF View!PostSynthesizedDownload
  <2>2. PICK id \in 1 .. MaxDownloads :
          View!NewDownload(id) /\ bodies' = Append(bodies, [id |-> id, do |-> "body"])
    BY <1>2 DEF View!PostSynthesizedDownload, View!Ids
  <2>3. /\ HeardInv' /\ DownloadsFit' /\ Milder
        /\ host_heard'[id].begins = 0 /\ id > next /\ next' = id
    BY <2>1, <2>2, Starts
  <2> PICK t \in Tasks : t = [id |-> id, do |-> "body"]
    BY DEF Tasks
  <2>4. AddsOne(t) /\ t.id = id /\ t.do = "body"
    BY <2>2, AppendAdds DEF DownloadsInv, DownloadsTyped
  <2>5. /\ \A n \in DOMAIN bodies : bodies[n].id \in 1 .. next
        /\ \A e \in DOMAIN streams : e \in 1 .. next
        /\ body.at # "none" => body.id \in 1 .. next
        /\ next \in Nat
    BY DEF DownloadsInv, DownloadsTyped
  <2>6. \A e : BeginQueued(e) => BeginQueued(e)'
    BY <2>4, BeginsStayQueued DEF AddsOne
  <2>7. \A n \in DOMAIN bodies' : \/ n \in DOMAIN bodies /\ bodies'[n] = bodies[n]
                                  \/ n = Len(bodies) + 1 /\ bodies'[n] = t
    BY <2>4 DEF AddsOne
  <2>8. DownloadsTyped'
    <3>1. \A n \in DOMAIN bodies' : bodies'[n].id \in 1 .. next'
      BY <2>3, <2>4, <2>5, <2>7
    <3> QED
      BY <2>1, <2>3, <2>4, <2>5, <3>1 DEF DownloadsInv, DownloadsTyped, DownloadsFit, AddsOne, QueueKept
  <2>9. OpenInv'
    BY <2>3, <2>4, <2>5, <2>7 DEF DownloadsInv, QueueInv, OpenInv, Milder, Opens
  <2>10. BodyInv'
    BY <2>1, <2>3, <2>4, <2>5, <2>7 DEF DownloadsInv, QueueInv, BodyInv, Milder, Opens
  <2>11. ChunkInv'
    BY <2>3, <2>4, <2>5, <2>6, <2>7 DEF DownloadsInv, QueueInv, ChunkInv, Milder
  <2>12. StreamInv'
    BY <2>1, <2>3, <2>4, <2>5, <2>6, <2>7 DEF DownloadsInv, QueueInv, StreamInv, StreamFits, Milder
  <2> QED
    BY <2>3, <2>8, <2>9, <2>10, <2>11, <2>12 DEF DownloadsInv, QueueInv
<1> QED
  BY <1>1, <1>2

------------------------------------------------------------------------------
(* The worker of a stream.                                                 *)
LEMMA WorkerRuns ==
  ASSUME DownloadsInv, View!Run
  PROVE  DownloadsInv'
<1> USE ServicesAssumption
<1>1. UNCHANGED <<alive, sink, next, downloads, body, host_heard>>
  BY DEF View!Run
<1>2. View!Running' = View!Running
  BY <1>1 DEF View!Running
<1>3. HeardInv'
  BY <1>1, <1>2 DEF DownloadsInv, HeardInv
<1>4. \A e : Begun(e)' <=> Begun(e)
  BY <1>1, <1>2 DEF Begun
<1>5. PICK id \in DOMAIN streams : View!WriteThunk(id) \/ View!Ends(id)
  BY DEF View!Run
<1>6. /\ \A n \in DOMAIN bodies : bodies[n].id \in 1 .. next
      /\ \A e \in DOMAIN streams : e \in 1 .. next /\ streams[e] \in Streams
      /\ bodies \in Seq(Tasks) /\ next \in Nat /\ next <= MaxDownloads
      /\ id \in 1 .. next /\ id \in 1 .. MaxDownloads
  BY DEF DownloadsInv, DownloadsTyped
<1> PICK s \in Streams : s = streams[id]
  BY <1>6
<1>7. CASE View!WriteThunk(id)
  <2> PICK k \in Nat : k = s.chunks - 1
    BY <1>7 DEF View!WriteThunk, Streams
  <2> PICK less : less = [s EXCEPT !.chunks = k]
    OBVIOUS
  <2> PICK s2 : s2 = [less EXCEPT !.began = TRUE]
    OBVIOUS
  <2>1. s2 \in Streams /\ s2.began
    BY DEF Streams
  <2>2. streams' = [streams EXCEPT ![id] = s2]
    <3> PICK mid : mid = [streams EXCEPT ![id].chunks = @ - 1]
      OBVIOUS
    <3>1. mid = [streams EXCEPT ![id] = less]
      BY <1>6
    <3>2. streams' = [mid EXCEPT ![id].began = TRUE]
      BY <1>7 DEF View!WriteThunk
    <3> QED
      BY <3>1, <3>2
  <2>3. /\ DOMAIN streams' = DOMAIN streams /\ streams'[id] = s2
        /\ \A e \in DOMAIN streams : e # id => streams'[e] = streams[e]
    BY <2>2
  <2> PICK chunk \in Tasks : chunk = [id |-> id, do |-> "chunk"]
    BY <1>6 DEF Tasks
  <2> PICK begin \in Tasks : begin = [id |-> id, do |-> "begin"]
    BY <1>6 DEF Tasks
  <2>4. CASE s.began
    <3>1. bodies' = bodies \o <<>> \o <<chunk>>
      BY <1>7, <2>4 DEF View!WriteThunk
    <3>2. bodies' = Append(bodies, chunk)
      BY <1>6, <3>1
    <3>3. AddsOne(chunk)
      BY <1>6, <3>2, AppendAdds
    <3>4. \A e : BeginQueued(e) => BeginQueued(e)'
      BY <3>3, BeginsStayQueued DEF AddsOne
    <3>5. \A n \in DOMAIN bodies' : \/ n \in DOMAIN bodies /\ bodies'[n] = bodies[n]
                                    \/ n = Len(bodies) + 1 /\ bodies'[n] = chunk
      BY <3>3 DEF AddsOne
    <3>6. DownloadsTyped'
      <4>1. \A e \in DOMAIN streams' : streams'[e] \in Streams
        BY <1>6, <2>1, <2>3
      <4>2. \A n \in DOMAIN bodies' : bodies'[n].id \in 1 .. next
        BY <1>6, <3>5
      <4> QED
        BY <1>1, <1>2, <2>3, <3>3, <4>1, <4>2 DEF DownloadsInv, DownloadsTyped, AddsOne, QueueKept
    <3>7. OpenInv'
      BY <1>1, <3>5 DEF DownloadsInv, QueueInv, OpenInv, Opens
    <3>8. ChunkInv'
      <4>1. BeginQueued(id) \/ Begun(id)
        BY <2>4 DEF DownloadsInv, QueueInv, StreamInv, StreamFits
      <4>2. \A m, n \in DOMAIN bodies' :
              bodies'[m].do = "begin" /\ bodies'[n].do = "chunk" /\ bodies'[m].id = bodies'[n].id
                => m < n
        <5>1. DOMAIN bodies = 1 .. Len(bodies) /\ Len(bodies) \in Nat
          BY <3>3 DEF AddsOne, QueueKept
        <5>2. \A m \in DOMAIN bodies' :
                bodies'[m].do = "begin" => m \in DOMAIN bodies /\ bodies'[m] = bodies[m]
          BY <3>5
        <5>3. \A m, n \in DOMAIN bodies :
                bodies[m].do = "begin" /\ bodies[n].do = "chunk" /\ bodies[m].id = bodies[n].id
                  => m < n
          BY DEF DownloadsInv, QueueInv, ChunkInv
        <5>4. ASSUME NEW m \in DOMAIN bodies', NEW n \in DOMAIN bodies',
                     bodies'[m].do = "begin", bodies'[n].do = "chunk",
                     bodies'[m].id = bodies'[n].id
              PROVE  m < n
          <6>1. CASE n \in DOMAIN bodies /\ bodies'[n] = bodies[n]
            BY <5>2, <5>3, <5>4, <6>1
          <6>2. CASE n = Len(bodies) + 1
            BY <5>1, <5>2, <5>4, <6>2
          <6> QED
            BY <3>5, <6>1, <6>2
        <5> QED
          BY <5>4
      <4>3. \A n \in DOMAIN bodies', e \in 1 .. next :
              bodies'[n].do = "chunk" /\ bodies'[n].id = e => BeginQueued(e) \/ Begun(e)
        BY <3>5, <4>1 DEF DownloadsInv, QueueInv, ChunkInv
      <4> QED
        BY <1>1, <1>4, <3>4, <4>2, <4>3 DEF ChunkInv
    <3>9. StreamInv'
      <4>1. ASSUME NEW e \in DOMAIN streams, e # id
            PROVE  StreamFits(e)'
        BY <1>1, <1>4, <2>3, <3>4, <3>5, <4>1 DEF DownloadsInv, QueueInv, StreamInv, StreamFits
      <4>2. /\ \A n \in DOMAIN bodies' : bodies'[n].id = id => bodies'[n].do # "body"
            /\ body.at # "none" => body.id # id
            /\ BeginQueued(id)' \/ Begun(id)'
        BY <1>4, <2>4, <3>4, <3>5 DEF DownloadsInv, QueueInv, StreamInv, StreamFits
      <4> QED
        <5>1. StreamFits(id)'
          BY <1>1, <2>1, <2>3, <4>2 DEF StreamFits
        <5> QED
          BY <2>3, <4>1, <5>1 DEF StreamInv
    <3>10. BodyInv'
      BY <1>1, <1>4, <3>5 DEF DownloadsInv, QueueInv, BodyInv, Opens
    <3> QED
      BY <1>3, <3>6, <3>7, <3>8, <3>9, <3>10 DEF DownloadsInv, QueueInv
  <2>5. CASE ~s.began
    <3>1. bodies' = bodies \o <<begin>> \o <<chunk>>
      BY <1>7, <2>5 DEF View!WriteThunk
    <3>3. AddsTwo(begin, chunk)
      BY <1>6, <3>1, AppendAddsTwo
    <3>4. \A e : BeginQueued(e) => BeginQueued(e)'
      BY <3>3, BeginsStayQueued DEF AddsTwo
    <3>5. \A n \in DOMAIN bodies' : \/ n \in DOMAIN bodies /\ bodies'[n] = bodies[n]
                                    \/ n = Len(bodies) + 1 /\ bodies'[n] = begin
                                    \/ n = Len(bodies) + 2 /\ bodies'[n] = chunk
      BY <3>3 DEF AddsTwo
    <3>6. DownloadsTyped'
      <4>1. \A e \in DOMAIN streams' : streams'[e] \in Streams
        BY <1>6, <2>1, <2>3
      <4>2. \A n \in DOMAIN bodies' : bodies'[n].id \in 1 .. next
        BY <1>6, <3>5
      <4> QED
        BY <1>1, <1>2, <2>3, <3>3, <4>1, <4>2 DEF DownloadsInv, DownloadsTyped, AddsTwo, QueueKept
    <3>7. /\ host_heard[id].begins = 0 /\ \A n \in DOMAIN bodies : bodies[n].id # id
          /\ body.at # "none" => body.id # id
      BY <2>5 DEF DownloadsInv, QueueInv, StreamInv, StreamFits
    <3>8. OpenInv'
      BY <1>1, <3>5, <3>7 DEF DownloadsInv, QueueInv, OpenInv, Opens
    <3>9. BeginQueued(id)'
      BY <3>3 DEF AddsTwo, QueueKept, BeginQueued
    <3>10. ChunkInv'
      <4>2. \A m, n \in DOMAIN bodies' :
              bodies'[m].do = "begin" /\ bodies'[n].do = "chunk" /\ bodies'[m].id = bodies'[n].id
                => m < n
        BY <3>3, <3>5, <3>7 DEF DownloadsInv, QueueInv, ChunkInv, AddsTwo, QueueKept
      <4>3. \A n \in DOMAIN bodies', e \in 1 .. next :
              bodies'[n].do = "chunk" /\ bodies'[n].id = e => e = id \/ BeginQueued(e) \/ Begun(e)
        BY <3>5 DEF DownloadsInv, QueueInv, ChunkInv
      <4> QED
        BY <1>1, <1>4, <3>4, <3>9, <4>2, <4>3 DEF ChunkInv
    <3>11. StreamInv'
      <4>1. ASSUME NEW e \in DOMAIN streams, e # id
            PROVE  StreamFits(e)'
        BY <1>1, <1>4, <2>3, <3>4, <3>5, <4>1 DEF DownloadsInv, QueueInv, StreamInv, StreamFits
      <4>2. \A n \in DOMAIN bodies' : bodies'[n].id = id => bodies'[n].do # "body"
        BY <3>5, <3>7
      <4> QED
        <5>1. StreamFits(id)'
          BY <1>1, <2>1, <2>3, <3>7, <3>9, <4>2 DEF StreamFits
        <5> QED
          BY <2>3, <4>1, <5>1 DEF StreamInv
    <3>12. BodyInv'
      BY <1>1, <1>4, <3>5, <3>7 DEF DownloadsInv, QueueInv, BodyInv, Opens
    <3> QED
      BY <1>3, <3>6, <3>8, <3>10, <3>11, <3>12 DEF DownloadsInv, QueueInv
  <2> QED
    BY <2>4, <2>5
<1>8. CASE View!Ends(id)
  <2> PICK ok \in BOOLEAN : ok = (s.end = "eof" /\ s.began /\ ~View!Aborts(id))
    BY DEF Streams
  <2> PICK t \in Tasks : t = [id |-> id, do |-> "done", ok |-> ok]
    BY <1>6 DEF Tasks
  <2>1. /\ bodies' = Append(bodies, t)
        /\ streams' = [e \in DOMAIN streams \ {id} |-> streams[e]]
    BY <1>8 DEF View!Ends, View!Done, View!Restrict
  <2>2. /\ DOMAIN streams' = DOMAIN streams \ {id}
        /\ \A e \in DOMAIN streams' : streams'[e] = streams[e]
    BY <2>1
  <2>3. AddsOne(t)
    BY <1>6, <2>1, AppendAdds
  <2>4. \A e : BeginQueued(e) => BeginQueued(e)'
    BY <2>3, BeginsStayQueued DEF AddsOne
  <2>5. \A n \in DOMAIN bodies' : \/ n \in DOMAIN bodies /\ bodies'[n] = bodies[n]
                                  \/ n = Len(bodies) + 1 /\ bodies'[n] = t
    BY <2>3 DEF AddsOne
  <2>6. DownloadsTyped'
    <3>1. \A n \in DOMAIN bodies' : bodies'[n].id \in 1 .. next
      BY <1>6, <2>5
    <3>2. bodies' \in Seq(Tasks)
      BY <2>3 DEF AddsOne, QueueKept
    <3>3. \A e \in DOMAIN streams' : streams'[e] \in Streams /\ e \in 1 .. next
      BY <1>6, <2>2
    <3> QED
      BY <1>1, <1>2, <3>1, <3>2, <3>3 DEF DownloadsInv, DownloadsTyped
  <2>7. OpenInv'
    BY <1>1, <2>5 DEF DownloadsInv, QueueInv, OpenInv, Opens
  <2>8. ChunkInv'
    BY <1>1, <1>4, <2>4, <2>5 DEF DownloadsInv, QueueInv, ChunkInv
  <2>9. StreamInv'
    BY <1>1, <1>4, <2>2, <2>4, <2>5 DEF DownloadsInv, QueueInv, StreamInv, StreamFits
  <2>10. BodyInv'
    BY <1>1, <1>4, <2>5 DEF DownloadsInv, QueueInv, BodyInv, Opens
  <2> QED
    BY <1>3, <2>6, <2>7, <2>8, <2>9, <2>10 DEF DownloadsInv, QueueInv
<1> QED
  BY <1>5, <1>7, <1>8

LEMMA DownloadsNext ==
  ASSUME DownloadsInv, View!Next
  PROVE  DownloadsInv'
BY TasksRun, BodyRuns, HostActs, DownloadStarts, WorkerRuns DEF View!Next, View!MainThread

LEMMA DownloadsSound == ASSUME DownloadsInv PROVE View!DownloadsAreOrderly
BY DEF DownloadsInv, HeardInv, Orderly, HeardOf, View!DownloadsAreOrderly, View!Ids


------------------------------------------------------------------------------
(* The audio player.                                                       *)
PlayerTyped ==
  /\ position \in Nat /\ duration \in Nat /\ anchor_media \in Nat /\ elapsed \in Nat
  /\ rate \in Nat /\ seeks \in Nat
  /\ paused \in BOOLEAN /\ ended \in BOOLEAN /\ seeking \in BOOLEAN /\ timer \in BOOLEAN
  /\ has_media \in BOOLEAN /\ player \in BOOLEAN

(* What is anchored lies in the clip, which is as long as it was told to   *)
(* be when it was loaded, before it could be played.                       *)
ClockInv ==
  /\ Player!ClockIsTrue
  /\ position <= duration
  /\ timer => player
  /\ ~has_media => duration = 0 /\ paused /\ ~ended

StreamIsRead ==
  /\ Player!DecodingGoesOn
  /\ decoding = "report" => network = "loading" /\ ready = "nothing" /\ ~has_media
  /\ network = "empty" => decoding = "no" /\ ready = "nothing" /\ ~has_media

PlayerInv == PlayerTyped /\ ClockInv /\ StreamIsRead

LEMMA LeastOf ==
  \A x, y \in Nat : /\ Player!Least(x, y) \in Nat /\ Player!Least(x, y) <= y
                    /\ Player!Least(x, y) <= x
                    /\ x <= y => Player!Least(x, y) = x
                    /\ x >= y => Player!Least(x, y) = y
BY DEF Player!Least

(* Time that is added to what is left of the clip is cut off as a whole.   *)
LEMMA LeastAdds ==
  \A x, r, y \in Nat : Player!Least(Player!Least(x, y) + r, y) = Player!Least(x + r, y)
BY DEF Player!Least

LEMMA Products == \A x, y \in Nat : x * y \in Nat /\ 0 * y = 0 /\ (x + 1) * y = x * y + y
OBVIOUS

LEMMA PlayerInit == ASSUME Player!Init PROVE PlayerInv
<1>1. /\ network = "empty" /\ ready = "nothing" /\ has_media = FALSE /\ duration = 0
      /\ decoding = "no" /\ anchor_media = 0 /\ elapsed = 0 /\ rate = 1
      /\ paused = TRUE /\ ended = FALSE /\ seeking = FALSE
      /\ timer = FALSE /\ seeks = 0 /\ player = TRUE /\ position = 0
  BY DEF Player!Init
<1>2. PlayerTyped
  BY <1>1 DEF PlayerTyped
<1>3. ClockInv
  BY <1>1 DEF ClockInv, Player!ClockIsTrue, Player!CurrentTime
<1>4. StreamIsRead
  BY <1>1 DEF StreamIsRead, Player!DecodingGoesOn
<1> QED
  BY <1>2, <1>3, <1>4 DEF PlayerInv

(* The clock, wherever it was anchored, before and after a call.           *)
LEMMA ClockShows ==
  ASSUME PlayerTyped
  PROVE  /\ Player!CurrentTime \in Nat
         /\ ~paused => Player!CurrentTime <= duration
<1>1. elapsed * rate \in Nat
  BY Products DEF PlayerTyped
<1>2. anchor_media + elapsed * rate \in Nat
  BY <1>1 DEF PlayerTyped
<1> QED
  BY <1>2, LeastOf DEF PlayerTyped, Player!CurrentTime

(* A clock that is anchored in the clip shows where it was anchored.       *)
LEMMA Anchors ==
  ASSUME NEW t \in Nat, Player!Anchored(t), duration' \in Nat, t <= duration', rate' \in Nat
  PROVE  anchor_media' = t /\ elapsed' = 0 /\ Player!CurrentTime' = t
<1>1. anchor_media' = t /\ elapsed' = 0
  BY DEF Player!Anchored
<1>2. elapsed' * rate' = 0
  BY <1>1, Products
<1>3. PICK m \in Nat : m = elapsed' * rate' /\ m = 0
  BY <1>2
<1>4. m = 0 /\ t \in Nat
  BY <1>3
<1>5. anchor_media' + m = t
  BY <1>1, <1>4
<1>6. anchor_media' + elapsed' * rate' = t
  BY <1>3, <1>5
<1> QED
  BY <1>1, <1>4, <1>6, LeastOf DEF Player!CurrentTime

LEMMA PlayerIsCalled ==
  ASSUME PlayerInv,
         \/ Player!Play \/ Player!Pause \/ Player!SeekCompletes \/ Player!TimePasses
         \/ Player!OnPlaybackTick \/ Player!Paint \/ Player!Shutdown
         \/ \E t \in 0 .. duration + 1 : Player!Seek(t)
         \/ \E r \in Rates : Player!SetRate(r)
  PROVE  PlayerInv'
<1> USE ServicesAssumption
<1>1. UNCHANGED <<network, ready, has_media, duration, decoding>>
  BY DEF Player!Play, Player!Pause, Player!SeekCompletes, Player!TimePasses, Player!OnPlaybackTick,
     Player!Paint, Player!Shutdown, Player!Seek, Player!SetRate, Player!stream
<1>2. /\ position \in Nat /\ duration \in Nat /\ anchor_media \in Nat /\ elapsed \in Nat
      /\ rate \in Nat /\ seeks \in Nat
      /\ paused \in BOOLEAN /\ ended \in BOOLEAN /\ seeking \in BOOLEAN /\ timer \in BOOLEAN
      /\ has_media \in BOOLEAN /\ player \in BOOLEAN
      /\ Player!CurrentTime = position /\ position <= duration
      /\ player => (timer <=> ~paused)
      /\ ended => paused /\ position = duration
      /\ player /\ seeking => seeks > 0
      /\ timer => player
      /\ ~has_media => duration = 0 /\ paused /\ ~ended
  BY DEF PlayerInv, PlayerTyped, ClockInv, Player!ClockIsTrue
<1>3. StreamIsRead'
  <2>1. player' => player
    BY DEF Player!Play, Player!Pause, Player!SeekCompletes, Player!TimePasses, Player!OnPlaybackTick,
       Player!Paint, Player!Shutdown, Player!Seek, Player!SetRate, Player!clock
  <2> QED
    BY <1>1, <2>1 DEF PlayerInv, StreamIsRead, Player!DecodingGoesOn
<1>4. CASE Player!Play
  <2>1. PICK t \in Nat : t = IF ended THEN 0 ELSE Player!CurrentTime
    BY <1>2
  <2>2. /\ Player!Anchored(t) /\ position' = t /\ has_media /\ player
        /\ ended' = FALSE /\ paused' = FALSE /\ timer' = TRUE
        /\ UNCHANGED <<rate, seeking, seeks, player>>
    BY <1>2, <1>4, <2>1 DEF Player!Play
  <2>3. t <= duration
    BY <1>2, <2>1
  <2>4. anchor_media' = t /\ elapsed' = 0 /\ Player!CurrentTime' = t
    BY <1>1, <1>2, <2>2, <2>3, Anchors
  <2> QED
    BY <1>1, <1>2, <1>3, <2>2, <2>3, <2>4 DEF PlayerInv, PlayerTyped, ClockInv, Player!ClockIsTrue
<1>5. CASE Player!Pause
  <2>2. /\ Player!Anchored(position) /\ position' = position /\ player /\ ~paused
        /\ paused' = TRUE /\ timer' = FALSE
        /\ UNCHANGED <<rate, seeking, seeks, player, ended>>
    BY <1>2, <1>5 DEF Player!Pause
  <2>4. anchor_media' = position /\ elapsed' = 0 /\ Player!CurrentTime' = position
    BY <1>1, <1>2, <2>2, Anchors
  <2> QED
    BY <1>1, <1>2, <1>3, <2>2, <2>4 DEF PlayerInv, PlayerTyped, ClockInv, Player!ClockIsTrue
<1>6. ASSUME NEW t \in 0 .. duration + 1, Player!Seek(t)
      PROVE  PlayerInv'
  <2>1. PICK to \in Nat : to = Player!Least(t, duration)
    BY <1>2, LeastOf
  <2>2. /\ Player!Anchored(to) /\ position' = to /\ player
        /\ ended' = FALSE /\ seeking' = TRUE /\ seeks' = seeks + 1
        /\ UNCHANGED <<rate, paused, timer, player>>
    BY <1>6, <2>1 DEF Player!Seek
  <2>3. to <= duration
    BY <1>2, <2>1, LeastOf
  <2>4. anchor_media' = to /\ elapsed' = 0 /\ Player!CurrentTime' = to
    BY <1>1, <1>2, <2>2, <2>3, Anchors
  <2> QED
    <3>0. seeks' \in Nat
      <4>1. seeks \in Nat /\ seeks' = seeks + 1
        BY <1>2, <2>2
      <4> QED
        BY ONLY <4>1
    <3>1. PlayerTyped'
      <4>1. /\ ended' \in BOOLEAN /\ seeking' \in BOOLEAN /\ paused' \in BOOLEAN
            /\ timer' \in BOOLEAN /\ player' \in BOOLEAN /\ has_media' \in BOOLEAN
        BY <1>1, <1>2, <2>2, Zenon
      <4>2. /\ position' \in Nat /\ duration' \in Nat /\ anchor_media' \in Nat
            /\ elapsed' \in Nat /\ rate' \in Nat
        BY <1>1, <1>2, <2>2, <2>4
      <4> QED
        BY <3>0, <4>1, <4>2 DEF PlayerTyped
    <3>2. Player!ClockIsTrue'
      BY <1>2, <2>2, <2>4 DEF Player!ClockIsTrue
    <3>3. ClockInv'
      BY <1>1, <1>2, <2>2, <2>3, <3>2 DEF ClockInv
    <3> QED
      BY <1>3, <3>1, <3>3 DEF PlayerInv
<1>7. ASSUME NEW r \in Rates, Player!SetRate(r)
      PROVE  PlayerInv'
  <2>2. /\ Player!Anchored(position) /\ position' = position /\ player /\ rate' = r /\ r \in Nat
        /\ UNCHANGED <<paused, ended, seeking, timer, seeks, player>>
    BY <1>2, <1>7 DEF Player!SetRate, Player!AnchoredForRate
  <2>4. anchor_media' = position /\ elapsed' = 0 /\ Player!CurrentTime' = position
    BY <1>1, <1>2, <2>2, Anchors
  <2> QED
    BY <1>1, <1>2, <1>3, <2>2, <2>4 DEF PlayerInv, PlayerTyped, ClockInv, Player!ClockIsTrue
<1>8. CASE Player!TimePasses
  <2>2. /\ ~paused /\ elapsed' = elapsed + 1
        /\ position' = Player!Least(position + rate, duration)
        /\ UNCHANGED <<anchor_media, rate, paused, ended, seeking, timer, seeks, player>>
    BY <1>8 DEF Player!TimePasses
  <2>3. PICK p \in Nat : p = elapsed * rate
    BY <1>2, Products
  <2>4. elapsed' * rate' = p + rate
    BY <1>2, <2>2, <2>3, Products
  <2>5. PICK x \in Nat : x = anchor_media + p
    BY <1>2
  <2>6. position = Player!Least(x, duration)
    BY <1>2, <2>2, <2>3, <2>5 DEF Player!CurrentTime
  <2>7. anchor_media' + elapsed' * rate' = x + rate
    BY <1>2, <2>2, <2>4, <2>5
  <2>8. Player!CurrentTime' = Player!Least(x + rate, duration)
    BY <1>1, <2>2, <2>7 DEF Player!CurrentTime, Player!Least
  <2>9. position' = Player!Least(x + rate, duration)
    BY <1>2, <2>2, <2>6, LeastAdds
  <2>10. position' \in Nat /\ position' <= duration
    BY <1>2, <2>9, LeastOf
  <2> QED
    BY <1>1, <1>2, <1>3, <2>2, <2>8, <2>9, <2>10 DEF PlayerInv, PlayerTyped, ClockInv, Player!ClockIsTrue
<1>9. CASE Player!OnPlaybackTick
  <2>1. /\ timer /\ UNCHANGED <<rate, seeking, seeks, player, position>>
    BY <1>9 DEF Player!OnPlaybackTick
  <2>2. CASE position >= duration
    <3>1. /\ anchor_media' = duration /\ paused' = TRUE /\ ended' = TRUE /\ timer' = FALSE
          /\ elapsed' = 0
      BY <1>2, <1>9, <2>2 DEF Player!OnPlaybackTick
    <3>2. Player!CurrentTime' = duration
      BY <3>1 DEF Player!CurrentTime
    <3> QED
      <4>1. position = duration /\ has_media
        BY <1>2, <2>1, <2>2
      <4>2. PlayerTyped'
        BY <1>1, <1>2, <2>1, <3>1 DEF PlayerTyped
      <4>3. Player!ClockIsTrue'
        BY <1>1, <1>2, <2>1, <3>1, <3>2, <4>1 DEF Player!ClockIsTrue
      <4>4. ClockInv'
        BY <1>1, <1>2, <2>1, <3>1, <4>1, <4>3 DEF ClockInv
      <4> QED
        BY <1>3, <4>2, <4>4 DEF PlayerInv
  <2>3. CASE ~(position >= duration)
    <3>1. UNCHANGED <<anchor_media, paused, ended, timer, elapsed>>
      BY <1>2, <1>9, <2>3 DEF Player!OnPlaybackTick
    <3>2. Player!CurrentTime' = Player!CurrentTime
      BY <1>1, <2>1, <3>1 DEF Player!CurrentTime, Player!Least
    <3> QED
      BY <1>1, <1>2, <1>3, <2>1, <3>1, <3>2 DEF PlayerInv, PlayerTyped, ClockInv, Player!ClockIsTrue
  <2> QED
    BY <2>2, <2>3
<1>10. CASE Player!SeekCompletes \/ Player!Paint \/ Player!Shutdown
  <2>1. UNCHANGED <<anchor_media, elapsed, rate, paused, ended, position>>
    BY <1>10 DEF Player!SeekCompletes, Player!Paint, Player!Shutdown, Player!clock
  <2>2. Player!CurrentTime' = Player!CurrentTime
    BY <1>1, <2>1 DEF Player!CurrentTime, Player!Least
  <2>3. /\ seeks' \in Nat /\ seeking' \in BOOLEAN /\ timer' \in BOOLEAN /\ player' \in BOOLEAN
        /\ (player' => (player /\ timer' = timer))
        /\ (player' /\ seeking' => seeks' > 0)
        /\ (timer' => player')
    <3>1. CASE Player!SeekCompletes
      <4>1. /\ seeks > 0 /\ seeks' = seeks - 1 /\ seeking' = (seeking /\ ~player)
            /\ timer' = timer /\ player' = player
        BY <3>1 DEF Player!SeekCompletes
      <4>2. seeks' \in Nat
        BY <1>2, <4>1
      <4>3. player' /\ seeking' => FALSE
        BY <4>1
      <4> QED
        BY <1>2, <4>1, <4>2, <4>3
    <3>2. CASE Player!Paint
      BY <1>2, <3>2 DEF Player!Paint, Player!clock
    <3>3. CASE Player!Shutdown
      <4>1. /\ player /\ player' = FALSE /\ timer' = FALSE /\ UNCHANGED <<seeking, seeks>>
        BY <3>3 DEF Player!Shutdown
      <4> QED
        BY <1>2, <4>1
    <3> QED
      BY <1>10, <3>1, <3>2, <3>3
  <2> QED
    BY <1>1, <1>2, <1>3, <2>1, <2>2, <2>3 DEF PlayerInv, PlayerTyped, ClockInv, Player!ClockIsTrue
<1> QED
  BY <1>4, <1>5, <1>6, <1>7, <1>8, <1>9, <1>10

LEMMA PlayerDecodes ==
  ASSUME PlayerInv, Player!Load \/ Player!Decodes \/ Player!OnSeqFrameDecoded
  PROVE  PlayerInv'
<1> USE ServicesAssumption
<1>1. UNCHANGED <<player, anchor_media, elapsed, rate, paused, ended, seeking, timer, seeks, position>>
  BY DEF Player!Load, Player!Decodes, Player!OnSeqFrameDecoded, Player!ReportsAnError,
     Player!DecodeAndReport, Player!OnSeqDecoderInitialized, Player!OnPacketDecoded,
     Player!DecodeNextPacket, Player!OnFlushDecoded, Player!Feed, Player!FinishVideoDecode,
     Player!clock
<1>2. \/ UNCHANGED <<has_media, duration>>
      \/ ~has_media /\ has_media' = TRUE /\ duration' \in Nat
  BY DEF Player!Load, Player!Decodes, Player!OnSeqFrameDecoded, Player!ReportsAnError,
     Player!DecodeAndReport, Player!OnSeqDecoderInitialized, Player!OnPacketDecoded,
     Player!DecodeNextPacket, Player!OnFlushDecoded, Player!Feed, Player!FinishVideoDecode,
     PlayerInv, StreamIsRead
<1>3. StreamIsRead'
  BY <1>1 DEF Player!Load, Player!Decodes, Player!OnSeqFrameDecoded, Player!ReportsAnError,
     Player!DecodeAndReport, Player!OnSeqDecoderInitialized, Player!OnPacketDecoded,
     Player!DecodeNextPacket, Player!OnFlushDecoded, Player!Feed, Player!FinishVideoDecode,
     PlayerInv, StreamIsRead, Player!DecodingGoesOn
<1>4. Player!CurrentTime' = Player!CurrentTime
  BY <1>1, <1>2 DEF PlayerInv, ClockInv, Player!CurrentTime, Player!Least
<1>5. PlayerTyped'
  BY <1>1, <1>2 DEF PlayerInv, PlayerTyped
<1>6. ClockInv'
  BY <1>1, <1>2, <1>4 DEF PlayerInv, PlayerTyped, ClockInv, Player!ClockIsTrue
<1> QED
  BY <1>3, <1>5, <1>6 DEF PlayerInv

LEMMA PlayerNext ==
  ASSUME PlayerInv, Player!Next
  PROVE  PlayerInv'
BY PlayerIsCalled, PlayerDecodes DEF Player!Next


------------------------------------------------------------------------------
(* Side by side: a component's steps are its own, and the others' leave    *)
(* its state as it is.                                                     *)
LEMMA EndpointStays == EndpointInv /\ UNCHANGED devToolsVars => EndpointInv'
<1> SUFFICES ASSUME EndpointInv, UNCHANGED devToolsVars PROVE EndpointInv'
    OBVIOUS
<1> USE DEF devToolsVars
<1>1. EndpointTyped'
  BY DEF EndpointInv, EndpointTyped
<1>2. AskedInv'
  BY DEF EndpointInv, AskedInv
<1>3. \A c \in Clients, w \in Wants : Asks(c, w)' <=> Asks(c, w)
  BY DEF Asks
<1>4. \A c \in Clients : InSession(c)' <=> InSession(c)
  BY DEF InSession, Asks
<1>5. SocketInv'
  BY DEF EndpointInv, SocketInv, InSession, Asks
<1>6. SessionInv'
  BY DEF EndpointInv, SessionInv, InSession, Asks
<1> QED
  BY <1>1, <1>2, <1>5, <1>6 DEF EndpointInv

LEMMA OwnRests == OwnInv /\ UNCHANGED devToolsVars => OwnInv'
BY OwnStays DEF devToolsVars, SameSessions, InSession, Asks

LEMMA EndpointStep == EndpointInv /\ [SumNext]_SumVars => EndpointInv'
<1> SUFFICES ASSUME EndpointInv, [SumNext]_SumVars PROVE EndpointInv'
    OBVIOUS
<1>1. Endpoint!Next \/ UNCHANGED devToolsVars
  BY DEF SumNext, SumVars, restOfWatchdog, restOfSocket, restOfView, restOfPlayer
<1> QED
  BY <1>1, EndpointNext, EndpointStays

(* However the threads of the clients, the accept loop and the engine      *)
(* thread take turns: a socket that is listed, written to or about to be   *)
(* shut down has not been closed, and its number not been given to another *)
(* file; and the session of a client ends before its thread closes up.     *)
THEOREM SessionsAreOfTheirClients ==
  SumSpec => [](/\ Endpoint!TypeOK
                /\ Endpoint!SocketsAreTheirOwn
                /\ Endpoint!SessionsFollowClients)
<1>1. SumInit => EndpointInv
  BY EndpointInit DEF SumInit
<1>2. EndpointInv => Endpoint!TypeOK /\ Endpoint!SocketsAreTheirOwn
                       /\ Endpoint!SessionsFollowClients
  BY EndpointSound
<1> QED
  BY <1>1, <1>2, EndpointStep, PTL DEF SumSpec

(* However many views come to an address, and whatever the host attaches   *)
(* and detaches itself: the session that a client commands or ends is its  *)
(* own, unless its own was ended under it before, by the host, with its    *)
(* view, or by a client to which that had happened.                        *)
THEOREM ClientsKeepApart == SumSpec => []Endpoint!DevToolsAreSound
<1>1. SumInit => EndpointInv /\ OwnInv
  BY EndpointInit, OwnInit DEF SumInit
<1>2. EndpointInv /\ OwnInv /\ [SumNext]_SumVars => OwnInv'
  <2> SUFFICES ASSUME EndpointInv, OwnInv, [SumNext]_SumVars PROVE OwnInv'
      OBVIOUS
  <2>1. Endpoint!Next \/ UNCHANGED devToolsVars
    BY DEF SumNext, SumVars, restOfWatchdog, restOfSocket, restOfView, restOfPlayer
  <2> QED
    BY <2>1, OwnStep, OwnRests
<1>3. EndpointInv /\ OwnInv => Endpoint!DevToolsAreSound
  BY EndpointSound DEF OwnInv, Endpoint!DevToolsAreSound, Endpoint!ClientsKeepToTheirSession
<1> QED
  BY <1>1, <1>2, <1>3, EndpointStep, PTL DEF SumSpec

LEMMA DownloadsStay == DownloadsInv /\ UNCHANGED downloadVars => DownloadsInv'
<1> SUFFICES ASSUME DownloadsInv, UNCHANGED downloadVars PROVE DownloadsInv'
    OBVIOUS
<1> USE DEF downloadVars, View!Running, View!Ids
<1>1. DownloadsTyped'
  BY DEF DownloadsInv, DownloadsTyped
<1>2. HeardInv'
  BY DEF DownloadsInv, HeardInv, View!Unheard
<1>3. \A e : Begun(e)' <=> Begun(e)
  BY DEF Begun
<1>4. OpenInv'
  BY DEF DownloadsInv, QueueInv, OpenInv, Opens
<1>5. ChunkInv'
  BY DEF DownloadsInv, QueueInv, ChunkInv, Begun, BeginQueued
<1>6. StreamInv'
  BY DEF DownloadsInv, QueueInv, StreamInv, StreamFits, Begun, BeginQueued
<1>7. BodyInv'
  BY <1>3 DEF DownloadsInv, QueueInv, BodyInv, Opens
<1> QED
  BY <1>1, <1>2, <1>4, <1>5, <1>6, <1>7 DEF DownloadsInv, QueueInv

(* Whatever the workers that read the bodies and the main thread do in     *)
(* turn, and whenever the host cancels, changes its sink or lets the view  *)
(* go, it hears of a download's begin at most once and before its chunks,  *)
(* of its end at most once and last, and of no success after it canceled.  *)
THEOREM DownloadsInOrder == SumSpec => []View!DownloadsAreOrderly
<1>1. SumInit => DownloadsInv
  BY DownloadsInit DEF SumInit
<1>2. DownloadsInv /\ [SumNext]_SumVars => DownloadsInv'
  <2> SUFFICES ASSUME DownloadsInv, [SumNext]_SumVars PROVE DownloadsInv'
      OBVIOUS
  <2>1. View!Next \/ UNCHANGED downloadVars
    BY DEF SumNext, SumVars, restOfWatchdog, restOfSocket, restOfEndpoint, restOfPlayer
  <2> QED
    BY <2>1, DownloadsNext, DownloadsStay
<1> QED
  BY <1>1, <1>2, DownloadsSound, PTL DEF SumSpec

LEMMA PlayerStays == PlayerInv /\ UNCHANGED playerVars => PlayerInv'
<1> SUFFICES ASSUME PlayerInv, UNCHANGED playerVars PROVE PlayerInv'
    OBVIOUS
<1>1. PlayerTyped'
  BY DEF PlayerInv, PlayerTyped, playerVars
<1>2. Player!ClockIsTrue'
  BY DEF PlayerInv, ClockInv, Player!ClockIsTrue, Player!CurrentTime, Player!Least, playerVars
<1>3. ClockInv'
  BY <1>2 DEF PlayerInv, ClockInv, playerVars
<1>4. StreamIsRead'
  BY DEF PlayerInv, StreamIsRead, Player!DecodingGoesOn, playerVars
<1> QED
  BY <1>1, <1>3, <1>4 DEF PlayerInv

(* Wherever the clock was anchored again, by a pause, a seek, a new rate   *)
(* or the end, and however late its timer comes, it shows how far the clip *)
(* has come; and a clip whose metadata are there is being decoded until it *)
(* is prepared.                                                            *)
THEOREM TheClockIsTrue == SumSpec => [](Player!ClockIsTrue /\ Player!DecodingGoesOn)
<1>1. SumInit => PlayerInv
  BY PlayerInit DEF SumInit
<1>2. PlayerInv /\ [SumNext]_SumVars => PlayerInv'
  <2> SUFFICES ASSUME PlayerInv, [SumNext]_SumVars PROVE PlayerInv'
      OBVIOUS
  <2>1. Player!Next \/ UNCHANGED playerVars
    BY DEF SumNext, SumVars, restOfWatchdog, restOfSocket, restOfView, restOfEndpoint
  <2> QED
    BY <2>1, PlayerNext, PlayerStays
<1>3. PlayerInv => Player!ClockIsTrue /\ Player!DecodingGoesOn
  BY DEF PlayerInv, ClockInv, StreamIsRead
<1> QED
  BY <1>1, <1>2, <1>3, PTL DEF SumSpec
=============================================================================
