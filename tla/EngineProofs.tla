---------------------------- MODULE EngineProofs ----------------------------
(***************************************************************************)
(* Proofs, for every set of callbacks and every host, of                   *)
(*   - the type invariant and the safety properties of EngineProperties;   *)
(*   - the promises of CallbackLife: each step of Engine is a step of      *)
(*     CallbackLife or changes nothing of what it shows of the engine.     *)
(***************************************************************************)
EXTENDS EngineProperties, SequenceTheorems, TLAPS

(* Lemmas about the call stack. *)

\* A frame on top of a stack makes a stack, and so does taking it off.
LEMMA PushFrame ==
    ASSUME NEW s \in Seq(Frame), NEW f \in Frame
    PROVE  <<f>> \o s \in Seq(Frame)
OBVIOUS

LEMMA PushTwoFrames ==
    ASSUME NEW s \in Seq(Frame), NEW f \in Frame, NEW g \in Frame
    PROVE  <<f, g>> \o s \in Seq(Frame)
OBVIOUS

LEMMA PopFrame ==
    ASSUME NEW s \in Seq(Frame), s # <<>>
    PROVE  Head(s) \in Frame /\ Tail(s) \in Seq(Frame)
OBVIOUS

\* What Fr builds is a frame.
LEMMA FrType ==
    ASSUME NEW at \in FrameAt, NEW cb \in Callback \cup {None},
           NEW todo \in SUBSET Callback
    PROVE  Fr(at, cb, todo) \in Frame
BY DEF Fr, Frame

\* A frame Fr builds, on top of a stack.
LEMMA PushFr ==
    ASSUME NEW s \in Seq(Frame), NEW at \in FrameAt,
           NEW cb \in Callback \cup {None}, NEW todo \in SUBSET Callback
    PROVE  <<Fr(at, cb, todo)>> \o s \in Seq(Frame)
BY FrType, PushFrame

\* The innermost frame and the stack under it.
LEMMA TopType ==
    ASSUME TypeOK, NEW at, At(at)
    PROVE  /\ stack # <<>>
           /\ Tail(stack) \in Seq(Frame)
           /\ Head(stack).cb \in Callback \cup {None}
           /\ Head(stack).todo \in SUBSET Callback
<1>1. stack # <<>> /\ stack \in Seq(Frame)
  BY DEF TypeOK, At
<1>2. Head(stack) \in Frame /\ Tail(stack) \in Seq(Frame)
  BY <1>1, PopFrame
<1> QED
  BY <1>1, <1>2 DEF Frame

\* A pass with a timer taken off its list is still a stack.
LEMMA PassType ==
    ASSUME TypeOK, At("timers"), NEW c
    PROVE  PassWithout(c) \in Seq(Frame)
<1>1. Tail(stack) \in Seq(Frame) /\ Head(stack).todo \ {c} \in SUBSET Callback
  BY TopType
<1> QED
  BY <1>1, PushFr DEF PassWithout, FrameAt

\* doneCheck's two frames.
LEMMA EnterDoneCheckType ==
    ASSUME TypeOK, NEW c \in Callback \cup {None}, NEW rest \in Seq(Frame),
           EnterDoneCheck(c, rest)
    PROVE  stack' \in Seq(Frame) /\ batch' = Len(ticks) /\ batch' \in Nat
<1>1. Fr("posted", None, {}) \in Frame /\ Fr("check", c, {}) \in Frame
  BY FrType DEF FrameAt
<1>2. <<Fr("posted", None, {}), Fr("check", c, {})>> \o rest \in Seq(Frame)
  BY <1>1, PushTwoFrames
<1> QED
  BY <1>2 DEF EnterDoneCheck, TypeOK

\* Entering a callback counts it.
LEMMA EnteredType ==
    ASSUME TypeOK, NEW c \in Callback
    PROVE  Entered(c) \in [Callback -> 0..2]
BY DEF Entered, TypeOK

\* The posted events without the oldest.
LEMMA DeliveredType ==
    ASSUME TypeOK, batch > 0
    PROVE  /\ ticks # <<>> /\ Head(ticks) \in Callback
           /\ Delivered \in Seq(Callback) /\ Len(Delivered) = Len(ticks) - 1
BY DEF TypeOK, Delivered

\* quit's codes and what they do to the process.
LEMMA EmitQuitType ==
    ASSUME TypeOK, NEW code \in {0, 1}, EmitQuit(code)
    PROVE  quits' \subseteq {0, 1} /\ exitCode' \in ExitCode \cup {0, 1, None}
BY DEF TypeOK, EmitQuit

\* Every step leaves a stack of frames.
LEMMA StackStep == TypeOK /\ [Next]_vars => stack' \in Seq(Frame)
<1> SUFFICES ASSUME TypeOK, [Next]_vars PROVE stack' \in Seq(Frame)
  OBVIOUS
<1>0. stack \in Seq(Frame) /\ hasException \in BOOLEAN
  BY DEF TypeOK
<1>1. ASSUME NEW c \in Callback, SetTimeout(c) PROVE stack' \in Seq(Frame)
  BY <1>1, <1>0 DEF SetTimeout
<1>2. ASSUME NEW c \in Callback, SetInterval(c) PROVE stack' \in Seq(Frame)
  BY <1>2, <1>0 DEF SetInterval
<1>3. ASSUME NEW c \in Callback, NextTick(c) PROVE stack' \in Seq(Frame)
  BY <1>3, <1>0 DEF NextTick
<1>4. ASSUME NEW c \in Callback, ClearTimeout(c) PROVE stack' \in Seq(Frame)
  BY <1>4, <1>0 DEF ClearTimeout
<1>5. ASSUME NEW c \in Callback, ClearInterval(c) PROVE stack' \in Seq(Frame)
  BY <1>5, <1>0 DEF ClearInterval
<1>6. ASSUME NEW code \in ExitCode, ProcessExit(code) PROVE stack' \in Seq(Frame)
  BY <1>6, <1>0 DEF ProcessExit
<1>7. CASE GlobalRequire
  BY <1>7, <1>0, PushFr DEF GlobalRequire, FrameAt
<1>8. CASE Catch
  BY <1>8, <1>0 DEF Catch
<1>9. CASE ModuleReturn
  BY <1>9, TopType, EnterDoneCheckType DEF ModuleReturn
<1>10. CASE ModuleThrow
  BY <1>10, TopType, EnterDoneCheckType DEF ModuleThrow
<1>11. CASE HandlerEnd
  BY <1>11, TopType DEF HandlerEnd
<1>12. ASSUME NEW threw \in BOOLEAN, TickEnd(threw) PROVE stack' \in Seq(Frame)
  BY <1>12, TopType DEF TickEnd
<1>13. ASSUME NEW threw \in BOOLEAN, TimerEnd(threw) PROVE stack' \in Seq(Frame)
  BY <1>13, TopType, EnterDoneCheckType DEF TimerEnd
<1>14. CASE RequireLoad
  BY <1>14, TopType, PushFr DEF RequireLoad, FrameAt, ScriptAt
<1>15. CASE RequireMissing
  BY <1>15, TopType, EnterDoneCheckType DEF RequireMissing
<1>16. CASE CustomEvent
  BY <1>16, <1>0, DeliveredType, PushFr DEF CustomEvent, FrameAt, ScriptAt
<1>17. CASE CollectTimers
  BY <1>17, TopType, PushFr DEF CollectTimers, FrameAt, TypeOK
<1>18. CASE EndPass
  BY <1>18, TopType DEF EndPass
<1>19. ASSUME NEW c \in Callback, TimerEvent(c) PROVE stack' \in Seq(Frame)
  BY <1>19, PassType, EnterDoneCheckType, PushFr DEF TimerEvent, Expired, CallTimer, FrameAt, ScriptAt
<1>20. ASSUME NEW c \in Callback, SkipActive(c) PROVE stack' \in Seq(Frame)
  BY <1>20, PassType DEF SkipActive, Expired
<1>21. CASE FinishDoneCheck
  BY <1>21, TopType DEF FinishDoneCheck
<1>22. CASE LoopPass
  BY <1>22, <1>0, FrType DEF LoopPass, FrameAt, ScriptAt, InLoop
<1>23. CASE LoopExit
  BY <1>23, <1>0 DEF LoopExit
<1>24. CASE HostCall
  BY <1>24, <1>0, PushFr DEF HostCall, FrameAt, ScriptAt
<1>25. ASSUME NEW c \in Callback, ExpireTimer(c) PROVE stack' \in Seq(Frame)
  BY <1>25, <1>0 DEF ExpireTimer
<1>26. CASE UNCHANGED vars
  BY <1>26, <1>0 DEF vars
<1> QED
  BY <1>1, <1>2, <1>3, <1>4, <1>5, <1>6, <1>7, <1>8, <1>9, <1>10, <1>11, <1>12, <1>13, <1>14, <1>15, <1>16, <1>17, <1>18, <1>19, <1>20, <1>21, <1>22, <1>23, <1>24, <1>25, <1>26 DEF Next, ScriptCall, ScriptEnd, Dispatch, Terminated

\* Every step keeps the types.
LEMMA TypeStep == TypeOK /\ [Next]_vars => TypeOK'
<1> SUFFICES ASSUME TypeOK, [Next]_vars PROVE TypeOK'
  OBVIOUS
<1>0. stack' \in Seq(Frame)
  BY StackStep
<1> USE EngineAssumption, <1>0
<1>1. ASSUME NEW c \in Callback, SetTimeout(c) PROVE TypeOK'
  BY <1>1 DEF TypeOK, SetTimeout, processVars, tickVars
<1>2. ASSUME NEW c \in Callback, SetInterval(c) PROVE TypeOK'
  BY <1>2 DEF TypeOK, SetInterval, processVars, tickVars
<1>3. ASSUME NEW c \in Callback, NextTick(c) PROVE TypeOK'
  BY <1>3 DEF TypeOK, NextTick, Posted, processVars, timerVars
<1>4. ASSUME NEW c \in Callback, ClearTimeout(c) PROVE TypeOK'
  BY <1>4 DEF TypeOK, ClearTimeout, KillTimer, processVars, tickVars
<1>5. ASSUME NEW c \in Callback, ClearInterval(c) PROVE TypeOK'
  BY <1>5 DEF TypeOK, ClearInterval, KillTimer, processVars, tickVars
<1>6. ASSUME NEW code \in ExitCode, ProcessExit(code) PROVE TypeOK'
  BY <1>6 DEF TypeOK, ProcessExit, timerVars, tickVars, historyVars
<1>7. CASE GlobalRequire
  BY <1>7 DEF TypeOK, GlobalRequire, timerVars, tickVars, processVars, historyVars
<1>8. CASE Catch
  BY <1>8 DEF TypeOK, Catch, timerVars, tickVars, processVars, historyVars
<1>9. CASE ModuleReturn
  BY <1>9 DEF TypeOK, ModuleReturn, At, EnterDoneCheck, timerVars, processVars, historyVars
<1>10. CASE ModuleThrow
  <2>1. quits' \subseteq {0, 1} /\ exitCode' \in ExitCode \cup {0, 1, None}
    BY <1>10, EmitQuitType DEF ModuleThrow
  <2>2. batch' \in 0..Len(ticks)
    BY <1>10 DEF TypeOK, ModuleThrow, EnterDoneCheck
  <2> QED
    BY <1>10, <2>1, <2>2 DEF TypeOK, ModuleThrow, timerVars, historyVars
<1>11. CASE HandlerEnd
  BY <1>11 DEF TypeOK, HandlerEnd, At, timerVars, tickVars, processVars, historyVars
<1>12. ASSUME NEW threw \in BOOLEAN, TickEnd(threw) PROVE TypeOK'
  BY <1>12 DEF TypeOK, TickEnd, At, CallbackEnds, timerVars, tickVars, processVars, historyVars
<1>13. ASSUME NEW threw \in BOOLEAN, TimerEnd(threw) PROVE TypeOK'
  BY <1>13 DEF TypeOK, TimerEnd, At, CallbackEnds, EnterDoneCheck, timerVars, processVars, historyVars
<1>14. CASE RequireLoad
  BY <1>14 DEF TypeOK, RequireLoad, At, timerVars, tickVars, processVars, historyVars
<1>15. CASE RequireMissing
  BY <1>15 DEF TypeOK, RequireMissing, At, EnterDoneCheck, timerVars, historyVars
<1>16. CASE CustomEvent
  BY <1>16, DeliveredType, EnteredType DEF TypeOK, CustomEvent, timerVars, processVars
<1>17. CASE CollectTimers
  BY <1>17 DEF TypeOK, CollectTimers, At, timerVars, tickVars, processVars, historyVars
<1>18. CASE EndPass
  BY <1>18 DEF TypeOK, EndPass, At, timerVars, tickVars, processVars, historyVars
<1>19. ASSUME NEW c \in Callback, TimerEvent(c) PROVE TypeOK'
  <2>1. /\ timeouts' \subseteq Callback /\ running' \subseteq Callback
        /\ due' \subseteq running'
    BY <1>19 DEF TypeOK, TimerEvent, TakeTimeout
  <2>2. runs' \in [Callback -> 0..2]
    BY <1>19, EnteredType DEF TypeOK, TimerEvent
  <2>3. batch' \in 0..Len(ticks)
    BY <1>19, PassType, EnterDoneCheckType DEF TypeOK, TimerEvent, Expired
  <2> QED
    BY <1>19, <2>1, <2>2, <2>3 DEF TypeOK, TimerEvent, processVars
<1>20. ASSUME NEW c \in Callback, SkipActive(c) PROVE TypeOK'
  BY <1>20 DEF TypeOK, SkipActive, Expired, PassWithout, At, tickVars, processVars, historyVars
<1>21. CASE FinishDoneCheck
  BY <1>21, EmitQuitType DEF TypeOK, FinishDoneCheck, BackInMain, timerVars, tickVars, historyVars
<1>22. CASE LoopPass
  BY <1>22 DEF TypeOK, LoopPass, timerVars, processVars, historyVars
<1>23. CASE LoopExit
  BY <1>23 DEF TypeOK, LoopExit, timerVars, tickVars, historyVars
<1>24. CASE HostCall
  BY <1>24 DEF TypeOK, HostCall, timerVars, tickVars, processVars, historyVars
<1>25. ASSUME NEW c \in Callback, ExpireTimer(c) PROVE TypeOK'
  BY <1>25 DEF TypeOK, ExpireTimer, tickVars, processVars, historyVars
<1>26. CASE UNCHANGED vars
  BY <1>26 DEF TypeOK, vars, timerVars, tickVars, processVars, historyVars
<1> QED
  BY <1>1, <1>2, <1>3, <1>4, <1>5, <1>6, <1>7, <1>8, <1>9, <1>10, <1>11, <1>12, <1>13, <1>14, <1>15, <1>16, <1>17, <1>18, <1>19, <1>20, <1>21, <1>22, <1>23, <1>24, <1>25, <1>26 DEF Next, ScriptCall, ScriptEnd, Dispatch, Terminated

LEMMA TypeInit == Init => TypeOK
<1> SUFFICES ASSUME Init PROVE TypeOK
  OBVIOUS
<1>1. stack \in Seq(Frame)
  <2>1. Fr("require", None, {}) \in Frame
    BY FrType DEF FrameAt
  <2> QED
    BY <2>1 DEF Init
<1>2. runs \in [Callback -> 0..2]
  BY DEF Init
<1>3. kind \in [Callback -> {"none", "timeout", "interval", "tick"}]
  BY DEF Init
<1>4. ticks \in Seq(Callback) /\ batch \in 0..Len(ticks)
  BY DEF Init
<1>5. main \in {"loading", "undefined", "loaded"}
  BY DEF Init
<1>6. /\ exitRequest \in ExitCode \cup {None}
      /\ exitCode \in ExitCode \cup {0, 1, None}
      /\ quits \subseteq {0, 1}
  BY DEF Init
<1> QED
  BY <1>1, <1>2, <1>3, <1>4, <1>5, <1>6 DEF Init, TypeOK

\* The variables keep their types.
THEOREM TypeCorrect == Spec => []TypeOK
BY TypeInit, TypeStep, PTL DEF Spec

-----------------------------------------------------------------------------
(* What becomes of a callback.  OneShotRunsOnce and ClearedTimeoutNeverRuns   *)
(* are not inductive: they need to know which table a callback can be in      *)
(* (Registered), that the queue has no duplicates (Queued), and that a        *)
(* cleared timeout has left the table (Silenced).                             *)

\* A callback waits where the function it was handed to has put it.
Registered ==
    /\ \A c \in timeouts : kind[c] = "timeout"
    /\ \A c \in intervals : kind[c] = "interval"
    /\ \A i \in 1..Len(ticks) : kind[ticks[i]] = "tick"
    /\ \A c \in Callback : kind[c] = "none" => runs[c] = 0 /\ c \notin cleared
    /\ \A c \in cleared : kind[c] \in {"timeout", "interval"}

\* A one-shot callback that is waiting has not run.
Queued ==
    /\ \A c \in timeouts : runs[c] = 0
    /\ \A i \in 1..Len(ticks) : runs[ticks[i]] = 0
    /\ \A i, j \in 1..Len(ticks) : ticks[i] = ticks[j] => i = j
    /\ \A c \in Callback : kind[c] \in {"timeout", "tick"} => runs[c] <= 1

\* A cleared timeout is out of the table and has not run.
Silenced ==
    \A c \in cleared : kind[c] = "timeout" => c \notin timeouts /\ runs[c] = 0

Timers ==
    /\ running \subseteq timeouts \cup intervals
    /\ "clearInterval" \notin Api => timeouts \cup intervals \subseteq running

CallbackInv == Registered /\ Queued /\ Silenced /\ Timers

LEMMA CallbackInit == Init => CallbackInv
BY DEF Init, CallbackInv, Registered, Queued, Silenced, Timers

\* Most steps leave the callbacks and their tables alone.
LEMMA CallbackQuiet ==
    ASSUME CallbackInv,
           UNCHANGED <<timeouts, intervals, running, ticks, kind, runs, cleared>>
    PROVE  CallbackInv'
BY DEF CallbackInv, Registered, Queued, Silenced, Timers

\* Registering a callback that is new.
LEMMA CallbackRegistered ==
    ASSUME TypeOK, CallbackInv, NEW c \in Callback,
           SetTimeout(c) \/ SetInterval(c) \/ NextTick(c)
    PROVE  CallbackInv'
<1>1. c \notin timeouts \cup intervals \cup cleared /\ runs[c] = 0
      /\ \A i \in 1..Len(ticks) : ticks[i] # c
  BY DEF SetTimeout, SetInterval, NextTick, CallbackInv, Registered
<1>2. CASE SetTimeout(c)
  <2>1. ticks' = ticks /\ runs' = runs /\ cleared' = cleared
        /\ intervals' = intervals
    BY <1>2 DEF SetTimeout, tickVars
  <2> QED
    BY <1>1, <1>2, <2>1 DEF TypeOK, SetTimeout, CallbackInv, Registered, Queued, Silenced, Timers
<1>3. CASE SetInterval(c)
  <2>1. ticks' = ticks /\ runs' = runs /\ cleared' = cleared
        /\ timeouts' = timeouts
    BY <1>3 DEF SetInterval, tickVars
  <2> QED
    BY <1>1, <1>3, <2>1 DEF TypeOK, SetInterval, CallbackInv, Registered, Queued, Silenced, Timers
<1>4. CASE NextTick(c)
  <2>1. /\ runs' = runs /\ cleared' = cleared /\ timeouts' = timeouts
        /\ intervals' = intervals /\ running' = running
        /\ kind' = [kind EXCEPT ![c] = "tick"] /\ ticks' = Append(ticks, c)
    BY <1>4 DEF NextTick, Posted, timerVars
  <2>2. /\ ticks \in Seq(Callback) /\ Len(ticks') = Len(ticks) + 1
        /\ \A i \in 1..Len(ticks) : ticks'[i] = ticks[i]
        /\ ticks'[Len(ticks) + 1] = c
    BY <2>1 DEF TypeOK
  <2>3. Registered'
    BY <1>1, <2>1, <2>2 DEF TypeOK, CallbackInv, Registered
  <2>4. Queued'
    <3>1. \A i \in 1..Len(ticks') : i \in 1..Len(ticks) \/ i = Len(ticks) + 1
      BY <2>2
    <3>2. \A i, j \in 1..Len(ticks') : ticks'[i] = ticks'[j] => i = j
      BY <1>1, <2>2, <3>1 DEF CallbackInv, Queued
    <3>3. \A i \in 1..Len(ticks') : runs[ticks'[i]] = 0
      BY <1>1, <2>2, <3>1 DEF CallbackInv, Queued
    <3>4. \A d \in Callback : kind'[d] \in {"timeout", "tick"} => runs[d] <= 1
      BY <1>1, <2>1 DEF TypeOK, CallbackInv, Queued
    <3> QED
      BY <2>1, <3>2, <3>3, <3>4 DEF CallbackInv, Queued
  <2> QED
    BY <1>1, <2>1, <2>3, <2>4 DEF TypeOK, CallbackInv, Silenced, Timers
<1> QED
  BY <1>2, <1>3, <1>4

\* Clearing a timer.
LEMMA CallbackCleared ==
    ASSUME TypeOK, CallbackInv, NEW c \in Callback,
           ClearTimeout(c) \/ ClearInterval(c)
    PROVE  CallbackInv'
<1>1. CASE ClearTimeout(c)
  BY <1>1 DEF TypeOK, ClearTimeout, IsTimeout, KillTimer, tickVars,
              CallbackInv, Registered, Queued, Silenced, Timers
<1>2. CASE ClearInterval(c)
  BY <1>2 DEF TypeOK, ClearInterval, Script, KillTimer, tickVars,
              CallbackInv, Registered, Queued, Silenced, Timers
<1> QED
  BY <1>1, <1>2

\* Entering a nextTick callback, or dropping it.
LEMMA CallbackDelivered ==
    ASSUME TypeOK, CallbackInv, CustomEvent
    PROVE  CallbackInv'
<1> DEFINE h == Head(ticks)
<1>1. /\ timeouts' = timeouts /\ intervals' = intervals /\ running' = running
      /\ kind' = kind /\ cleared' = cleared
      /\ runs' = runs \/ runs' = [runs EXCEPT ![h] = IF @ < 2 THEN @ + 1 ELSE @]
  BY DEF CustomEvent, timerVars, Entered
<1>2. /\ ticks \in Seq(Callback) /\ ticks # <<>> /\ h \in Callback
      /\ h = ticks[1] /\ ticks' = Tail(ticks)
  BY DEF CustomEvent, Delivered, TypeOK
<1>3. /\ Len(ticks') = Len(ticks) - 1
      /\ \A i \in 1..Len(ticks') : ticks'[i] = ticks[i + 1]
  BY <1>2
<1>4. /\ kind[h] = "tick" /\ runs[h] = 0
      /\ \A i \in 1..Len(ticks') : ticks'[i] # h
  BY <1>2, <1>3 DEF CallbackInv, Registered, Queued
<1>5. runs'[h] <= 1 /\ \A c \in Callback \ {h} : runs'[c] = runs[c]
  BY <1>1, <1>2, <1>4 DEF TypeOK
<1>6. Registered'
  BY <1>1, <1>2, <1>3, <1>4, <1>5 DEF CallbackInv, Registered, TypeOK
<1>7. Queued'
  <2>1. \A c \in timeouts : c # h
    BY <1>4 DEF CallbackInv, Registered
  <2>2. \A i \in 1..Len(ticks') : ticks'[i] \in Callback \ {h}
    BY <1>2, <1>3, <1>4
  <2> QED
    <3>1. \A i \in 1..Len(ticks') : runs'[ticks'[i]] = 0
      BY <1>3, <1>5, <2>2 DEF CallbackInv, Queued
    <3>2. \A i, j \in 1..Len(ticks') : ticks'[i] = ticks'[j] => i = j
      BY <1>2, <1>3 DEF CallbackInv, Queued
    <3>3. \A c \in timeouts' : runs'[c] = 0
      BY <1>1, <1>5, <2>1 DEF CallbackInv, Queued, TypeOK
    <3>4. \A c \in Callback : kind'[c] \in {"timeout", "tick"} => runs'[c] <= 1
      BY <1>1, <1>5 DEF CallbackInv, Queued
    <3> QED
      BY <3>1, <3>2, <3>3, <3>4 DEF Queued
<1>8. Silenced' /\ Timers'
  BY <1>1, <1>4, <1>5 DEF CallbackInv, Silenced, Timers, TypeOK
<1> QED
  BY <1>6, <1>7, <1>8 DEF CallbackInv

\* Entering the callback of a timer, or dropping it.
LEMMA CallbackFired ==
    ASSUME TypeOK, CallbackInv, NEW c \in Callback, TimerEvent(c)
    PROVE  CallbackInv'
<1>1. /\ intervals' = intervals /\ ticks' = ticks /\ kind' = kind
      /\ cleared' = cleared /\ timeouts' = timeouts \ {c}
      /\ running' = IF c \in timeouts THEN running \ {c} ELSE running
  BY DEF TimerEvent, TakeTimeout
<1>2. /\ \A d \in Callback \ {c} : runs'[d] = runs[d]
      /\ c \notin timeouts \cup intervals => runs'[c] = runs[c]
      /\ runs'[c] # runs[c] => runs'[c] = runs[c] + 1
  BY DEF TimerEvent, Entered, TypeOK
<1>3. c \in timeouts \cup intervals => kind[c] \in {"timeout", "interval"}
  BY DEF CallbackInv, Registered
<1>4. Registered'
  BY <1>1, <1>2, <1>3 DEF CallbackInv, Registered, TypeOK
<1>5. Queued'
  <2>1. \A i \in 1..Len(ticks) : ticks[i] \in Callback /\ runs'[ticks[i]] = runs[ticks[i]]
    BY <1>2 DEF CallbackInv, Registered, TypeOK
  <2>2. kind[c] \in {"timeout", "tick"} => runs'[c] <= 1
    BY <1>2 DEF CallbackInv, Registered, Queued, TypeOK
  <2>3. \A d \in Callback : kind[d] \in {"timeout", "tick"} => runs'[d] <= 1
    BY <1>2, <2>2 DEF CallbackInv, Queued
  <2>4. \A d \in timeouts' : runs'[d] = 0
    BY <1>1, <1>2 DEF CallbackInv, Queued, TypeOK
  <2>5. \A i \in 1..Len(ticks) : runs'[ticks[i]] = 0
    BY <2>1 DEF CallbackInv, Queued
  <2> QED
    BY <1>1, <2>3, <2>4, <2>5 DEF CallbackInv, Queued
<1>6. Silenced'
  BY <1>1, <1>2 DEF CallbackInv, Registered, Silenced, TypeOK
<1>7. Timers'
  BY <1>1 DEF CallbackInv, Registered, Timers
<1> QED
  BY <1>4, <1>5, <1>6, <1>7 DEF CallbackInv

LEMMA CallbackStep == TypeOK /\ CallbackInv /\ [Next]_vars => CallbackInv'
<1> SUFFICES ASSUME TypeOK, CallbackInv, [Next]_vars PROVE CallbackInv'
  OBVIOUS
<1> DEFINE Quiet == UNCHANGED <<timeouts, intervals, running, ticks, kind, runs, cleared>>
<1>1. ASSUME NEW c \in Callback,
             \/ SetTimeout(c) \/ SetInterval(c) \/ NextTick(c)
             \/ ClearTimeout(c) \/ ClearInterval(c)
      PROVE  CallbackInv'
  BY <1>1, CallbackRegistered, CallbackCleared
<1>2. CASE \E code \in ExitCode : ProcessExit(code)
  BY <1>2, CallbackQuiet DEF ProcessExit, timerVars, tickVars, historyVars
<1>3. CASE GlobalRequire \/ Catch \/ RequireLoad
  BY <1>3, CallbackQuiet
  DEF GlobalRequire, Catch, RequireLoad, timerVars, tickVars, historyVars
<1>4. CASE ModuleReturn \/ ModuleThrow \/ RequireMissing
  BY <1>4, CallbackQuiet DEF ModuleReturn, ModuleThrow, RequireMissing, timerVars, historyVars
<1>5. CASE HandlerEnd \/ \E threw \in BOOLEAN : TickEnd(threw) \/ TimerEnd(threw)
  BY <1>5, CallbackQuiet DEF HandlerEnd, TickEnd, TimerEnd, timerVars, tickVars, historyVars
<1>6. CASE CollectTimers \/ EndPass \/ FinishDoneCheck
  BY <1>6, CallbackQuiet
  DEF CollectTimers, EndPass, FinishDoneCheck, timerVars, tickVars, historyVars
<1>7. CASE LoopPass \/ LoopExit \/ HostCall
  BY <1>7, CallbackQuiet DEF LoopPass, LoopExit, HostCall, timerVars, tickVars, historyVars
<1>8. CASE \E c \in Callback : SkipActive(c) \/ ExpireTimer(c)
  BY <1>8, CallbackQuiet DEF SkipActive, ExpireTimer, tickVars, historyVars
<1>9. CASE UNCHANGED vars
  BY <1>9, CallbackQuiet DEF vars
<1>10. CASE CustomEvent
  BY <1>10, CallbackDelivered
<1>11. CASE \E c \in Callback : TimerEvent(c)
  BY <1>11, CallbackFired
<1> QED
  BY <1>1, <1>2, <1>3, <1>4, <1>5, <1>6, <1>7, <1>8, <1>9, <1>10, <1>11
  DEF Next, ScriptCall, ScriptEnd, Dispatch, Terminated

LEMMA CallbackCorrect == Spec => []CallbackInv
BY TypeInit, TypeStep, CallbackInit, CallbackStep, PTL DEF Spec

\* No timer fires without a callback, and without clearInterval none is orphaned.
THEOREM TimersCorrect == Spec => []TimersMatchCallbacks
<1>1. CallbackInv => TimersMatchCallbacks
  BY DEF CallbackInv, Registered, Timers, TimersMatchCallbacks
<1> QED
  BY <1>1, CallbackCorrect, PTL

\* A function handed to setTimeout or nextTick runs at most once.
THEOREM OneShotCorrect == Spec => []OneShotRunsOnce
<1>1. CallbackInv => OneShotRunsOnce
  BY DEF CallbackInv, Queued, OneShotRunsOnce, InTicks
<1> QED
  BY <1>1, CallbackCorrect, PTL

\* A timeout cleared before it ran never runs.
THEOREM ClearedCorrect == Spec => []ClearedTimeoutNeverRuns
<1>1. CallbackInv => ClearedTimeoutNeverRuns
  BY DEF CallbackInv, Silenced, ClearedTimeoutNeverRuns
<1> QED
  BY <1>1, CallbackCorrect, PTL

-----------------------------------------------------------------------------
(* NoHang.  While the binary is alive, something waits in a table or one of   *)
(* the frames will come to the end of a doneCheck, which sees to it.          *)

OwesCheck == {"require", "module", "check", "timer"}

Owed(s) == \E i \in 1..Len(s) : s[i].at \in OwesCheck

CheckOwed == Host = "binary" /\ Alive => timeouts \cup intervals # {} \/ Owed(stack)

\* Two frames at once, or one after the other.
LEMMA PushTwice ==
    ASSUME NEW s \in Seq(Frame), NEW f \in Frame, NEW g \in Frame
    PROVE  <<f, g>> \o s = <<f>> \o (<<g>> \o s)
<1>1. <<f>> \in Seq(Frame) /\ <<g>> \in Seq(Frame) /\ <<f, g>> \in Seq(Frame)
  OBVIOUS
<1>2. <<f>> \o <<g>> = <<f, g>>
  <2>1. /\ <<f>> \o <<g>> \in Seq(Frame) /\ Len(<<f>> \o <<g>>) = Len(<<f, g>>)
        /\ \A i \in 1..Len(<<f>> \o <<g>>) : (<<f>> \o <<g>>)[i] = <<f, g>>[i]
    OBVIOUS
  <2> QED
    BY <1>1, <2>1, SeqEqual, Zenon
<1>3. \A a, b \in Seq(Frame) : (a \o b) \o s = a \o (b \o s)
  BY ConcatAssociative
<1> QED
  BY <1>1, <1>2, <1>3, Zenon

LEMMA OwedPushed ==
    ASSUME NEW s \in Seq(Frame), NEW f \in Frame, f.at \in OwesCheck \/ Owed(s)
    PROVE  Owed(<<f>> \o s)
<1> DEFINE t == <<f>> \o s
<1>1. /\ Len(t) = Len(s) + 1 /\ Len(s) \in Nat /\ t[1] = f
      /\ \A k \in 1..Len(s) : t[k + 1] = s[k]
  OBVIOUS
<1>2. 1 \in 1..Len(t) /\ \A k \in 1..Len(s) : k + 1 \in 1..Len(t)
  BY <1>1
<1> HIDE DEF t
<1>3. Owed(t)
  BY <1>1, <1>2 DEF Owed
<1> QED
  BY <1>3 DEF t

LEMMA OwedPopped ==
    ASSUME NEW s \in Seq(Frame), s # <<>>, Owed(s), Head(s).at \notin OwesCheck
    PROVE  Owed(Tail(s))
<1>1. PICK i \in 1..Len(s) : s[i].at \in OwesCheck
  BY DEF Owed
<1>2. i # 1
  BY <1>1
<1>3. i - 1 \in 1..Len(Tail(s)) /\ Tail(s)[i - 1] = s[i]
  BY <1>2
<1> QED
  BY <1>1, <1>3 DEF Owed

LEMMA OwedChecking ==
    ASSUME NEW s \in Seq(Frame), NEW c \in Callback \cup {None}, EnterDoneCheck(c, s)
    PROVE  Owed(stack')
<1>1. /\ Fr("posted", None, {}) \in Frame
      /\ Fr("check", c, {}) \in Frame /\ Fr("check", c, {}).at = "check"
  BY FrType DEF FrameAt, Fr
<1>2. Owed(<<Fr("check", c, {})>> \o s) /\ <<Fr("check", c, {})>> \o s \in Seq(Frame)
  BY <1>1, OwedPushed, PushFrame DEF OwesCheck
<1>3. stack' = <<Fr("posted", None, {})>> \o (<<Fr("check", c, {})>> \o s)
  BY <1>1, PushTwice DEF EnterDoneCheck
<1> QED
  BY <1>1, <1>2, <1>3, OwedPushed

\* The top frame goes, or another takes its place, and the tables only grow.
LEMMA OwedReplaced ==
    ASSUME TypeOK, CheckOwed, NEW at \in FrameAt \ OwesCheck, At(at), Alive' => Alive,
           timeouts \subseteq timeouts' /\ intervals \subseteq intervals',
           \/ stack' = Tail(stack)
           \/ \E f \in Frame : stack' = <<f>> \o Tail(stack)
    PROVE  CheckOwed'
<1>1. stack \in Seq(Frame) /\ stack # <<>> /\ Head(stack).at = at /\ Tail(stack) \in Seq(Frame)
  BY TopType DEF TypeOK, At
<1>2. Owed(stack) => Owed(Tail(stack))
  BY <1>1, OwedPopped
<1>3. Owed(stack) => Owed(stack')
  BY <1>1, <1>2, OwedPushed
<1> QED
  BY <1>3 DEF CheckOwed, Owed

LEMMA OwedInit == Init => CheckOwed
<1> SUFFICES ASSUME Init, Host = "binary" PROVE CheckOwed
  BY DEF CheckOwed
<1>1. 1 \in 1..Len(stack) /\ stack[1].at = "require"
  BY DEF Init, Fr
<1> QED
  BY <1>1 DEF CheckOwed, Owed, OwesCheck

LEMMA OwedStep ==
    ASSUME "clearTimeout" \notin Api, "clearInterval" \notin Api
    PROVE  TypeOK /\ CheckOwed /\ [Next]_vars => CheckOwed'
<1> SUFFICES ASSUME TypeOK, CheckOwed, [Next]_vars PROVE CheckOwed'
  OBVIOUS
<1>1. ASSUME NEW c \in Callback,
             SetTimeout(c) \/ SetInterval(c) \/ NextTick(c) \/ ExpireTimer(c)
      PROVE  CheckOwed'
  <2>1. UNCHANGED <<stack, exitCode>> /\ timeouts \subseteq timeouts' /\ intervals \subseteq intervals'
    BY <1>1 DEF SetTimeout, SetInterval, NextTick, ExpireTimer, timerVars, processVars
  <2> QED
    BY <2>1 DEF CheckOwed, Owed, Alive
<1>2. ASSUME NEW c \in Callback, ClearTimeout(c) \/ ClearInterval(c) PROVE FALSE
  BY <1>2 DEF ClearTimeout, ClearInterval, Script
<1>3. CASE \/ \E code \in ExitCode : ProcessExit(code)
           \/ Catch \/ UNCHANGED vars
  BY <1>3 DEF ProcessExit, Catch, vars, timerVars, processVars, CheckOwed, Owed, Alive
<1>4. CASE GlobalRequire
  <2>1. Fr("require", None, {}) \in Frame /\ Fr("require", None, {}).at = "require"
    BY FrType DEF FrameAt, Fr
  <2>2. stack \in Seq(Frame) /\ stack' = <<Fr("require", None, {})>> \o stack
    BY <1>4 DEF GlobalRequire, TypeOK
  <2>3. Owed(stack')
    BY <2>1, <2>2, OwedPushed DEF OwesCheck
  <2> QED
    BY <2>3 DEF CheckOwed, Owed
<1>5. ASSUME NEW at, At(at), NEW c \in {None, Head(stack).cb}, EnterDoneCheck(c, Tail(stack))
      PROVE  CheckOwed'
  <2>1. Owed(stack')
    BY <1>5, TopType, OwedChecking
  <2> QED
    BY <2>1 DEF CheckOwed, Owed
<1>6. CASE ModuleReturn \/ ModuleThrow \/ RequireMissing
  BY <1>5, <1>6 DEF ModuleReturn, ModuleThrow, RequireMissing
<1>7. CASE \E threw \in BOOLEAN : TimerEnd(threw)
  BY <1>5, <1>7 DEF TimerEnd
<1>8. CASE HandlerEnd \/ (\E threw \in BOOLEAN : TickEnd(threw)) \/ EndPass
  <2>1. /\ UNCHANGED <<timeouts, intervals, exitCode>> /\ stack' = Tail(stack)
        /\ \E at \in FrameAt \ OwesCheck : At(at)
    BY <1>8 DEF HandlerEnd, TickEnd, EndPass, timerVars, processVars, FrameAt, ScriptAt, OwesCheck
  <2> QED
    BY <2>1, OwedReplaced DEF Alive
<1>9. CASE RequireLoad
  <2>1. Fr("module", None, {}) \in Frame /\ Fr("module", None, {}).at = "module"
    BY FrType DEF FrameAt, ScriptAt, Fr
  <2>2. Tail(stack) \in Seq(Frame) /\ stack' = <<Fr("module", None, {})>> \o Tail(stack)
    BY <1>9, TopType DEF RequireLoad
  <2>3. Owed(stack')
    BY <2>1, <2>2, OwedPushed DEF OwesCheck
  <2> QED
    BY <2>3 DEF CheckOwed, Owed
<1>10. CASE CollectTimers
  <2>1. /\ UNCHANGED <<timeouts, intervals, exitCode>> /\ At("posted")
        /\ "posted" \in FrameAt \ OwesCheck
        /\ stack' = <<Fr("timers", None, due)>> \o Tail(stack)
    BY <1>10 DEF CollectTimers, timerVars, processVars, FrameAt, OwesCheck
  <2>2. Fr("timers", None, due) \in Frame
    BY FrType DEF FrameAt, TypeOK
  <2> QED
    BY <2>1, <2>2, OwedReplaced DEF Alive
<1>11. CASE CustomEvent
  <2>1. /\ UNCHANGED <<timeouts, intervals, exitCode>> /\ stack \in Seq(Frame)
        /\ Head(ticks) \in Callback
        /\ stack' = stack \/ stack' = <<Fr("tick", Head(ticks), {})>> \o stack
    BY <1>11 DEF CustomEvent, timerVars, processVars, TypeOK
  <2>2. Fr("tick", Head(ticks), {}) \in Frame
    BY <2>1, FrType DEF FrameAt, ScriptAt
  <2>3. Owed(stack) => Owed(stack')
    BY <2>1, <2>2, OwedPushed
  <2> QED
    BY <2>1, <2>3 DEF CheckOwed, Owed, Alive
<1>12. ASSUME NEW c \in Callback, TimerEvent(c) \/ SkipActive(c) PROVE CheckOwed'
  <2> DEFINE p == PassWithout(c)
             f == Fr("timers", None, Head(stack).todo \ {c})
  <2>1. /\ At("timers") /\ "timers" \in FrameAt \ OwesCheck
        /\ f \in Frame /\ p \in Seq(Frame) /\ p = <<f>> \o Tail(stack)
        /\ UNCHANGED <<intervals, exitCode>>
    <3>1. At("timers") /\ UNCHANGED <<intervals, exitCode>>
      BY <1>12 DEF TimerEvent, SkipActive, Expired, processVars
    <3>2. f \in Frame
      BY <3>1, TopType, FrType DEF FrameAt
    <3> QED
      BY <3>1, <3>2, PassType DEF PassWithout, FrameAt, OwesCheck
  <2>2. CASE stack' = p /\ timeouts' = timeouts
    BY <2>1, <2>2, OwedReplaced DEF Alive
  <2>3. CASE EnterDoneCheck(c, p)
    <3>1. Owed(stack')
      BY <2>1, <2>3, OwedChecking
    <3> QED
      BY <3>1 DEF CheckOwed, Owed
  <2>4. CASE stack' = <<Fr("timer", c, {})>> \o p
    <3>1. Fr("timer", c, {}) \in Frame /\ Fr("timer", c, {}).at = "timer"
      BY FrType DEF FrameAt, ScriptAt, Fr
    <3>2. Owed(stack')
      BY <2>1, <2>4, <3>1, OwedPushed DEF OwesCheck
    <3> QED
      BY <3>2 DEF CheckOwed, Owed
  <2> QED
    BY <1>12, <2>2, <2>3, <2>4 DEF TimerEvent, SkipActive, CallTimer, TakeTimeout
<1>13. CASE FinishDoneCheck
  <2>1. CASE NothingLeft
    <3>1. Host = "binary" => exitCode' = 0
      BY <1>13, <2>1 DEF FinishDoneCheck, EmitQuit
    <3> QED
      BY <3>1, EngineAssumption DEF CheckOwed, Alive
  <2>2. CASE ~NothingLeft
    BY <1>13, <2>2 DEF FinishDoneCheck, NothingLeft, timerVars, CheckOwed
  <2> QED
    BY <2>1, <2>2
<1>14. CASE LoopPass
  <2>1. ~Owed(stack)
    BY <1>14 DEF LoopPass, InLoop, Owed
  <2> QED
    BY <1>14, <2>1 DEF LoopPass, timerVars, processVars, CheckOwed, Alive
<1>15. CASE LoopExit
  BY <1>15 DEF LoopExit, InLoop, timerVars, CheckOwed, Owed, Alive
<1>16. CASE HostCall
  BY <1>16 DEF HostCall, CheckOwed
<1> QED
  BY <1>1, <1>2, <1>3, <1>4, <1>6, <1>7, <1>8, <1>9, <1>10, <1>11, <1>12, <1>13, <1>14, <1>15, <1>16
  DEF Next, ScriptCall, ScriptEnd, Dispatch, Terminated

\* If scripts clear nothing, the event loop of the binary always waits for a timer
\* that is running, or for something already there.
THEOREM NoHangCorrect ==
    ASSUME "clearTimeout" \notin Api, "clearInterval" \notin Api
    PROVE  Spec => []NoHang
<1>1. CheckOwed /\ CallbackInv => NoHang
  BY DEF CheckOwed, CallbackInv, Timers, NoHang, InLoop, Owed
<1> QED
  BY <1>1, TypeInit, TypeStep, CallbackCorrect, OwedInit, OwedStep, PTL DEF Spec

-----------------------------------------------------------------------------
(* What the refinement mapping makes of a callback. *)

Lives == [c \in Callback |-> Life(c)]

Waiting(c) == c \in timeouts \cup intervals \/ InTicks(c)

\* The places a callback can be in exclude each other.
LEMMA LifeOf ==
    ASSUME TypeOK, CallbackInv, NEW c \in Callback
    PROVE  /\ c \in timeouts => Life(c) = "once"
           /\ c \in intervals => Life(c) = "repeating"
           /\ InTicks(c) => Life(c) = "tick"
           /\ kind[c] = "none" => Life(c) = "new"
           /\ ~Waiting(c) /\ kind[c] # "none" /\ runs[c] > 0 /\ c \notin cleared => Life(c) = "done"
           /\ ~Waiting(c) /\ kind[c] # "none" /\ runs[c] = 0 /\ c \in cleared => Life(c) = "cancelled"
           /\ ~Waiting(c) /\ kind[c] # "none" /\ runs[c] = 0 /\ c \notin cleared => Life(c) = "lost"
<1>1. /\ c \in timeouts => kind[c] = "timeout"
      /\ c \in intervals => kind[c] = "interval"
      /\ InTicks(c) => kind[c] = "tick"
      /\ kind[c] = "none" => runs[c] = 0 /\ c \notin cleared
  BY DEF CallbackInv, Registered, InTicks
<1>2. runs[c] \in 0..2
  BY DEF TypeOK
<1>3. /\ c \in timeouts => runs[c] = 0 /\ c \notin cleared
      /\ InTicks(c) => runs[c] = 0
  BY <1>1 DEF CallbackInv, Queued, Silenced, InTicks
<1>4. CASE c \in timeouts
  BY <1>1, <1>2, <1>3, <1>4 DEF Life, Waiting
<1>5. CASE c \in intervals
  BY <1>1, <1>2, <1>5 DEF Life, Waiting
<1>6. CASE InTicks(c)
  BY <1>1, <1>2, <1>3, <1>6 DEF Life, Waiting
<1>7. CASE ~Waiting(c)
  BY <1>1, <1>2, <1>7 DEF Life, Waiting
<1> QED
  BY <1>4, <1>5, <1>6, <1>7 DEF Waiting

\* Nothing the mapping looks at changes for a callback.
Same(d) ==
    /\ d \in timeouts' <=> d \in timeouts
    /\ d \in intervals' <=> d \in intervals
    /\ InTicks(d)' <=> InTicks(d)
    /\ kind'[d] = kind[d]
    /\ runs'[d] = runs[d]
    /\ d \in cleared' <=> d \in cleared

LEMMA SameLife == ASSUME NEW d, Same(d) PROVE Life(d)' = Life(d)
BY DEF Same, Life

\* One callback at most changes its life.
LEMMA OneLife ==
    ASSUME NEW c \in Callback, \A d \in Callback \ {c} : Same(d)
    PROVE  Lives' = [Lives EXCEPT ![c] = Life(c)']
<1>1. \A d \in Callback \ {c} : Life(d)' = Life(d)
  BY SameLife
<1>2. Lives' = [d \in Callback |-> Life(d)']
  BY DEF Lives
<1> HIDE DEF Life
<1> QED
  BY <1>1, <1>2 DEF Lives

\* A step that shows at most an exception thrown or caught.
LEMMA Quiet ==
    ASSUME TypeOK, TypeOK', UNCHANGED <<timeouts, intervals, ticks, kind, runs>>,
           \A d \in Callback : Life(d)' = Life(d)
    PROVE  [Promise!Next]_(Promise!vars)
<1>1. Lives' = Lives
  BY DEF Lives
<1>2. hasException \in BOOLEAN /\ hasException' \in BOOLEAN
  BY DEF TypeOK
<1>3. CASE hasException' = hasException
  BY <1>1, <1>3 DEF Promise!vars, Lives
<1>4. CASE hasException' # hasException
  <2>1. hasException' = ~hasException
    BY <1>2, <1>4
  <2>2. Promise!Throw
    BY <1>1, <2>1 DEF Promise!Throw, Lives
  <2> QED
    BY <2>2 DEF Promise!Next
<1> QED
  BY <1>3, <1>4

\* setTimeout and setInterval.
LEMMA Schedules ==
    ASSUME TypeOK, CallbackInv, TypeOK', CallbackInv', NEW c \in Callback,
           SetTimeout(c) \/ SetInterval(c)
    PROVE  Promise!Schedule(c)
<1>1. /\ ~hasException /\ kind[c] = "none" /\ UNCHANGED <<ticks, runs, cleared, hasException>>
      /\ \A d \in Callback \ {c} : kind'[d] = kind[d]
      /\ \/ timeouts' = timeouts \cup {c} /\ intervals' = intervals
         \/ timeouts' = timeouts /\ intervals' = intervals \cup {c}
  BY DEF SetTimeout, SetInterval, Script, tickVars, TypeOK
<1>2. Lives' = [Lives EXCEPT ![c] = Life(c)']
  BY <1>1, OneLife DEF Same, InTicks
<1>3. Life(c)' \in {"once", "repeating"}
  BY <1>1 DEF Life
<1>4. Lives[c] = "new"
  BY <1>1, LifeOf DEF Lives
<1> QED
  BY <1>1, <1>2, <1>3, <1>4 DEF Promise!Schedule, Promise!Becomes, Lives

\* nextTick.
LEMMA Posts ==
    ASSUME TypeOK, CallbackInv, NEW c \in Callback, NextTick(c)
    PROVE  Promise!Post(c)
<1>1. /\ ~hasException /\ kind[c] = "none" /\ ticks' = Append(ticks, c)
      /\ UNCHANGED <<timeouts, intervals, runs, cleared, hasException>>
      /\ \A d \in Callback \ {c} : kind'[d] = kind[d]
      /\ ticks \in Seq(Callback)
  BY DEF NextTick, Posted, Script, timerVars, TypeOK
<1>2. /\ Len(ticks') = Len(ticks) + 1 /\ ticks'[Len(ticks) + 1] = c /\ Len(ticks) \in Nat
      /\ \A i \in 1..Len(ticks) : ticks'[i] = ticks[i]
  BY <1>1
<1>3. InTicks(c)'
  BY <1>2 DEF InTicks
<1>4. \A d \in Callback \ {c} : InTicks(d)' <=> InTicks(d)
  BY <1>2 DEF InTicks
<1>5. Lives' = [Lives EXCEPT ![c] = Life(c)']
  BY <1>1, <1>4, OneLife DEF Same
<1>6. Lives[c] = "new"
  BY <1>1, LifeOf DEF Lives
<1>7. c \notin timeouts' \cup intervals'
  BY <1>1 DEF CallbackInv, Registered
<1>8. Life(c)' = "tick"
  BY <1>3, <1>7 DEF Life
<1> QED
  BY <1>1, <1>5, <1>6, <1>8 DEF Promise!Post, Promise!Becomes, Lives

\* clearTimeout.
LEMMA Cancels ==
    ASSUME TypeOK, CallbackInv, TypeOK', CallbackInv', NEW c \in Callback, ClearTimeout(c)
    PROVE  [Promise!Next]_(Promise!vars)
<1>1. /\ ~hasException /\ UNCHANGED <<intervals, ticks, kind, runs, hasException>>
      /\ timeouts' = timeouts \ {c} /\ cleared' = cleared \cup ({c} \cap timeouts)
  BY DEF ClearTimeout, Script, tickVars, IsTimeout
<1>2. CASE c \notin timeouts
  <2>1. timeouts' = timeouts /\ cleared' = cleared
    BY <1>1, <1>2
  <2> QED
    BY <1>1, <2>1, Quiet DEF Life, InTicks
<1>3. CASE c \in timeouts
  <2>1. Lives' = [Lives EXCEPT ![c] = Life(c)']
    BY <1>1, OneLife DEF Same, InTicks
  <2>2. Lives[c] = "once"
    BY <1>3, LifeOf DEF Lives
  <2>3. kind[c] = "timeout" /\ c \notin intervals /\ ~InTicks(c) /\ runs[c] = 0
    BY <1>3 DEF CallbackInv, Registered, Queued, InTicks
  <2>4. Life(c)' = "cancelled"
    BY <1>1, <1>3, <2>3 DEF Life, InTicks
  <2>5. Promise!Cancel(c)
    BY <1>1, <2>1, <2>2, <2>4 DEF Promise!Cancel, Promise!Becomes, Lives
  <2> QED
    BY <2>5 DEF Promise!Next
<1> QED
  BY <1>2, <1>3

\* clearInterval leaves the intervals alone.
LEMMA ClearsNothing ==
    ASSUME TypeOK, CallbackInv, TypeOK', NEW c \in Callback, ClearInterval(c)
    PROVE  [Promise!Next]_(Promise!vars)
<1>1. /\ UNCHANGED <<timeouts, intervals, ticks, kind, runs, hasException>>
      /\ cleared' = cleared \cup ({c} \cap intervals)
  BY DEF ClearInterval, tickVars
<1>2. ASSUME NEW d \in Callback PROVE Life(d)' = Life(d)
  BY <1>1 DEF Life, InTicks, CallbackInv, Registered
<1> QED
  BY <1>1, <1>2, Quiet

\* A timer's callback is entered, or dropped.
LEMMA Fires ==
    ASSUME TypeOK, CallbackInv, TypeOK', CallbackInv', NEW c \in Callback, TimerEvent(c)
    PROVE  [Promise!Next]_(Promise!vars)
<1>1. /\ UNCHANGED <<intervals, ticks, kind, cleared, hasException>>
      /\ timeouts' = timeouts \ {c}
      /\ IF c \notin timeouts \cup intervals \/ hasException
         THEN UNCHANGED runs ELSE runs' = Entered(c)
  BY DEF TimerEvent, TakeTimeout
<1>2. Lives' = [Lives EXCEPT ![c] = Life(c)']
  <2>1. \A d \in Callback \ {c} : runs'[d] = runs[d]
    BY <1>1 DEF Entered, TypeOK
  <2> QED
    BY <1>1, <2>1, OneLife DEF Same, InTicks
<1>3. CASE c \notin timeouts \cup intervals
  <2>1. UNCHANGED <<timeouts, runs>>
    BY <1>1, <1>3
  <2> QED
    BY <1>1, <2>1, Quiet DEF Life, InTicks
<1>4. CASE c \in timeouts
  <2>1. Lives[c] = "once"
    BY <1>4, LifeOf DEF Lives
  <2>2. /\ kind[c] = "timeout" /\ c \notin intervals /\ ~InTicks(c) /\ runs[c] = 0
        /\ c \notin cleared
    BY <1>4 DEF CallbackInv, Registered, Queued, Silenced, InTicks
  <2>3. CASE hasException
    <3>1. runs' = runs
      BY <1>1, <2>3
    <3>2. Life(c)' = "lost"
      BY <1>1, <2>2, <3>1 DEF Life, InTicks
    <3>3. Promise!RunTimeout(c)
      BY <1>1, <1>2, <2>1, <2>3, <3>1, <3>2 DEF Promise!RunTimeout, Promise!Becomes, Lives
    <3> QED
      BY <3>3 DEF Promise!Next
  <2>4. CASE ~hasException
    <3>1. runs' = Entered(c)
      BY <1>1, <1>4, <2>4
    <3>2. runs'[c] = 1
      BY <2>2, <3>1 DEF Entered, TypeOK
    <3>3. Life(c)' = "done"
      BY <1>1, <2>2, <3>2 DEF Life, InTicks
    <3>4. Promise!RunTimeout(c)
      BY <1>1, <1>2, <2>1, <2>4, <3>1, <3>3
      DEF Promise!RunTimeout, Promise!Becomes, Promise!Enter, Entered, Lives
    <3> QED
      BY <3>4 DEF Promise!Next
  <2> QED
    BY <2>3, <2>4
<1>5. CASE c \in intervals
  <2>1. c \notin timeouts
    BY <1>5 DEF CallbackInv, Registered
  <2>2. Life(c) = "repeating" /\ Life(c)' = "repeating"
    BY <1>1, <1>5, <2>1 DEF Life
  <2>3. Lives' = Lives /\ Lives[c] = "repeating"
    BY <1>2, <2>2 DEF Lives
  <2>4. CASE hasException
    <3>1. UNCHANGED <<timeouts, runs>>
      BY <1>1, <2>1, <2>4
    <3> QED
      BY <1>1, <2>3, <3>1 DEF Promise!vars, Lives
  <2>5. CASE ~hasException
    <3>1. runs' = Entered(c)
      BY <1>1, <1>5, <2>5
    <3>2. Promise!RunInterval(c)
      BY <1>1, <2>3, <2>5, <3>1 DEF Promise!RunInterval, Promise!Enter, Entered, Lives
    <3> QED
      BY <3>2 DEF Promise!Next
  <2> QED
    BY <2>4, <2>5
<1> QED
  BY <1>3, <1>4, <1>5

\* The oldest nextTick callback is entered, or dropped.
LEMMA Delivers ==
    ASSUME TypeOK, CallbackInv, TypeOK', CallbackInv', CustomEvent
    PROVE  Promise!RunTick
<1>0. PICK h : h = Head(ticks)
  OBVIOUS
<1>1. /\ ticks \in Seq(Callback) /\ ticks # <<>> /\ h \in Callback
      /\ h = ticks[1] /\ ticks' = Tail(ticks)
      /\ UNCHANGED <<timeouts, intervals, kind, cleared, hasException>>
      /\ IF hasException THEN UNCHANGED runs ELSE runs' = Entered(h)
  BY <1>0 DEF CustomEvent, Delivered, TypeOK, timerVars
<1>2. /\ Len(ticks) \in Nat \ {0} /\ Len(ticks') = Len(ticks) - 1
      /\ \A i \in 1..Len(ticks') : ticks'[i] = ticks[i + 1] /\ i + 1 \in 1..Len(ticks)
  BY <1>1
<1>3. /\ kind[h] = "tick" /\ runs[h] = 0 /\ h \notin timeouts \cup intervals
      /\ \A i \in 1..Len(ticks') : ticks'[i] # h
  <2>1. 1 \in 1..Len(ticks)
    BY <1>2
  <2> QED
    BY <1>1, <1>2, <2>1 DEF CallbackInv, Registered, Queued
<1>4. ~InTicks(h)'
  BY <1>3 DEF InTicks
<1>5. \A d \in Callback \ {h} : InTicks(d)' <=> InTicks(d)
  <2> TAKE d \in Callback \ {h}
  <2>1. InTicks(d)' => InTicks(d)
    BY <1>2 DEF InTicks
  <2>2. ASSUME NEW i \in 1..Len(ticks), ticks[i] = d PROVE InTicks(d)'
    <3>1. i # 1
      BY <1>1, <2>2
    <3>2. i - 1 \in 1..Len(ticks') /\ (i - 1) + 1 = i
      BY <1>2, <3>1
    <3> QED
      BY <1>2, <2>2, <3>2 DEF InTicks
  <2> QED
    BY <2>1, <2>2 DEF InTicks
<1>6. Lives' = [Lives EXCEPT ![h] = Life(h)']
  <2>1. \A d \in Callback \ {h} : runs'[d] = runs[d]
    BY <1>1 DEF Entered, TypeOK
  <2> QED
    BY <1>1, <1>5, <2>1, OneLife DEF Same
<1>7. CASE hasException
  <2>1. h \notin cleared
    BY <1>3 DEF CallbackInv, Registered
  <2>2. Life(h)' = "lost"
    BY <1>1, <1>3, <1>4, <1>7, <2>1 DEF Life
  <2> QED
    BY <1>0, <1>1, <1>6, <1>7, <2>2 DEF Promise!RunTick, Promise!Becomes, Lives
<1>8. CASE ~hasException
  <2>1. runs'[h] = 1
    BY <1>1, <1>3, <1>8 DEF Entered, TypeOK
  <2>2. Life(h)' = "done"
    BY <1>1, <1>3, <1>4, <2>1 DEF Life
  <2> QED
    BY <1>0, <1>1, <1>6, <1>8, <2>2 DEF Promise!RunTick, Promise!Becomes, Promise!Enter, Entered, Lives
<1> QED
  BY <1>7, <1>8

\* Every step is a step of CallbackLife, or one it does not see.
LEMMA PromiseStep ==
    TypeOK /\ CallbackInv /\ TypeOK' /\ CallbackInv' /\ [Next]_vars => [Promise!Next]_(Promise!vars)
<1> SUFFICES ASSUME TypeOK, CallbackInv, TypeOK', CallbackInv', [Next]_vars
             PROVE  [Promise!Next]_(Promise!vars)
  OBVIOUS
<1>1. ASSUME NEW c \in Callback, SetTimeout(c) \/ SetInterval(c) \/ NextTick(c)
      PROVE  Promise!Next
  BY <1>1, Schedules, Posts DEF Promise!Next
<1>2. ASSUME NEW c \in Callback, ClearTimeout(c) \/ ClearInterval(c)
      PROVE  [Promise!Next]_(Promise!vars)
  BY <1>2, Cancels, ClearsNothing
<1>3. CASE CustomEvent
  BY <1>3, Delivers DEF Promise!Next
<1>4. CASE \E c \in Callback : TimerEvent(c)
  BY <1>4, Fires
<1>5. CASE \/ \E code \in ExitCode : ProcessExit(code)
           \/ GlobalRequire \/ Catch \/ RequireLoad \/ RequireMissing
           \/ ModuleReturn \/ ModuleThrow \/ HandlerEnd
           \/ \E threw \in BOOLEAN : TickEnd(threw) \/ TimerEnd(threw)
           \/ CollectTimers \/ EndPass \/ FinishDoneCheck
           \/ LoopPass \/ LoopExit \/ HostCall
           \/ \E c \in Callback : SkipActive(c) \/ ExpireTimer(c)
           \/ UNCHANGED vars
  <2>1. UNCHANGED <<timeouts, intervals, ticks, kind, runs, cleared>>
    <3>1. CASE \/ \E code \in ExitCode : ProcessExit(code)
               \/ GlobalRequire \/ Catch \/ RequireLoad \/ RequireMissing
               \/ ModuleReturn \/ ModuleThrow
      BY <3>1 DEF ProcessExit, GlobalRequire, Catch, RequireLoad, RequireMissing, ModuleReturn,
                  ModuleThrow, timerVars, tickVars, historyVars
    <3>2. CASE \/ HandlerEnd
               \/ \E threw \in BOOLEAN : TickEnd(threw) \/ TimerEnd(threw)
               \/ CollectTimers \/ EndPass \/ FinishDoneCheck
      BY <3>2 DEF HandlerEnd, TickEnd, TimerEnd, CollectTimers, EndPass, FinishDoneCheck,
                  timerVars, tickVars, historyVars
    <3>3. CASE \/ LoopPass \/ LoopExit \/ HostCall
               \/ \E c \in Callback : SkipActive(c) \/ ExpireTimer(c)
               \/ UNCHANGED vars
      BY <3>3 DEF LoopPass, LoopExit, HostCall, SkipActive, ExpireTimer, vars,
                  timerVars, tickVars, historyVars
    <3> QED
      BY <1>5, <3>1, <3>2, <3>3
  <2>2. \A d \in Callback : Life(d)' = Life(d)
    BY <2>1 DEF Life, InTicks
  <2> QED
    BY <2>1, <2>2, Quiet
<1> QED
  BY <1>1, <1>2, <1>3, <1>4, <1>5 DEF Next, ScriptCall, ScriptEnd, Dispatch, Terminated

LEMMA PromiseInit == Init => Promise!Init
BY DEF Init, Promise!Init, Life, InTicks

\* The engine implements CallbackLife.
THEOREM PromiseCorrect == Spec => PromiseKept
<1>1. Init => Promise!Init
  BY PromiseInit
<1>2. TypeOK /\ CallbackInv /\ TypeOK' /\ CallbackInv' /\ [Next]_vars => [Promise!Next]_(Promise!vars)
  BY PromiseStep
<1>3. Spec => [](TypeOK /\ CallbackInv)
  BY TypeCorrect, CallbackCorrect, PTL
<1> QED
  BY <1>1, <1>2, <1>3, PTL DEF Spec, PromiseKept, Promise!Spec
=============================================================================
