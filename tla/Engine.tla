------------------------------- MODULE Engine -------------------------------
(***************************************************************************)
(* The event loop of node.qml: EnginePrivate (src/nodeqml/engine.cpp), the *)
(* timer and nextTick functions it gives to scripts, the quit signal, and  *)
(* the two programs that host it (tools/nodeqml/main.cpp and the QML       *)
(* plugin).                                                                *)
(*                                                                         *)
(* Everything runs in one thread, but the code is re-entrant: doneCheck    *)
(* calls qApp->processEvents(), which may deliver further timer and        *)
(* nextTick events, whose handlers call doneCheck again.  The C++ call     *)
(* stack is therefore explicit: "stack" holds the frames, innermost first. *)
(* A frame's "at" says what it is doing:                                   *)
(*   "require"  EnginePrivate::require, module not yet resolved            *)
(*   "module"   the script of a required module is running                 *)
(*   "handler"  a script function called by the QML host is running        *)
(*   "tick"     a nextTick callback is running (called by customEvent)     *)
(*   "timer"    a timer callback is running (called by timerEvent)         *)
(*   "check"    doneCheck, waiting for its processEvents to return         *)
(*   "posted"   one processEvents pass, delivering the posted events       *)
(*   "timers"   the same pass, activating the timers of "todo"             *)
(*                                                                         *)
(* A callback stands for one function handed to setTimeout, setInterval or *)
(* nextTick; the Qt id of its timer is identified with it (an id is not    *)
(* handed out again while the program runs: Qt numbers the reuses).        *)
(***************************************************************************)
EXTENDS Naturals, Sequences

CONSTANTS
    Callback,   \* the functions scripts hand to setTimeout, setInterval, nextTick
    None,       \* no callback, no exit code
    ExitCode,   \* the codes scripts pass to process.exit
    Api,        \* the functions the scripts use: a subset of ApiNames
    Host,       \* "binary" (quit is connected to ::exit) or "plugin" (it is not)
    MaxDepth    \* bound: below this stack depth a script calls the global require, and
                \* the host a handler inside doneCheck

ApiNames == {"setTimeout", "setInterval", "clearTimeout", "clearInterval",
             "nextTick", "exit", "require", "throw"}

\* The constants are the ones the two hosts and a JavaScript program can give.
ASSUME EngineAssumption ==
    /\ None \notin Callback
    /\ None \notin Nat
    /\ ExitCode \subseteq Nat
    /\ Api \subseteq ApiNames
    /\ Host \in {"binary", "plugin"}
    /\ MaxDepth \in Nat

VARIABLES
    stack,         \* the C++ call stack, innermost frame first
    timeouts,      \* the keys of m_timeoutCallbacks
    intervals,     \* the keys of m_intervalCallbacks
    running,       \* the Qt timers started for the engine object and not killed
    due,           \* the running timers whose time has come
    ticks,         \* the posted NextTickEvents, oldest first
    batch,         \* how many of them the current sendPostedEvents will deliver
    hasException,  \* QV4::ExecutionEngine::hasException
    main,          \* main()'s require: "loading", "undefined" or "loaded"
    exitRequest,   \* the code QCoreApplication::exit gave the running event loop
    quits,         \* the codes Engine::quit was emitted with
    exitCode,      \* the exit code of the process, None while it is alive
    kind,          \* history: the function each callback was handed to
    runs,          \* history: how often each callback was entered, up to 2
    cleared        \* history: the timeouts a script gave to clearTimeout, and the
                   \* intervals it gave to clearInterval, before they were gone

vars == <<stack, timeouts, intervals, running, due, ticks, batch, hasException,
          main, exitRequest, quits, exitCode, kind, runs, cleared>>

timerVars   == <<timeouts, intervals, running, due>>
tickVars    == <<ticks, batch>>
processVars == <<main, exitRequest, quits, exitCode>>
historyVars == <<kind, runs, cleared>>

-----------------------------------------------------------------------------
(* Frames. *)

ScriptAt == {"module", "handler", "tick", "timer"}
FrameAt  == ScriptAt \cup {"require", "check", "posted", "timers"}
Frame    == [at: FrameAt, cb: Callback \cup {None}, todo: SUBSET Callback]

Fr(at, cb, todo) == [at |-> at, cb |-> cb, todo |-> todo]

Alive == exitCode = None

\* The innermost frame is doing "at".
At(at) == Alive /\ stack # <<>> /\ Head(stack).at = at

\* A script is executing: it can call the engine's functions.
Executing == \E at \in ScriptAt : At(at)
Script(f) == f \in Api /\ Executing /\ ~hasException

\* QTimerInfo::activateRef: the timer's event is being delivered further out.
Active(c) == \E i \in 1..Len(stack) : stack[i].cb = c

\* doneCheck starts by calling processEvents; "rest" is the stack below it.
EnterDoneCheck(c, rest) ==
    /\ stack' = <<Fr("posted", None, {}), Fr("check", c, {})>> \o rest
    /\ batch' = Len(ticks)

\* emit q->quit(code): main() has connected the signal to ::exit(code).
EmitQuit(code) ==
    /\ quits' = quits \cup {code}
    /\ exitCode' = IF Host = "binary" THEN code ELSE exitCode

\* Mutant: the event of a killed timer is still delivered.
KillTimerLate(c) == running' = running \ {c} /\ UNCHANGED due

\* QObject::killTimer: unknown and already killed ids are left alone.
KillTimer(c) ==
    /\ running' = running \ {c}
    /\ due' = due \ {c}

Entered(c) == [runs EXCEPT ![c] = IF @ < 2 THEN @ + 1 ELSE @]

-----------------------------------------------------------------------------
(* The functions scripts call. *)

SetTimeout(c) ==
    /\ Script("setTimeout")
    /\ kind[c] = "none"
    /\ kind' = [kind EXCEPT ![c] = "timeout"]
    /\ running' = running \cup {c}
    /\ timeouts' = timeouts \cup {c}
    /\ UNCHANGED <<stack, intervals, due, tickVars, hasException, processVars,
                   runs, cleared>>

SetInterval(c) ==
    /\ Script("setInterval")
    /\ kind[c] = "none"
    /\ kind' = [kind EXCEPT ![c] = "interval"]
    /\ running' = running \cup {c}
    /\ intervals' = intervals \cup {c}
    /\ UNCHANGED <<stack, timeouts, due, tickVars, hasException, processVars,
                   runs, cleared>>

\* Mutant: the event goes to the front of the queue.
PostedFirst(c) == <<c>> \o ticks

\* postEvent appends: all NextTickEvents have the same priority.
Posted(c) == Append(ticks, c)

NextTick(c) ==
    /\ Script("nextTick")
    /\ kind[c] = "none"
    /\ kind' = [kind EXCEPT ![c] = "tick"]
    /\ ticks' = Posted(c)
    /\ UNCHANGED <<stack, timerVars, batch, hasException, processVars, runs,
                   cleared>>

\* Mutant: the test clearInterval has.
IsTimeoutInverted(c) == c \notin timeouts

IsTimeout(c) == c \in timeouts

\* A script can pass any id it was given, whichever function gave it.
ClearTimeout(c) ==
    /\ Script("clearTimeout")
    /\ kind[c] \in {"timeout", "interval"}
    /\ IF IsTimeout(c)
       THEN KillTimer(c) /\ timeouts' = timeouts \ {c}
       ELSE UNCHANGED <<running, due, timeouts>>
    /\ cleared' = cleared \cup ({c} \cap timeouts)
    /\ UNCHANGED <<stack, intervals, tickVars, hasException, processVars, kind,
                   runs>>

\* The code's condition is "!m_intervalCallbacks.contains(timerId)": the timer
\* is killed when it is NOT one of the intervals, and removing it from
\* m_intervalCallbacks then changes nothing.
ClearInterval(c) ==
    /\ Script("clearInterval")
    /\ kind[c] \in {"timeout", "interval"}
    /\ IF c \notin intervals
       THEN KillTimer(c) /\ intervals' = intervals \ {c}
       ELSE UNCHANGED <<running, due, intervals>>
    /\ cleared' = cleared \cup ({c} \cap intervals)
    /\ UNCHANGED <<stack, timeouts, tickVars, hasException, processVars, kind,
                   runs>>

\* process.exit: QCoreApplication::exit tells the event loops that are running,
\* and there is none before main() calls app->exec().  It returns to the script.
ProcessExit(code) ==
    /\ Script("exit")
    /\ exitRequest' = IF main = "loaded" THEN code ELSE exitRequest
    /\ UNCHANGED <<stack, timerVars, tickVars, hasException, main, quits,
                   exitCode, historyVars>>

\* The global require (not the require each module is given).
GlobalRequire ==
    /\ Script("require")
    /\ Len(stack) < MaxDepth
    /\ stack' = <<Fr("require", None, {})>> \o stack
    /\ UNCHANGED <<timerVars, tickVars, hasException, processVars, historyVars>>

-----------------------------------------------------------------------------
(* A script ends, or meets an exception left by what its require() ran. *)

\* The module is found: its script starts.  (A cached or native module is a
\* script that ends at once.)
RequireLoad ==
    /\ At("require")
    /\ stack' = <<Fr("module", None, {})>> \o Tail(stack)
    /\ UNCHANGED <<timerVars, tickVars, hasException, processVars, historyVars>>

\* "Cannot find module": throwError, and doneCheck all the same.
RequireMissing ==
    /\ At("require")
    /\ hasException' = TRUE
    /\ main' = IF main = "loading" /\ Len(stack) = 1
             THEN "undefined" ELSE main
    /\ EnterDoneCheck(None, Tail(stack))
    /\ UNCHANGED <<timerVars, ticks, exitRequest, quits, exitCode, historyVars>>

\* The script of a module ends: require returns its exports, an object.
ModuleReturn ==
    /\ At("module") /\ ~hasException
    /\ EnterDoneCheck(None, Tail(stack))
    /\ UNCHANGED <<timerVars, ticks, hasException, processVars, historyVars>>

\* The script of a module ends with an exception: exceptionCheck catches it and
\* emits quit(1); only if nobody exits does require go on to doneCheck.
ModuleThrow ==
    /\ At("module")
    /\ hasException \/ "throw" \in Api
    /\ hasException' = FALSE
    /\ EmitQuit(1)
    /\ EnterDoneCheck(None, Tail(stack))
    /\ UNCHANGED <<timerVars, ticks, main, exitRequest, historyVars>>

\* The QML engine catches what a handler throws.
HandlerEnd ==
    /\ At("handler")
    /\ hasException' = FALSE
    /\ stack' = Tail(stack)
    /\ UNCHANGED <<timerVars, tickVars, processVars, historyVars>>

\* A callback ends, normally or (threw) leaving hasException set, which neither
\* customEvent nor timerEvent looks at.
CallbackEnds(threw) ==
    /\ threw => hasException \/ "throw" \in Api
    /\ ~threw => ~hasException
    /\ hasException' = threw

TickEnd(threw) ==
    /\ At("tick")
    /\ CallbackEnds(threw)
    /\ stack' = Tail(stack)
    /\ UNCHANGED <<timerVars, tickVars, processVars, historyVars>>

TimerEnd(threw) ==
    /\ At("timer")
    /\ CallbackEnds(threw)
    /\ EnterDoneCheck(Head(stack).cb, Tail(stack))
    /\ UNCHANGED <<timerVars, ticks, processVars, historyVars>>

\* try { require(...) } catch: the exception of whatever ran inside is dropped.
Catch ==
    /\ Executing /\ hasException
    /\ hasException' = FALSE
    /\ UNCHANGED <<stack, timerVars, tickVars, processVars, historyVars>>

-----------------------------------------------------------------------------
(* One pass of processEvents, and what doneCheck does after it. *)

\* sendPostedEvents takes an event off the queue before it is handled.
Delivered == Tail(ticks)

\* Mutant: what comes in the middle of something else is ignored.
CustomEventOutermost ==
    /\ At("posted") /\ batch > 0
    /\ ticks' = Delivered
    /\ batch' = batch - 1
    /\ IF hasException \/ Len(stack) > 1
       THEN UNCHANGED <<stack, runs>>
       ELSE /\ stack' = <<Fr("tick", Head(ticks), {})>> \o stack
            /\ runs' = Entered(Head(ticks))
    /\ UNCHANGED <<timerVars, hasException, processVars, kind, cleared>>

\* customEvent.  A function called while an exception is pending returns at once.
CustomEvent ==
    /\ At("posted") /\ batch > 0
    /\ ticks' = Delivered
    /\ batch' = batch - 1
    /\ IF hasException
       THEN UNCHANGED <<stack, runs>>
       ELSE /\ stack' = <<Fr("tick", Head(ticks), {})>> \o stack
            /\ runs' = Entered(Head(ticks))
    /\ UNCHANGED <<timerVars, hasException, processVars, kind, cleared>>

\* The posted events are delivered; the timers due now will be activated.
CollectTimers ==
    /\ At("posted") /\ batch = 0
    /\ stack' = <<Fr("timers", None, due)>> \o Tail(stack)
    /\ UNCHANGED <<timerVars, tickVars, hasException, processVars, historyVars>>

\* The pass with timer c taken off its list.
PassWithout(c) ==
    <<Fr("timers", None, Head(stack).todo \ {c})>> \o Tail(stack)

Expired(c) == At("timers") /\ c \in Head(stack).todo \cap due

\* Mutants: value() instead of take(), no killTimer, neither of the two, and a
\* take of all the timeouts that are due.
TakeTimeoutTooLate(c) == UNCHANGED <<timeouts, running>>

TakeTimeoutNotKilled(c) == timeouts' = timeouts \ {c} /\ UNCHANGED running

TakeTimeoutKept(c) ==
    /\ running' = IF c \in timeouts THEN running \ {c} ELSE running
    /\ UNCHANGED timeouts

TakeTimeoutsDue(c) ==
    /\ timeouts' = timeouts \ due
    /\ running' = running \ (due \cap timeouts)

\* timerEvent: a timeout is killed and taken before it is called, an interval
\* stays.
TakeTimeout(c) ==
    /\ timeouts' = timeouts \ {c}
    /\ running' = IF c \in timeouts THEN running \ {c} ELSE running

CallTimer(c, rest) == <<Fr("timer", c, {})>> \o rest

\* Then the call, and doneCheck whether or not the callback could run.
TimerEvent(c) ==
    /\ Expired(c) /\ ~Active(c)
    /\ due' = due \ {c}
    /\ TakeTimeout(c)
    /\ IF c \notin timeouts \cup intervals
       THEN stack' = PassWithout(c) /\ UNCHANGED <<batch, runs>>
       ELSE IF hasException
       THEN EnterDoneCheck(c, PassWithout(c)) /\ UNCHANGED runs
       ELSE /\ stack' = CallTimer(c, PassWithout(c))
            /\ runs' = Entered(c)
            /\ UNCHANGED batch
    /\ UNCHANGED <<intervals, ticks, hasException, processVars, kind, cleared>>

\* Qt does not deliver a timer's event inside the delivery of the same timer's.
SkipActive(c) ==
    /\ Expired(c) /\ Active(c)
    /\ due' = due \ {c}
    /\ stack' = PassWithout(c)
    /\ UNCHANGED <<timeouts, intervals, running, tickVars, hasException,
                   processVars, historyVars>>

\* The pass is over when its timers are; QCoreApplication::exit interrupts it.
EndPass ==
    /\ At("timers")
    /\ Head(stack).todo \cap due = {} \/ exitRequest # None
    /\ stack' = Tail(stack)
    /\ UNCHANGED <<timerVars, tickVars, hasException, processVars, historyVars>>

\* Mutant: doneCheck also waits for the nextTick callbacks.
NothingLeftNorTicks == timeouts = {} /\ intervals = {} /\ ticks = <<>>

\* The rest of doneCheck.
NothingLeft == timeouts = {} /\ intervals = {}

\* What main() does when its require returns and nobody has exited.
BackInMain ==
    IF main = "undefined"
    THEN exitCode' = 1 /\ UNCHANGED main
    ELSE main' = "loaded" /\ UNCHANGED exitCode

FinishDoneCheck ==
    /\ At("check")
    /\ stack' = Tail(stack)
    /\ IF NothingLeft
       THEN EmitQuit(0) /\ UNCHANGED main
       ELSE /\ IF Len(stack) = 1 THEN BackInMain ELSE UNCHANGED <<main, exitCode>>
            /\ UNCHANGED quits
    /\ UNCHANGED <<timerVars, tickVars, hasException, exitRequest, historyVars>>

-----------------------------------------------------------------------------
(* The event loop of the host, and time. *)

\* The event loop that app->exec() runs; the stack above it is empty.
InLoop == Alive /\ stack = <<>> /\ main = "loaded"

LoopPass ==
    /\ InLoop /\ exitRequest = None
    /\ ticks # <<>> \/ due # {}
    /\ stack' = <<Fr("posted", None, {})>>
    /\ batch' = Len(ticks)
    /\ UNCHANGED <<timerVars, ticks, hasException, processVars, historyVars>>

\* Mutant: the event loop goes on while timers are waiting.
LoopExitWhenIdle ==
    /\ InLoop /\ exitRequest # None /\ timeouts = {} /\ intervals = {}
    /\ exitCode' = exitRequest
    /\ UNCHANGED <<stack, timerVars, tickVars, hasException, main, exitRequest,
                   quits, historyVars>>

LoopExit ==
    /\ InLoop /\ exitRequest # None
    /\ exitCode' = exitRequest
    /\ UNCHANGED <<stack, timerVars, tickVars, hasException, main, exitRequest,
                   quits, historyVars>>

\* The event loop, or a pass of processEvents inside doneCheck, delivers an event of
\* the host too: its QML engine calls a handler, and reports an exception a callback
\* has left behind in its place.
Delivering == (InLoop /\ exitRequest = None) \/ (At("posted") /\ Len(stack) < MaxDepth)

HostCall ==
    /\ Host = "plugin" /\ Delivering
    /\ stack' = IF hasException THEN stack ELSE <<Fr("handler", None, {})>> \o stack
    /\ hasException' = FALSE
    /\ UNCHANGED <<timerVars, tickVars, processVars, historyVars>>

\* A timer's time comes, whatever the program is doing.
ExpireTimer(c) ==
    /\ Alive /\ c \in running \ due
    /\ due' = due \cup {c}
    /\ UNCHANGED <<stack, timeouts, intervals, running, tickVars, hasException,
                   processVars, historyVars>>

\* The process is gone.
Terminated == ~Alive /\ UNCHANGED vars

-----------------------------------------------------------------------------
Init ==
    /\ stack = IF Host = "binary" THEN <<Fr("require", None, {})>> ELSE <<>>
    /\ main = IF Host = "binary" THEN "loading" ELSE "loaded"
    /\ timeouts = {} /\ intervals = {} /\ running = {} /\ due = {}
    /\ ticks = <<>> /\ batch = 0
    /\ hasException = FALSE
    /\ exitRequest = None /\ quits = {} /\ exitCode = None
    /\ kind = [c \in Callback |-> "none"]
    /\ runs = [c \in Callback |-> 0]
    /\ cleared = {}

\* What a script does while it runs.
ScriptCall ==
    \/ \E c \in Callback : \/ SetTimeout(c) \/ SetInterval(c) \/ NextTick(c)
                           \/ ClearTimeout(c) \/ ClearInterval(c)
    \/ \E code \in ExitCode : ProcessExit(code)
    \/ GlobalRequire
    \/ Catch

\* A script ends.
ScriptEnd ==
    \/ ModuleReturn
    \/ ModuleThrow
    \/ HandlerEnd
    \/ \E threw \in BOOLEAN : TickEnd(threw) \/ TimerEnd(threw)

\* The C++ code and the event dispatcher under it.
Dispatch ==
    \/ RequireLoad \/ RequireMissing
    \/ CustomEvent \/ CollectTimers \/ EndPass
    \/ \E c \in Callback : TimerEvent(c) \/ SkipActive(c)
    \/ FinishDoneCheck
    \/ LoopPass \/ LoopExit

Next ==
    \/ ScriptCall
    \/ ScriptEnd
    \/ Dispatch
    \/ HostCall
    \/ \E c \in Callback : ExpireTimer(c)
    \/ Terminated

Spec == Init /\ [][Next]_vars

\* Scripts end, the dispatcher goes on, and time passes.
Fairness ==
    /\ WF_vars(ScriptEnd)
    /\ WF_vars(Dispatch)
    /\ \A c \in Callback : WF_vars(ExpireTimer(c))

FairSpec == Spec /\ Fairness
=============================================================================
