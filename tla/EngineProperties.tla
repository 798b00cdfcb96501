-------------------------- MODULE EngineProperties --------------------------
(***************************************************************************)
(* What the event loop of Engine is meant to guarantee, and the promise it *)
(* makes to scripts (CallbackLife), which it is shown to keep.             *)
(***************************************************************************)
EXTENDS Engine

\* The types of the variables.
TypeOK ==
    /\ stack \in Seq(Frame)
    /\ timeouts \subseteq Callback /\ intervals \subseteq Callback
    /\ running \subseteq Callback /\ due \subseteq running
    /\ ticks \in Seq(Callback) /\ batch \in 0..Len(ticks)
    /\ hasException \in BOOLEAN
    /\ main \in {"loading", "undefined", "loaded"}
    /\ exitRequest \in ExitCode \cup {None}
    /\ quits \subseteq {0, 1}
    /\ exitCode \in ExitCode \cup {0, 1, None}
    /\ kind \in [Callback -> {"none", "timeout", "interval", "tick"}]
    /\ runs \in [Callback -> 0..2]
    /\ cleared \subseteq Callback

\* The Qt timers and the two callback tables agree: no timer fires without a
\* callback (so timerEvent's last return is never taken), and, unless scripts use
\* clearInterval, every callback waiting in a table has a timer that will fire.
TimersMatchCallbacks ==
    /\ running \subseteq timeouts \cup intervals
    /\ timeouts \cap intervals = {}
    /\ "clearInterval" \notin Api => timeouts \cup intervals \subseteq running

InTicks(c) == \E i \in 1..Len(ticks) : ticks[i] = c

\* A function given to setTimeout or nextTick runs at most once, and never while
\* it is still waiting: timerEvent and the event queue give it up before the call,
\* whatever the callback and the passes nested in doneCheck do next.
OneShotRunsOnce ==
    \A c \in Callback :
        /\ kind[c] \in {"timeout", "tick"} => runs[c] <= 1
        /\ c \in timeouts \/ InTicks(c) => runs[c] = 0

\* A timeout cleared before it ran never runs, even if its time has come and an
\* outer processEvents pass already has it on its list.
ClearedTimeoutNeverRuns ==
    \A c \in cleared : kind[c] = "timeout" => runs[c] = 0

\* The event loop of the binary never waits for something that cannot come: as
\* long as it waits, a timer is running.  (doneCheck runs after whatever can make
\* the last callback go away, if scripts clear nothing.)
NoHang == InLoop /\ Host = "binary" => running # {} \/ ticks # <<>> \/ exitRequest # None

\* The process does not quit by itself with callbacks waiting, nextTick's
\* included: what doneCheck's comment says of "any code pending execution".
QuitMeansNothingPending ==
    0 \in quits => timeouts = {} /\ intervals = {} /\ ticks = <<>>

\* A cleared interval does not run again.
ClearedIntervalStaysSilent ==
    [][\A c \in cleared : kind[c] = "interval" => runs'[c] = runs[c]]_vars

\* A binary none of whose timers is left exits by itself.
IdleQuits == timeouts \cup intervals = {} ~> ~Alive \/ timeouts \cup intervals # {}

\* If scripts clear no timers, every timeout is called, though other timers keep
\* coming due and passes are nested: unless the process ends, or a callback has
\* thrown, of which no one takes notice (customEvent and timerEvent leave
\* hasException as it is, and the binary calls nothing any more).
TimeoutsFire ==
    \A c \in Callback : c \in timeouts ~> runs[c] > 0 \/ hasException \/ ~Alive

\* So is every nextTick callback, inside doneCheck or outside, with the same exceptions.
TicksRun ==
    \A c \in Callback : InTicks(c) ~> runs[c] > 0 \/ hasException \/ ~Alive

\* Once the event loop was told to exit, the process exits, whatever is pending.
ExitHonoured == exitRequest # None ~> ~Alive

-----------------------------------------------------------------------------
(* The engine keeps the promises of CallbackLife. *)

Life(c) ==
    IF c \in timeouts THEN "once"
    ELSE IF c \in intervals THEN "repeating"
    ELSE IF InTicks(c) THEN "tick"
    ELSE IF kind[c] = "none" THEN "new"
    ELSE IF runs[c] > 0 THEN "done"
    ELSE IF c \in cleared THEN "cancelled"
    ELSE "lost"

Promise == INSTANCE CallbackLife WITH life <- [c \in Callback |-> Life(c)],
                                      queue <- ticks,
                                      fault <- hasException

PromiseKept == Promise!Spec
=============================================================================
