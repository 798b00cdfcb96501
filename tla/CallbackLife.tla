---------------------------- MODULE CallbackLife ----------------------------
(***************************************************************************)
(* What the event loop promises about each function a script hands to      *)
(* setTimeout, setInterval or nextTick (src/nodeqml/engine.cpp), with no   *)
(* call stack, no Qt timers and no passes: a timeout runs once or is       *)
(* cancelled, nextTick callbacks run once each in the order of the calls,  *)
(* an interval runs any number of times until it is cancelled.             *)
(*                                                                         *)
(* While an exception is pending ("fault") the engine runs nothing, and    *)
(* drops the timeouts and nextTick callbacks whose turn comes meanwhile.   *)
(***************************************************************************)
EXTENDS Naturals, Sequences

CONSTANT Callback

VARIABLES
    life,   \* what has become of each callback
    queue,  \* the nextTick callbacks not run yet, in the order of the calls
    runs,   \* how often each callback was entered, counted up to 2
    fault   \* an exception nobody has caught is pending

vars == <<life, queue, runs, fault>>

Life == {"new", "once", "repeating", "tick", "done", "cancelled", "lost"}

Init ==
    /\ life = [c \in Callback |-> "new"]
    /\ queue = <<>>
    /\ runs = [c \in Callback |-> 0]
    /\ fault = FALSE

Becomes(c, l) == life' = [life EXCEPT ![c] = l]
Enter(c) == runs' = [runs EXCEPT ![c] = IF @ < 2 THEN @ + 1 ELSE @]

\* setTimeout and setInterval.
Schedule(c) ==
    /\ ~fault /\ life[c] = "new"
    /\ \E l \in {"once", "repeating"} : Becomes(c, l)
    /\ UNCHANGED <<queue, runs, fault>>

\* nextTick.
Post(c) ==
    /\ ~fault /\ life[c] = "new"
    /\ Becomes(c, "tick")
    /\ queue' = Append(queue, c)
    /\ UNCHANGED <<runs, fault>>

\* clearTimeout and clearInterval; the interval may be stopped in its last run.
Cancel(c) ==
    /\ ~fault /\ life[c] \in {"once", "repeating"}
    /\ Becomes(c, "cancelled")
    /\ UNCHANGED <<queue, runs, fault>>

RunTimeout(c) ==
    /\ life[c] = "once"
    /\ IF fault THEN Becomes(c, "lost") /\ UNCHANGED runs
                ELSE Becomes(c, "done") /\ Enter(c)
    /\ UNCHANGED <<queue, fault>>

RunInterval(c) ==
    /\ ~fault /\ life[c] = "repeating"
    /\ Enter(c)
    /\ UNCHANGED <<life, queue, fault>>

RunTick ==
    /\ queue # <<>>
    /\ IF fault THEN Becomes(Head(queue), "lost") /\ UNCHANGED runs
                ELSE Becomes(Head(queue), "done") /\ Enter(Head(queue))
    /\ queue' = Tail(queue)
    /\ UNCHANGED fault

\* An exception is thrown, or caught.
Throw == fault' = ~fault /\ UNCHANGED <<life, queue, runs>>

Next ==
    \/ \E c \in Callback : \/ Schedule(c) \/ Post(c) \/ Cancel(c)
                           \/ RunTimeout(c) \/ RunInterval(c)
    \/ RunTick
    \/ Throw

Spec == Init /\ [][Next]_vars
=============================================================================
