----------------------------- MODULE EventEmitter -----------------------------
(***************************************************************************)
(* One EventEmitter (src/nodeqml/js/events.js) and the listeners it calls, *)
(* which call its functions in turn: emit, addListener, once,              *)
(* removeListener and removeAllListeners are all in the middle of          *)
(* something while listeners run.  The JavaScript call stack is therefore  *)
(* explicit: "stack" holds the frames, innermost first.  A frame's "at":   *)
(*   "script"   a listener is running                                      *)
(*   "emit"     emit, with the listeners of its copy it has not called yet *)
(*   "wrapper"  the function g of once(), about to remove itself           *)
(*   "once"     g, about to call the listener                              *)
(*   "add"      addListener, emitting newListener                          *)
(*   "drain"    removeAllListeners(type), removing the listeners in turn   *)
(*   "keys"     removeAllListeners(), going through the types              *)
(*   "clear"    removeAllListeners(), after the type removeListener        *)
(* With an empty stack the program's own script runs.                      *)
(*                                                                         *)
(* The module assumes the functions isFunction, isObject, isUndefined and  *)
(* isNumber that events.js calls in util, and util.cpp does not define: a  *)
(* script has added them.  There are no domains.                           *)
(***************************************************************************)
EXTENDS Naturals, SequencesExt, FiniteSetsExt

CONSTANTS
    Type,      \* the types of events, among them those with a meaning
    Plain,     \* the functions scripts register
    Wrapper,   \* the functions once() makes of them, a new one each time
    None,      \* no function
    ArrayId,   \* the identities of arrays
    Inside,    \* what listeners call: a subset of ApiNames
    MaxCalls   \* bound: the calls scripts make in all

ApiNames == {"emit", "addListener", "once", "removeListener", "removeAllListeners",
             "throw"}

ASSUME EmitterAssumption ==
    /\ {"newListener", "removeListener"} \subseteq Type
    /\ Plain \cap Wrapper = {} /\ None \notin Plain \cup Wrapper
    /\ ArrayId \subseteq Nat
    /\ Inside \subseteq ApiNames
    /\ MaxCalls \in Nat

VARIABLES
    stack,    \* the call stack, innermost frame first
    events,   \* _events: what each type has: nothing, a function or an array
    arrays,   \* the elements of the arrays
    target,   \* the listener of each function once() made
    fired,    \* its variable "fired"
    calls,    \* how many calls scripts have made
    fires,    \* history: how often it called its listener, up to 2
    unheard   \* history: removeAllListeners() dropped some and told no one

vars == <<stack, events, arrays, target, fired, calls, fires, unheard>>

Listener == Plain \cup Wrapper

Nothing   == [is |-> "nothing"]
Single(l) == [is |-> "function", listener |-> l]
Many(id)  == [is |-> "array", array |-> id]

\* The listeners of a type, given _events and the arrays.
Listeners(ev, ar, t) ==
    CASE ev[t].is = "nothing"  -> <<>>
      [] ev[t].is = "function" -> <<ev[t].listener>>
      [] ev[t].is = "array"    -> ar[ev[t].array]

Listened(t) == events[t] # Nothing

Script == [at |-> "script"]

At(at) == stack # <<>> /\ Head(stack).at = at

\* A script calls a function: the program's own, or a listener.
Calls(f) ==
    /\ stack = <<>> \/ (At("script") /\ f \in Inside)
    /\ calls < MaxCalls
    /\ calls' = calls + 1

historyVars == <<fires, unheard>>
onceVars    == <<target, fired, fires>>

-----------------------------------------------------------------------------
(* What the functions are made of. *)

\* emit(t): the stack above "below", with a copy of the listeners.
Emission(ev, ar, t, below) ==
    IF ev[t] = Nothing THEN below
    ELSE <<[at |-> "emit", type |-> t, rest |-> Listeners(ev, ar, t)]>> \o below

\* An array nobody refers to.
Unused == {id \in ArrayId :
              /\ \A t \in Type : events[t] # Many(id)
              /\ \A i \in 1..Len(stack) :
                    stack[i].at = "drain" => stack[i].entry # Many(id)}

\* The end of addListener.
Appended(t, l) ==
    CASE events[t].is = "nothing" ->
            events' = [events EXCEPT ![t] = Single(l)] /\ UNCHANGED arrays
      [] events[t].is = "array" ->
            /\ arrays' = [arrays EXCEPT ![events[t].array] = Append(@, l)]
            /\ UNCHANGED events
      [] events[t].is = "function" ->
            /\ Unused # {}
            /\ LET id == Min(Unused) IN
               /\ arrays' = [arrays EXCEPT ![id] = <<events[t].listener, l>>]
               /\ events' = [events EXCEPT ![t] = Many(id)]

\* h was registered as l, or as once(l).
Matches(h, l) == h = l \/ (h \in Wrapper /\ target[h] = l)

\* Mutant: the first one.
PositionFirst(list, l) ==
    LET found == {i \in 1..Len(list) : Matches(list[i], l)}
    IN IF found = {} THEN 0 ELSE Min(found)

\* The position removeListener finds, looking from the end; 0 if there is none.
Position(list, l) ==
    LET found == {i \in 1..Len(list) : Matches(list[i], l)}
    IN IF found = {} THEN 0 ELSE Max(found)

\* Mutant: "list.length = 0" is missing.
WithoutKept(ar, id, i) ==
    IF Len(ar[id]) = 1 THEN ar ELSE [ar EXCEPT ![id] = RemoveAt(@, i)]

\* An array without one of its elements, "list.length = 0" for the only one.
Without(ar, id, i) == [ar EXCEPT ![id] = RemoveAt(@, i)]

\* Mutant: an array is only spliced.
LeftSpliced(t) == IF events[t].is = "function" THEN [events EXCEPT ![t] = Nothing] ELSE events

\* _events without the only listener of t, or with what is left of them.
Left(t) ==
    IF Len(Listeners(events, arrays, t)) = 1 THEN [events EXCEPT ![t] = Nothing] ELSE events

\* removeListener(t, l), on the stack "below".
Removed(t, l, below) ==
    LET i == Position(Listeners(events, arrays, t), l)
    IN IF i = 0 THEN stack' = below /\ UNCHANGED <<events, arrays>>
       ELSE /\ arrays' = IF events[t].is = "array" THEN Without(arrays, events[t].array, i)
                         ELSE arrays
            /\ events' = Left(t)
            /\ stack' = Emission(events', arrays', "removeListener", below)

\* removeAllListeners(t), on the stack "below": what is removed at once, or begun.
RemovedAll(t, below) ==
    IF ~Listened("removeListener")
    THEN events' = [events EXCEPT ![t] = Nothing] /\ stack' = below /\ UNCHANGED arrays
    ELSE IF events[t].is = "function"
    THEN Removed(t, events[t].listener,
                 <<[at |-> "drain", type |-> t, entry |-> Nothing]>> \o below)
    ELSE /\ stack' = <<[at |-> "drain", type |-> t, entry |-> events[t]]>> \o below
         /\ UNCHANGED <<events, arrays>>

\* An exception goes to a script that catches it, or through.
Unwind ==
    \E n \in 0..Len(stack) :
        /\ n < Len(stack) => stack[n + 1].at = "script"
        /\ stack' = SubSeq(stack, n + 1, Len(stack))

-----------------------------------------------------------------------------
(* The functions scripts call. *)

\* emit of an error nobody listens to throws.
Emit(t) ==
    /\ Calls("emit")
    /\ IF t = "error" /\ ~Listened(t) THEN Unwind
       ELSE stack' = Emission(events, arrays, t, stack)
    /\ UNCHANGED <<events, arrays, onceVars, unheard>>

\* addListener, up to the listeners of newListener.
Added(t, l) ==
    IF Listened("newListener")
    THEN /\ stack' = Emission(events, arrays, "newListener",
                              <<[at |-> "add", type |-> t, listener |-> l]>> \o stack)
         /\ UNCHANGED <<events, arrays>>
    ELSE Appended(t, l) /\ UNCHANGED stack

AddListener(t, l) ==
    /\ Calls("addListener")
    /\ Added(t, l)
    /\ UNCHANGED <<onceVars, unheard>>

Once(t, l) ==
    /\ Calls("once")
    /\ \E g \in Wrapper :
          /\ target[g] = None
          /\ target' = [target EXCEPT ![g] = l]
          /\ Added(t, g)
    /\ UNCHANGED <<fired, historyVars>>

RemoveListener(t, l) ==
    /\ Calls("removeListener")
    /\ Removed(t, l, stack)
    /\ UNCHANGED <<onceVars, unheard>>

RemoveAllListeners(t) ==
    /\ Calls("removeAllListeners")
    /\ RemovedAll(t, stack)
    /\ UNCHANGED <<onceVars, unheard>>

RemoveAllTypes ==
    /\ Calls("removeAllListeners")
    /\ IF ~Listened("removeListener")
       THEN events' = [t \in Type |-> Nothing] /\ UNCHANGED stack
       ELSE /\ stack' = <<[at |-> "keys", todo |-> {t \in Type : Listened(t)},
                           seen |-> {"removeListener"}]>> \o stack
            /\ UNCHANGED events
    /\ UNCHANGED <<arrays, onceVars, unheard>>

-----------------------------------------------------------------------------
(* What follows when a listener has run. *)

\* emit calls the next listener of its copy.
CallNext ==
    /\ At("emit") /\ Head(stack).rest # <<>>
    /\ LET emit == Head(stack)
           l == Head(emit.rest)
           called == IF l \in Wrapper
                     THEN [at |-> "wrapper", type |-> emit.type, listener |-> l]
                     ELSE Script
       IN stack' = <<called, [emit EXCEPT !.rest = Tail(@)]>> \o Tail(stack)
    /\ UNCHANGED <<events, arrays, onceVars, calls, unheard>>

EmitReturns ==
    /\ At("emit") /\ Head(stack).rest = <<>>
    /\ stack' = Tail(stack)
    /\ UNCHANGED <<events, arrays, onceVars, calls, unheard>>

\* The function of once() removes itself first.
WrapperStarts ==
    /\ At("wrapper")
    /\ LET g == Head(stack).listener IN
       Removed(Head(stack).type, g, <<[at |-> "once", listener |-> g]>> \o Tail(stack))
    /\ UNCHANGED <<onceVars, calls, unheard>>

\* Mutant: "fired" is not looked at.
MayFireAgain(g) == TRUE

MayFire(g) == ~fired[g]

\* Then it calls the listener, unless it has.
WrapperCalls ==
    /\ At("once")
    /\ LET g == Head(stack).listener IN
       IF MayFire(g)
       THEN /\ fired' = [fired EXCEPT ![g] = TRUE]
            /\ fires' = [fires EXCEPT ![g] = IF @ < 2 THEN @ + 1 ELSE @]
            /\ stack' = <<Script>> \o Tail(stack)
       ELSE stack' = Tail(stack) /\ UNCHANGED <<fired, fires>>
    /\ UNCHANGED <<events, arrays, target, calls, unheard>>

\* addListener after the listeners of newListener.
FinishAdd ==
    /\ At("add")
    /\ Appended(Head(stack).type, Head(stack).listener)
    /\ stack' = Tail(stack)
    /\ UNCHANGED <<onceVars, calls, unheard>>

\* removeAllListeners() would drop listeners that were added meanwhile.
Unheard(t) ==
    /\ Listened(t) /\ Listened("removeListener") /\ t # "removeListener"
    /\ \E i \in 1..Len(stack) : stack[i].at = "keys"

\* The loop of removeAllListeners(type), on the array it has found in _events.
Drain ==
    /\ At("drain")
    /\ LET frame == Head(stack)
           list  == IF frame.entry = Nothing THEN <<>> ELSE arrays[frame.entry.array]
       IN IF list # <<>>
          THEN Removed(frame.type, Last(list), stack) /\ UNCHANGED unheard
          ELSE /\ events' = [events EXCEPT ![frame.type] = Nothing]
               /\ unheard' = (unheard \/ Unheard(frame.type))
               /\ stack' = Tail(stack)
               /\ UNCHANGED arrays
    /\ UNCHANGED <<onceVars, calls>>

\* The loop of removeAllListeners(): for-in visits the types that were there and
\* still are, and may visit those that have been added.
NextKey ==
    /\ At("keys")
    /\ \E t \in Type \ Head(stack).seen :
          /\ Listened(t)
          /\ RemovedAll(t, <<[Head(stack) EXCEPT !.seen = @ \cup {t}]>> \o Tail(stack))
    /\ UNCHANGED <<onceVars, calls, unheard>>

KeysDone ==
    /\ At("keys")
    /\ \A t \in Head(stack).todo \ Head(stack).seen : ~Listened(t)
    /\ RemovedAll("removeListener", <<[at |-> "clear"]>> \o Tail(stack))
    /\ UNCHANGED <<onceVars, calls, unheard>>

Clear ==
    /\ At("clear")
    /\ events' = [t \in Type |-> Nothing]
    /\ stack' = Tail(stack)
    /\ UNCHANGED <<arrays, onceVars, calls, unheard>>

\* A listener ends, or throws.
ScriptReturns ==
    /\ At("script")
    /\ stack' = Tail(stack)
    /\ UNCHANGED <<events, arrays, onceVars, calls, unheard>>

ScriptThrows ==
    /\ At("script") /\ "throw" \in Inside
    /\ Unwind
    /\ UNCHANGED <<events, arrays, onceVars, calls, unheard>>

-----------------------------------------------------------------------------
Init ==
    /\ stack = <<>>
    /\ events = [t \in Type |-> Nothing]
    /\ arrays = [id \in ArrayId |-> <<>>]
    /\ target = [g \in Wrapper |-> None]
    /\ fired = [g \in Wrapper |-> FALSE]
    /\ calls = 0
    /\ fires = [g \in Wrapper |-> 0]
    /\ unheard = FALSE

ScriptCall ==
    \/ \E t \in Type :
          \/ Emit(t) \/ RemoveAllListeners(t)
          \/ \E l \in Plain : AddListener(t, l) \/ Once(t, l) \/ RemoveListener(t, l)
    \/ RemoveAllTypes

Next ==
    \/ ScriptCall
    \/ CallNext \/ EmitReturns
    \/ WrapperStarts \/ WrapperCalls
    \/ FinishAdd
    \/ Drain \/ NextKey \/ KeysDone \/ Clear
    \/ ScriptReturns \/ ScriptThrows

Spec == Init /\ [][Next]_vars
=============================================================================
