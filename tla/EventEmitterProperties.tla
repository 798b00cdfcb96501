------------------------ MODULE EventEmitterProperties ------------------------
(***************************************************************************)
(* What is meant to hold of an EventEmitter, and the promise to scripts    *)
(* (ListenerLists), which it is shown to keep.                             *)
(***************************************************************************)
EXTENDS EventEmitter

Entry == {Nothing} \cup {Single(l) : l \in Listener} \cup {Many(id) : id \in ArrayId}

Frame ==
    [at : {"script", "clear"}]
    \cup [at : {"emit"}, type : Type, rest : Seq(Listener)]
    \cup [at : {"wrapper"}, type : Type, listener : Wrapper]
    \cup [at : {"once"}, listener : Wrapper]
    \cup [at : {"add"}, type : Type, listener : Listener]
    \cup [at : {"drain"}, type : Type, entry : {Nothing} \cup {Many(id) : id \in ArrayId}]
    \cup [at : {"keys"}, todo : SUBSET Type, seen : SUBSET Type]

\* The types of the variables; an array that is used is never empty, since emit
\* takes one for listeners that are there.
TypeOK ==
    /\ stack \in Seq(Frame)
    /\ events \in [Type -> Entry]
    /\ arrays \in [ArrayId -> Seq(Listener)]
    /\ \A t \in Type : events[t].is = "array" => arrays[events[t].array] # <<>>
    /\ target \in [Wrapper -> Plain \cup {None}]
    /\ fired \in [Wrapper -> BOOLEAN]
    /\ calls \in 0..MaxCalls
    /\ fires \in [Wrapper -> 0..2]
    /\ unheard \in BOOLEAN

\* A listener given to once() is called once at the most, though two emits may both
\* have it in their copies, and removing it calls other listeners first.
OnceFiresOnce == \A g \in Wrapper : fires[g] <= 1

\* While removeAllListeners(type) removes what is in its array, the array is the one
\* in _events: otherwise removeListener would not find the listener, and the loop
\* would not end.
DrainFinds ==
    \A i \in 1..Len(stack) :
        /\ stack[i].at = "drain" /\ stack[i].entry # Nothing
        /\ arrays[stack[i].entry.array] # <<>>
        => events[stack[i].type] = stack[i].entry

\* removeAllListeners tells those that listen for removals of every listener.
AllHeard == ~unheard

-----------------------------------------------------------------------------
(* The promise of ListenerLists. *)

ListsNow == [t \in Type |-> Listeners(events, arrays, t)]

\* The frame so deep in the stack, counted from its bottom.
AtDepth == [d \in 1..Len(stack) |-> stack[Len(stack) + 1 - d]]

EmitsNow == [d \in {d \in DOMAIN AtDepth : AtDepth[d].at = "emit"} |-> AtDepth[d].rest]

Lists == INSTANCE ListenerLists WITH lists <- ListsNow, emits <- EmitsNow

ListsKept == Lists!Spec
=============================================================================
