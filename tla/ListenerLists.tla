---------------------------- MODULE ListenerLists ----------------------------
(***************************************************************************)
(* What an EventEmitter (src/nodeqml/js/events.js) promises, with no       *)
(* arrays and no call stack: each type has a list of listeners; an emit    *)
(* calls those that were in the list when it began, in their order, what-  *)
(* ever happens to the list meanwhile; removing a listener takes out the   *)
(* one added last and tells those that listen for removals.                *)
(***************************************************************************)
EXTENDS Naturals, Sequences

CONSTANTS Type, Listener, None

VARIABLES
    lists,   \* the listeners of each type
    emits,   \* the emits in progress, by how deep they are: whom they will still call
    target   \* what each listener made by once() stands for, None if not made yet

vars == <<lists, emits, target>>

Init ==
    /\ lists = [t \in Type |-> <<>>]
    /\ DOMAIN emits = {}
    /\ target \in [DOMAIN target -> {None}]

\* The emit of a type begins, if anyone listens: within those in progress.
Begins(t, ls) ==
    IF ls[t] = <<>> THEN UNCHANGED emits
    ELSE \E d \in DOMAIN emits' :
            /\ \A e \in DOMAIN emits : e < d
            /\ emits' = [e \in DOMAIN emits \cup {d} |-> IF e = d THEN ls[t] ELSE emits[e]]

Emit(t) == Begins(t, lists) /\ UNCHANGED <<lists, target>>

Innermost(d) == d \in DOMAIN emits /\ \A e \in DOMAIN emits : e <= d

Call ==
    /\ \E d \in DOMAIN emits :
          /\ Innermost(d) /\ emits[d] # <<>>
          /\ emits' = [emits EXCEPT ![d] = Tail(@)]
    /\ UNCHANGED <<lists, target>>

\* Only those in "kept" go on, which others are not within.
Keep(kept) ==
    /\ \A d \in DOMAIN emits, e \in kept : d < e => d \in kept
    /\ emits' = [d \in kept |-> emits[d]]
    /\ UNCHANGED <<lists, target>>

End ==
    \E d \in DOMAIN emits : Innermost(d) /\ emits[d] = <<>> /\ Keep(DOMAIN emits \ {d})

\* An exception ends some of them.
Abandon == \E kept \in SUBSET DOMAIN emits : Keep(kept)

\* once() makes a listener; it may also be added in the same step.
Make ==
    \E g \in DOMAIN target, l \in Listener :
        target[g] = None /\ target' = [target EXCEPT ![g] = l]

Add(t, l) ==
    /\ lists' = [lists EXCEPT ![t] = Append(@, l)]
    /\ UNCHANGED emits
    /\ UNCHANGED target \/ (Make /\ target[l] # target'[l])

MakeOnly == Make /\ UNCHANGED lists /\ Begins("newListener", lists)

Is(h, l) == h = l \/ (h \in DOMAIN target /\ target[h] = l)

\* The last of the listeners that are l; those of removals are told.
Remove(t, l) ==
    /\ \E i \in 1..Len(lists[t]) :
          /\ Is(lists[t][i], l)
          /\ \A j \in i + 1 .. Len(lists[t]) : ~Is(lists[t][j], l)
          /\ lists' = [lists EXCEPT ![t] = SubSeq(@, 1, i - 1) \o SubSeq(@, i + 1, Len(@))]
    /\ Begins("removeListener", lists')
    /\ UNCHANGED target

\* All listeners of some types are dropped.
Drop(types) ==
    /\ lists' = [t \in Type |-> IF t \in types THEN <<>> ELSE lists[t]]
    /\ UNCHANGED <<emits, target>>

Next ==
    \/ \E t \in Type : \/ Emit(t)
                       \/ \E l \in Listener : Add(t, l) \/ Remove(t, l)
    \/ Call \/ End \/ Abandon
    \/ MakeOnly
    \/ \E types \in SUBSET Type : Drop(types)

Spec == Init /\ [][Next]_vars
=============================================================================
