----------------------------- MODULE BufferViews -----------------------------
(***************************************************************************)
(* What Buffers promise to scripts, with no memory to allocate, count      *)
(* references to or free: a Buffer is a sequence of cells that hold bytes, *)
(* Buffers made from one another have cells in common, and an operation on *)
(* a Buffer changes no cell but its own.  A new Buffer's cells are in a    *)
(* memory of its own, and so are those of the Buffers made from it: fill   *)
(* can change any of these.  A cell is a pair of its memory and its place. *)
(*                                                                         *)
(* A Buffer that is a part of another, or is made from a string, is asked  *)
(* for first and delivered later; meanwhile "Asked" stands for it.         *)
(***************************************************************************)
EXTENDS Integers, Sequences

CONSTANTS Buffer, Asked

VARIABLES
    live,   \* the Buffers there are
    view,   \* the cells of each live Buffer
    store,  \* the bytes in the cells of the live Buffers
    wrote   \* the Buffer the last operation wrote to, and if it had to stay "within" it
            \* or could go "beyond"; Asked if it was no write

vars == <<live, view, store, wrote>>

Cells(b) == {view[b][i] : i \in 1..Len(view[b])}
Used == UNION {{view[b][i] : i \in 1..Len(view[b])} : b \in live}

\* The cells that are still used hold what they held.
Kept(cells) == \A c \in cells : store'[c] = store[c]

Init ==
    /\ live = {}
    /\ view = [b \in live |-> <<>>]
    /\ store = [c \in Used |-> 0]
    /\ wrote = Asked

\* b is new, and nothing happens to the others.
Added(b) ==
    /\ b \notin live
    /\ live' = live \cup {b}
    /\ \A a \in live : view'[a] = view[a]
    /\ Kept(Used)
    /\ wrote' = Asked

\* A new Buffer with cells nobody else has, in a memory nobody else has cells in.
New(b) ==
    /\ Added(b)
    /\ \A i \in 1..Len(view'[b]) :
          /\ \A c \in Used : c[1] # view'[b][i][1]
          /\ \A j \in 1..Len(view'[b]) : view'[b][i] = view'[b][j] => i = j

\* Another Buffer with all the cells of a.
Share(b, a) ==
    /\ a \in live
    /\ Added(b)
    /\ view'[b] = view[a]

\* A part of a.
Ask(a) ==
    /\ a \in live
    /\ Added(Asked)
    /\ \/ view'[Asked] = <<>>
       \/ \E i, j \in 1..Len(view[a]) : view'[Asked] = SubSeq(view[a], i, j)

\* What was asked for, as a Buffer.
Deliver(b) ==
    /\ Asked \in live /\ b \notin live
    /\ live' = (live \ {Asked}) \cup {b}
    /\ \A a \in live \ {Asked} : view'[a] = view[a]
    /\ view'[b] = view[Asked]
    /\ Kept(Used)
    /\ wrote' = Asked

\* The bytes of a Buffer are changed.
Change(b) ==
    /\ b \in live
    /\ UNCHANGED <<live, view>>
    /\ Kept(Used \ Cells(b))
    /\ wrote' = <<b, "within">>

\* The cells in the memory that b's are in.
Around(b) == {c \in Used : \E d \in Cells(b) : c[1] = d[1]}

\* A fill can change them all, and a write with numbers that are too large.
Overrun(b) ==
    /\ b \in live
    /\ UNCHANGED <<live, view>>
    /\ Kept(Used \ Around(b))
    /\ wrote' = <<b, "beyond">>

\* A Buffer nobody refers to is collected.
Drop(b) ==
    /\ b \in live
    /\ live' = live \ {b}
    /\ \A a \in live' : view'[a] = view[a]
    /\ Kept(Used')
    /\ wrote' = Asked

Next ==
    \/ New(Asked)
    \/ \E b \in Buffer :
          \/ New(b) \/ Ask(b) \/ Deliver(b) \/ Change(b) \/ Overrun(b) \/ Drop(b)
          \/ \E a \in Buffer : Share(b, a)

Spec == Init /\ [][Next]_vars
=============================================================================
