-------------------------- MODULE EventEmitterProofs --------------------------
(***************************************************************************)
(* Proofs about an EventEmitter, for any types, functions and calls:       *)
(*   - the types of its variables, and that removeAllListeners always      *)
(*     finds the listener it is about to remove;                           *)
(*   - that once() calls its listener once at the most;                    *)
(*   - that its arrays, its copies of them and its call stack keep the     *)
(*     promise of ListenerLists, step by step;                             *)
(*   - that removeAllListeners tells of all it drops, unless listeners add *)
(*     listeners meanwhile.                                                *)
(***************************************************************************)
EXTENDS EventEmitterProperties, SequenceTheorems, WellFoundedInduction, TLAPS

(* Numbers and sequences. *)

LEMMA LeastNatural ==
    ASSUME NEW S \in SUBSET Nat, S # {}
    PROVE  \E m \in S : \A x \in S : m <= x
<1> DEFINE R == OpToRel(<, Nat)
<1>1. \A x, y \in Nat : <<x, y>> \in R <=> x < y
  BY DEF OpToRel
<1>2. IsWellFoundedOn(R, Nat)
  BY NatLessThanWellFounded
<1> HIDE DEF R
<1>3. PICK m \in S : \A y \in S : ~(<<y, m>> \in R)
  BY <1>2, WFMin
<1>4. \A y \in S : ~(y < m)
  BY <1>1, <1>3
<1> QED
  BY <1>4

LEMMA MinIn ==
    ASSUME NEW S \in SUBSET Nat, S # {}
    PROVE  Min(S) \in S
<1>1. PICK m \in S : \A x \in S : m <= x
  BY LeastNatural
<1> QED
  BY <1>1 DEF Min

LEMMA MaxIn ==
    ASSUME NEW n \in Nat, NEW S \in SUBSET (1..n), S # {}
    PROVE  Max(S) \in S /\ \A x \in S : x <= Max(S)
<1> DEFINE T == {n - x : x \in S}
<1>1. \A x \in S : x \in Nat /\ n - x \in Nat
  OBVIOUS
<1>2. T \in SUBSET Nat /\ T # {}
  BY <1>1
<1> HIDE DEF T
<1>3. PICK m \in T : \A y \in T : m <= y
  BY <1>2, LeastNatural
<1>4. PICK x \in S : m = n - x
  BY <1>3 DEF T
<1>5. \A y \in S : n - x <= n - y
  BY <1>3, <1>4 DEF T
<1>6. \A y \in S : x >= y
  BY <1>1, <1>5
<1>7. Max(S) \in S /\ \A y \in S : Max(S) >= y
  BY <1>6 DEF Max
<1>8. \A y, z \in S : z >= y => y <= z
  OBVIOUS
<1> QED
  BY <1>7, <1>8

LEMMA PositionIn ==
    ASSUME NEW list \in Seq(Listener), NEW l
    PROVE  Position(list, l) \in 0..Len(list)
<1> DEFINE found == {i \in 1..Len(list) : Matches(list[i], l)}
<1>1. Len(list) \in Nat /\ found \in SUBSET (1..Len(list))
  OBVIOUS
<1>2. Position(list, l) = IF found = {} THEN 0 ELSE Max(found)
  BY DEF Position
<1> HIDE DEF found
<1>3. CASE found = {}
  BY <1>1, <1>2, <1>3
<1>4. CASE found # {}
  <2>1. Max(found) \in found
    BY <1>1, <1>4, MaxIn
  <2>2. Max(found) \in 1..Len(list)
    BY <1>1, <2>1
  <2> QED
    BY <1>1, <1>2, <1>4, <2>2
<1> QED
  BY <1>3, <1>4

LEMMA PositionIs ==
    ASSUME NEW list \in Seq(Listener), NEW l, Position(list, l) # 0
    PROVE  /\ Position(list, l) \in 1..Len(list)
           /\ Matches(list[Position(list, l)], l)
           /\ \A j \in Position(list, l) + 1 .. Len(list) : ~Matches(list[j], l)
<1> DEFINE found == {i \in 1..Len(list) : Matches(list[i], l)}
<1>1. Len(list) \in Nat /\ found \in SUBSET (1..Len(list))
  OBVIOUS
<1>2. found # {} /\ Position(list, l) = Max(found)
  BY DEF Position
<1> DEFINE m == Max(found)
<1> HIDE DEF found
<1>3. m \in found /\ \A x \in found : x <= m
  BY <1>1, <1>2, MaxIn
<1> HIDE DEF m
<1>4. m \in 1..Len(list) /\ Matches(list[m], l)
  BY <1>3 DEF found
<1>5. \A j \in m + 1 .. Len(list) : j \in 1..Len(list) /\ ~(j <= m)
  BY <1>1, <1>4
<1>6. \A j \in m + 1 .. Len(list) : ~Matches(list[j], l)
  BY <1>3, <1>5 DEF found
<1> QED
  BY <1>2, <1>4, <1>6 DEF m

LEMMA RemovedAt ==
    ASSUME NEW S, NEW s \in Seq(S), NEW i \in 1..Len(s)
    PROVE  RemoveAt(s, i) \in Seq(S) /\ Len(RemoveAt(s, i)) = Len(s) - 1
<1>1. /\ SubSeq(s, 1, i - 1) \in Seq(S) /\ Len(SubSeq(s, 1, i - 1)) = i - 1
      /\ SubSeq(s, i + 1, Len(s)) \in Seq(S) /\ Len(SubSeq(s, i + 1, Len(s))) = Len(s) - i
  OBVIOUS
<1>2. RemoveAt(s, i) = SubSeq(s, 1, i - 1) \o SubSeq(s, i + 1, Len(s))
  BY DEF RemoveAt
<1>3. \A a, b \in Seq(S) : a \o b \in Seq(S) /\ Len(a \o b) = Len(a) + Len(b)
  BY ConcatProperties
<1>4. Len(s) \in Nat /\ i \in Int
  OBVIOUS
<1>5. /\ RemoveAt(s, i) \in Seq(S)
      /\ Len(RemoveAt(s, i)) = (i - 1) + (Len(s) - i)
  BY <1>1, <1>2, <1>3
<1> QED
  BY <1>4, <1>5

-----------------------------------------------------------------------------
(* What _events has for a type. *)

LEMMA EntryCases ==
    ASSUME NEW e \in Entry
    PROVE  \/ e = Nothing /\ e.is = "nothing"
           \/ e.is = "function" /\ e.listener \in Listener /\ e = Single(e.listener)
           \/ e.is = "array" /\ e.array \in ArrayId /\ e = Many(e.array)
BY DEF Entry, Nothing, Single, Many

LEMMA EntriesDiffer ==
    /\ \A id : Many(id).is = "array" /\ Many(id).array = id /\ Many(id) # Nothing
    /\ \A l : Single(l).is = "function" /\ Single(l).listener = l /\ Single(l) # Nothing
    /\ Nothing.is = "nothing"
BY DEF Nothing, Single, Many

LEMMA EntryTypes ==
    /\ Nothing \in Entry
    /\ \A l \in Listener : Single(l) \in Entry
    /\ \A id \in ArrayId : Many(id) \in Entry
BY DEF Entry

LEMMA ListenersType ==
    ASSUME NEW ev \in [Type -> Entry], NEW ar \in [ArrayId -> Seq(Listener)], NEW t \in Type
    PROVE  /\ Listeners(ev, ar, t) \in Seq(Listener)
           /\ ev[t].is = "array" => Listeners(ev, ar, t) = ar[ev[t].array]
           /\ ev[t].is = "function" => Listeners(ev, ar, t) = <<ev[t].listener>>
           /\ ev[t].is = "nothing" => Listeners(ev, ar, t) = <<>>
<1>1. ev[t] \in Entry
  OBVIOUS
<1> QED
  BY <1>1, EntryCases DEF Listeners

-----------------------------------------------------------------------------
(* The invariant, in parts that have the stack and the lists as parameters. *)

\* The types have functions, or arrays of their own that are not empty.
ListsOK(ev, ar) ==
    /\ ev \in [Type -> Entry]
    /\ ar \in [ArrayId -> Seq(Listener)]
    /\ \A t \in Type : ev[t].is = "array" => ar[ev[t].array] # <<>>
    /\ \A t, u \in Type : ev[t].is = "array" /\ ev[u] = ev[t] => u = t

\* Only the program's own script calls removeAllListeners, as in the run.
Outside == "removeAllListeners" \notin Inside

\* Its frames are the bottom of the stack then, and one drains at the most.
Bottom(s) ==
    /\ \A i \in 1..Len(s) : s[i].at \in {"keys", "clear"} => i = Len(s)
    /\ \A i, j \in 1..Len(s) : s[i].at = "drain" /\ i < j => s[j].at \in {"keys", "clear"}

StackOK(s) == s \in Seq(Frame) /\ (Outside => Bottom(s))

Drains(s) ==
    {f \in {s[i] : i \in 1..Len(s)} : f.at = "drain" /\ f.entry # Nothing}

\* The array that is drained belongs to no other type, and to its own until it is
\* empty.
Drained(drains, ev, ar) ==
    Outside => \A f \in drains :
        /\ \A u \in Type : ev[u] = f.entry => u = f.type
        /\ ar[f.entry.array] # <<>> => ev[f.type] = f.entry

DrainFrame == {f \in Frame : f.at = "drain" /\ f.entry # Nothing}

LEMMA DrainFrameParts ==
    ASSUME NEW f \in DrainFrame
    PROVE  /\ f.type \in Type
           /\ f.entry.is = "array" /\ f.entry.array \in ArrayId
           /\ f.entry = Many(f.entry.array)
BY DEF DrainFrame, Frame, Many, Nothing

LEMMA DrainsAreFrames ==
    ASSUME NEW s \in Seq(Frame)
    PROVE  Drains(s) \subseteq DrainFrame
BY DEF Drains, DrainFrame

LEMMA Pushed ==
    ASSUME NEW s \in Seq(Frame), NEW f \in Frame
    PROVE  /\ <<f>> \o s \in Seq(Frame)
           /\ Len(<<f>> \o s) = Len(s) + 1
           /\ (<<f>> \o s)[1] = f
           /\ \A i \in 2..(Len(s) + 1) : (<<f>> \o s)[i] = s[i - 1]
<1>1. <<f>> \in Seq(Frame) /\ Len(<<f>>) = 1 /\ <<f>>[1] = f /\ Len(s) \in Nat
  OBVIOUS
<1> QED
  BY <1>1, ConcatProperties

LEMMA TwoPushed ==
    ASSUME NEW s \in Seq(Frame), NEW a \in Frame, NEW b \in Frame
    PROVE  <<a, b>> \o s = <<a>> \o (<<b>> \o s)
<1>1. <<a>> \in Seq(Frame) /\ <<b>> \in Seq(Frame)
  OBVIOUS
<1>2. <<a>> \o (<<b>> \o s) = (<<a>> \o <<b>>) \o s
  BY <1>1, ConcatAssociative
<1>3. <<a>> \o <<b>> = <<a, b>>
  <2> DEFINE p == <<a>> \o <<b>>
             q == <<a, b>>
  <2>1. Len(<<b>>) = 1 /\ <<b>>[1] = b
    OBVIOUS
  <2>2. p \in Seq(Frame) /\ Len(p) = 2 /\ p[1] = a /\ p[2] = b
    BY <1>1, <2>1, Pushed
  <2>3. q \in Seq(Frame) /\ Len(q) = 2 /\ q[1] = a /\ q[2] = b
    OBVIOUS
  <2> HIDE DEF p, q
  <2>4. p = q
    BY <2>2, <2>3, SeqEqual
  <2> QED
    BY <2>4 DEF p, q
<1> QED
  BY <1>2, <1>3

LEMMA PushedKeeps ==
    ASSUME NEW s, StackOK(s), NEW f \in Frame, f.at \notin {"drain", "keys", "clear"}
    PROVE  StackOK(<<f>> \o s) /\ Drains(<<f>> \o s) \subseteq Drains(s)
<1> DEFINE p == <<f>> \o s
<1>1. s \in Seq(Frame) /\ Len(s) \in Nat
  BY DEF StackOK
<1>2. /\ p \in Seq(Frame) /\ Len(p) = Len(s) + 1 /\ p[1] = f
      /\ \A i \in 2..(Len(s) + 1) : p[i] = s[i - 1]
  BY <1>1, Pushed
<1> HIDE DEF p
<1>3. \A i \in 1..Len(p) : p[i].at \in {"drain", "keys", "clear"} =>
         i > 1 /\ i - 1 \in 1..Len(s) /\ p[i] = s[i - 1]
  BY <1>1, <1>2
<1>4. ASSUME Outside
      PROVE  \A i \in 1..Len(p) : p[i].at \in {"keys", "clear"} => i = Len(p)
  BY <1>1, <1>2, <1>3, <1>4 DEF StackOK, Bottom
<1>5. ASSUME Outside
      PROVE  \A i, j \in 1..Len(p) :
                p[i].at = "drain" /\ i < j => p[j].at \in {"keys", "clear"}
  <2> SUFFICES ASSUME NEW i \in 1..Len(p), NEW j \in 1..Len(p), p[i].at = "drain", i < j
               PROVE  p[j].at \in {"keys", "clear"}
    OBVIOUS
  <2>1. i - 1 \in 1..Len(s) /\ p[i] = s[i - 1]
    BY <1>3
  <2>2. j - 1 \in 1..Len(s) /\ p[j] = s[j - 1] /\ i - 1 < j - 1
    BY <1>1, <1>2, <2>1
  <2> QED
    BY <1>5, <2>1, <2>2 DEF StackOK, Bottom
<1>6. Drains(p) \subseteq Drains(s)
  BY <1>3 DEF Drains
<1> QED
  BY <1>2, <1>4, <1>5, <1>6 DEF StackOK, Bottom, p

LEMMA SuffixKeeps ==
    ASSUME NEW s, StackOK(s), NEW n \in 0..Len(s)
    PROVE  /\ StackOK(SubSeq(s, n + 1, Len(s)))
           /\ Drains(SubSeq(s, n + 1, Len(s))) \subseteq Drains(s)
<1> DEFINE p == SubSeq(s, n + 1, Len(s))
<1>1. s \in Seq(Frame) /\ Len(s) \in Nat /\ n \in Nat
  BY DEF StackOK
<1>2. /\ p \in Seq(Frame) /\ Len(p) = Len(s) - n
      /\ \A i \in 1..(Len(s) - n) : p[i] = s[i + n]
  BY <1>1
<1> HIDE DEF p
<1>3. \A i \in 1..Len(p) : i + n \in 1..Len(s) /\ p[i] = s[i + n]
  BY <1>1, <1>2
<1>4. ASSUME Outside
      PROVE  \A i \in 1..Len(p) : p[i].at \in {"keys", "clear"} => i = Len(p)
  BY <1>1, <1>2, <1>3, <1>4 DEF StackOK, Bottom
<1>5. ASSUME Outside
      PROVE  \A i, j \in 1..Len(p) :
                p[i].at = "drain" /\ i < j => p[j].at \in {"keys", "clear"}
  <2> SUFFICES ASSUME NEW i \in 1..Len(p), NEW j \in 1..Len(p), p[i].at = "drain", i < j
               PROVE  p[j].at \in {"keys", "clear"}
    OBVIOUS
  <2>1. i + n < j + n
    BY <1>1, <1>2
  <2> QED
    BY <1>3, <1>5, <2>1 DEF StackOK, Bottom
<1>6. Drains(p) \subseteq Drains(s)
  BY <1>3 DEF Drains
<1> QED
  BY <1>2, <1>4, <1>5, <1>6 DEF StackOK, Bottom, p

LEMMA TailKeeps ==
    ASSUME NEW s, StackOK(s), s # <<>>
    PROVE  /\ StackOK(Tail(s)) /\ Drains(Tail(s)) \subseteq Drains(s)
           /\ Head(s) \in Frame /\ Head(s) = s[1]
           /\ Outside /\ Head(s).at \in {"keys", "clear"} => Tail(s) = <<>>
           /\ Outside /\ Head(s).at = "drain" => Drains(Tail(s)) = {}
<1>1. s \in Seq(Frame) /\ Len(s) \in Nat /\ Len(s) > 0
  BY EmptySeq DEF StackOK
<1>2. /\ Tail(s) \in Seq(Frame) /\ Len(Tail(s)) = Len(s) - 1
      /\ \A i \in 1..(Len(s) - 1) : Tail(s)[i] = s[i + 1]
  BY <1>1
<1>3. Tail(s) = SubSeq(s, 2, Len(s))
  BY <1>1
<1>4. StackOK(Tail(s)) /\ Drains(Tail(s)) \subseteq Drains(s)
  BY <1>1, <1>3, SuffixKeeps, 1 \in 0..Len(s), 1 + 1 = 2
<1>5. Head(s) \in Frame /\ Head(s) = s[1] /\ 1 \in 1..Len(s)
  BY <1>1
<1>6. ASSUME Outside, s[1].at \in {"keys", "clear"}
      PROVE  Tail(s) = <<>>
  <2>1. 1 = Len(s)
    BY <1>5, <1>6 DEF StackOK, Bottom
  <2>2. Len(s) - 1 = 0
    BY <1>1, <2>1
  <2>3. Len(Tail(s)) = 0
    BY <1>2, <2>2
  <2> QED
    BY <1>2, <2>3, EmptySeq
<1>7. ASSUME Outside, s[1].at = "drain"
      PROVE  Drains(Tail(s)) = {}
  <2>1. \A i \in 1..Len(Tail(s)) : /\ i + 1 \in 1..Len(s) /\ 1 < i + 1
                                   /\ Tail(s)[i] = s[i + 1]
    BY <1>1, <1>2
  <2>2. \A i \in 1..Len(Tail(s)) : Tail(s)[i].at \in {"keys", "clear"}
    BY <1>5, <1>7, <2>1 DEF StackOK, Bottom
  <2> QED
    BY <2>2 DEF Drains
<1> QED
  BY <1>4, <1>5, <1>6, <1>7

LEMMA EmissionKeeps ==
    ASSUME NEW ev, NEW ar, ListsOK(ev, ar), NEW t \in Type, NEW below, StackOK(below)
    PROVE  /\ StackOK(Emission(ev, ar, t, below))
           /\ Drains(Emission(ev, ar, t, below)) \subseteq Drains(below)
<1> DEFINE f == [at |-> "emit", type |-> t, rest |-> Listeners(ev, ar, t)]
<1>1. Listeners(ev, ar, t) \in Seq(Listener)
  BY ListenersType DEF ListsOK
<1>2. f \in Frame /\ f.at \notin {"drain", "keys", "clear"}
  BY <1>1 DEF Frame
<1>3. \/ Emission(ev, ar, t, below) = below
      \/ Emission(ev, ar, t, below) = <<f>> \o below
  BY DEF Emission
<1> HIDE DEF f
<1> QED
  BY <1>2, <1>3, PushedKeeps

LEMMA DrainedSubset ==
    ASSUME NEW ev, NEW ar, NEW D, Drained(D, ev, ar), NEW E \in SUBSET D
    PROVE  Drained(E, ev, ar)
BY DEF Drained

\* A type loses what it has, and its array may become empty: it is, if it is being
\* drained.
LEMMA Dropped ==
    ASSUME NEW ev, NEW ar, ListsOK(ev, ar), NEW t \in Type,
           NEW ar2 \in [ArrayId -> Seq(Listener)],
           \A a \in ArrayId : ar2[a] = ar[a] \/ (ar2[a] = <<>> /\ ev[t] = Many(a)),
           NEW D \in SUBSET DrainFrame, Drained(D, ev, ar),
           Outside => \A f \in D : f.type = t => ar2[f.entry.array] = <<>>
    PROVE  /\ ListsOK([ev EXCEPT ![t] = Nothing], ar2)
           /\ Drained(D, [ev EXCEPT ![t] = Nothing], ar2)
<1> DEFINE ev2 == [ev EXCEPT ![t] = Nothing]
<1>1. ev \in [Type -> Entry] /\ Nothing \in Entry /\ Nothing.is = "nothing"
  BY EntryTypes, EntriesDiffer DEF ListsOK
<1>2. /\ ev2 \in [Type -> Entry]
      /\ \A u \in Type : ev2[u] = IF u = t THEN Nothing ELSE ev[u]
  BY <1>1
<1> HIDE DEF ev2
<1>3. ListsOK(ev2, ar2)
  <2>1. \A u \in Type : ev2[u].is = "array" => u # t /\ ev2[u] = ev[u]
    BY <1>1, <1>2
  <2>2. ASSUME NEW u \in Type, ev2[u].is = "array"
        PROVE  ar2[ev2[u].array] # <<>>
    <3>1. ev[u].is = "array" /\ ev2[u] = ev[u] /\ u # t
      BY <2>1, <2>2
    <3>2. ev[u].array \in ArrayId /\ ev[u] = Many(ev[u].array)
      BY <1>1, <3>1, EntryCases
    <3>3. ev[t] # ev[u] /\ ar[ev[u].array] # <<>>
      BY <3>1 DEF ListsOK
    <3> QED
      BY <3>1, <3>2, <3>3
  <2> QED
    BY <1>2, <2>1, <2>2 DEF ListsOK
<1>4. Drained(D, ev2, ar2)
  <2> SUFFICES ASSUME Outside, NEW f \in D
               PROVE  /\ \A u \in Type : ev2[u] = f.entry => u = f.type
                      /\ ar2[f.entry.array] # <<>> => ev2[f.type] = f.entry
    BY DEF Drained
  <2>1. f.entry # Nothing /\ f.type \in Type /\ f.entry.array \in ArrayId
    BY DrainFrameParts DEF DrainFrame
  <2>2. /\ \A u \in Type : ev[u] = f.entry => u = f.type
        /\ ar[f.entry.array] # <<>> => ev[f.type] = f.entry
    BY DEF Drained
  <2> QED
    BY <1>2, <2>1, <2>2
<1> QED
  BY <1>3, <1>4 DEF ev2

\* Many(id) loses or gains elements and keeps some.
LEMMA Changed ==
    ASSUME NEW ev, NEW ar, ListsOK(ev, ar), NEW t \in Type, ev[t].is = "array",
           NEW D \in SUBSET DrainFrame, Drained(D, ev, ar),
           NEW list \in Seq(Listener), list # <<>>
    PROVE  /\ ListsOK(ev, [ar EXCEPT ![ev[t].array] = list])
           /\ Drained(D, ev, [ar EXCEPT ![ev[t].array] = list])
<1> DEFINE id  == ev[t].array
           ar2 == [ar EXCEPT ![id] = list]
<1>1. id \in ArrayId /\ ev[t] = Many(id)
  BY EntryCases DEF ListsOK
<1>2. /\ ar2 \in [ArrayId -> Seq(Listener)]
      /\ \A a \in ArrayId : ar2[a] = IF a = id THEN list ELSE ar[a]
  BY DEF ListsOK
<1> HIDE DEF ar2, id
<1>3. ListsOK(ev, ar2)
  <2>1. \A u \in Type : ev[u].is = "array" => ev[u].array \in ArrayId
    BY EntryCases DEF ListsOK
  <2> QED
    BY <1>2, <2>1 DEF ListsOK
<1>4. Drained(D, ev, ar2)
  <2> SUFFICES ASSUME Outside, NEW f \in D
               PROVE  ar2[f.entry.array] # <<>> => ev[f.type] = f.entry
    BY DEF Drained
  <2>1. f.type \in Type /\ f.entry.array \in ArrayId /\ f.entry = Many(f.entry.array)
    BY DrainFrameParts
  <2>2. CASE f.entry.array = id
    <3>1. ev[t] = f.entry
      BY <1>1, <2>1, <2>2
    <3> QED
      BY <3>1 DEF Drained
  <2>3. CASE f.entry.array # id
    BY <1>2, <2>1, <2>3 DEF Drained
  <2> QED
    BY <2>2, <2>3
<1> QED
  BY <1>3, <1>4 DEF ar2, id

LEMMA RemovedKeeps ==
    ASSUME ListsOK(events, arrays), NEW t \in Type, NEW l, NEW below, StackOK(below),
           Drained(Drains(below), events, arrays), Removed(t, l, below)
    PROVE  /\ ListsOK(events', arrays') /\ StackOK(stack')
           /\ Drained(Drains(stack'), events', arrays')
<1> DEFINE list == Listeners(events, arrays, t)
           i == Position(list, l)
           D == Drains(below)
<1>1. /\ events \in [Type -> Entry] /\ arrays \in [ArrayId -> Seq(Listener)]
      /\ "removeListener" \in Type
  BY EmitterAssumption DEF ListsOK
<1>2. /\ list \in Seq(Listener)
      /\ events[t].is = "array" => list = arrays[events[t].array]
      /\ events[t].is = "function" => list = <<events[t].listener>>
      /\ events[t].is = "nothing" => list = <<>>
  BY <1>1, ListenersType
<1>3. i \in 0..Len(list) /\ Len(list) \in Nat
  BY <1>2, PositionIn
<1>4. D \in SUBSET DrainFrame
  BY DrainsAreFrames DEF StackOK
<1>5. CASE i = 0
  BY <1>5 DEF Removed
<1>6. CASE i # 0
  <2>1. /\ arrays' = IF events[t].is = "array" THEN Without(arrays, events[t].array, i)
                     ELSE arrays
        /\ events' = IF Len(list) = 1 THEN [events EXCEPT ![t] = Nothing] ELSE events
        /\ stack' = Emission(events', arrays', "removeListener", below)
    BY <1>6 DEF Removed, Left
  <2> HIDE DEF list, i, D
  <2>2. i \in 1..Len(list) /\ list # <<>>
    BY <1>2, <1>3, <1>6, EmptySeq
  <2>3. /\ RemoveAt(list, i) \in Seq(Listener)
        /\ Len(RemoveAt(list, i)) = Len(list) - 1
    BY <1>2, <2>2, RemovedAt
  <2>4. /\ ListsOK(events', arrays')
        /\ Drained(D, events', arrays')
    <3>1. CASE events[t].is = "function"
      <4>1. Len(list) = 1
        BY <1>2, <3>1
      <4>2. events' = [events EXCEPT ![t] = Nothing] /\ arrays' = arrays
        BY <2>1, <3>1, <4>1
      <4>3. ASSUME Outside, NEW f \in D, f.type = t
            PROVE  arrays[f.entry.array] = <<>>
        <5>1. f.entry.is = "array"
          BY <1>4, DrainFrameParts
        <5>2. events[f.type] # f.entry
          BY <3>1, <4>3, <5>1
        <5> QED
          BY <4>3, <5>2 DEF Drained, D
      <4> QED
        BY <1>1, <1>4, <4>2, <4>3, Dropped DEF D
    <3>2. CASE events[t].is = "array"
      <4> DEFINE id == events[t].array
                 less == RemoveAt(list, i)
      <4>1. id \in ArrayId /\ events[t] = Many(id)
        BY <1>1, <3>2, EntryCases
      <4>2. arrays' = [arrays EXCEPT ![id] = less]
        BY <1>2, <2>1, <3>2 DEF Without
      <4>3. CASE Len(list) # 1
        <5>1. events' = events /\ less # <<>>
          BY <1>3, <2>1, <2>2, <2>3, <4>3
        <5> QED
          BY <1>4, <2>3, <3>2, <4>2, <5>1, Changed DEF D
      <4>4. CASE Len(list) = 1
        <5>1. events' = [events EXCEPT ![t] = Nothing]
          BY <2>1, <4>4
        <5>2. less = <<>>
          BY <2>3, <4>4, EmptySeq
        <5>3. /\ arrays' \in [ArrayId -> Seq(Listener)]
              /\ \A a \in ArrayId :
                    arrays'[a] = arrays[a] \/ (arrays'[a] = <<>> /\ events[t] = Many(a))
          <6> HIDE DEF id, less
          <6>1. less \in Seq(Listener)
            BY <2>3 DEF less
          <6>2. /\ arrays' \in [ArrayId -> Seq(Listener)]
                /\ \A a \in ArrayId : arrays'[a] = IF a = id THEN less ELSE arrays[a]
            BY <1>1, <4>2, <6>1
          <6> QED
            BY <4>1, <5>2, <6>2
        <5>4. ASSUME Outside, NEW f \in D, f.type = t
              PROVE  arrays'[f.entry.array] = <<>>
          <6>1. f.entry.array \in ArrayId /\ f.entry = Many(f.entry.array)
            BY <1>4, DrainFrameParts
          <6>2. CASE f.entry = events[t]
            BY <1>1, <4>1, <4>2, <5>2, <6>2
          <6>3. CASE f.entry # events[t]
            <7>1. arrays[f.entry.array] = <<>>
              BY <5>4, <6>3 DEF Drained, D
            <7> QED
              BY <5>3, <6>1, <7>1
          <6> QED
            BY <6>2, <6>3
        <5> QED
          BY <1>4, <5>1, <5>3, <5>4, Dropped DEF D
      <4> QED
        BY <4>3, <4>4
    <3>3. CASE events[t].is = "nothing"
      BY <1>2, <2>2, <3>3
    <3> QED
      BY <1>1, <3>1, <3>2, <3>3, EntryCases
  <2>5. StackOK(stack') /\ Drains(stack') \subseteq D
    BY <1>1, <2>1, <2>4, EmissionKeeps DEF D
  <2> QED
    BY <2>4, <2>5, DrainedSubset
<1> QED
  BY <1>5, <1>6

-----------------------------------------------------------------------------
(* addListener and removeAllListeners. *)

LEMMA AppendedKeeps ==
    ASSUME ListsOK(events, arrays), NEW t \in Type, NEW l \in Listener,
           stack \in Seq(Frame), Drained(Drains(stack), events, arrays), Appended(t, l)
    PROVE  ListsOK(events', arrays') /\ Drained(Drains(stack), events', arrays')
<1> DEFINE D == Drains(stack)
<1>1. events \in [Type -> Entry] /\ arrays \in [ArrayId -> Seq(Listener)]
  BY DEF ListsOK
<1>2. D \in SUBSET DrainFrame
  BY DrainsAreFrames
<1>3. CASE events[t].is = "nothing"
  <2>1. events' = [events EXCEPT ![t] = Single(l)] /\ arrays' = arrays
    BY <1>3 DEF Appended
  <2>2. Single(l) \in Entry /\ Single(l).is = "function"
    BY EntryTypes, EntriesDiffer
  <2>3. /\ events' \in [Type -> Entry]
        /\ \A u \in Type : events'[u] = IF u = t THEN Single(l) ELSE events[u]
    BY <1>1, <2>1, <2>2
  <2>4. ListsOK(events', arrays')
    <3>1. \A u \in Type : events'[u].is = "array" => u # t /\ events'[u] = events[u]
      BY <2>2, <2>3
    <3> QED
      BY <2>1, <2>3, <3>1 DEF ListsOK
  <2>5. Drained(D, events', arrays')
    <3> SUFFICES ASSUME Outside, NEW f \in D
                 PROVE  /\ \A u \in Type : events'[u] = f.entry => u = f.type
                        /\ arrays[f.entry.array] # <<>> => events'[f.type] = f.entry
      BY <2>1 DEF Drained
    <3>1. f.entry.is = "array" /\ f.type \in Type
      BY <1>2, DrainFrameParts
    <3>2. f.entry # Single(l) /\ f.entry # events[t]
      BY <1>3, <2>2, <3>1
    <3> QED
      BY <2>3, <3>1, <3>2 DEF Drained
  <2> QED
    BY <2>4, <2>5
<1>4. CASE events[t].is = "array"
  <2> DEFINE id   == events[t].array
             list == Append(arrays[id], l)
  <2>1. events' = events /\ arrays' = [arrays EXCEPT ![id] = list]
    BY <1>4 DEF Appended
  <2>2. id \in ArrayId
    BY <1>1, <1>4, EntryCases
  <2>3. list \in Seq(Listener) /\ list # <<>>
    <3>1. arrays[id] \in Seq(Listener)
      BY <1>1, <2>2
    <3> QED
      BY <3>1, AppendProperties
  <2> HIDE DEF list
  <2> QED
    BY <1>2, <1>4, <2>1, <2>3, Changed
<1>5. CASE events[t].is = "function"
  <2> DEFINE id   == Min(Unused)
             list == <<events[t].listener, l>>
  <2>1. /\ Unused # {}
        /\ arrays' = [arrays EXCEPT ![id] = list]
        /\ events' = [events EXCEPT ![t] = Many(id)]
    BY <1>5 DEF Appended
  <2>2. Unused \in SUBSET Nat
    BY EmitterAssumption DEF Unused
  <2>3. id \in Unused
    BY <2>1, <2>2, MinIn
  <2>4. /\ id \in ArrayId
        /\ \A u \in Type : events[u] # Many(id)
    BY <2>3 DEF Unused
  <2>5. \A f \in D : f.entry # Many(id)
    BY <2>3 DEF Unused, Drains
  <2>6. list \in Seq(Listener) /\ list # <<>>
    <3>1. events[t].listener \in Listener
      BY <1>1, <1>5, EntryCases
    <3> QED
      BY <3>1
  <2> HIDE DEF id, list
  <2>7. Many(id) \in Entry /\ Many(id).is = "array" /\ Many(id).array = id
    BY <2>4, EntryTypes, EntriesDiffer
  <2>8. /\ events' \in [Type -> Entry]
        /\ \A u \in Type : events'[u] = IF u = t THEN Many(id) ELSE events[u]
        /\ arrays' \in [ArrayId -> Seq(Listener)]
        /\ \A a \in ArrayId : arrays'[a] = IF a = id THEN list ELSE arrays[a]
    BY <1>1, <2>1, <2>4, <2>6, <2>7
  <2>9. ListsOK(events', arrays')
    <3>1. ASSUME NEW u \in Type, events'[u].is = "array"
          PROVE  arrays'[events'[u].array] # <<>>
      <4>1. CASE u = t
        BY <2>4, <2>6, <2>7, <2>8, <4>1
      <4>2. CASE u # t
        <5>1. events'[u] = events[u] /\ events[u].is = "array"
          BY <2>8, <3>1, <4>2
        <5>2. events[u].array \in ArrayId /\ events[u] = Many(events[u].array)
          BY <1>1, <5>1, EntryCases
        <5>3. events[u].array # id
          BY <2>4, <5>2
        <5> QED
          BY <2>8, <5>1, <5>2, <5>3 DEF ListsOK
      <4> QED
        BY <4>1, <4>2
    <3>2. ASSUME NEW u \in Type, NEW v \in Type, events'[u].is = "array",
                 events'[v] = events'[u]
          PROVE  v = u
      BY <2>4, <2>8, <3>2, SMTT(30) DEF ListsOK
    <3> QED
      BY <2>8, <3>1, <3>2 DEF ListsOK
  <2>10. Drained(D, events', arrays')
    <3> SUFFICES ASSUME Outside, NEW f \in D
                 PROVE  /\ \A u \in Type : events'[u] = f.entry => u = f.type
                        /\ arrays'[f.entry.array] # <<>> => events'[f.type] = f.entry
      BY DEF Drained
    <3>1. /\ f.entry.is = "array" /\ f.type \in Type
          /\ f.entry.array \in ArrayId /\ f.entry = Many(f.entry.array)
      BY <1>2, DrainFrameParts
    <3>2. f.entry # Many(id) /\ f.entry # events[t]
      BY <1>5, <2>5, <3>1
    <3>3. arrays'[f.entry.array] = arrays[f.entry.array]
      BY <2>8, <3>1, <3>2
    <3>4. \A u \in Type : events'[u] = f.entry => u = f.type
      BY <2>8, <3>2 DEF Drained
    <3>5. arrays[f.entry.array] # <<>> => events[f.type] = f.entry /\ f.type # t
      BY <3>2 DEF Drained
    <3> QED
      BY <2>8, <3>1, <3>3, <3>4, <3>5
  <2> QED
    BY <2>9, <2>10
<1> QED
  BY <1>1, <1>3, <1>4, <1>5, EntryCases

\* It is called on an empty stack, or by removeAllListeners() at its bottom.
LEMMA RemovedAllKeeps ==
    ASSUME ListsOK(events, arrays), NEW t \in Type, NEW below, below \in Seq(Frame),
           Outside => /\ Len(below) <= 1
                      /\ \A i \in 1..Len(below) : below[i].at \in {"keys", "clear"},
           RemovedAll(t, below)
    PROVE  /\ ListsOK(events', arrays') /\ StackOK(stack')
           /\ Drained(Drains(stack'), events', arrays')
<1>1. /\ events \in [Type -> Entry] /\ arrays \in [ArrayId -> Seq(Listener)]
      /\ Len(below) \in Nat
  BY DEF ListsOK
<1>2. StackOK(below) /\ (Outside => Drains(below) = {})
  <2>1. ASSUME Outside
        PROVE  \A i \in 1..Len(below) : i = Len(below) /\ below[i].at # "drain"
    BY <1>1, <2>1
  <2> QED
    BY <2>1 DEF Drains, StackOK, Bottom
<1>3. ASSUME NEW e \in {Nothing} \cup {Many(id) : id \in ArrayId}
      PROVE  LET f == [at |-> "drain", type |-> t, entry |-> e]
             IN StackOK(<<f>> \o below) /\ (Outside => Drains(<<f>> \o below) \subseteq {f})
  <2> DEFINE f == [at |-> "drain", type |-> t, entry |-> e]
             p == <<f>> \o below
  <2>1. f \in Frame /\ f.at = "drain"
    BY DEF Frame
  <2> HIDE DEF f
  <2>2. /\ p \in Seq(Frame) /\ Len(p) = Len(below) + 1 /\ p[1] = f
        /\ \A i \in 2..(Len(below) + 1) : p[i] = below[i - 1]
    BY <2>1, Pushed
  <2> HIDE DEF p
  <2>3. ASSUME Outside
        PROVE  \A i \in 1..Len(p) : i = 1 \/ (i = Len(p) /\ p[i].at \in {"keys", "clear"})
    <3>1. \A i \in 2..Len(p) : i - 1 \in 1..Len(below) /\ p[i] = below[i - 1] /\ i = Len(p)
      BY <1>1, <2>2, <2>3
    <3> QED
      BY <1>1, <2>2, <2>3, <3>1
  <2>4. ASSUME Outside
        PROVE  Bottom(p) /\ Drains(p) \subseteq {f}
    <3>1. \A i \in 1..Len(p) : p[i].at \in {"keys", "clear"} => i = Len(p)
      BY <2>1, <2>2, <2>3, <2>4
    <3>2. \A i, j \in 1..Len(p) : p[i].at = "drain" /\ i < j => p[j].at \in {"keys", "clear"}
      BY <2>3, <2>4
    <3> QED
      BY <2>2, <2>3, <2>4, <3>1, <3>2 DEF Bottom, Drains
  <2> QED
    BY <2>2, <2>4 DEF StackOK, f, p
<1>4. CASE ~Listened("removeListener")
  <2>1. events' = [events EXCEPT ![t] = Nothing] /\ arrays' = arrays /\ stack' = below
    BY <1>4 DEF RemovedAll
  <2>2. Drained({}, events, arrays) /\ {} \in SUBSET DrainFrame
    BY DEF Drained
  <2>3. ListsOK(events', arrays')
    BY <1>1, <2>1, <2>2, Dropped
  <2> QED
    BY <1>2, <2>1, <2>3 DEF Drained
<1>5. CASE Listened("removeListener") /\ events[t].is = "function"
  <2> DEFINE f == [at |-> "drain", type |-> t, entry |-> Nothing]
  <2>1. Removed(t, events[t].listener, <<f>> \o below)
    BY <1>5 DEF RemovedAll
  <2>2. StackOK(<<f>> \o below) /\ (Outside => Drains(<<f>> \o below) \subseteq {f})
    BY <1>3
  <2>3. f.entry = Nothing
    OBVIOUS
  <2>4. Outside => Drains(<<f>> \o below) = {}
    BY <2>2, <2>3 DEF Drains
  <2> HIDE DEF f
  <2>5. Drained(Drains(<<f>> \o below), events, arrays)
    BY <2>4 DEF Drained
  <2> QED
    BY <2>1, <2>2, <2>5, RemovedKeeps
<1>6. CASE Listened("removeListener") /\ events[t].is # "function"
  <2> DEFINE f == [at |-> "drain", type |-> t, entry |-> events[t]]
  <2>1. stack' = <<f>> \o below /\ events' = events /\ arrays' = arrays
    BY <1>6 DEF RemovedAll
  <2>2. events[t] \in {Nothing} \cup {Many(id) : id \in ArrayId}
    BY <1>1, <1>6, EntryCases
  <2>3. StackOK(<<f>> \o below) /\ (Outside => Drains(<<f>> \o below) \subseteq {f})
    BY <1>3, <2>2
  <2>4. f.type = t /\ f.entry = events[t]
    OBVIOUS
  <2> HIDE DEF f
  <2>5. Drained(Drains(<<f>> \o below), events, arrays)
    <3> SUFFICES ASSUME Outside, f \in Drains(<<f>> \o below)
                 PROVE  \A u \in Type : events[u] = f.entry => u = f.type
      BY <2>3, <2>4 DEF Drained
    <3>1. events[t].is = "array"
      BY <1>1, <1>6, <2>4, EntryCases DEF Drains
    <3> QED
      BY <2>4, <3>1 DEF ListsOK
  <2> QED
    BY <2>1, <2>3, <2>5
<1> QED
  BY <1>4, <1>5, <1>6

-----------------------------------------------------------------------------
(* The steps. *)

Kept ==
    /\ ListsOK(events, arrays)
    /\ StackOK(stack)
    /\ Drained(Drains(stack), events, arrays)

\* The rest of the types.
OthersOK ==
    /\ target \in [Wrapper -> Plain \cup {None}]
    /\ fired \in [Wrapper -> BOOLEAN]
    /\ calls \in 0..MaxCalls
    /\ fires \in [Wrapper -> 0..2]
    /\ unheard \in BOOLEAN

\* The stack loses frames, or gets some that do not drain.
LEMMA StackKept ==
    ASSUME Kept, UNCHANGED <<events, arrays>>, StackOK(stack'),
           Drains(stack') \subseteq Drains(stack)
    PROVE  Kept'
<1>1. Drained(Drains(stack'), events, arrays)
  BY DrainedSubset DEF Kept
<1> QED
  BY <1>1 DEF Kept

LEMMA UnwindKept ==
    ASSUME Kept, Unwind
    PROVE  StackOK(stack') /\ Drains(stack') \subseteq Drains(stack)
BY SuffixKeeps DEF Kept, Unwind

LEMMA TopFrame ==
    ASSUME Kept, stack # <<>>
    PROVE  /\ StackOK(Tail(stack)) /\ Drains(Tail(stack)) \subseteq Drains(stack)
           /\ Drained(Drains(Tail(stack)), events, arrays)
           /\ Head(stack) \in Frame
           /\ Outside /\ Head(stack).at \in {"keys", "clear"} => Tail(stack) = <<>>
           /\ Outside /\ Head(stack).at = "drain" => Drains(Tail(stack)) = {}
BY TailKeeps, DrainedSubset DEF Kept

LEMMA AddedKept ==
    ASSUME Kept, NEW t \in Type, NEW l \in Listener, Added(t, l)
    PROVE  Kept'
<1>1. CASE Listened("newListener")
  <2> DEFINE f == [at |-> "add", type |-> t, listener |-> l]
  <2>1. f \in Frame /\ f.at = "add"
    BY DEF Frame
  <2>2. /\ stack' = Emission(events, arrays, "newListener", <<f>> \o stack)
        /\ UNCHANGED <<events, arrays>>
    BY <1>1 DEF Added
  <2> HIDE DEF f
  <2>3. StackOK(<<f>> \o stack) /\ Drains(<<f>> \o stack) \subseteq Drains(stack)
    BY <2>1, PushedKeeps DEF Kept
  <2>4. /\ StackOK(stack')
        /\ Drains(stack') \subseteq Drains(<<f>> \o stack)
    BY <2>2, <2>3, EmissionKeeps, EmitterAssumption DEF Kept
  <2> QED
    BY <2>2, <2>3, <2>4, StackKept
<1>2. CASE ~Listened("newListener")
  BY <1>2, AppendedKeeps DEF Added, Kept, StackOK
<1> QED
  BY <1>1, <1>2

LEMMA ListenerSets ==
    Plain \subseteq Listener /\ Wrapper \subseteq Listener
BY DEF Listener

LEMMA CallKept ==
    ASSUME Kept, ScriptCall
    PROVE  Kept'
<1>1. ASSUME NEW t \in Type, Emit(t)
      PROVE  Kept'
  <2>1. UNCHANGED <<events, arrays>>
    BY <1>1 DEF Emit
  <2>2. CASE t = "error" /\ ~Listened(t)
    BY <1>1, <2>1, <2>2, UnwindKept, StackKept DEF Emit
  <2>3. CASE ~(t = "error" /\ ~Listened(t))
    BY <1>1, <2>1, <2>3, EmissionKeeps, StackKept DEF Emit, Kept
  <2> QED
    BY <2>2, <2>3
<1>2. ASSUME NEW t \in Type, RemoveAllListeners(t)
      PROVE  Kept'
  <2>1. Outside => stack = <<>>
    BY <1>2 DEF RemoveAllListeners, Calls, Outside
  <2>2. Outside => Len(stack) <= 1 /\ 1..Len(stack) = {}
    BY <2>1
  <2> QED
    BY <1>2, <2>2, RemovedAllKeeps DEF RemoveAllListeners, Kept, StackOK
<1>3. ASSUME NEW t \in Type, NEW l \in Plain, AddListener(t, l)
      PROVE  Kept'
  BY <1>3, AddedKept, ListenerSets DEF AddListener
<1>4. ASSUME NEW t \in Type, NEW l \in Plain, Once(t, l)
      PROVE  Kept'
  BY <1>4, AddedKept, ListenerSets DEF Once
<1>5. ASSUME NEW t \in Type, NEW l \in Plain, RemoveListener(t, l)
      PROVE  Kept'
  BY <1>5, RemovedKeeps DEF RemoveListener, Kept
<1>6. ASSUME RemoveAllTypes
      PROVE  Kept'
  <2>1. Outside => stack = <<>>
    BY <1>6 DEF RemoveAllTypes, Calls, Outside
  <2>2. arrays' = arrays
    BY <1>6 DEF RemoveAllTypes
  <2>3. CASE ~Listened("removeListener")
    <3>1. stack' = stack /\ events' = [t \in Type |-> Nothing]
      BY <1>6, <2>3 DEF RemoveAllTypes
    <3>2. ListsOK(events', arrays')
      BY <2>2, <3>1, EntryTypes, EntriesDiffer DEF Kept, ListsOK
    <3>3. Outside => Drains(stack) = {}
      BY <2>1 DEF Drains
    <3> QED
      BY <3>1, <3>2, <3>3 DEF Kept, Drained
  <2>4. CASE Listened("removeListener")
    <3> DEFINE f == [at |-> "keys", todo |-> {t \in Type : Listened(t)},
                     seen |-> {"removeListener"}]
    <3>1. stack' = <<f>> \o stack /\ events' = events
      BY <1>6, <2>4 DEF RemoveAllTypes
    <3>2. f \in Frame /\ f.at = "keys"
      BY EmitterAssumption DEF Frame
    <3> HIDE DEF f
    <3>3. /\ stack' \in Seq(Frame) /\ Len(stack') = Len(stack) + 1 /\ stack'[1] = f
          /\ \A i \in 2..(Len(stack) + 1) : stack'[i] = stack[i - 1]
      BY <3>1, <3>2, Pushed DEF Kept, StackOK
    <3>4. \A i \in 1..Len(stack') : stack'[i].at = "drain" =>
             i - 1 \in 1..Len(stack) /\ stack'[i] = stack[i - 1]
      BY <3>2, <3>3
    <3>5. Drains(stack') \subseteq Drains(stack)
      BY <3>4 DEF Drains
    <3>6. ASSUME Outside
          PROVE  Bottom(stack')
      <4>1. Len(stack') = 1
        BY <2>1, <3>3, <3>6
      <4> QED
        BY <4>1 DEF Bottom
    <3> QED
      BY <2>2, <3>1, <3>3, <3>5, <3>6, StackKept DEF StackOK
  <2> QED
    BY <2>3, <2>4
<1> QED
  BY <1>1, <1>2, <1>3, <1>4, <1>5, <1>6 DEF ScriptCall

LEMMA DrainKept ==
    ASSUME Kept, Drain
    PROVE  Kept'
<1> DEFINE frame == Head(stack)
           list  == IF frame.entry = Nothing THEN <<>> ELSE arrays[frame.entry.array]
<1>1. stack # <<>> /\ frame.at = "drain" /\ frame = stack[1]
  <2>1. stack # <<>> /\ frame.at = "drain"
    BY DEF Drain, At
  <2> QED
    BY <2>1, TailKeeps DEF Kept
<1>2. /\ StackOK(Tail(stack))
      /\ Outside => Drains(Tail(stack)) = {}
      /\ frame \in Frame
  BY <1>1, TopFrame
<1>3. frame.type \in Type
  BY <1>1, <1>2 DEF Frame
<1>4. CASE list # <<>>
  <2>1. Removed(frame.type, Last(list), stack)
    BY <1>4 DEF Drain
  <2> QED
    BY <1>3, <2>1, RemovedKeeps DEF Kept
<1>5. CASE list = <<>>
  <2>1. /\ events' = [events EXCEPT ![frame.type] = Nothing]
        /\ stack' = Tail(stack) /\ arrays' = arrays
    BY <1>5 DEF Drain
  <2>2. Drained({}, events, arrays) /\ {} \in SUBSET DrainFrame
    BY DEF Drained
  <2>3. ListsOK(events, arrays) /\ arrays \in [ArrayId -> Seq(Listener)]
    BY DEF Kept, ListsOK
  <2>4. ListsOK([events EXCEPT ![frame.type] = Nothing], arrays)
    BY <1>3, <2>2, <2>3, Dropped
  <2>5. ListsOK(events', arrays')
    BY <2>1, <2>4
  <2> QED
    BY <1>2, <2>1, <2>5 DEF Kept, Drained
<1> QED
  BY <1>4, <1>5

LEMMA InnerKept ==
    ASSUME Kept, OthersOK,
           \/ CallNext \/ EmitReturns \/ WrapperStarts \/ WrapperCalls \/ FinishAdd
           \/ NextKey \/ KeysDone \/ Clear \/ ScriptReturns \/ ScriptThrows
    PROVE  Kept'
<1> USE DEF At
<1>1. ASSUME CallNext
      PROVE  Kept'
  <2> DEFINE emit   == Head(stack)
             l      == Head(emit.rest)
             called == IF l \in Wrapper
                       THEN [at |-> "wrapper", type |-> emit.type, listener |-> l]
                       ELSE Script
             rest   == [emit EXCEPT !.rest = Tail(@)]
  <2>1. /\ stack # <<>> /\ emit.at = "emit" /\ emit.rest # <<>>
        /\ stack' = <<called, rest>> \o Tail(stack) /\ UNCHANGED <<events, arrays>>
    BY <1>1 DEF CallNext
  <2>2. StackOK(Tail(stack)) /\ Drains(Tail(stack)) \subseteq Drains(stack) /\ emit \in Frame
    BY <2>1, TopFrame
  <2>3. emit \in [at : {"emit"}, type : Type, rest : Seq(Listener)]
    BY <2>1, <2>2 DEF Frame
  <2>4. rest \in Frame /\ rest.at = "emit"
    <3>1. Tail(emit.rest) \in Seq(Listener)
      BY <2>1, <2>3
    <3>2. rest \in [at : {"emit"}, type : Type, rest : Seq(Listener)]
      BY <2>3, <3>1
    <3> QED
      BY <3>2 DEF Frame
  <2>5. called \in Frame /\ called.at \in {"wrapper", "script"}
    BY <2>3 DEF Frame, Script
  <2> HIDE DEF called, rest
  <2>6. stack' = <<called>> \o (<<rest>> \o Tail(stack))
    BY <2>1, <2>2, <2>4, <2>5, TwoPushed DEF StackOK
  <2>7. /\ StackOK(<<rest>> \o Tail(stack))
        /\ Drains(<<rest>> \o Tail(stack)) \subseteq Drains(stack)
    BY <2>2, <2>4, PushedKeeps
  <2>8. StackOK(stack') /\ Drains(stack') \subseteq Drains(stack)
    BY <2>5, <2>6, <2>7, PushedKeeps
  <2> QED
    BY <2>1, <2>8, StackKept
<1>2. ASSUME EmitReturns \/ ScriptReturns
      PROVE  Kept'
  BY <1>2, TopFrame, StackKept DEF EmitReturns, ScriptReturns
<1>3. ASSUME WrapperStarts
      PROVE  Kept'
  <2> DEFINE top == Head(stack)
             f   == [at |-> "once", listener |-> top.listener]
  <2>1. /\ stack # <<>> /\ top.at = "wrapper"
        /\ Removed(top.type, top.listener, <<f>> \o Tail(stack))
    BY <1>3 DEF WrapperStarts
  <2>2. /\ StackOK(Tail(stack)) /\ Drains(Tail(stack)) \subseteq Drains(stack)
        /\ Drained(Drains(Tail(stack)), events, arrays) /\ top \in Frame
    BY <2>1, TopFrame
  <2>3. top.type \in Type /\ top.listener \in Wrapper
    BY <2>1, <2>2 DEF Frame
  <2>4. f \in Frame /\ f.at = "once"
    BY <2>3 DEF Frame
  <2> HIDE DEF f
  <2>5. /\ StackOK(<<f>> \o Tail(stack))
        /\ Drains(<<f>> \o Tail(stack)) \subseteq Drains(Tail(stack))
    BY <2>2, <2>4, PushedKeeps
  <2>6. Drained(Drains(<<f>> \o Tail(stack)), events, arrays)
    BY <2>2, <2>5, DrainedSubset
  <2> QED
    BY <2>1, <2>3, <2>5, <2>6, RemovedKeeps DEF Kept
<1>4. ASSUME WrapperCalls
      PROVE  Kept'
  <2>1. /\ stack # <<>> /\ UNCHANGED <<events, arrays>>
        /\ stack' = <<Script>> \o Tail(stack) \/ stack' = Tail(stack)
    BY <1>4 DEF WrapperCalls
  <2>2. StackOK(Tail(stack)) /\ Drains(Tail(stack)) \subseteq Drains(stack)
    BY <2>1, TopFrame
  <2>3. Script \in Frame /\ Script.at = "script"
    BY DEF Script, Frame
  <2>4. /\ StackOK(<<Script>> \o Tail(stack))
        /\ Drains(<<Script>> \o Tail(stack)) \subseteq Drains(Tail(stack))
    BY <2>2, <2>3, PushedKeeps
  <2> QED
    BY <2>1, <2>2, <2>4, StackKept
<1>5. ASSUME FinishAdd
      PROVE  Kept'
  <2>1. /\ stack # <<>> /\ Head(stack).at = "add" /\ stack' = Tail(stack)
        /\ Appended(Head(stack).type, Head(stack).listener)
    BY <1>5 DEF FinishAdd
  <2>2. /\ StackOK(Tail(stack)) /\ Drains(Tail(stack)) \subseteq Drains(stack)
        /\ Head(stack) \in Frame
    BY <2>1, TopFrame
  <2>3. Head(stack).type \in Type /\ Head(stack).listener \in Listener
    BY <2>1, <2>2 DEF Frame
  <2>4. ListsOK(events', arrays') /\ Drained(Drains(stack), events', arrays')
    BY <2>1, <2>3, AppendedKeeps DEF Kept, StackOK
  <2>5. Drained(Drains(Tail(stack)), events', arrays')
    BY <2>2, <2>4, DrainedSubset
  <2> QED
    BY <2>1, <2>2, <2>4, <2>5 DEF Kept
<1>6. ASSUME NextKey
      PROVE  Kept'
  <2> DEFINE top == Head(stack)
  <2>1. /\ stack # <<>> /\ top.at = "keys"
        /\ \E t \in Type : RemovedAll(t, <<[top EXCEPT !.seen = @ \cup {t}]>> \o Tail(stack))
    BY <1>6 DEF NextKey
  <2>2. PICK t \in Type : RemovedAll(t, <<[top EXCEPT !.seen = @ \cup {t}]>> \o Tail(stack))
    BY <2>1
  <2> DEFINE f     == [top EXCEPT !.seen = @ \cup {t}]
             below == <<f>> \o Tail(stack)
  <2>3. /\ StackOK(Tail(stack)) /\ top \in Frame
        /\ Outside => Tail(stack) = <<>>
    BY <2>1, TopFrame
  <2>4. top \in [at : {"keys"}, todo : SUBSET Type, seen : SUBSET Type]
    BY <2>1, <2>3 DEF Frame
  <2>5. f \in Frame /\ f.at = "keys"
    <3>1. f \in [at : {"keys"}, todo : SUBSET Type, seen : SUBSET Type]
      BY <2>4
    <3> QED
      BY <3>1 DEF Frame
  <2> HIDE DEF f
  <2>6. /\ below \in Seq(Frame) /\ Len(below) = Len(Tail(stack)) + 1 /\ below[1] = f
    BY <2>3, <2>5, Pushed DEF StackOK
  <2> HIDE DEF below
  <2>7. ASSUME Outside
        PROVE  Len(below) <= 1 /\ \A i \in 1..Len(below) : below[i].at \in {"keys", "clear"}
    <3>1. Len(Tail(stack)) = 0
      BY <2>3, <2>7, EmptySeq
    <3>2. Len(below) = 1
      BY <2>6, <3>1
    <3>3. 1..Len(below) = {1}
      BY <3>2
    <3> QED
      BY <2>5, <2>6, <3>2, <3>3
  <2>8. RemovedAll(t, below)
    BY <2>2 DEF below, f
  <2> QED
    BY <2>6, <2>7, <2>8, RemovedAllKeeps DEF Kept
<1>7. ASSUME KeysDone
      PROVE  Kept'
  <2> DEFINE f     == [at |-> "clear"]
             below == <<f>> \o Tail(stack)
  <2>1. /\ stack # <<>> /\ Head(stack).at = "keys"
        /\ RemovedAll("removeListener", below)
    BY <1>7 DEF KeysDone
  <2>2. StackOK(Tail(stack)) /\ (Outside => Tail(stack) = <<>>)
    BY <2>1, TopFrame
  <2>3. f \in Frame /\ f.at = "clear"
    BY DEF Frame
  <2> HIDE DEF f
  <2>4. below \in Seq(Frame) /\ Len(below) = Len(Tail(stack)) + 1 /\ below[1] = f
    BY <2>2, <2>3, Pushed DEF StackOK
  <2> HIDE DEF below
  <2>5. ASSUME Outside
        PROVE  Len(below) <= 1 /\ \A i \in 1..Len(below) : below[i].at \in {"keys", "clear"}
    <3>1. Len(Tail(stack)) = 0
      BY <2>2, <2>5, EmptySeq
    <3>2. Len(below) = 1
      BY <2>4, <3>1
    <3>3. 1..Len(below) = {1}
      BY <3>2
    <3> QED
      BY <2>3, <2>4, <3>2, <3>3
  <2> QED
    BY <2>1, <2>4, <2>5, RemovedAllKeeps, EmitterAssumption DEF Kept
<1>8. ASSUME Clear
      PROVE  Kept'
  <2>1. /\ stack # <<>> /\ Head(stack).at = "clear" /\ stack' = Tail(stack)
        /\ events' = [t \in Type |-> Nothing] /\ arrays' = arrays
    BY <1>8 DEF Clear
  <2>2. StackOK(Tail(stack)) /\ (Outside => Tail(stack) = <<>>)
    BY <2>1, TopFrame
  <2>3. Outside => Drains(Tail(stack)) = {}
    BY <2>2 DEF Drains
  <2>4. ListsOK(events', arrays')
    BY <2>1, EntryTypes, EntriesDiffer DEF Kept, ListsOK
  <2> QED
    BY <2>1, <2>2, <2>3, <2>4 DEF Kept, Drained
<1>9. ASSUME ScriptThrows
      PROVE  Kept'
  BY <1>9, UnwindKept, StackKept DEF ScriptThrows
<1> QED
  BY <1>1, <1>2, <1>3, <1>4, <1>5, <1>6, <1>7, <1>8, <1>9

-----------------------------------------------------------------------------
(* The theorems. *)

LEMMA KeptFirst ==
    Init => Kept /\ OthersOK
<1> SUFFICES ASSUME Init
             PROVE  Kept /\ OthersOK
  OBVIOUS
<1>1. ListsOK(events, arrays)
  BY EntryTypes, EntriesDiffer, EmptySeq DEF Init, ListsOK
<1>2. stack = <<>> /\ stack \in Seq(Frame) /\ 1..Len(stack) = {}
  BY DEF Init
<1>3. StackOK(stack) /\ Drains(stack) = {}
  BY <1>2 DEF StackOK, Bottom, Drains
<1>4. OthersOK
  <2>1. target \in [Wrapper -> Plain \cup {None}] /\ fired \in [Wrapper -> BOOLEAN]
    BY DEF Init
  <2>2. calls \in 0..MaxCalls
    <3>1. MaxCalls \in Nat
      BY EmitterAssumption
    <3>2. calls = 0
      BY DEF Init
    <3> QED
      BY <3>1, <3>2
  <2>3. unheard \in BOOLEAN
    BY DEF Init
  <2>4. fires \in [Wrapper -> 0..2]
    BY DEF Init
  <2> QED
    BY <2>1, <2>2, <2>3, <2>4 DEF OthersOK
<1> QED
  BY <1>1, <1>3, <1>4 DEF Kept, Drained

LEMMA OthersKept ==
    ASSUME Kept, OthersOK, Next
    PROVE  OthersOK'
<1> USE DEF OthersOK
<1>1. ASSUME ScriptCall
      PROVE  OthersOK'
  <2>1. calls' \in 0..MaxCalls
    BY <1>1, EmitterAssumption
       DEF ScriptCall, Calls, Emit, AddListener, Once, RemoveListener, RemoveAllListeners,
           RemoveAllTypes
  <2>2. UNCHANGED <<fired, fires, unheard>>
    BY <1>1 DEF ScriptCall, Emit, AddListener, Once, RemoveListener, RemoveAllListeners,
                RemoveAllTypes, onceVars, historyVars
  <2>3. \/ UNCHANGED target
        \/ \E g \in Wrapper, l \in Plain : target' = [target EXCEPT ![g] = l]
    BY <1>1 DEF ScriptCall, Emit, AddListener, Once, RemoveListener, RemoveAllListeners,
                RemoveAllTypes, onceVars
  <2>4. target' \in [Wrapper -> Plain \cup {None}]
    BY <2>3
  <2> QED
    BY <2>1, <2>2, <2>4
<1>2. ASSUME WrapperCalls
      PROVE  OthersOK'
  <2>1. UNCHANGED <<target, calls, unheard>>
    BY <1>2 DEF WrapperCalls
  <2>2. \/ UNCHANGED <<fired, fires>>
        \/ \E g : /\ fired' = [fired EXCEPT ![g] = TRUE]
                  /\ fires' = [fires EXCEPT ![g] = IF @ < 2 THEN @ + 1 ELSE @]
    BY <1>2 DEF WrapperCalls
  <2>3. fired' \in [Wrapper -> BOOLEAN]
    BY <2>2
  <2>4. fires' \in [Wrapper -> 0..2]
    BY <2>2
  <2> QED
    BY <2>1, <2>3, <2>4
<1>3. ASSUME Drain
      PROVE  OthersOK'
  <2>1. unheard' \in BOOLEAN
    BY <1>3 DEF Drain, Unheard
  <2> QED
    BY <1>3, <2>1 DEF Drain, onceVars
<1>4. ASSUME \/ CallNext \/ EmitReturns \/ WrapperStarts \/ FinishAdd
             \/ NextKey \/ KeysDone \/ Clear \/ ScriptReturns \/ ScriptThrows
      PROVE  OthersOK'
  BY <1>4 DEF CallNext, EmitReturns, WrapperStarts, FinishAdd, NextKey, KeysDone, Clear,
              ScriptReturns, ScriptThrows, onceVars
<1> QED
  BY <1>1, <1>2, <1>3, <1>4 DEF Next

LEMMA KeptAlways ==
    Spec => [](Kept /\ OthersOK)
<1>1. (Kept /\ OthersOK) /\ [Next]_vars => (Kept /\ OthersOK)'
  <2>1. ASSUME Kept, OthersOK, Next
        PROVE  Kept'
    BY <2>1, CallKept, DrainKept, InnerKept DEF Next
  <2>2. ASSUME Kept, OthersOK, UNCHANGED vars
        PROVE  (Kept /\ OthersOK)'
    BY <2>2 DEF vars, Kept, OthersOK, ListsOK, StackOK, Bottom, Drained, Drains
  <2> QED
    BY <2>1, <2>2, OthersKept
<1> QED
  BY <1>1, KeptFirst, PTL DEF Spec

\* The variables of an EventEmitter keep their types; no array in use is empty.
THEOREM TypeCorrect ==
    Spec => []TypeOK
<1>1. Kept /\ OthersOK => TypeOK
  BY DEF Kept, OthersOK, ListsOK, StackOK, TypeOK
<1> QED
  BY <1>1, KeptAlways, PTL

\* When only the program's own script calls removeAllListeners, the array it removes
\* the listeners of a type from is the one in _events as long as it has some, whatever
\* the listeners it calls meanwhile add and remove: removeListener finds each of them,
\* and the loop goes on.
THEOREM DrainCorrect ==
    ASSUME "removeAllListeners" \notin Inside
    PROVE  Spec => []DrainFinds
<1>1. Kept => DrainFinds
  <2> SUFFICES ASSUME Kept, NEW i \in 1..Len(stack), stack[i].at = "drain",
                      stack[i].entry # Nothing, arrays[stack[i].entry.array] # <<>>
               PROVE  events[stack[i].type] = stack[i].entry
    BY DEF DrainFinds
  <2>1. stack[i] \in Drains(stack)
    BY DEF Drains
  <2> QED
    BY <2>1 DEF Kept, Drained, Outside
<1> QED
  BY <1>1, KeptAlways, PTL

-----------------------------------------------------------------------------
(* The listeners of once(). *)

\* The inductive invariant: the function of once() has called its listener exactly
\* when it says so.
FiredInv ==
    /\ fired \in [Wrapper -> BOOLEAN]
    /\ fires \in [Wrapper -> Nat]
    /\ \A g \in Wrapper : fires[g] = IF fired[g] THEN 1 ELSE 0

LEMMA FiredInit == Init => FiredInv
BY DEF Init, FiredInv

LEMMA FiredQuiet ==
    ASSUME FiredInv, UNCHANGED <<fired, fires>>
    PROVE  FiredInv'
BY DEF FiredInv

\* The only step that is about it.
LEMMA FiredWrapperCalls ==
    ASSUME FiredInv, WrapperCalls
    PROVE  FiredInv'
<1> DEFINE g == Head(stack).listener
<1>1. CASE ~MayFire(g)
  BY <1>1, FiredQuiet DEF WrapperCalls
<1>2. CASE MayFire(g)
  <2>1. /\ fired' = [fired EXCEPT ![g] = TRUE]
        /\ fires' = [fires EXCEPT ![g] = IF @ < 2 THEN @ + 1 ELSE @]
    BY <1>2 DEF WrapperCalls
  <2> HIDE DEF g
  <2>2. fired' \in [Wrapper -> BOOLEAN]
    BY <2>1 DEF FiredInv
  <2>3. fires' \in [Wrapper -> Nat]
    <3>1. \A n \in Nat : (IF n < 2 THEN n + 1 ELSE n) \in Nat
      OBVIOUS
    <3> QED
      BY <2>1, <3>1 DEF FiredInv
  <2>4. \A w \in Wrapper : fires'[w] = IF fired'[w] THEN 1 ELSE 0
    BY <1>2, <2>1 DEF FiredInv, MayFire
  <2> QED
    BY <2>2, <2>3, <2>4 DEF FiredInv
<1> QED
  BY <1>1, <1>2

LEMMA FiredStep == FiredInv /\ [Next]_vars => FiredInv'
<1> SUFFICES ASSUME FiredInv, [Next]_vars PROVE FiredInv'
  OBVIOUS
<1>1. CASE ScriptCall
  BY <1>1, FiredQuiet DEF ScriptCall, Emit, RemoveAllListeners, AddListener, Once,
     RemoveListener, RemoveAllTypes, onceVars, historyVars
<1>2. CASE CallNext \/ EmitReturns \/ WrapperStarts \/ FinishAdd
  BY <1>2, FiredQuiet DEF CallNext, EmitReturns, WrapperStarts, FinishAdd, onceVars
<1>3. CASE Drain \/ NextKey \/ KeysDone \/ Clear
  BY <1>3, FiredQuiet DEF Drain, NextKey, KeysDone, Clear, onceVars
<1>4. CASE ScriptReturns \/ ScriptThrows
  BY <1>4, FiredQuiet DEF ScriptReturns, ScriptThrows, onceVars
<1>5. CASE WrapperCalls
  BY <1>5, FiredWrapperCalls
<1>6. CASE UNCHANGED vars
  BY <1>6, FiredQuiet DEF vars
<1> QED
  BY <1>1, <1>2, <1>3, <1>4, <1>5, <1>6 DEF Next

\* However emits, removals and additions are nested in one another, whatever throws:
\* a listener given to once() is called at most once.
THEOREM OnceCorrect == Spec => []OnceFiresOnce
<1>1. FiredInv => OnceFiresOnce
  BY DEF FiredInv, OnceFiresOnce
<1> QED
  BY FiredInit, FiredStep, <1>1, PTL DEF Spec

-----------------------------------------------------------------------------
(* The emits on a stack. *)

EmitFrames(s) == {d \in 1..Len(s) : s[Len(s) + 1 - d].at = "emit"}

EmitsOf(s) == [d \in EmitFrames(s) |-> s[Len(s) + 1 - d].rest]

ListsOf(ev, ar) == [t \in Type |-> Listeners(ev, ar, t)]

\* From the emits e, one that calls these listeners has begun, if there are any.
BegunFrom(e, e2, list) ==
    IF list = <<>> THEN e2 = e
    ELSE \E d \in DOMAIN e2 :
            /\ \A c \in DOMAIN e : c < d
            /\ e2 = [c \in DOMAIN e \cup {d} |-> IF c = d THEN list ELSE e[c]]

LEMMA MappedNow ==
    /\ ListsNow = ListsOf(events, arrays) /\ ListsNow' = ListsOf(events', arrays')
    /\ EmitsNow = EmitsOf(stack) /\ EmitsNow' = EmitsOf(stack')
<1>1. ListsNow = ListsOf(events, arrays)
  BY DEF ListsNow, ListsOf
<1>2. ListsNow' = ListsOf(events', arrays')
  BY DEF ListsNow, ListsOf
<1>3. EmitsNow = EmitsOf(stack)
  <2>1. {d \in DOMAIN AtDepth : AtDepth[d].at = "emit"} = EmitFrames(stack)
    BY DEF AtDepth, EmitFrames
  <2>2. \A d \in EmitFrames(stack) : AtDepth[d] = stack[Len(stack) + 1 - d]
    BY DEF AtDepth, EmitFrames
  <2> QED
    BY <2>1, <2>2 DEF EmitsNow, EmitsOf
<1>4. EmitsNow' = EmitsOf(stack')
  <2>1. {d \in DOMAIN AtDepth' : AtDepth'[d].at = "emit"} = EmitFrames(stack')
    BY DEF AtDepth, EmitFrames
  <2>2. \A d \in EmitFrames(stack') : AtDepth'[d] = stack'[Len(stack') + 1 - d]
    BY DEF AtDepth, EmitFrames
  <2> QED
    BY <2>1, <2>2 DEF EmitsNow, EmitsOf
<1> QED
  BY <1>1, <1>2, <1>3, <1>4

LEMMA EmitsDomain ==
    ASSUME NEW s \in Seq(Frame)
    PROVE  /\ Len(s) \in Nat /\ DOMAIN EmitsOf(s) = EmitFrames(s)
           /\ EmitFrames(s) \subseteq 1..Len(s)
BY DEF EmitsOf, EmitFrames

LEMMA EmitsPushed ==
    ASSUME NEW s \in Seq(Frame), NEW f \in Frame
    PROVE  LET p == <<f>> \o s  d == Len(s) + 1 IN
           /\ f.at # "emit" => EmitsOf(p) = EmitsOf(s)
           /\ f.at = "emit" =>
                 /\ EmitFrames(p) = EmitFrames(s) \cup {d}
                 /\ EmitsOf(p) = [c \in EmitFrames(s) \cup {d} |->
                                     IF c = d THEN f.rest ELSE EmitsOf(s)[c]]
<1> DEFINE p == <<f>> \o s
           n == Len(s)
           d == n + 1
<1>1. /\ p \in Seq(Frame) /\ Len(p) = n + 1 /\ p[1] = f /\ n \in Nat
      /\ \A i \in 2..(n + 1) : p[i] = s[i - 1]
  BY Pushed
<1> HIDE DEF p
<1>2. \A c \in 1..n : p[Len(p) + 1 - c] = s[n + 1 - c]
  <2> TAKE c \in 1..n
  <2>1. n + 2 - c \in 2..(n + 1) /\ (n + 2 - c) - 1 = n + 1 - c
    BY <1>1
  <2>2. Len(p) + 1 - c = n + 2 - c
    BY <1>1
  <2> QED
    BY <1>1, <2>1, <2>2
<1>3. p[Len(p) + 1 - d] = f
  BY <1>1
<1>4. 1..Len(p) = (1..n) \cup {d} /\ d \notin 1..n
  BY <1>1
<1> HIDE DEF n, d
<1>5. EmitFrames(p) = EmitFrames(s) \cup (IF f.at = "emit" THEN {d} ELSE {})
  BY <1>2, <1>3, <1>4 DEF EmitFrames, n
<1>6. /\ EmitFrames(s) \subseteq 1..n
      /\ \A c \in EmitFrames(s) : EmitsOf(s)[c] = s[n + 1 - c].rest
  BY DEF EmitFrames, EmitsOf, n
<1>7. CASE f.at = "emit"
  <2>1. EmitFrames(p) = EmitFrames(s) \cup {d}
    BY <1>5, <1>7
  <2>2. ASSUME NEW c \in EmitFrames(p)
        PROVE  p[Len(p) + 1 - c].rest = IF c = d THEN f.rest ELSE EmitsOf(s)[c]
    BY <1>2, <1>3, <1>6, <2>1
  <2>3. EmitsOf(p) = [c \in EmitFrames(s) \cup {d} |->
                         IF c = d THEN f.rest ELSE EmitsOf(s)[c]]
    BY <2>1, <2>2 DEF EmitsOf
  <2> QED
    BY <1>7, <2>1, <2>3 DEF p, d, n
<1>8. CASE f.at # "emit"
  <2>1. EmitFrames(p) = EmitFrames(s)
    BY <1>5, <1>8
  <2>2. \A c \in EmitFrames(s) : p[Len(p) + 1 - c].rest = s[n + 1 - c].rest
    BY <1>2, <1>6
  <2>3. EmitsOf(p) = EmitsOf(s)
    BY <2>1, <2>2 DEF EmitsOf, n
  <2> QED
    BY <1>8, <2>3 DEF p
<1> QED
  BY <1>7, <1>8

LEMMA HeadTail ==
    ASSUME NEW s \in Seq(Frame), s # <<>>
    PROVE  /\ Head(s) \in Frame /\ Tail(s) \in Seq(Frame)
           /\ s = <<Head(s)>> \o Tail(s)
           /\ Len(s) = Len(Tail(s)) + 1
<1>1. /\ Head(s) \in Frame /\ Tail(s) \in Seq(Frame) /\ Len(s) = Len(Tail(s)) + 1
      /\ Head(s) = s[1] /\ \A i \in 1..Len(Tail(s)) : Tail(s)[i] = s[i + 1]
  BY EmptySeq
<1> DEFINE p == <<Head(s)>> \o Tail(s)
<1>2. /\ p \in Seq(Frame) /\ Len(p) = Len(Tail(s)) + 1 /\ p[1] = Head(s)
      /\ \A i \in 2..(Len(Tail(s)) + 1) : p[i] = Tail(s)[i - 1]
  BY <1>1, Pushed
<1> HIDE DEF p
<1>3. ASSUME NEW i \in 1..Len(s) PROVE p[i] = s[i]
  <2>1. CASE i = 1
    BY <1>1, <1>2, <2>1
  <2>2. CASE i # 1
    <3>1. i \in 2..(Len(Tail(s)) + 1) /\ i - 1 \in 1..Len(Tail(s)) /\ (i - 1) + 1 = i
      BY <1>1, <2>2
    <3> QED
      BY <1>1, <1>2, <3>1
  <2> QED
    BY <2>1, <2>2
<1>4. p = s
  BY <1>1, <1>2, <1>3, SeqEqual
<1> QED
  BY <1>1, <1>4 DEF p

LEMMA EmitsPopped ==
    ASSUME NEW s \in Seq(Frame), s # <<>>, Head(s).at # "emit"
    PROVE  EmitsOf(Tail(s)) = EmitsOf(s)
<1>1. Head(s) \in Frame /\ Tail(s) \in Seq(Frame) /\ s = <<Head(s)>> \o Tail(s)
  BY HeadTail
<1>2. EmitsOf(<<Head(s)>> \o Tail(s)) = EmitsOf(Tail(s))
  BY <1>1, EmitsPushed
<1> QED
  BY <1>1, <1>2

LEMMA EmitsSuffix ==
    ASSUME NEW s \in Seq(Frame), NEW n \in 0..Len(s)
    PROVE  LET kept == {d \in EmitFrames(s) : d <= Len(s) - n} IN
           EmitsOf(SubSeq(s, n + 1, Len(s))) = [d \in kept |-> EmitsOf(s)[d]]
<1> DEFINE p == SubSeq(s, n + 1, Len(s))
           m == Len(s) - n
           kept == {d \in EmitFrames(s) : d <= Len(s) - n}
<1>1. /\ p \in Seq(Frame) /\ Len(p) = m /\ m \in Nat /\ n \in Nat /\ Len(s) \in Nat
      /\ \A i \in 1..m : p[i] = s[i + n]
  OBVIOUS
<1> HIDE DEF p
<1>2. \A d \in 1..m : d \in 1..Len(s) /\ p[Len(p) + 1 - d] = s[Len(s) + 1 - d]
  <2> TAKE d \in 1..m
  <2>1. m + 1 - d \in 1..m /\ (m + 1 - d) + n = Len(s) + 1 - d
    BY <1>1
  <2>2. Len(p) + 1 - d = m + 1 - d
    BY <1>1
  <2>3. d \in 1..Len(s)
    BY <1>1
  <2> QED
    BY <1>1, <2>1, <2>2, <2>3
<1>3. EmitFrames(p) = kept
  <2>1. \A d \in EmitFrames(s) : d <= m <=> d \in 1..m
    BY <1>1 DEF EmitFrames
  <2>2. EmitFrames(p) = {d \in 1..m : s[Len(s) + 1 - d].at = "emit"}
    BY <1>1, <1>2 DEF EmitFrames
  <2>3. kept = {d \in EmitFrames(s) : d \in 1..m}
    BY <2>1
  <2> QED
    BY <1>2, <2>2, <2>3 DEF EmitFrames
<1>4. \A d \in kept : d \in 1..m /\ EmitsOf(s)[d] = s[Len(s) + 1 - d].rest
  BY <1>1 DEF EmitFrames, EmitsOf
<1> HIDE DEF kept
<1>5. EmitsOf(p) = [d \in kept |-> EmitsOf(s)[d]]
  BY <1>2, <1>3, <1>4 DEF EmitsOf
<1> QED
  BY <1>5 DEF p, kept

-----------------------------------------------------------------------------
(* The lists after a change. *)

\* A type is listened to exactly when it has listeners.
LEMMA ListenedIs ==
    ASSUME NEW ev, NEW ar, ListsOK(ev, ar), NEW t \in Type
    PROVE  /\ ev \in [Type -> Entry] /\ ar \in [ArrayId -> Seq(Listener)]
           /\ Listeners(ev, ar, t) \in Seq(Listener)
           /\ ListsOf(ev, ar)[t] = Listeners(ev, ar, t)
           /\ ev[t] = Nothing <=> Listeners(ev, ar, t) = <<>>
<1>1. ev \in [Type -> Entry] /\ ar \in [ArrayId -> Seq(Listener)] /\ ev[t] \in Entry
  BY DEF ListsOK
<1>2. /\ Listeners(ev, ar, t) \in Seq(Listener)
      /\ ev[t].is = "array" => Listeners(ev, ar, t) = ar[ev[t].array]
      /\ ev[t].is = "function" => Listeners(ev, ar, t) = <<ev[t].listener>>
      /\ ev[t].is = "nothing" => Listeners(ev, ar, t) = <<>>
  BY <1>1, ListenersType
<1>3. ev[t].is = "array" => ar[ev[t].array] # <<>>
  BY DEF ListsOK
<1>4. ev[t].is = "function" => <<ev[t].listener>> # <<>>
  OBVIOUS
<1>5. ev[t] = Nothing <=> Listeners(ev, ar, t) = <<>>
  BY <1>1, <1>2, <1>3, <1>4, EntryCases, EntriesDiffer
<1> QED
  BY <1>1, <1>2, <1>5 DEF ListsOf

LEMMA ListsEqual ==
    ASSUME NEW ev, NEW ar, NEW F, F = [u \in Type |-> F[u]],
           \A u \in Type : Listeners(ev, ar, u) = F[u]
    PROVE  ListsOf(ev, ar) = F
BY DEF ListsOf

\* The others keep their listeners.
LEMMA OtherLists ==
    ASSUME NEW ev, NEW ar, ListsOK(ev, ar), NEW u \in Type, NEW ev2, NEW ar2,
           ev2[u] = ev[u], ev[u].is = "array" => ar2[ev[u].array] = ar[ev[u].array]
    PROVE  Listeners(ev2, ar2, u) = Listeners(ev, ar, u)
<1>1. ev[u] \in Entry
  BY DEF ListsOK
<1>2. CASE ev[u].is = "array"
  BY <1>2 DEF Listeners
<1>3. CASE ev[u].is = "function"
  BY <1>3 DEF Listeners
<1>4. CASE ev[u].is = "nothing"
  BY <1>4 DEF Listeners
<1> QED
  BY <1>1, <1>2, <1>3, <1>4, EntryCases

LEMMA NoListeners ==
    ASSUME NEW ev, NEW ar, NEW t, ev[t] = Nothing
    PROVE  Listeners(ev, ar, t) = <<>>
BY EntriesDiffer DEF Listeners

LEMMA EmissionBegins ==
    ASSUME NEW ev, NEW ar, ListsOK(ev, ar), NEW t \in Type, NEW below \in Seq(Frame)
    PROVE  BegunFrom(EmitsOf(below), EmitsOf(Emission(ev, ar, t, below)),
                     ListsOf(ev, ar)[t])
<1> DEFINE list == Listeners(ev, ar, t)
           f == [at |-> "emit", type |-> t, rest |-> list]
           d == Len(below) + 1
           e2 == EmitsOf(<<f>> \o below)
<1>1. list \in Seq(Listener) /\ ListsOf(ev, ar)[t] = list /\ (ev[t] = Nothing <=> list = <<>>)
  BY ListenedIs
<1>2. CASE ev[t] = Nothing
  BY <1>1, <1>2 DEF Emission, BegunFrom
<1>3. CASE ev[t] # Nothing
  <2>1. Emission(ev, ar, t, below) = <<f>> \o below
    BY <1>3 DEF Emission
  <2>2. f \in Frame /\ f.at = "emit" /\ f.rest = list
    BY <1>1 DEF Frame
  <2> HIDE DEF f, list
  <2>3. e2 = [c \in EmitFrames(below) \cup {d} |->
                 IF c = d THEN list ELSE EmitsOf(below)[c]]
    BY <2>2, EmitsPushed, ZenonT(30)
  <2>4. /\ DOMAIN EmitsOf(below) = EmitFrames(below)
        /\ \A c \in EmitFrames(below) : c < d
    BY EmitsDomain
  <2> HIDE DEF d, e2
  <2>5. /\ d \in DOMAIN e2 /\ \A c \in DOMAIN EmitsOf(below) : c < d
        /\ e2 = [c \in DOMAIN EmitsOf(below) \cup {d} |->
                    IF c = d THEN list ELSE EmitsOf(below)[c]]
    BY <2>3, <2>4
  <2>6. BegunFrom(EmitsOf(below), e2, list)
    BY <1>1, <1>3, <2>5 DEF BegunFrom
  <2> QED
    BY <1>1, <2>1, <2>6 DEF e2
<1> QED
  BY <1>2, <1>3

LEMMA NothingLists ==
    ASSUME ListsOK(events, arrays), NEW T \in SUBSET Type, arrays' = arrays,
           events' = [u \in Type |-> IF u \in T THEN Nothing ELSE events[u]]
    PROVE  ListsOf(events', arrays') =
              [u \in Type |-> IF u \in T THEN <<>> ELSE ListsOf(events, arrays)[u]]
<1>1. ASSUME NEW u \in Type
      PROVE  Listeners(events', arrays', u) =
                IF u \in T THEN <<>> ELSE ListsOf(events, arrays)[u]
  <2>1. CASE u \in T
    BY <2>1, NoListeners
  <2>2. CASE u \notin T
    <3>1. events'[u] = events[u]
      BY <2>2
    <3>2. Listeners(events', arrays', u) = Listeners(events, arrays, u)
      BY <3>1, OtherLists
    <3> QED
      BY <2>2, <3>2 DEF ListsOf
  <2> QED
    BY <2>1, <2>2
<1> QED
  BY <1>1 DEF ListsOf

LEMMA AppendedLists ==
    ASSUME ListsOK(events, arrays), NEW t \in Type, NEW l \in Listener, Appended(t, l)
    PROVE  ListsOf(events', arrays') = [ListsOf(events, arrays) EXCEPT ![t] = Append(@, l)]
<1> DEFINE list == Listeners(events, arrays, t)
<1>1. events \in [Type -> Entry] /\ arrays \in [ArrayId -> Seq(Listener)]
  BY DEF ListsOK
<1>2. /\ list \in Seq(Listener)
      /\ events[t].is = "array" => list = arrays[events[t].array]
      /\ events[t].is = "function" => list = <<events[t].listener>>
      /\ events[t].is = "nothing" => list = <<>>
  BY <1>1, ListenersType
<1>3. SUFFICES ASSUME NEW u \in Type
               PROVE  Listeners(events', arrays', u) =
                         IF u = t THEN Append(list, l) ELSE Listeners(events, arrays, u)
  BY DEF ListsOf
<1> HIDE DEF list
<1>4. CASE events[t].is = "nothing"
  <2>1. events' = [events EXCEPT ![t] = Single(l)] /\ arrays' = arrays
    BY <1>4 DEF Appended
  <2>2. CASE u = t
    <3>1. events'[t] = Single(l)
      BY <1>1, <2>1
    <3>2. Listeners(events', arrays', t) = <<l>>
      BY <3>1, EntriesDiffer DEF Listeners
    <3>3. Append(list, l) = <<l>>
      BY <1>2, <1>4
    <3> QED
      BY <2>2, <3>2, <3>3
  <2>3. CASE u # t
    <3>1. events'[u] = events[u]
      BY <1>1, <2>1, <2>3
    <3>2. events[u].is = "array" => arrays'[events[u].array] = arrays[events[u].array]
      BY <2>1
    <3>3. Listeners(events', arrays', u) = Listeners(events, arrays, u)
      BY <3>1, <3>2, OtherLists
    <3> QED
      BY <2>3, <3>3
  <2> QED
    BY <2>2, <2>3
<1>5. CASE events[t].is = "array"
  <2> DEFINE id   == events[t].array
             more == Append(list, l)
  <2>1. events' = events /\ arrays' = [arrays EXCEPT ![id] = more]
    BY <1>2, <1>5 DEF Appended
  <2>2. id \in ArrayId /\ events[t] = Many(id)
    BY <1>1, <1>5, EntryCases
  <2> HIDE DEF more
  <2>3. CASE u = t
    <3>1. events'[t] = Many(id) /\ arrays'[id] = more
      BY <1>1, <2>1, <2>2
    <3> HIDE DEF id
    <3>2. Listeners(events', arrays', t) = more
      BY <3>1, EntriesDiffer DEF Listeners
    <3> QED
      BY <2>3, <3>2 DEF more
  <2>4. CASE u # t
    <3>1. events[u].is = "array" => events[u].array # id /\ events[u].array \in ArrayId
      <4> SUFFICES ASSUME events[u].is = "array"
                   PROVE  events[u].array # id /\ events[u].array \in ArrayId
        OBVIOUS
      <4>1. events[u] = Many(events[u].array) /\ events[u].array \in ArrayId
        BY <1>1, EntryCases
      <4>2. events[u] # events[t]
        BY <1>5, <2>4 DEF ListsOK
      <4> QED
        BY <2>2, <4>1, <4>2
    <3>2. events[u].is = "array" => arrays'[events[u].array] = arrays[events[u].array]
      BY <1>1, <2>1, <3>1
    <3> QED
      BY <2>1, <2>4, <3>2, OtherLists, ZenonT(30)
  <2> QED
    BY <2>3, <2>4
<1>6. CASE events[t].is = "function"
  <2> DEFINE id   == Min(Unused)
             more == <<events[t].listener, l>>
  <2>1. /\ Unused # {}
        /\ arrays' = [arrays EXCEPT ![id] = more]
        /\ events' = [events EXCEPT ![t] = Many(id)]
    BY <1>6 DEF Appended
  <2>2. Unused \in SUBSET Nat
    BY EmitterAssumption DEF Unused
  <2>3. id \in Unused
    BY <2>1, <2>2, MinIn
  <2>4. /\ id \in ArrayId
        /\ \A v \in Type : events[v] # Many(id)
    BY <2>3 DEF Unused
  <2>5. more = Append(list, l)
    <3>1. ASSUME NEW x \in Listener
          PROVE  Append(<<x>>, l) = <<x, l>>
      <4> DEFINE p == Append(<<x>>, l)
                 q == <<x, l>>
      <4>1. <<x>> \in Seq(Listener) /\ Len(<<x>>) = 1 /\ <<x>>[1] = x
        OBVIOUS
      <4>2. p \in Seq(Listener) /\ Len(p) = 2 /\ p[1] = x /\ p[2] = l
        BY <4>1, AppendProperties
      <4>3. q \in Seq(Listener) /\ Len(q) = 2 /\ q[1] = x /\ q[2] = l
        OBVIOUS
      <4> HIDE DEF p, q
      <4>4. p = q
        BY <4>2, <4>3, SeqEqual
      <4> QED
        BY <4>4 DEF p, q
    <3>2. events[t].listener \in Listener
      BY <1>1, <1>6, EntryCases
    <3> QED
      BY <1>2, <1>6, <3>1, <3>2
  <2> HIDE DEF id, more
  <2>6. CASE u = t
    <3>1. events'[t] = Many(id) /\ arrays'[id] = more
      BY <1>1, <2>1, <2>4
    <3>2. Listeners(events', arrays', t) = more
      BY <3>1, EntriesDiffer DEF Listeners
    <3> QED
      BY <2>5, <2>6, <3>2
  <2>7. CASE u # t
    <3>1. events[u].is = "array" => events[u].array # id
      <4> SUFFICES ASSUME events[u].is = "array"
                   PROVE  events[u].array # id
        OBVIOUS
      <4>1. events[u] = Many(events[u].array)
        BY <1>1, EntryCases
      <4> QED
        BY <2>4, <4>1
    <3>2. events[u].is = "array" => arrays'[events[u].array] = arrays[events[u].array]
      BY <1>1, <2>1, <3>1
    <3>3. events'[u] = events[u]
      BY <1>1, <2>1, <2>7
    <3> QED
      BY <2>7, <3>2, <3>3, OtherLists
  <2> QED
    BY <2>6, <2>7
<1> QED
  BY <1>1, <1>4, <1>5, <1>6, EntryCases

LEMMA RemovedLists ==
    ASSUME ListsOK(events, arrays), NEW t \in Type, NEW l, NEW below,
           Position(Listeners(events, arrays, t), l) # 0, Removed(t, l, below)
    PROVE  ListsOf(events', arrays') =
              [ListsOf(events, arrays) EXCEPT
                  ![t] = RemoveAt(@, Position(Listeners(events, arrays, t), l))]
<1> DEFINE list == Listeners(events, arrays, t)
           i == Position(list, l)
           less == RemoveAt(list, i)
<1>1. events \in [Type -> Entry] /\ arrays \in [ArrayId -> Seq(Listener)]
  BY DEF ListsOK
<1>2. /\ list \in Seq(Listener)
      /\ events[t].is = "array" => list = arrays[events[t].array]
      /\ events[t].is = "function" => list = <<events[t].listener>>
      /\ events[t].is = "nothing" => list = <<>>
  BY <1>1, ListenersType
<1>3. i \in 1..Len(list)
  BY <1>2, PositionIs
<1>4. /\ arrays' = IF events[t].is = "array" THEN Without(arrays, events[t].array, i)
                   ELSE arrays
      /\ events' = IF Len(list) = 1 THEN [events EXCEPT ![t] = Nothing] ELSE events
  BY DEF Removed, Left
<1>5. SUFFICES ASSUME NEW u \in Type
               PROVE  Listeners(events', arrays', u) =
                         IF u = t THEN less ELSE Listeners(events, arrays, u)
  BY DEF ListsOf
<1> HIDE DEF list, i
<1>6. less \in Seq(Listener) /\ Len(less) = Len(list) - 1
  BY <1>2, <1>3, RemovedAt
<1>7. Len(list) = 1 => less = <<>>
  BY <1>6, EmptySeq
<1> HIDE DEF less
<1>8. CASE u = t
  <2>1. CASE Len(list) = 1
    <3>1. events'[t] = Nothing
      BY <1>1, <1>4, <2>1
    <3> QED
      BY <1>7, <1>8, <2>1, <3>1, NoListeners
  <2>2. CASE Len(list) # 1
    <3>1. events[t].is = "array"
      <4>1. events[t].is # "nothing"
        BY <1>2, <1>3
      <4>2. events[t].is # "function"
        BY <1>2, <2>2
      <4> QED
        BY <1>1, <4>1, <4>2, EntryCases
    <3> DEFINE id == events[t].array
    <3>2. id \in ArrayId /\ events[t] = Many(id)
      BY <1>1, <3>1, EntryCases
    <3>3. arrays' = [arrays EXCEPT ![id] = less] /\ events' = events
      BY <1>2, <1>4, <2>2, <3>1 DEF Without, less
    <3>4. events'[t] = Many(id) /\ arrays'[id] = less
      BY <1>1, <3>2, <3>3
    <3> HIDE DEF id
    <3> QED
      BY <1>8, <3>4, EntriesDiffer DEF Listeners
  <2> QED
    BY <2>1, <2>2
<1>9. CASE u # t
  <2>1. events'[u] = events[u]
    BY <1>1, <1>4, <1>9
  <2>2. ASSUME events[u].is = "array"
        PROVE  arrays'[events[u].array] = arrays[events[u].array]
    <3>1. events[u] = Many(events[u].array) /\ events[u].array \in ArrayId
      BY <1>1, <2>2, EntryCases
    <3>2. CASE events[t].is = "array"
      <4>1. events[t] = Many(events[t].array) /\ events[u] # events[t]
        BY <1>1, <1>9, <2>2, <3>2, EntryCases DEF ListsOK
      <4>2. events[u].array # events[t].array
        BY <3>1, <4>1
      <4> QED
        BY <1>1, <1>4, <3>1, <3>2, <4>2 DEF Without
    <3> QED
      BY <1>4, <3>2
  <2> QED
    BY <1>9, <2>1, <2>2, OtherLists
<1> QED
  BY <1>8, <1>9

-----------------------------------------------------------------------------
(* What the steps of the promise are, in these terms. *)

\* The emits now in progress, from those there were.
Begun(list) == BegunFrom(EmitsNow, EmitsNow', list)

PromisedStep == [Lists!Next]_(Lists!vars)

LEMMA BeginsIs ==
    ASSUME NEW t, NEW ls
    PROVE  Lists!Begins(t, ls) <=> Begun(ls[t])
BY DEF Lists!Begins, Begun, BegunFrom

LEMMA PromisedStutter ==
    ASSUME ListsNow' = ListsNow, EmitsNow' = EmitsNow, target' = target
    PROVE  PromisedStep
BY DEF PromisedStep, Lists!vars

LEMMA PromisedEmit ==
    ASSUME NEW t \in Type, ListsNow' = ListsNow, target' = target, Begun(ListsNow[t])
    PROVE  PromisedStep
<1>1. Lists!Emit(t)
  BY BeginsIs DEF Lists!Emit
<1> QED
  BY <1>1 DEF PromisedStep, Lists!Next

LEMMA PromisedMake ==
    ASSUME NEW g \in Wrapper, NEW l \in Listener, target[g] = None,
           target' = [target EXCEPT ![g] = l], DOMAIN target = Wrapper
    PROVE  Lists!Make
BY DEF Lists!Make

LEMMA PromisedMakeOnly ==
    ASSUME NEW g \in Wrapper, NEW l \in Listener, target[g] = None,
           target' = [target EXCEPT ![g] = l], DOMAIN target = Wrapper,
           ListsNow' = ListsNow, Begun(ListsNow["newListener"])
    PROVE  PromisedStep
<1>1. Lists!MakeOnly
  BY PromisedMake, BeginsIs DEF Lists!MakeOnly
<1> QED
  BY <1>1 DEF PromisedStep, Lists!Next

LEMMA PromisedAdd ==
    ASSUME NEW t \in Type, NEW l \in Listener, EmitsNow' = EmitsNow,
           ListsNow' = [ListsNow EXCEPT ![t] = Append(@, l)],
           target' = target \/ (Lists!Make /\ target[l] # target'[l])
    PROVE  PromisedStep
<1>1. Lists!Add(t, l)
  BY DEF Lists!Add
<1> QED
  BY <1>1 DEF PromisedStep, Lists!Next

LEMMA PromisedRemove ==
    ASSUME NEW t \in Type, NEW l \in Listener, DOMAIN target = Wrapper, target' = target,
           ListsNow[t] \in Seq(Listener), Position(ListsNow[t], l) # 0,
           ListsNow' = [ListsNow EXCEPT ![t] = RemoveAt(@, Position(ListsNow[t], l))],
           Begun(ListsNow'["removeListener"])
    PROVE  PromisedStep
<1> DEFINE list == ListsNow[t]
           i == Position(list, l)
<1>1. \A h : Matches(h, l) <=> Lists!Is(h, l)
  BY DEF Matches, Lists!Is
<1>2. /\ i \in 1..Len(list) /\ Matches(list[i], l)
      /\ \A j \in i + 1 .. Len(list) : ~Matches(list[j], l)
  BY PositionIs
<1>3. ListsNow' = [ListsNow EXCEPT ![t] = SubSeq(@, 1, i - 1) \o SubSeq(@, i + 1, Len(@))]
  BY DEF RemoveAt
<1>4. Lists!Begins("removeListener", ListsNow')
  BY BeginsIs
<1> HIDE DEF i
<1>5. Lists!Remove(t, l)
  BY <1>1, <1>2, <1>3, <1>4 DEF Lists!Remove
<1> QED
  BY <1>5 DEF PromisedStep, Lists!Next

LEMMA PromisedDrop ==
    ASSUME NEW T \in SUBSET Type, EmitsNow' = EmitsNow, target' = target,
           ListsNow' = [u \in Type |-> IF u \in T THEN <<>> ELSE ListsNow[u]]
    PROVE  PromisedStep
<1>1. Lists!Drop(T)
  BY DEF Lists!Drop
<1> QED
  BY <1>1 DEF PromisedStep, Lists!Next

LEMMA PromisedAbandon ==
    ASSUME NEW kept \in SUBSET DOMAIN EmitsNow, ListsNow' = ListsNow, target' = target,
           \A d \in DOMAIN EmitsNow, e \in kept : d < e => d \in kept,
           EmitsNow' = [d \in kept |-> EmitsNow[d]]
    PROVE  PromisedStep
<1>1. Lists!Abandon
  BY DEF Lists!Abandon, Lists!Keep
<1> QED
  BY <1>1 DEF PromisedStep, Lists!Next

LEMMA PromisedEnd ==
    ASSUME NEW d \in DOMAIN EmitsNow, \A e \in DOMAIN EmitsNow : e <= d /\ e \in Nat,
           EmitsNow[d] = <<>>, ListsNow' = ListsNow, target' = target,
           EmitsNow' = [e \in DOMAIN EmitsNow \ {d} |-> EmitsNow[e]]
    PROVE  PromisedStep
<1>1. \A c \in DOMAIN EmitsNow, e \in DOMAIN EmitsNow \ {d} :
         c < e => c \in DOMAIN EmitsNow \ {d}
  BY d \in Nat
<1>2. Lists!Keep(DOMAIN EmitsNow \ {d})
  BY <1>1 DEF Lists!Keep
<1>3. Lists!End
  BY <1>2 DEF Lists!End, Lists!Innermost
<1> QED
  BY <1>3 DEF PromisedStep, Lists!Next

LEMMA PromisedCall ==
    ASSUME NEW d \in DOMAIN EmitsNow, \A e \in DOMAIN EmitsNow : e <= d,
           EmitsNow[d] # <<>>, ListsNow' = ListsNow, target' = target,
           EmitsNow' = [EmitsNow EXCEPT ![d] = Tail(@)]
    PROVE  PromisedStep
<1>1. Lists!Call
  BY DEF Lists!Call, Lists!Innermost
<1> QED
  BY <1>1 DEF PromisedStep, Lists!Next

-----------------------------------------------------------------------------
(* The steps of events.js are steps of the promise. *)

LEMMA NowParts ==
    ASSUME Kept, OthersOK
    PROVE  /\ DOMAIN target = Wrapper /\ target \in [Wrapper -> Plain \cup {None}]
           /\ stack \in Seq(Frame) /\ Len(stack) \in Nat
           /\ \A t \in Type : ListsNow[t] = Listeners(events, arrays, t)
           /\ \A t \in Type : ListsNow[t] \in Seq(Listener)
           /\ DOMAIN EmitsNow = EmitFrames(stack)
           /\ EmitFrames(stack) \subseteq 1..Len(stack)
<1>1. stack \in Seq(Frame) /\ Len(stack) \in Nat
  BY DEF Kept, StackOK
<1>2. \A t \in Type : /\ ListsNow[t] = Listeners(events, arrays, t)
                      /\ ListsNow[t] \in Seq(Listener)
  BY ListenedIs, MappedNow DEF Kept
<1>3. DOMAIN EmitsNow = EmitFrames(stack) /\ EmitFrames(stack) \subseteq 1..Len(stack)
  BY <1>1, EmitsDomain, MappedNow
<1>4. DOMAIN target = Wrapper /\ target \in [Wrapper -> Plain \cup {None}]
  BY DEF OthersOK
<1> QED
  BY <1>1, <1>2, <1>3, <1>4

\* What an emission on the same emits promises.
LEMMA EmissionBegun ==
    ASSUME Kept', NEW t \in Type, NEW below \in Seq(Frame),
           EmitsOf(below) = EmitsOf(stack), stack' = Emission(events', arrays', t, below)
    PROVE  Begun(ListsNow'[t])
<1>1. ListsOK(events', arrays')
  BY DEF Kept
<1>2. BegunFrom(EmitsOf(below), EmitsOf(stack'), ListsOf(events', arrays')[t])
  BY <1>1, EmissionBegins
<1> QED
  BY <1>2, MappedNow DEF Begun

LEMMA SameLists ==
    ASSUME events' = events, arrays' = arrays
    PROVE  ListsNow' = ListsNow
BY DEF ListsNow

LEMMA RemovedPromised ==
    ASSUME Kept, Kept', OthersOK, NEW t \in Type, NEW l \in Listener,
           NEW below \in Seq(Frame), EmitsOf(below) = EmitsOf(stack),
           Removed(t, l, below), target' = target
    PROVE  PromisedStep
<1> DEFINE i == Position(ListsNow[t], l)
<1>1. ListsNow[t] = Listeners(events, arrays, t) /\ ListsNow[t] \in Seq(Listener)
  BY NowParts
<1>2. CASE i = 0
  <2>1. stack' = below /\ events' = events /\ arrays' = arrays
    BY <1>1, <1>2 DEF Removed
  <2>2. EmitsNow' = EmitsNow
    BY <2>1, MappedNow
  <2> QED
    BY <2>1, <2>2, SameLists, PromisedStutter
<1>3. CASE i # 0
  <2>1. stack' = Emission(events', arrays', "removeListener", below)
    BY <1>1, <1>3 DEF Removed
  <2>2. Begun(ListsNow'["removeListener"])
    BY <2>1, EmissionBegun, EmitterAssumption
  <2>3. ListsOK(events, arrays)
    BY DEF Kept
  <2>4. ListsOf(events', arrays') =
           [ListsOf(events, arrays) EXCEPT ![t] = RemoveAt(@, i)]
    BY <1>1, <1>3, <2>3, RemovedLists
  <2>5. ListsNow' = [ListsNow EXCEPT ![t] = RemoveAt(@, i)]
    BY <2>4, MappedNow
  <2> QED
    BY <1>1, <1>3, <2>2, <2>5, NowParts, PromisedRemove
<1> QED
  BY <1>2, <1>3

LEMMA NothingPromised ==
    ASSUME Kept, NEW T \in SUBSET Type, arrays' = arrays,
           events' = [u \in Type |-> IF u \in T THEN Nothing ELSE events[u]],
           EmitsOf(stack') = EmitsOf(stack), target' = target
    PROVE  PromisedStep
<1>1. ListsOK(events, arrays)
  BY DEF Kept
<1>2. ListsNow' = [u \in Type |-> IF u \in T THEN <<>> ELSE ListsNow[u]]
  BY <1>1, NothingLists, MappedNow
<1>3. EmitsNow' = EmitsNow
  BY MappedNow
<1> QED
  BY <1>2, <1>3, PromisedDrop

LEMMA OneNothing ==
    ASSUME Kept, NEW t \in Type, events' = [events EXCEPT ![t] = Nothing]
    PROVE  events' = [u \in Type |-> IF u \in {t} THEN Nothing ELSE events[u]]
<1>1. events \in [Type -> Entry]
  BY DEF Kept, ListsOK
<1> QED
  BY <1>1

LEMMA RemovedAllPromised ==
    ASSUME Kept, Kept', OthersOK, NEW t \in Type, NEW below \in Seq(Frame),
           EmitsOf(below) = EmitsOf(stack), RemovedAll(t, below), target' = target
    PROVE  PromisedStep
<1>1. events \in [Type -> Entry]
  BY DEF Kept, ListsOK
<1>2. ASSUME NEW e \in {Nothing} \cup {Many(id) : id \in ArrayId}
      PROVE  LET f == [at |-> "drain", type |-> t, entry |-> e] IN
             <<f>> \o below \in Seq(Frame) /\ EmitsOf(<<f>> \o below) = EmitsOf(stack)
  <2> DEFINE f == [at |-> "drain", type |-> t, entry |-> e]
  <2>1. f \in Frame /\ f.at # "emit"
    BY DEF Frame
  <2> HIDE DEF f
  <2>2. <<f>> \o below \in Seq(Frame) /\ EmitsOf(<<f>> \o below) = EmitsOf(stack)
    BY <2>1, Pushed, EmitsPushed
  <2> QED
    BY <2>2 DEF f
<1>3. CASE ~Listened("removeListener")
  <2>1. events' = [events EXCEPT ![t] = Nothing] /\ arrays' = arrays /\ stack' = below
    BY <1>3 DEF RemovedAll
  <2>2. events' = [u \in Type |-> IF u \in {t} THEN Nothing ELSE events[u]]
    BY <2>1, OneNothing
  <2>3. {t} \in SUBSET Type /\ EmitsOf(stack') = EmitsOf(stack)
    BY <2>1
  <2> QED
    BY <2>1, <2>2, <2>3, NothingPromised
<1>4. CASE Listened("removeListener") /\ events[t].is = "function"
  <2> DEFINE p == <<[at |-> "drain", type |-> t, entry |-> Nothing]>> \o below
  <2>1. Removed(t, events[t].listener, p) /\ events[t].listener \in Listener
    BY <1>1, <1>4, EntryCases DEF RemovedAll
  <2>2. p \in Seq(Frame) /\ EmitsOf(p) = EmitsOf(stack)
    BY <1>2
  <2> HIDE DEF p
  <2> QED
    BY <2>1, <2>2, RemovedPromised
<1>5. CASE Listened("removeListener") /\ events[t].is # "function"
  <2> DEFINE p == <<[at |-> "drain", type |-> t, entry |-> events[t]]>> \o below
  <2>1. stack' = p /\ events' = events /\ arrays' = arrays
    BY <1>5 DEF RemovedAll
  <2>2. events[t] \in {Nothing} \cup {Many(id) : id \in ArrayId}
    BY <1>1, <1>5, EntryCases
  <2>3. EmitsOf(p) = EmitsOf(stack)
    BY <1>2, <2>2
  <2> HIDE DEF p
  <2>4. EmitsNow' = EmitsNow
    BY <2>1, <2>3, MappedNow
  <2> QED
    BY <2>1, <2>4, SameLists, PromisedStutter
<1> QED
  BY <1>3, <1>4, <1>5

\* addListener has only begun the emission of newListener, or has added.
LEMMA AddedPromised ==
    ASSUME Kept, Kept', OthersOK, NEW t \in Type, NEW l \in Listener, Added(t, l)
    PROVE  \/ ListsNow' = ListsNow /\ Begun(ListsNow["newListener"])
           \/ /\ EmitsNow' = EmitsNow
              /\ ListsNow' = [ListsNow EXCEPT ![t] = Append(@, l)]
<1>1. CASE Listened("newListener")
  <2> DEFINE f     == [at |-> "add", type |-> t, listener |-> l]
             below == <<f>> \o stack
  <2>1. f \in Frame /\ f.at # "emit"
    BY DEF Frame
  <2>2. /\ stack' = Emission(events, arrays, "newListener", below)
        /\ events' = events /\ arrays' = arrays
    BY <1>1 DEF Added
  <2> HIDE DEF f
  <2>3. below \in Seq(Frame) /\ EmitsOf(below) = EmitsOf(stack)
    BY <2>1, Pushed, EmitsPushed, NowParts
  <2> HIDE DEF below
  <2>4. Begun(ListsNow'["newListener"])
    BY <2>2, <2>3, EmissionBegun, EmitterAssumption
  <2> QED
    BY <2>2, <2>4, SameLists
<1>2. CASE ~Listened("newListener")
  <2>1. Appended(t, l) /\ stack' = stack
    BY <1>2 DEF Added
  <2>2. ListsNow' = [ListsNow EXCEPT ![t] = Append(@, l)]
    BY <2>1, AppendedLists, MappedNow DEF Kept
  <2> QED
    BY <2>1, <2>2, MappedNow
<1> QED
  BY <1>1, <1>2

\* An exception leaves the emits below the script that catches it.
LEMMA UnwindPromised ==
    ASSUME Kept, OthersOK, Unwind, events' = events, arrays' = arrays, target' = target
    PROVE  PromisedStep
<1>1. PICK n \in 0..Len(stack) : stack' = SubSeq(stack, n + 1, Len(stack))
  BY DEF Unwind
<1> DEFINE m    == Len(stack) - n
           kept == {d \in EmitFrames(stack) : d <= m}
<1>2. EmitsNow' = [d \in kept |-> EmitsNow[d]]
  BY <1>1, EmitsSuffix, MappedNow, NowParts
<1>3. \A d \in EmitFrames(stack) : d \in Nat /\ m \in Int
  BY NowParts
<1> HIDE DEF m
<1>4. kept \in SUBSET DOMAIN EmitsNow
  BY NowParts
<1>5. \A d \in EmitFrames(stack), e \in kept : d < e => d \in kept
  BY <1>3
<1> QED
  BY <1>2, <1>4, <1>5, NowParts, SameLists, PromisedAbandon

\* The top of the stack goes, and was not an emit.
LEMMA PoppedPromised ==
    ASSUME Kept, stack # <<>>, Head(stack).at # "emit"
    PROVE  /\ Tail(stack) \in Seq(Frame) /\ EmitsOf(Tail(stack)) = EmitsOf(stack)
           /\ \A f \in Frame : f.at # "emit" =>
                 /\ <<f>> \o Tail(stack) \in Seq(Frame)
                 /\ EmitsOf(<<f>> \o Tail(stack)) = EmitsOf(stack)
<1>1. stack \in Seq(Frame)
  BY DEF Kept, StackOK
<1>2. Tail(stack) \in Seq(Frame) /\ EmitsOf(Tail(stack)) = EmitsOf(stack)
  BY <1>1, HeadTail, EmitsPopped
<1> QED
  BY <1>2, Pushed, EmitsPushed

\* The emit at the top of the stack is the innermost one.
LEMMA TopEmit ==
    ASSUME Kept, OthersOK, stack # <<>>, Head(stack).at = "emit"
    PROVE  LET d == Len(stack) IN
           /\ Head(stack) \in Frame /\ Head(stack).type \in Type
           /\ Head(stack).rest \in Seq(Listener)
           /\ Tail(stack) \in Seq(Frame) /\ Len(stack) = Len(Tail(stack)) + 1
           /\ d \in Nat /\ d \notin EmitFrames(Tail(stack))
           /\ DOMAIN EmitsNow = EmitFrames(Tail(stack)) \cup {d}
           /\ \A e \in DOMAIN EmitsNow : e <= d /\ e \in Nat
           /\ EmitsNow[d] = Head(stack).rest
           /\ EmitsOf(Tail(stack)) = [e \in DOMAIN EmitsNow \ {d} |-> EmitsNow[e]]
<1> DEFINE d == Len(stack)
           s == Tail(stack)
           f == Head(stack)
<1>1. stack \in Seq(Frame) /\ d \in Nat
  BY NowParts
<1>2. f \in Frame /\ s \in Seq(Frame) /\ stack = <<f>> \o s /\ d = Len(s) + 1
  BY <1>1, HeadTail
<1>3. f.type \in Type /\ f.rest \in Seq(Listener)
  BY <1>2 DEF Frame
<1>4. EmitFrames(s) \subseteq 1..Len(s) /\ Len(s) \in Nat /\ DOMAIN EmitsOf(s) = EmitFrames(s)
  BY <1>2, EmitsDomain
<1>5. /\ EmitFrames(stack) = EmitFrames(s) \cup {d}
      /\ EmitsOf(stack) = [c \in EmitFrames(s) \cup {d} |->
                              IF c = d THEN f.rest ELSE EmitsOf(s)[c]]
  <2> DEFINE p == <<f>> \o s
             n == Len(s) + 1
  <2>1. /\ EmitFrames(p) = EmitFrames(s) \cup {n}
        /\ EmitsOf(p) = [c \in EmitFrames(s) \cup {n} |->
                            IF c = n THEN f.rest ELSE EmitsOf(s)[c]]
    BY <1>2, EmitsPushed
  <2> QED
    BY <1>2, <2>1
<1>6. d \notin EmitFrames(s) /\ \A e \in EmitFrames(s) \cup {d} : e <= d /\ e \in Nat
  BY <1>1, <1>2, <1>4
<1>7. EmitsOf(s) = [c \in EmitFrames(s) |-> EmitsOf(s)[c]]
  BY DEF EmitsOf
<1> HIDE DEF d, s, f
<1>8. EmitsOf(s) = [e \in (EmitFrames(s) \cup {d}) \ {d} |-> EmitsOf(stack)[e]]
  <2>1. (EmitFrames(s) \cup {d}) \ {d} = EmitFrames(s)
    BY <1>6
  <2>2. \A e \in EmitFrames(s) : EmitsOf(stack)[e] = EmitsOf(s)[e]
    BY <1>5, <1>6
  <2> QED
    BY <1>7, <2>1, <2>2
<1>9. EmitsOf(stack)[d] = f.rest
  BY <1>5
<1>10. EmitsNow = EmitsOf(stack) /\ DOMAIN EmitsNow = EmitFrames(s) \cup {d}
  BY <1>5, MappedNow, NowParts
<1> QED
  BY <1>1, <1>2, <1>3, <1>6, <1>8, <1>9, <1>10 DEF d, s, f

LEMMA EmitReturnsPromised ==
    ASSUME Kept, OthersOK, EmitReturns
    PROVE  PromisedStep
<1> DEFINE d == Len(stack)
<1>1. /\ stack # <<>> /\ Head(stack).at = "emit" /\ Head(stack).rest = <<>>
      /\ stack' = Tail(stack) /\ events' = events /\ arrays' = arrays /\ target' = target
  BY DEF EmitReturns, At, onceVars
<1>2. /\ DOMAIN EmitsNow = EmitFrames(Tail(stack)) \cup {d}
      /\ \A e \in DOMAIN EmitsNow : e <= d /\ e \in Nat
      /\ EmitsNow[d] = Head(stack).rest
      /\ EmitsOf(Tail(stack)) = [e \in DOMAIN EmitsNow \ {d} |-> EmitsNow[e]]
  BY <1>1, TopEmit
<1>3. EmitsNow' = [e \in DOMAIN EmitsNow \ {d} |-> EmitsNow[e]]
  BY <1>1, <1>2, MappedNow
<1> HIDE DEF d
<1>4. d \in DOMAIN EmitsNow
  BY <1>2
<1> QED
  BY <1>1, <1>2, <1>3, <1>4, SameLists, PromisedEnd

LEMMA CallNextPromised ==
    ASSUME Kept, OthersOK, CallNext
    PROVE  PromisedStep
<1> DEFINE d    == Len(stack)
           s    == Tail(stack)
           emit == Head(stack)
           l    == Head(emit.rest)
           called == IF l \in Wrapper
                     THEN [at |-> "wrapper", type |-> emit.type, listener |-> l]
                     ELSE Script
           rest == [emit EXCEPT !.rest = Tail(@)]
<1>1. /\ stack # <<>> /\ emit.at = "emit" /\ emit.rest # <<>>
      /\ stack' = <<called, rest>> \o s
      /\ events' = events /\ arrays' = arrays /\ target' = target
  BY DEF CallNext, At, onceVars
<1>2. /\ emit \in Frame /\ emit.type \in Type /\ emit.rest \in Seq(Listener)
      /\ s \in Seq(Frame) /\ d = Len(s) + 1 /\ d \notin EmitFrames(s)
      /\ DOMAIN EmitsNow = EmitFrames(s) \cup {d}
      /\ \A e \in DOMAIN EmitsNow : e <= d
      /\ EmitsNow[d] = emit.rest
      /\ EmitsOf(s) = [e \in DOMAIN EmitsNow \ {d} |-> EmitsNow[e]]
  BY <1>1, TopEmit
<1>3. called \in Frame /\ called.at # "emit"
  BY <1>2 DEF Frame, Script
<1>4. rest \in Frame /\ rest.at = "emit" /\ rest.rest = Tail(emit.rest)
  <2>1. emit \in [at : {"emit"}, type : Type, rest : Seq(Listener)]
    BY <1>1, <1>2 DEF Frame
  <2>2. Tail(emit.rest) \in Seq(Listener)
    BY <1>1, <1>2
  <2>3. /\ rest \in [at : {"emit"}, type : Type, rest : Seq(Listener)]
        /\ rest.rest = Tail(emit.rest)
    BY <2>1, <2>2
  <2> QED
    BY <2>3 DEF Frame
<1> HIDE DEF called, rest, emit, s, d
<1>5. stack' = <<called>> \o (<<rest>> \o s)
  BY <1>1, <1>2, <1>3, <1>4, TwoPushed
<1>6. <<rest>> \o s \in Seq(Frame)
  BY <1>2, <1>4, Pushed
<1>7. EmitsOf(stack') = EmitsOf(<<rest>> \o s)
  BY <1>3, <1>5, <1>6, EmitsPushed
<1>8. EmitsOf(<<rest>> \o s) = [c \in EmitFrames(s) \cup {d} |->
                                   IF c = d THEN Tail(emit.rest) ELSE EmitsOf(s)[c]]
  <2> DEFINE n == Len(s) + 1
  <2>1. EmitsOf(<<rest>> \o s) = [c \in EmitFrames(s) \cup {n} |->
                                     IF c = n THEN rest.rest ELSE EmitsOf(s)[c]]
    BY <1>2, <1>4, EmitsPushed
  <2> QED
    BY <1>2, <1>4, <2>1
<1>9. \A c \in EmitFrames(s) : EmitsOf(s)[c] = EmitsNow[c]
  <2>1. EmitFrames(s) = DOMAIN EmitsNow \ {d}
    BY <1>2
  <2> QED
    BY <1>2, <2>1
<1>10. EmitsNow' = [EmitsNow EXCEPT ![d] = Tail(@)]
  <2>1. EmitsNow' = [c \in EmitFrames(s) \cup {d} |->
                       IF c = d THEN Tail(emit.rest) ELSE EmitsNow[c]]
    BY <1>7, <1>8, <1>9, MappedNow
  <2>2. EmitsNow = [c \in EmitFrames(s) \cup {d} |-> EmitsNow[c]]
    <3>1. EmitsNow = [c \in EmitFrames(stack) |-> EmitsNow[c]]
      BY MappedNow DEF EmitsOf
    <3> QED
      BY <1>2, <3>1, NowParts
  <2> QED
    BY <1>2, <2>1, <2>2
<1>11. d \in DOMAIN EmitsNow /\ EmitsNow[d] # <<>>
  BY <1>1, <1>2
<1> QED
  BY <1>1, <1>2, <1>10, <1>11, SameLists, PromisedCall

LEMMA CallPromised ==
    ASSUME Kept, Kept', OthersOK, ScriptCall
    PROVE  PromisedStep
<1> USE DEF onceVars, historyVars
<1>1. stack \in Seq(Frame)
  BY NowParts
<1>2. ASSUME NEW t \in Type, Emit(t)
      PROVE  PromisedStep
  <2>1. events' = events /\ arrays' = arrays /\ target' = target
    BY <1>2 DEF Emit
  <2>2. CASE t = "error" /\ ~Listened(t)
    BY <1>2, <2>1, <2>2, UnwindPromised DEF Emit
  <2>3. CASE ~(t = "error" /\ ~Listened(t))
    <3>1. stack' = Emission(events', arrays', t, stack)
      BY <1>2, <2>1, <2>3 DEF Emit
    <3>2. Begun(ListsNow[t])
      BY <1>1, <2>1, <3>1, EmissionBegun, SameLists
    <3> QED
      BY <2>1, <3>2, SameLists, PromisedEmit
  <2> QED
    BY <2>2, <2>3
<1>3. ASSUME NEW t \in Type, RemoveAllListeners(t)
      PROVE  PromisedStep
  <2>1. RemovedAll(t, stack) /\ target' = target
    BY <1>3 DEF RemoveAllListeners
  <2> QED
    BY <1>1, <2>1, RemovedAllPromised
<1>4. ASSUME NEW t \in Type, NEW l \in Plain, AddListener(t, l)
      PROVE  PromisedStep
  <2>1. Added(t, l) /\ target' = target /\ l \in Listener
    BY <1>4, ListenerSets DEF AddListener
  <2>2. CASE ListsNow' = ListsNow /\ Begun(ListsNow["newListener"])
    BY <2>1, <2>2, EmitterAssumption, PromisedEmit
  <2>3. CASE /\ EmitsNow' = EmitsNow
             /\ ListsNow' = [ListsNow EXCEPT ![t] = Append(@, l)]
    BY <2>1, <2>3, PromisedAdd
  <2> QED
    BY <2>1, <2>2, <2>3, AddedPromised
<1>5. ASSUME NEW t \in Type, NEW l \in Plain, Once(t, l)
      PROVE  PromisedStep
  <2>1. PICK g \in Wrapper : /\ target[g] = None
                             /\ target' = [target EXCEPT ![g] = l]
                             /\ Added(t, g)
    BY <1>5 DEF Once
  <2>2. g \in Listener /\ l \in Listener /\ l # None
    BY ListenerSets, EmitterAssumption
  <2>3. DOMAIN target = Wrapper /\ target' [g] = l
    BY <2>1, NowParts
  <2>4. CASE ListsNow' = ListsNow /\ Begun(ListsNow["newListener"])
    BY <2>1, <2>2, <2>3, <2>4, PromisedMakeOnly
  <2>5. CASE /\ EmitsNow' = EmitsNow
             /\ ListsNow' = [ListsNow EXCEPT ![t] = Append(@, g)]
    <3>1. Lists!Make /\ target[g] # target'[g]
      BY <2>1, <2>2, <2>3, PromisedMake
    <3> QED
      BY <2>2, <2>5, <3>1, PromisedAdd
  <2> QED
    BY <2>1, <2>2, <2>4, <2>5, AddedPromised
<1>6. ASSUME NEW t \in Type, NEW l \in Plain, RemoveListener(t, l)
      PROVE  PromisedStep
  BY <1>1, <1>6, ListenerSets, RemovedPromised DEF RemoveListener
<1>7. ASSUME RemoveAllTypes
      PROVE  PromisedStep
  <2>1. arrays' = arrays /\ target' = target
    BY <1>7 DEF RemoveAllTypes
  <2>2. CASE ~Listened("removeListener")
    <3>1. events' = [t \in Type |-> Nothing] /\ stack' = stack
      BY <1>7, <2>2 DEF RemoveAllTypes
    <3>2. events' = [u \in Type |-> IF u \in Type THEN Nothing ELSE events[u]]
      BY <3>1
    <3>3. Type \in SUBSET Type /\ EmitsOf(stack') = EmitsOf(stack)
      BY <3>1
    <3> QED
      BY <2>1, <3>2, <3>3, NothingPromised
  <2>3. CASE Listened("removeListener")
    <3> DEFINE f == [at |-> "keys", todo |-> {t \in Type : Listened(t)},
                     seen |-> {"removeListener"}]
    <3>1. stack' = <<f>> \o stack /\ events' = events
      BY <1>7, <2>3 DEF RemoveAllTypes
    <3>2. f \in Frame /\ f.at # "emit"
      BY EmitterAssumption DEF Frame
    <3> HIDE DEF f
    <3>3. EmitsNow' = EmitsNow
      BY <1>1, <3>1, <3>2, EmitsPushed, MappedNow
    <3> QED
      BY <2>1, <3>1, <3>3, SameLists, PromisedStutter
  <2> QED
    BY <2>2, <2>3
<1> QED
  BY <1>2, <1>3, <1>4, <1>5, <1>6, <1>7 DEF ScriptCall

LEMMA InnerPromised ==
    ASSUME Kept, Kept', OthersOK,
           \/ WrapperStarts \/ WrapperCalls \/ FinishAdd \/ Drain
           \/ NextKey \/ KeysDone \/ Clear \/ ScriptReturns \/ ScriptThrows
    PROVE  PromisedStep
<1> DEFINE top == Head(stack)
<1> USE DEF At, onceVars
<1>1. stack \in Seq(Frame) /\ (stack # <<>> => top \in Frame)
  BY NowParts, HeadTail
<1>2. ASSUME WrapperStarts
      PROVE  PromisedStep
  <2> DEFINE f == [at |-> "once", listener |-> top.listener]
  <2>1. /\ stack # <<>> /\ top.at = "wrapper" /\ target' = target
        /\ Removed(top.type, top.listener, <<f>> \o Tail(stack))
    BY <1>2 DEF WrapperStarts
  <2>2. top.type \in Type /\ top.listener \in Wrapper
    BY <1>1, <2>1 DEF Frame
  <2>3. f \in Frame /\ f.at # "emit"
    BY <2>2 DEF Frame
  <2> HIDE DEF f
  <2> DEFINE below == <<f>> \o Tail(stack)
  <2>4. below \in Seq(Frame) /\ EmitsOf(below) = EmitsOf(stack)
    BY <2>1, <2>3, PoppedPromised
  <2> HIDE DEF top
  <2>5. top.listener \in Listener /\ Removed(top.type, top.listener, below)
    BY <2>1, <2>2, ListenerSets
  <2> HIDE DEF below
  <2> QED
    BY <2>1, <2>2, <2>4, <2>5, RemovedPromised
<1>3. ASSUME WrapperCalls
      PROVE  PromisedStep
  <2>1. /\ stack # <<>> /\ top.at = "once"
        /\ events' = events /\ arrays' = arrays /\ target' = target
        /\ stack' = <<Script>> \o Tail(stack) \/ stack' = Tail(stack)
    BY <1>3 DEF WrapperCalls
  <2>2. Script \in Frame /\ Script.at # "emit"
    BY DEF Script, Frame
  <2>3. EmitsOf(stack') = EmitsOf(stack)
    <3>1. CASE stack' = Tail(stack)
      BY <2>1, <3>1, PoppedPromised
    <3>2. CASE stack' = <<Script>> \o Tail(stack)
      <4> HIDE DEF Script
      <4>1. EmitsOf(<<Script>> \o Tail(stack)) = EmitsOf(stack)
        BY <2>1, <2>2, PoppedPromised
      <4> QED
        BY <3>2, <4>1
    <3> QED
      BY <2>1, <3>1, <3>2
  <2> QED
    BY <2>1, <2>3, SameLists, MappedNow, PromisedStutter
<1>4. ASSUME FinishAdd
      PROVE  PromisedStep
  <2>1. /\ stack # <<>> /\ top.at = "add" /\ stack' = Tail(stack) /\ target' = target
        /\ Appended(top.type, top.listener)
    BY <1>4 DEF FinishAdd
  <2>2. top.type \in Type /\ top.listener \in Listener
    BY <1>1, <2>1 DEF Frame
  <2>3. EmitsNow' = EmitsNow
    BY <2>1, PoppedPromised, MappedNow
  <2> HIDE DEF top
  <2>4. ListsNow' = [ListsNow EXCEPT ![top.type] = Append(@, top.listener)]
    BY <2>1, <2>2, AppendedLists, MappedNow DEF Kept
  <2> QED
    BY <2>1, <2>2, <2>3, <2>4, PromisedAdd
<1>5. ASSUME Drain
      PROVE  PromisedStep
  <2> DEFINE list == IF top.entry = Nothing THEN <<>> ELSE arrays[top.entry.array]
  <2>1. stack # <<>> /\ top.at = "drain" /\ target' = target
    BY <1>5 DEF Drain
  <2>2. /\ top.type \in Type
        /\ top.entry = Nothing \/ (top.entry = Many(top.entry.array)
                                    /\ top.entry.array \in ArrayId)
    BY <1>1, <2>1 DEF Frame, Many
  <2>3. list \in Seq(Listener)
    BY <2>2 DEF Kept, ListsOK
  <2>4. CASE list # <<>>
    <3>1. Removed(top.type, Last(list), stack)
      BY <1>5, <2>4 DEF Drain
    <3> HIDE DEF list, top
    <3>2. Last(list) \in Listener
      BY <2>3, <2>4 DEF Last
    <3> QED
      BY <1>1, <2>1, <2>2, <3>1, <3>2, RemovedPromised
  <2>5. CASE list = <<>>
    <3>1. /\ events' = [events EXCEPT ![top.type] = Nothing]
          /\ stack' = Tail(stack) /\ arrays' = arrays
      BY <1>5, <2>5 DEF Drain
    <3>2. EmitsOf(stack') = EmitsOf(stack)
      BY <2>1, <3>1, PoppedPromised
    <3> HIDE DEF list, top
    <3>3. events' = [u \in Type |-> IF u \in {top.type} THEN Nothing ELSE events[u]]
      BY <2>2, <3>1, OneNothing
    <3>4. {top.type} \in SUBSET Type
      BY <2>2
    <3> QED
      BY <2>1, <3>1, <3>2, <3>3, <3>4, NothingPromised
  <2> QED
    BY <2>4, <2>5
<1>6. ASSUME NextKey
      PROVE  PromisedStep
  <2>1. /\ stack # <<>> /\ top.at = "keys" /\ target' = target
        /\ \E t \in Type : RemovedAll(t, <<[top EXCEPT !.seen = @ \cup {t}]>> \o Tail(stack))
    BY <1>6 DEF NextKey
  <2>2. PICK t \in Type : RemovedAll(t, <<[top EXCEPT !.seen = @ \cup {t}]>> \o Tail(stack))
    BY <2>1
  <2> DEFINE f     == [top EXCEPT !.seen = @ \cup {t}]
             below == <<f>> \o Tail(stack)
  <2>3. f \in Frame /\ f.at # "emit"
    <3>1. top \in [at : {"keys"}, todo : SUBSET Type, seen : SUBSET Type]
      BY <1>1, <2>1 DEF Frame
    <3>2. f \in [at : {"keys"}, todo : SUBSET Type, seen : SUBSET Type]
      BY <3>1
    <3> QED
      BY <3>2 DEF Frame
  <2> HIDE DEF f
  <2>4. below \in Seq(Frame) /\ EmitsOf(below) = EmitsOf(stack)
    BY <2>1, <2>3, PoppedPromised
  <2>5. RemovedAll(t, below)
    BY <2>2 DEF f
  <2> HIDE DEF below
  <2> QED
    BY <2>1, <2>4, <2>5, RemovedAllPromised
<1>7. ASSUME KeysDone
      PROVE  PromisedStep
  <2> DEFINE f     == [at |-> "clear"]
             below == <<f>> \o Tail(stack)
  <2>1. /\ stack # <<>> /\ top.at = "keys" /\ target' = target
        /\ RemovedAll("removeListener", below)
    BY <1>7 DEF KeysDone
  <2>2. f \in Frame /\ f.at # "emit"
    BY DEF Frame
  <2> HIDE DEF f
  <2>3. below \in Seq(Frame) /\ EmitsOf(below) = EmitsOf(stack)
    BY <2>1, <2>2, PoppedPromised
  <2> HIDE DEF below
  <2> QED
    BY <2>1, <2>3, RemovedAllPromised, EmitterAssumption
<1>8. ASSUME Clear
      PROVE  PromisedStep
  <2>1. /\ stack # <<>> /\ top.at = "clear" /\ stack' = Tail(stack)
        /\ events' = [t \in Type |-> Nothing] /\ arrays' = arrays /\ target' = target
    BY <1>8 DEF Clear
  <2>2. events' = [u \in Type |-> IF u \in Type THEN Nothing ELSE events[u]]
    BY <2>1
  <2>3. Type \in SUBSET Type /\ EmitsOf(stack') = EmitsOf(stack)
    BY <2>1, PoppedPromised
  <2> QED
    BY <2>1, <2>2, <2>3, NothingPromised
<1>9. ASSUME ScriptReturns
      PROVE  PromisedStep
  <2>1. /\ stack # <<>> /\ top.at = "script" /\ stack' = Tail(stack)
        /\ events' = events /\ arrays' = arrays /\ target' = target
    BY <1>9 DEF ScriptReturns
  <2>2. EmitsNow' = EmitsNow
    BY <2>1, PoppedPromised, MappedNow
  <2> QED
    BY <2>1, <2>2, SameLists, PromisedStutter
<1>10. ASSUME ScriptThrows
       PROVE  PromisedStep
  BY <1>10, UnwindPromised DEF ScriptThrows
<1> QED
  BY <1>2, <1>3, <1>4, <1>5, <1>6, <1>7, <1>8, <1>9, <1>10

LEMMA ListsFirst ==
    Init => Lists!Init
<1> SUFFICES ASSUME Init
             PROVE  Lists!Init
  OBVIOUS
<1>1. ASSUME NEW t \in Type
      PROVE  ListsNow[t] = <<>>
  BY NoListeners DEF Init, ListsNow
<1>2. ListsNow = [t \in Type |-> <<>>]
  BY <1>1 DEF ListsNow
<1>3. DOMAIN EmitsNow = {}
  <2>1. DOMAIN AtDepth = {}
    BY DEF Init, AtDepth
  <2> QED
    BY <2>1 DEF EmitsNow
<1>4. target \in [DOMAIN target -> {None}]
  BY DEF Init
<1> QED
  BY <1>2, <1>3, <1>4 DEF Lists!Init

\* Whatever the arrays in _events, the copies emit makes of them and the calls that
\* are under way, an EventEmitter keeps the promise of ListenerLists: an emit calls
\* those that were listening when it began, in their order, one that is removed is
\* the last that matches, and every removal by name is told.
THEOREM ListsCorrect == Spec => ListsKept
<1>1. Kept /\ OthersOK /\ (Kept /\ OthersOK)' /\ [Next]_vars => PromisedStep
  <2>1. ASSUME Kept, OthersOK, Kept', Next
        PROVE  PromisedStep
    BY <2>1, CallPromised, CallNextPromised, EmitReturnsPromised, InnerPromised DEF Next
  <2>2. ASSUME UNCHANGED vars
        PROVE  PromisedStep
    <3>1. /\ events' = events /\ arrays' = arrays /\ target' = target
          /\ stack' = stack
      BY <2>2 DEF vars
    <3>2. EmitsNow' = EmitsNow
      BY <3>1, MappedNow
    <3> QED
      BY <3>1, <3>2, SameLists, PromisedStutter
  <2> QED
    BY <2>1, <2>2
<1> QED
  BY <1>1, ListsFirst, KeptAlways, PTL DEF Spec, ListsKept, PromisedStep, Lists!Spec

-----------------------------------------------------------------------------
(* Whom removeAllListeners tells, when listeners add no listeners. *)

\* What addListener has begun is the bottom of the stack then.
AddsLast(s) == \A i \in 1..Len(s) : s[i].at = "add" => i = Len(s)

Emptyings(s) == {f \in {s[i] : i \in 1..Len(s)} : f.at = "drain"}

\* The types of the frames have what was found there, or nothing, and nothing once the
\* array found is empty.
Gone(frames, ev, ar) ==
    \A f \in frames :
        /\ ev[f.type] \in {f.entry, Nothing}
        /\ f.entry # Nothing /\ ar[f.entry.array] = <<>> => ev[f.type] = Nothing

HeardInv ==
    /\ AddsLast(stack)
    /\ Gone(Emptyings(stack), events, arrays)
    /\ ~unheard

\* Types only lose what they have, and the arrays that become empty with it.
Shrunk(ev, ar, ev2, ar2) ==
    /\ \A t \in Type : ev2[t] \in {ev[t], Nothing}
    /\ \A a \in ArrayId : ar2[a] = <<>> => ar[a] = <<>> \/ \A t \in Type : ev2[t] # Many(a)

EmptyingFrame == {f \in Frame : f.at = "drain"}

LEMMA EmptyingFrameParts ==
    ASSUME NEW f \in EmptyingFrame
    PROVE  /\ f.type \in Type
           /\ f.entry # Nothing => f.entry.array \in ArrayId /\ f.entry = Many(f.entry.array)
BY DEF EmptyingFrame, Frame, Many, Nothing

LEMMA EmptyingsAreFrames ==
    ASSUME NEW s \in Seq(Frame)
    PROVE  Emptyings(s) \subseteq EmptyingFrame
BY DEF Emptyings, EmptyingFrame

LEMMA GoneStays ==
    ASSUME NEW ev, NEW ar, NEW ev2, NEW ar2, Shrunk(ev, ar, ev2, ar2),
           NEW frames \in SUBSET EmptyingFrame, Gone(frames, ev, ar)
    PROVE  Gone(frames, ev2, ar2)
<1> SUFFICES ASSUME NEW f \in frames
             PROVE  /\ ev2[f.type] \in {f.entry, Nothing}
                    /\ f.entry # Nothing /\ ar2[f.entry.array] = <<>> =>
                          ev2[f.type] = Nothing
  BY DEF Gone
<1>1. /\ f.type \in Type
      /\ f.entry # Nothing => f.entry.array \in ArrayId /\ f.entry = Many(f.entry.array)
  BY EmptyingFrameParts
<1>2. /\ ev[f.type] \in {f.entry, Nothing}
      /\ f.entry # Nothing /\ ar[f.entry.array] = <<>> => ev[f.type] = Nothing
  BY DEF Gone
<1>3. ev2[f.type] \in {ev[f.type], Nothing}
  BY <1>1 DEF Shrunk
<1>4. ASSUME f.entry # Nothing, ar2[f.entry.array] = <<>>
      PROVE  ev2[f.type] = Nothing
  <2>1. ar[f.entry.array] = <<>> \/ ev2[f.type] # f.entry
    BY <1>1, <1>4 DEF Shrunk
  <2> QED
    BY <1>2, <1>3, <1>4, <2>1
<1> QED
  BY <1>2, <1>3, <1>4

LEMMA HeardPushed ==
    ASSUME NEW s \in Seq(Frame), AddsLast(s), NEW f \in Frame, f.at # "add"
    PROVE  /\ <<f>> \o s \in Seq(Frame) /\ AddsLast(<<f>> \o s)
           /\ Emptyings(<<f>> \o s) \subseteq Emptyings(s) \cup {f}
           /\ f.at # "drain" => Emptyings(<<f>> \o s) \subseteq Emptyings(s)
<1> DEFINE p == <<f>> \o s
<1>1. /\ p \in Seq(Frame) /\ Len(p) = Len(s) + 1 /\ p[1] = f /\ Len(s) \in Nat
      /\ \A i \in 2..(Len(s) + 1) : p[i] = s[i - 1]
  BY Pushed
<1> HIDE DEF p
<1>2. \A i \in 1..Len(p) : i = 1 \/ (i - 1 \in 1..Len(s) /\ p[i] = s[i - 1])
  BY <1>1
<1>3. AddsLast(p)
  <2> SUFFICES ASSUME NEW i \in 1..Len(p), p[i].at = "add"
               PROVE  i = Len(p)
    BY DEF AddsLast
  <2>1. i - 1 \in 1..Len(s) /\ p[i] = s[i - 1]
    BY <1>1, <1>2
  <2>2. i - 1 = Len(s)
    BY <2>1 DEF AddsLast
  <2> QED
    BY <1>1, <2>2
<1>4. \A i \in 1..Len(p) : p[i] = f \/ p[i] \in {s[j] : j \in 1..Len(s)}
  BY <1>1, <1>2
<1> QED
  BY <1>1, <1>3, <1>4 DEF Emptyings, p

LEMMA HeardSuffix ==
    ASSUME NEW s \in Seq(Frame), AddsLast(s), NEW n \in 0..Len(s)
    PROVE  LET p == SubSeq(s, n + 1, Len(s))
           IN p \in Seq(Frame) /\ AddsLast(p) /\ Emptyings(p) \subseteq Emptyings(s)
<1> DEFINE p == SubSeq(s, n + 1, Len(s))
<1>1. /\ p \in Seq(Frame) /\ Len(p) = Len(s) - n /\ Len(s) \in Nat /\ n \in Nat
      /\ \A i \in 1..(Len(s) - n) : p[i] = s[i + n]
  OBVIOUS
<1> HIDE DEF p
<1>2. \A i \in 1..Len(p) : i + n \in 1..Len(s) /\ p[i] = s[i + n]
  BY <1>1
<1>3. AddsLast(p)
  <2> SUFFICES ASSUME NEW i \in 1..Len(p), p[i].at = "add"
               PROVE  i = Len(p)
    BY DEF AddsLast
  <2>1. i + n \in 1..Len(s) /\ p[i] = s[i + n]
    BY <1>2
  <2>2. i + n = Len(s)
    BY <2>1 DEF AddsLast
  <2>3. i \in Nat
    BY <1>1
  <2> QED
    BY <1>1, <2>2, <2>3
<1>4. Emptyings(p) \subseteq Emptyings(s)
  BY <1>2 DEF Emptyings
<1> QED
  BY <1>1, <1>3, <1>4 DEF p

LEMMA HeardTail ==
    ASSUME NEW s \in Seq(Frame), AddsLast(s), s # <<>>
    PROVE  /\ Tail(s) \in Seq(Frame) /\ AddsLast(Tail(s))
           /\ Emptyings(Tail(s)) \subseteq Emptyings(s)
           /\ Head(s) \in Frame
           /\ Head(s).at = "add" => Tail(s) = <<>>
           /\ Head(s).at = "drain" => Head(s) \in Emptyings(s)
<1>1. Len(s) \in Nat /\ Len(s) > 0 /\ Head(s) = s[1] /\ s[1] \in Frame /\ 1 \in 1..Len(s)
  BY EmptySeq
<1>2. Tail(s) = SubSeq(s, 1 + 1, Len(s))
  BY <1>1
<1>3. 1 \in 0..Len(s)
  BY <1>1
<1>4. Tail(s) \in Seq(Frame) /\ AddsLast(Tail(s)) /\ Emptyings(Tail(s)) \subseteq Emptyings(s)
  BY <1>2, <1>3, HeardSuffix
<1>5. ASSUME s[1].at = "add" PROVE Tail(s) = <<>>
  <2>1. Len(s) = 1
    BY <1>1, <1>5 DEF AddsLast
  <2>2. Len(Tail(s)) = 0 /\ Tail(s) \in Seq(Frame)
    BY <1>1, <2>1
  <2> QED
    BY <2>2, EmptySeq
<1> QED
  BY <1>1, <1>4, <1>5 DEF Emptyings

LEMMA EmissionHeard ==
    ASSUME NEW ev, NEW ar, ListsOK(ev, ar), NEW t \in Type,
           NEW below \in Seq(Frame), AddsLast(below)
    PROVE  /\ AddsLast(Emission(ev, ar, t, below))
           /\ Emptyings(Emission(ev, ar, t, below)) \subseteq Emptyings(below)
<1> DEFINE f == [at |-> "emit", type |-> t, rest |-> Listeners(ev, ar, t)]
<1>1. Listeners(ev, ar, t) \in Seq(Listener)
  BY ListenersType DEF ListsOK
<1>2. f \in Frame /\ f.at # "drain" /\ f.at # "add"
  BY <1>1 DEF Frame
<1>3. \/ Emission(ev, ar, t, below) = below
      \/ Emission(ev, ar, t, below) = <<f>> \o below
  BY DEF Emission
<1> HIDE DEF f
<1>4. AddsLast(<<f>> \o below) /\ Emptyings(<<f>> \o below) \subseteq Emptyings(below)
  BY <1>2, HeardPushed
<1> QED
  BY <1>3, <1>4

\* removeListener takes away the last of a type's listeners, and its entry then.
LEMMA RemovedShrinks ==
    ASSUME ListsOK(events, arrays), NEW t \in Type, NEW l,
           NEW below \in Seq(Frame), AddsLast(below), Removed(t, l, below),
           ListsOK(events', arrays')
    PROVE  /\ Shrunk(events, arrays, events', arrays')
           /\ AddsLast(stack') /\ Emptyings(stack') \subseteq Emptyings(below)
<1> DEFINE list == Listeners(events, arrays, t)
           i == Position(list, l)
<1>1. /\ events \in [Type -> Entry] /\ arrays \in [ArrayId -> Seq(Listener)]
      /\ "removeListener" \in Type
  BY EmitterAssumption DEF ListsOK
<1>2. /\ list \in Seq(Listener)
      /\ events[t].is = "array" => list = arrays[events[t].array]
      /\ events[t].is = "function" => list = <<events[t].listener>>
      /\ events[t].is = "nothing" => list = <<>>
  BY <1>1, ListenersType
<1>3. i \in 0..Len(list) /\ Len(list) \in Nat
  BY <1>2, PositionIn
<1>4. CASE i = 0
  <2>1. events' = events /\ arrays' = arrays /\ stack' = below
    BY <1>4 DEF Removed
  <2> QED
    BY <2>1 DEF Shrunk
<1>5. CASE i # 0
  <2>1. /\ arrays' = IF events[t].is = "array" THEN Without(arrays, events[t].array, i)
                     ELSE arrays
        /\ events' = IF Len(list) = 1 THEN [events EXCEPT ![t] = Nothing] ELSE events
        /\ stack' = Emission(events', arrays', "removeListener", below)
    BY <1>5 DEF Removed, Left
  <2> HIDE DEF list, i
  <2>2. i \in 1..Len(list) /\ list # <<>>
    BY <1>2, <1>3, <1>5, EmptySeq
  <2>3. /\ RemoveAt(list, i) \in Seq(Listener)
        /\ Len(RemoveAt(list, i)) = Len(list) - 1
    BY <1>2, <2>2, RemovedAt
  <2>4. /\ \A u \in Type : events'[u] \in {events[u], Nothing}
        /\ Len(list) = 1 => events'[t] = Nothing
    BY <1>1, <2>1
  <2>5. ASSUME NEW a \in ArrayId, arrays'[a] = <<>>, arrays[a] # <<>>
        PROVE  \A u \in Type : events'[u] # Many(a)
    <3> DEFINE id == events[t].array
    <3>1. events[t].is = "array"
      BY <2>1, <2>5
    <3>2. id \in ArrayId /\ events[t] = Many(id)
      BY <1>1, <3>1, EntryCases
    <3>3. /\ arrays' = [arrays EXCEPT ![id] = RemoveAt(list, i)]
      BY <1>2, <2>1, <3>1 DEF Without
    <3>4. a = id /\ RemoveAt(list, i) = <<>>
      BY <1>1, <2>5, <3>2, <3>3
    <3>5. Len(list) = 1
      BY <1>3, <2>3, <3>4, EmptySeq
    <3>6. ASSUME NEW u \in Type, events'[u] = Many(a)
          PROVE  FALSE
      <4>1. Many(a) # Nothing
        BY EntriesDiffer
      <4>2. events[u] = events[t]
        BY <2>4, <3>2, <3>4, <3>6, <4>1
      <4>3. u = t
        BY <3>1, <4>2 DEF ListsOK
      <4> QED
        BY <2>4, <3>5, <3>6, <4>1, <4>3
    <3> QED
      BY <3>6
  <2>6. Shrunk(events, arrays, events', arrays')
    BY <2>4, <2>5 DEF Shrunk
  <2>7. AddsLast(stack') /\ Emptyings(stack') \subseteq Emptyings(below)
    BY <1>1, <2>1, EmissionHeard
  <2> QED
    BY <2>6, <2>7
<1> QED
  BY <1>4, <1>5
LEMMA FewerGone ==
    ASSUME NEW ev, NEW ar, NEW frames, Gone(frames, ev, ar), NEW fewer \in SUBSET frames
    PROVE  Gone(fewer, ev, ar)
BY DEF Gone

\* The entry of a type that has one function is found by it.
LEMMA FunctionRemoved ==
    ASSUME ListsOK(events, arrays), NEW t \in Type, events[t].is = "function",
           NEW below, Removed(t, events[t].listener, below)
    PROVE  events'[t] = Nothing
<1> DEFINE l == events[t].listener
           list == Listeners(events, arrays, t)
<1>1. events \in [Type -> Entry] /\ arrays \in [ArrayId -> Seq(Listener)]
  BY DEF ListsOK
<1>2. list = <<l>>
  BY <1>1, ListenersType
<1>3. l \in Listener
  BY <1>1, EntryCases
<1>4. list \in Seq(Listener) /\ Len(list) = 1 /\ list[1] = l
  BY <1>2, <1>3
<1>5. Matches(l, l)
  BY DEF Matches
<1>6. Position(list, l) # 0
  <2> HIDE DEF list, l
  <2> DEFINE found == {k \in 1..Len(list) : Matches(list[k], l)}
  <2>1. 1 \in found /\ found \in SUBSET (1..Len(list))
    BY <1>4, <1>5
  <2>2. Position(list, l) = Max(found)
    BY <2>1 DEF Position
  <2> HIDE DEF found
  <2>3. Max(found) \in 1..Len(list)
    BY <1>4, <2>1, MaxIn
  <2> QED
    BY <1>4, <2>2, <2>3
<1>7. events' = [events EXCEPT ![t] = Nothing]
  BY <1>4, <1>6 DEF Removed, Left
<1> QED
  BY <1>1, <1>7

LEMMA RemovedAllHeard ==
    ASSUME ListsOK(events, arrays), NEW t \in Type, NEW below \in Seq(Frame),
           AddsLast(below), Gone(Emptyings(below), events, arrays), RemovedAll(t, below),
           ListsOK(events', arrays')
    PROVE  AddsLast(stack') /\ Gone(Emptyings(stack'), events', arrays')
<1>1. /\ events \in [Type -> Entry] /\ arrays \in [ArrayId -> Seq(Listener)]
      /\ Emptyings(below) \in SUBSET EmptyingFrame
  BY EmptyingsAreFrames DEF ListsOK
<1>2. CASE ~Listened("removeListener")
  <2>1. events' = [events EXCEPT ![t] = Nothing] /\ arrays' = arrays /\ stack' = below
    BY <1>2 DEF RemovedAll
  <2>2. Shrunk(events, arrays, events', arrays')
    BY <1>1, <2>1 DEF Shrunk
  <2>3. Gone(Emptyings(below), events', arrays')
    BY <1>1, <2>2, GoneStays
  <2> QED
    BY <2>1, <2>3
<1>3. CASE Listened("removeListener") /\ events[t].is = "function"
  <2> DEFINE f == [at |-> "drain", type |-> t, entry |-> Nothing]
  <2>1. Removed(t, events[t].listener, <<f>> \o below)
    BY <1>3 DEF RemovedAll
  <2>2. f \in Frame /\ f.at = "drain" /\ f.type = t /\ f.entry = Nothing
    BY DEF Frame
  <2> HIDE DEF f
  <2>3. /\ <<f>> \o below \in Seq(Frame) /\ AddsLast(<<f>> \o below)
        /\ Emptyings(<<f>> \o below) \subseteq Emptyings(below) \cup {f}
    BY <2>2, HeardPushed
  <2>4. /\ Shrunk(events, arrays, events', arrays') /\ AddsLast(stack')
        /\ Emptyings(stack') \subseteq Emptyings(<<f>> \o below)
    BY <2>1, <2>3, RemovedShrinks
  <2>5. Gone(Emptyings(below), events', arrays')
    BY <1>1, <2>4, GoneStays
  <2>6. events'[t] = Nothing
    BY <1>3, <2>1, FunctionRemoved
  <2>7. Gone({f}, events', arrays')
    BY <2>2, <2>6 DEF Gone
  <2> QED
    BY <2>3, <2>4, <2>5, <2>7 DEF Gone
<1>4. CASE Listened("removeListener") /\ events[t].is # "function"
  <2> DEFINE f == [at |-> "drain", type |-> t, entry |-> events[t]]
  <2>1. stack' = <<f>> \o below /\ events' = events /\ arrays' = arrays
    BY <1>4 DEF RemovedAll
  <2>2. \/ events[t] = Nothing
        \/ events[t] \in {Many(id) : id \in ArrayId} /\ events[t].is = "array"
    BY <1>1, <1>4, EntryCases
  <2>3. f \in Frame /\ f.at = "drain" /\ f.type = t /\ f.entry = events[t]
    BY <2>2 DEF Frame
  <2> HIDE DEF f
  <2>4. /\ AddsLast(<<f>> \o below)
        /\ Emptyings(<<f>> \o below) \subseteq Emptyings(below) \cup {f}
    BY <2>3, HeardPushed
  <2>5. events[t] # Nothing => arrays[events[t].array] # <<>>
    BY <2>2 DEF ListsOK
  <2>6. Gone({f}, events, arrays)
    BY <2>3, <2>5 DEF Gone
  <2> QED
    BY <2>1, <2>4, <2>6 DEF Gone
<1> QED
  BY <1>2, <1>3, <1>4

LEMMA AddedHeard ==
    ASSUME Kept, stack = <<>>, NEW t \in Type, NEW l \in Listener, Added(t, l)
    PROVE  AddsLast(stack') /\ Gone(Emptyings(stack'), events', arrays')
<1>1. AddsLast(stack) /\ Emptyings(stack) = {} /\ stack \in Seq(Frame)
  <2>1. 1..Len(stack) = {}
    OBVIOUS
  <2> QED
    BY <2>1 DEF AddsLast, Emptyings
<1>2. CASE Listened("newListener")
  <2> DEFINE f == [at |-> "add", type |-> t, listener |-> l]
  <2>1. f \in Frame /\ f.at = "add"
    BY DEF Frame
  <2>2. stack' = Emission(events, arrays, "newListener", <<f>> \o stack)
    BY <1>2 DEF Added
  <2> HIDE DEF f
  <2>3. /\ <<f>> \o stack \in Seq(Frame) /\ Len(<<f>> \o stack) = Len(stack) + 1
        /\ (<<f>> \o stack)[1] = f
    BY <1>1, <2>1, Pushed
  <2>4. 1..Len(<<f>> \o stack) = {1} /\ Len(<<f>> \o stack) = 1
    BY <2>3
  <2>5. AddsLast(<<f>> \o stack) /\ Emptyings(<<f>> \o stack) = {}
    BY <2>1, <2>3, <2>4 DEF AddsLast, Emptyings
  <2>6. AddsLast(stack') /\ Emptyings(stack') = {}
    BY <2>2, <2>3, <2>5, EmissionHeard, EmitterAssumption DEF Kept
  <2> QED
    BY <2>6 DEF Gone
<1>3. CASE ~Listened("newListener")
  <2>1. stack' = stack
    BY <1>3 DEF Added
  <2> QED
    BY <1>1, <2>1 DEF Gone
<1> QED
  BY <1>2, <1>3
LEMMA HeardFirst == Init => HeardInv
<1> SUFFICES ASSUME Init PROVE HeardInv
  OBVIOUS
<1>1. stack = <<>> /\ 1..Len(stack) = {} /\ unheard = FALSE
  BY DEF Init
<1> QED
  BY <1>1 DEF HeardInv, AddsLast, Emptyings, Gone

\* Frames come and go, and nothing else changes.
LEMMA QuietHeard ==
    ASSUME Kept, HeardInv, UNCHANGED <<events, arrays, unheard>>, AddsLast(stack'),
           Emptyings(stack') \subseteq Emptyings(stack)
    PROVE  HeardInv'
BY FewerGone DEF HeardInv

LEMMA UnwindHeard ==
    ASSUME Kept, HeardInv, Unwind
    PROVE  AddsLast(stack') /\ Emptyings(stack') \subseteq Emptyings(stack)
BY HeardSuffix DEF Kept, StackOK, HeardInv, Unwind

LEMMA RemovedHeard ==
    ASSUME Kept, Kept', HeardInv, UNCHANGED unheard, NEW t \in Type, NEW l,
           NEW below \in Seq(Frame), AddsLast(below),
           Emptyings(below) \subseteq Emptyings(stack), Removed(t, l, below)
    PROVE  HeardInv'
<1>1. ListsOK(events, arrays) /\ ListsOK(events', arrays')
  BY DEF Kept
<1>2. /\ Shrunk(events, arrays, events', arrays') /\ AddsLast(stack')
      /\ Emptyings(stack') \subseteq Emptyings(below)
  BY <1>1, RemovedShrinks
<1>3. Gone(Emptyings(stack'), events, arrays) /\ Emptyings(stack') \subseteq EmptyingFrame
  BY <1>2, FewerGone, EmptyingsAreFrames DEF HeardInv, Kept, StackOK
<1>4. Gone(Emptyings(stack'), events', arrays')
  BY <1>2, <1>3, GoneStays
<1> QED
  BY <1>2, <1>4 DEF HeardInv

LEMMA DrainHeard ==
    ASSUME Kept, Kept', HeardInv, Drain
    PROVE  HeardInv'
<1> DEFINE frame == Head(stack)
           list  == IF frame.entry = Nothing THEN <<>> ELSE arrays[frame.entry.array]
<1>1. stack # <<>> /\ frame.at = "drain"
  BY DEF Drain, At
<1>2. /\ Tail(stack) \in Seq(Frame) /\ AddsLast(Tail(stack))
      /\ Emptyings(Tail(stack)) \subseteq Emptyings(stack)
      /\ frame \in Emptyings(stack) /\ frame \in Frame
  BY <1>1, HeardTail DEF HeardInv, Kept, StackOK
<1>3. frame.type \in Type
  BY <1>1, <1>2 DEF Frame
<1>4. CASE list # <<>>
  <2>1. Removed(frame.type, Last(list), stack) /\ UNCHANGED unheard
    BY <1>4 DEF Drain
  <2> QED
    BY <1>3, <2>1, RemovedHeard DEF Kept, StackOK, HeardInv
<1>5. CASE list = <<>>
  <2>1. /\ events' = [events EXCEPT ![frame.type] = Nothing]
        /\ unheard' = (unheard \/ Unheard(frame.type))
        /\ stack' = Tail(stack) /\ arrays' = arrays
    BY <1>5 DEF Drain
  <2>2. events[frame.type] = Nothing
    BY <1>2, <1>5 DEF HeardInv, Gone
  <2>3. events' = events
    BY <1>3, <2>1, <2>2 DEF Kept, ListsOK
  <2>4. ~unheard'
    BY <2>1, <2>2 DEF Unheard, Listened, HeardInv
  <2> QED
    BY <1>2, <2>1, <2>3, <2>4, FewerGone DEF HeardInv
<1> QED
  BY <1>4, <1>5

LEMMA CallHeard ==
    ASSUME Kept, Kept', HeardInv, ScriptCall,
           "addListener" \notin Inside, "once" \notin Inside
    PROVE  HeardInv'
<1>1. /\ stack \in Seq(Frame) /\ ListsOK(events, arrays) /\ ListsOK(events', arrays')
      /\ AddsLast(stack) /\ Gone(Emptyings(stack), events, arrays) /\ ~unheard
  BY DEF Kept, StackOK, HeardInv
<1>2. ASSUME NEW t \in Type, Emit(t)
      PROVE  HeardInv'
  <2>1. UNCHANGED <<events, arrays, unheard>>
    BY <1>2 DEF Emit
  <2>2. Unwind \/ stack' = Emission(events, arrays, t, stack)
    BY <1>2 DEF Emit
  <2>3. AddsLast(stack') /\ Emptyings(stack') \subseteq Emptyings(stack)
    BY <1>1, <2>2, EmissionHeard, UnwindHeard
  <2> QED
    BY <2>1, <2>3, QuietHeard
<1>3. ASSUME NEW t \in Type, RemoveAllListeners(t)
      PROVE  HeardInv'
  <2>1. RemovedAll(t, stack) /\ unheard' = unheard
    BY <1>3 DEF RemoveAllListeners
  <2>2. AddsLast(stack') /\ Gone(Emptyings(stack'), events', arrays')
    BY <1>1, <2>1, RemovedAllHeard
  <2> QED
    BY <1>1, <2>1, <2>2 DEF HeardInv
<1>4. ASSUME NEW t \in Type, NEW l \in Plain, AddListener(t, l) \/ Once(t, l)
      PROVE  HeardInv'
  <2>1. stack = <<>> /\ unheard' = unheard
    BY <1>4 DEF AddListener, Once, Calls, historyVars
  <2>2. \E k \in Listener : Added(t, k)
    BY <1>4, ListenerSets DEF AddListener, Once
  <2>3. AddsLast(stack') /\ Gone(Emptyings(stack'), events', arrays')
    BY <2>1, <2>2, AddedHeard
  <2> QED
    BY <1>1, <2>1, <2>3 DEF HeardInv
<1>5. ASSUME NEW t \in Type, NEW l \in Plain, RemoveListener(t, l)
      PROVE  HeardInv'
  BY <1>1, <1>5, RemovedHeard DEF RemoveListener
<1>6. ASSUME RemoveAllTypes
      PROVE  HeardInv'
  <2>1. arrays' = arrays /\ unheard' = unheard
    BY <1>6 DEF RemoveAllTypes
  <2>2. CASE ~Listened("removeListener")
    <3>1. stack' = stack /\ events' = [t \in Type |-> Nothing]
      BY <1>6, <2>2 DEF RemoveAllTypes
    <3>2. Shrunk(events, arrays, events', arrays')
      BY <2>1, <3>1 DEF Shrunk
    <3>3. Gone(Emptyings(stack), events', arrays')
      BY <1>1, <3>2, GoneStays, EmptyingsAreFrames
    <3> QED
      BY <1>1, <2>1, <3>1, <3>3 DEF HeardInv
  <2>3. CASE Listened("removeListener")
    <3> DEFINE f == [at |-> "keys", todo |-> {t \in Type : Listened(t)},
                     seen |-> {"removeListener"}]
    <3>1. stack' = <<f>> \o stack /\ events' = events
      BY <1>6, <2>3 DEF RemoveAllTypes
    <3>2. f \in Frame /\ f.at = "keys"
      BY EmitterAssumption DEF Frame
    <3> HIDE DEF f
    <3>3. AddsLast(stack') /\ Emptyings(stack') \subseteq Emptyings(stack)
      BY <1>1, <3>1, <3>2, HeardPushed
    <3> QED
      BY <2>1, <3>1, <3>3, QuietHeard
  <2> QED
    BY <2>2, <2>3
<1> QED
  BY <1>2, <1>3, <1>4, <1>5, <1>6 DEF ScriptCall

LEMMA InnerHeard ==
    ASSUME Kept, Kept', HeardInv,
           \/ CallNext \/ EmitReturns \/ WrapperStarts \/ WrapperCalls \/ FinishAdd
           \/ NextKey \/ KeysDone \/ Clear \/ ScriptReturns \/ ScriptThrows
    PROVE  HeardInv'
<1> USE DEF At
<1>1. /\ stack \in Seq(Frame) /\ ListsOK(events, arrays) /\ ListsOK(events', arrays')
      /\ AddsLast(stack) /\ Gone(Emptyings(stack), events, arrays) /\ ~unheard
  BY DEF Kept, StackOK, HeardInv
<1> DEFINE top == Head(stack)
           rest == Tail(stack)
<1>2. unheard' = unheard
  BY DEF CallNext, EmitReturns, WrapperStarts, WrapperCalls, FinishAdd, NextKey, KeysDone,
         Clear, ScriptReturns, ScriptThrows
<1>3. stack # <<>>
  BY DEF CallNext, EmitReturns, WrapperStarts, WrapperCalls, FinishAdd, NextKey, KeysDone,
         Clear, ScriptReturns, ScriptThrows
<1>4. /\ rest \in Seq(Frame) /\ AddsLast(rest) /\ Emptyings(rest) \subseteq Emptyings(stack)
      /\ top \in Frame /\ (top.at = "add" => rest = <<>>)
  BY <1>1, <1>3, HeardTail
<1>5. Gone(Emptyings(rest), events, arrays)
  BY <1>1, <1>4, FewerGone
<1>6. ASSUME CallNext
      PROVE  HeardInv'
  <2> DEFINE l      == Head(top.rest)
             called == IF l \in Wrapper
                       THEN [at |-> "wrapper", type |-> top.type, listener |-> l]
                       ELSE Script
             left   == [top EXCEPT !.rest = Tail(@)]
  <2>1. /\ top.at = "emit" /\ top.rest # <<>>
        /\ stack' = <<called, left>> \o rest /\ UNCHANGED <<events, arrays>>
    BY <1>6 DEF CallNext
  <2>2. top \in [at : {"emit"}, type : Type, rest : Seq(Listener)]
    BY <1>4, <2>1 DEF Frame
  <2>3. left \in Frame /\ left.at = "emit"
    <3>1. Tail(top.rest) \in Seq(Listener)
      BY <2>1, <2>2
    <3>2. left \in [at : {"emit"}, type : Type, rest : Seq(Listener)]
      BY <2>2, <3>1
    <3> QED
      BY <3>2 DEF Frame
  <2>4. called \in Frame /\ called.at \in {"wrapper", "script"}
    BY <2>2 DEF Frame, Script
  <2> HIDE DEF called, left, top, rest
  <2>5. stack' = <<called>> \o (<<left>> \o rest)
    BY <1>4, <2>1, <2>3, <2>4, TwoPushed
  <2>6. /\ <<left>> \o rest \in Seq(Frame) /\ AddsLast(<<left>> \o rest)
        /\ Emptyings(<<left>> \o rest) \subseteq Emptyings(rest)
    BY <1>4, <2>3, HeardPushed
  <2>7. called.at # "add" /\ called.at # "drain"
    BY <2>4
  <2>8. AddsLast(stack') /\ Emptyings(stack') \subseteq Emptyings(<<left>> \o rest)
    BY <2>4, <2>5, <2>6, <2>7, HeardPushed
  <2> QED
    BY <1>2, <1>4, <2>1, <2>6, <2>8, QuietHeard
<1>7. ASSUME EmitReturns \/ ScriptReturns
      PROVE  HeardInv'
  BY <1>4, <1>7, QuietHeard DEF EmitReturns, ScriptReturns
<1>8. ASSUME WrapperStarts
      PROVE  HeardInv'
  <2> DEFINE f == [at |-> "once", listener |-> top.listener]
  <2>1. top.at = "wrapper" /\ Removed(top.type, top.listener, <<f>> \o rest)
    BY <1>8 DEF WrapperStarts
  <2>2. top.type \in Type /\ top.listener \in Wrapper
    BY <1>4, <2>1 DEF Frame
  <2>3. f \in Frame /\ f.at = "once"
    BY <2>2 DEF Frame
  <2> HIDE DEF f
  <2>4. /\ <<f>> \o rest \in Seq(Frame) /\ AddsLast(<<f>> \o rest)
        /\ Emptyings(<<f>> \o rest) \subseteq Emptyings(rest)
    BY <1>4, <2>3, HeardPushed
  <2> QED
    BY <1>2, <1>4, <2>1, <2>2, <2>4, RemovedHeard
<1>9. ASSUME WrapperCalls
      PROVE  HeardInv'
  <2>1. /\ UNCHANGED <<events, arrays>>
        /\ stack' = <<Script>> \o rest \/ stack' = rest
    BY <1>9 DEF WrapperCalls
  <2>2. Script \in Frame /\ Script.at = "script"
    BY DEF Script, Frame
  <2>3. AddsLast(<<Script>> \o rest) /\ Emptyings(<<Script>> \o rest) \subseteq Emptyings(rest)
    BY <1>4, <2>2, HeardPushed
  <2> QED
    BY <1>2, <1>4, <2>1, <2>3, QuietHeard
<1>10. ASSUME FinishAdd
       PROVE  HeardInv'
  <2>1. top.at = "add" /\ stack' = rest
    BY <1>10 DEF FinishAdd
  <2>2. stack' = <<>> /\ 1..Len(stack') = {}
    BY <1>4, <2>1
  <2>3. AddsLast(stack') /\ Emptyings(stack') = {}
    BY <2>2 DEF AddsLast, Emptyings
  <2> QED
    BY <1>1, <1>2, <2>3 DEF HeardInv, Gone
<1>11. ASSUME NextKey
       PROVE  HeardInv'
  <2>1. top.at = "keys" /\ \E t \in Type :
           RemovedAll(t, <<[top EXCEPT !.seen = @ \cup {t}]>> \o rest)
    BY <1>11 DEF NextKey
  <2>2. PICK t \in Type : RemovedAll(t, <<[top EXCEPT !.seen = @ \cup {t}]>> \o rest)
    BY <2>1
  <2> DEFINE f == [top EXCEPT !.seen = @ \cup {t}]
  <2>3. top \in [at : {"keys"}, todo : SUBSET Type, seen : SUBSET Type]
    BY <1>4, <2>1 DEF Frame
  <2>4. f \in Frame /\ f.at = "keys"
    <3>1. f \in [at : {"keys"}, todo : SUBSET Type, seen : SUBSET Type]
      BY <2>3
    <3> QED
      BY <3>1 DEF Frame
  <2>5. RemovedAll(t, <<f>> \o rest)
    BY <2>2
  <2> HIDE DEF f, top, rest
  <2>6. /\ <<f>> \o rest \in Seq(Frame) /\ AddsLast(<<f>> \o rest)
        /\ Emptyings(<<f>> \o rest) \subseteq Emptyings(rest)
    BY <1>4, <2>4, HeardPushed
  <2>7. Gone(Emptyings(<<f>> \o rest), events, arrays)
    BY <1>5, <2>6, FewerGone
  <2>8. AddsLast(stack') /\ Gone(Emptyings(stack'), events', arrays')
    BY <1>1, <2>5, <2>6, <2>7, RemovedAllHeard
  <2> QED
    BY <1>1, <1>2, <2>8 DEF HeardInv
<1>12. ASSUME KeysDone
       PROVE  HeardInv'
  <2> DEFINE f == [at |-> "clear"]
  <2>1. RemovedAll("removeListener", <<f>> \o rest)
    BY <1>12 DEF KeysDone
  <2>2. f \in Frame /\ f.at = "clear"
    BY DEF Frame
  <2> HIDE DEF f, top, rest
  <2>3. /\ <<f>> \o rest \in Seq(Frame) /\ AddsLast(<<f>> \o rest)
        /\ Emptyings(<<f>> \o rest) \subseteq Emptyings(rest)
    BY <1>4, <2>2, HeardPushed
  <2>4. Gone(Emptyings(<<f>> \o rest), events, arrays)
    BY <1>5, <2>3, FewerGone
  <2>5. AddsLast(stack') /\ Gone(Emptyings(stack'), events', arrays')
    BY <1>1, <2>1, <2>3, <2>4, RemovedAllHeard, EmitterAssumption
  <2> QED
    BY <1>1, <1>2, <2>5 DEF HeardInv
<1>13. ASSUME Clear
       PROVE  HeardInv'
  <2>1. /\ stack' = rest /\ events' = [t \in Type |-> Nothing] /\ arrays' = arrays
    BY <1>13 DEF Clear
  <2>2. Shrunk(events, arrays, events', arrays')
    BY <2>1 DEF Shrunk
  <2>3. Gone(Emptyings(rest), events', arrays')
    BY <1>4, <1>5, <2>2, GoneStays, EmptyingsAreFrames
  <2> QED
    BY <1>1, <1>2, <1>4, <2>1, <2>3 DEF HeardInv
<1>14. ASSUME ScriptThrows
       PROVE  HeardInv'
  <2>1. UNCHANGED <<events, arrays>> /\ Unwind
    BY <1>14 DEF ScriptThrows
  <2> QED
    BY <1>2, <2>1, UnwindHeard, QuietHeard
<1> QED
  BY <1>6, <1>7, <1>8, <1>9, <1>10, <1>11, <1>12, <1>13, <1>14

\* When listeners add no listeners, removeAllListeners tells those that listen for
\* removals of every listener it drops, whatever else listeners do meanwhile: throw,
\* emit, remove listeners or call removeAllListeners again.
THEOREM RemovalsHeard ==
    ASSUME "addListener" \notin Inside, "once" \notin Inside
    PROVE  Spec => []AllHeard
<1>1. ASSUME Kept, Kept', HeardInv, [Next]_vars
      PROVE  HeardInv'
  <2>1. CASE Next
    BY <1>1, <2>1, CallHeard, DrainHeard, InnerHeard DEF Next
  <2>2. CASE UNCHANGED vars
    BY <1>1, <2>2 DEF vars, HeardInv, AddsLast, Emptyings, Gone
  <2> QED
    BY <1>1, <2>1, <2>2
<1>2. HeardInv => AllHeard
  BY DEF HeardInv, AllHeard
<1>3. Kept /\ Kept' /\ HeardInv /\ [Next]_vars => HeardInv'
  BY <1>1
<1> QED
  BY <1>2, <1>3, HeardFirst, KeptAlways, PTL DEF Spec
=============================================================================
