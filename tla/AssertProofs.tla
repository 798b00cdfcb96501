----------------------------- MODULE AssertProofs -----------------------------
(***************************************************************************)
(* Proofs of what MCLibrary states of the assertions of Assert, for heaps  *)
(* of any number of objects.  DeepEqual is taken from a table of verdicts  *)
(* for each depth of the recursion: a verdict once there stays in all      *)
(* deeper tables, is the same both ways round, and what is not settled at  *)
(* the last depth, more than there are pairs of objects, never is, for the *)
(* recursion has come to a pair again.                                     *)
(***************************************************************************)
EXTENDS LibraryProofs

Verdicts == {"equal", "different", "overflow"}

(* The loop over the properties. *)

\* v is the last of the n verdicts vs that is not "equal", if there is one.
Settles(vs, n, v) ==
    \/ v = "equal" /\ \A j \in 1..n : vs[j] = "equal"
    \/ \E i \in 1..n : vs[i] = v /\ v # "equal" /\ \A j \in 1..n : j > i => vs[j] = "equal"

LEMMA SettlesOnce ==
    ASSUME NEW n \in Nat, NEW vs, NEW v, NEW w, Settles(vs, n, v), Settles(vs, n, w)
    PROVE  v = w
BY DEF Settles

LEMMA SettlesNext ==
    ASSUME NEW n \in Nat, NEW vs, NEW v, Settles(vs, n, v)
    PROVE  Settles(vs, n + 1, IF vs[n + 1] = "equal" THEN v ELSE vs[n + 1])
<1>1. 1..(n + 1) = 1..n \cup {n + 1}
  OBVIOUS
<1>2. CASE vs[n + 1] # "equal"
  <2>1. n + 1 \in 1..(n + 1) /\ \A j \in 1..(n + 1) : ~(j > n + 1)
    OBVIOUS
  <2> QED
    BY <1>2, <2>1 DEF Settles
<1>3. CASE vs[n + 1] = "equal" /\ v = "equal" /\ \A j \in 1..n : vs[j] = "equal"
  BY <1>1, <1>3 DEF Settles
<1>4. CASE vs[n + 1] = "equal" /\ ~(v = "equal" /\ \A j \in 1..n : vs[j] = "equal")
  <2>1. PICK i \in 1..n : vs[i] = v /\ v # "equal" /\ \A j \in 1..n : j > i => vs[j] = "equal"
    BY <1>4 DEF Settles
  <2>2. \A j \in 1..(n + 1) : j > i => vs[j] = "equal"
    BY <1>1, <1>4, <2>1
  <2>3. i \in 1..(n + 1)
    BY <1>1
  <2> QED
    BY <1>4, <2>1, <2>2, <2>3 DEF Settles
<1> QED
  BY <1>2, <1>3, <1>4

\* What is found of the properties of two objects, by the place of their name.
Below(heap, order, deeper, a, b) ==
    [i \in 1..Len(order) |->
        IF order[i] \notin Keys(heap, a) THEN "equal"
        ELSE deeper[<<heap[a].own[order[i]], heap[b].own[order[i]]>>]]

\* The loop, as a function.
LoopOf(heap, order, deeper, a, b) ==
    LET upTo[i \in 0..Len(order)] ==
            IF i = 0 THEN "equal"
            ELSE LET key == order[i]
                     verdict == IF key \notin Keys(heap, a) THEN "equal"
                                ELSE deeper[<<heap[a].own[key], heap[b].own[key]>>]
                 IN IF verdict = "equal" THEN upTo[i - 1] ELSE verdict
    IN upTo

LEMMA LoopIs ==
    ASSUME NEW heap, NEW S, NEW order \in Seq(S), NEW deeper, NEW a, NEW b,
           Below(heap, order, deeper, a, b) \in [1..Len(order) -> Verdicts]
    PROVE  /\ ComparedProperties(heap, order, deeper, a, b) \in Verdicts
           /\ Settles(Below(heap, order, deeper, a, b), Len(order),
                    ComparedProperties(heap, order, deeper, a, b))
<1> DEFINE N == Len(order)
           vs == Below(heap, order, deeper, a, b)
           next == [i \in 1..N |-> [v \in Verdicts |-> IF vs[i] = "equal" THEN v ELSE vs[i]]]
           up == LoopOf(heap, order, deeper, a, b)
           e == "equal"
<1>1. N \in Nat /\ vs \in [1..N -> Verdicts]
  OBVIOUS
<1>2. \A i \in 1..N : vs[i] = IF order[i] \notin Keys(heap, a) THEN e
                              ELSE deeper[<<heap[a].own[order[i]], heap[b].own[order[i]]>>]
  BY DEF Below
<1>3. e \in Verdicts
  BY DEF Verdicts
<1> DEFINE Level(g, i) ==
              IF i = 0 THEN e
              ELSE LET key == order[i]
                       verdict == IF key \notin Keys(heap, a) THEN e
                                  ELSE deeper[<<heap[a].own[key], heap[b].own[key]>>]
                   IN IF verdict = e THEN g[i - 1] ELSE verdict
<1>4. up = CHOOSE g : g = [i \in 0..N |-> Level(g, i)]
  BY Zenon DEF LoopOf
<1>5. ComparedProperties(heap, order, deeper, a, b) = up[N]
  BY DEF ComparedProperties, LoopOf
<1> HIDE DEF N, vs, up
<1>6. \A g : \A i \in 1..N : Level(g, i) = IF vs[i] = e THEN g[i - 1] ELSE vs[i]
  BY <1>1, <1>2
<1>7. \A g : Level(g, 0) = e
  OBVIOUS
<1> HIDE DEF Level
<1>8. next \in [1..N -> [Verdicts -> Verdicts]]
  BY <1>1
<1>9. \A i \in 1..N : \A v \in Verdicts : next[i][v] = IF vs[i] = e THEN v ELSE vs[i]
  OBVIOUS
<1> HIDE DEF next, e
<1>10. PICK f \in [0..N -> Verdicts] : f[0] = e /\ Follows(f, N, next)
  BY <1>1, <1>3, <1>8, Recursion
<1>11. ASSUME NEW i \in 0..N PROVE f[i] = Level(f, i)
  <2>1. CASE i = 0
    BY <1>7, <1>10, <2>1
  <2>2. CASE i # 0
    <3>1. i \in 1..N /\ i - 1 \in 0..N
      BY <1>1, <2>2
    <3>2. f[i - 1] \in Verdicts /\ f[i] = next[i][f[i - 1]]
      BY <1>10, <3>1 DEF Follows
    <3>3. next[i][f[i - 1]] = IF vs[i] = e THEN f[i - 1] ELSE vs[i]
      BY <1>9, <3>1, <3>2
    <3> QED
      BY <1>6, <3>1, <3>2, <3>3, Zenon
  <2> QED
    BY <2>1, <2>2
<1>12. f = [i \in 0..N |-> Level(f, i)]
  BY <1>11
<1>13. up = [i \in 0..N |-> Level(up, i)]
  BY <1>4, <1>12
<1>14. up[0] = e /\ \A i \in 1..N : up[i] = IF vs[i] = e THEN up[i - 1] ELSE vs[i]
  <2>1. \A i \in 0..N : up[i] = Level(up, i)
    BY <1>13, Zenon
  <2>2. 0 \in 0..N /\ \A i \in 1..N : i \in 0..N
    BY <1>1
  <2> QED
    BY <1>6, <1>7, <2>1, <2>2, Zenon
<1> DEFINE bad == {i \in 0..N : ~(up[i] \in Verdicts /\ Settles(vs, i, up[i]))}
<1>15. bad = {}
  <2> SUFFICES ASSUME bad # {} PROVE FALSE
    OBVIOUS
  <2>1. bad \in SUBSET Nat
    BY <1>1
  <2> HIDE DEF bad
  <2>2. PICK k \in bad : \A i \in bad : k <= i
    BY <2>1, LeastNatural
  <2>3. k \in 0..N /\ ~(up[k] \in Verdicts /\ Settles(vs, k, up[k]))
    BY DEF bad
  <2>4. k # 0
    <3>1. Settles(vs, 0, e)
      BY DEF Settles, e
    <3> QED
      BY <1>3, <1>14, <2>3, <3>1
  <2> DEFINE j == k - 1
  <2>5. j \in 0..N /\ j \notin bad /\ k \in 1..N /\ j \in Nat /\ j + 1 = k
    BY <1>1, <2>2, <2>3, <2>4
  <2>6. up[k] = IF vs[k] = e THEN up[j] ELSE vs[k]
    BY <1>14, <2>5
  <2> HIDE DEF j
  <2>7. up[j] \in Verdicts /\ Settles(vs, j, up[j])
    BY <2>5 DEF bad
  <2>8. Settles(vs, j + 1, IF vs[j + 1] = "equal" THEN up[j] ELSE vs[j + 1])
    BY <2>5, <2>7, SettlesNext
  <2>9. Settles(vs, k, up[k])
    BY <2>5, <2>6, <2>8 DEF e
  <2>10. up[k] \in Verdicts
    BY <1>1, <2>5, <2>6, <2>7
  <2> QED
    BY <2>3, <2>9, <2>10
<1>16. N \in 0..N
  BY <1>1
<1>17. up[N] \in Verdicts /\ Settles(vs, N, up[N])
  BY <1>15, <1>16
<1> QED
  BY <1>5, <1>17 DEF vs, N

-----------------------------------------------------------------------------
(* Two values, given what is found of those below them. *)

InHeap(heap) == Primitive \cup DOMAIN heap

Tables(heap) == [InHeap(heap) \X InHeap(heap) -> Verdicts]

\* Objects of properties that order names, whose values are in the heap.
IsHeap(heap, order) ==
    /\ IsFiniteSet(DOMAIN heap) /\ Primitive \cap DOMAIN heap = {}
    /\ \E S : order \in Seq(S)
    /\ \A x \in DOMAIN heap : \A k \in DOMAIN heap[x].own :
          /\ heap[x].own[k] \in InHeap(heap)
          /\ \E i \in 1..Len(order) : order[i] = k

\* Their properties are compared.
Loops(heap, a, b) ==
    /\ a # b /\ MayBeEquiv(heap, a, b)
    /\ ~(Class(heap, a) = Class(heap, b) /\ Class(heap, a) \in HasValue)

\* They are not.
Shallow(heap, a, b) ==
    IF \/ a = b
       \/ /\ Class(heap, a) = Class(heap, b) /\ Class(heap, a) \in HasValue
          /\ heap[a].value = heap[b].value
       \/ /\ ~(Class(heap, a) = Class(heap, b) /\ Class(heap, a) \in HasValue)
          /\ ~TypeofObject(a) /\ ~TypeofObject(b) /\ Equal(a, b)
    THEN "equal" ELSE "different"

LEMMA LoopsIs ==
    ASSUME NEW heap, NEW a \in InHeap(heap), NEW b \in InHeap(heap), Loops(heap, a, b)
    PROVE  /\ a \in DOMAIN heap \ Primitive /\ b \in DOMAIN heap \ Primitive
           /\ Keys(heap, a) = Keys(heap, b)
BY DEF Loops, MayBeEquiv, SameKeys, InHeap

LEMMA ComparedIs ==
    ASSUME NEW heap, NEW order, NEW deeper, NEW a \in InHeap(heap), NEW b \in InHeap(heap)
    PROVE  Compared(heap, order, deeper, a, b)
           = IF Loops(heap, a, b) THEN ComparedProperties(heap, order, deeper, a, b)
             ELSE Shallow(heap, a, b)
<1> DEFINE valued == Class(heap, a) = Class(heap, b) /\ Class(heap, a) \in HasValue
           same == heap[a].value = heap[b].value
           plain == ~TypeofObject(a) /\ ~TypeofObject(b)
           equal == Equal(a, b)
           maybe == MayBeEquiv(heap, a, b)
           c == ComparedProperties(heap, order, deeper, a, b)
<1>1. Compared(heap, order, deeper, a, b)
      = IF a = b THEN "equal"
        ELSE IF valued THEN IF same THEN "equal" ELSE "different"
        ELSE IF plain THEN IF equal THEN "equal" ELSE "different"
        ELSE IF ~maybe THEN "different" ELSE c
  BY DEF Compared
<1>2. Loops(heap, a, b) <=> a # b /\ maybe /\ ~valued
  BY DEF Loops
<1>3. Shallow(heap, a, b)
      = IF a = b \/ (valued /\ same) \/ (~valued /\ plain /\ equal)
        THEN "equal" ELSE "different"
  BY DEF Shallow
<1>4. maybe => ~plain
  BY DEF MayBeEquiv, TypeofObject
<1> HIDE DEF c
<1>5. CASE a = b
  BY <1>1, <1>2, <1>3, <1>5, Zenon
<1>6. CASE a # b /\ valued
  BY <1>1, <1>2, <1>3, <1>6, Zenon
<1>7. CASE a # b /\ ~valued /\ plain
  BY <1>1, <1>2, <1>3, <1>4, <1>7, Zenon
<1>8. CASE a # b /\ ~valued /\ ~plain
  <2>1. CASE maybe
    BY <1>1, <1>2, <1>8, <2>1, Zenon DEF c
  <2>2. CASE ~maybe
    BY <1>1, <1>2, <1>3, <1>8, <2>2, Zenon
  <2> QED
    BY <2>1, <2>2
<1> QED
  BY <1>5, <1>6, <1>7, <1>8 DEF c

\* What is below two objects.
LEMMA BelowIs ==
    ASSUME NEW heap, NEW order, IsHeap(heap, order), NEW deeper \in Tables(heap),
           NEW a \in InHeap(heap), NEW b \in InHeap(heap), Loops(heap, a, b)
    PROVE  /\ Below(heap, order, deeper, a, b) \in [1..Len(order) -> Verdicts]
           /\ Len(order) \in Nat
           /\ \A k \in Keys(heap, a) :
                 <<heap[a].own[k], heap[b].own[k]>> \in InHeap(heap) \X InHeap(heap)
<1>1. /\ a \in DOMAIN heap \ Primitive /\ b \in DOMAIN heap \ Primitive
      /\ Keys(heap, a) = Keys(heap, b)
  BY LoopsIs
<1>2. \A k \in Keys(heap, a) : <<heap[a].own[k], heap[b].own[k]>> \in InHeap(heap) \X InHeap(heap)
  <2> SUFFICES ASSUME NEW k \in Keys(heap, a)
               PROVE  heap[a].own[k] \in InHeap(heap) /\ heap[b].own[k] \in InHeap(heap)
    OBVIOUS
  <2>1. k \in DOMAIN heap[a].own /\ k \in DOMAIN heap[b].own
    BY <1>1 DEF Keys
  <2> QED
    BY <1>1, <2>1 DEF IsHeap
<1>3. \A k \in Keys(heap, a) : deeper[<<heap[a].own[k], heap[b].own[k]>>] \in Verdicts
  BY <1>2 DEF Tables
<1>4. "equal" \in Verdicts
  BY DEF Verdicts
<1>5. Len(order) \in Nat
  BY DEF IsHeap
<1> QED
  BY <1>2, <1>3, <1>4, <1>5 DEF Below

LEMMA ComparedVerdict ==
    ASSUME NEW heap, NEW order, IsHeap(heap, order), NEW deeper \in Tables(heap),
           NEW a \in InHeap(heap), NEW b \in InHeap(heap)
    PROVE  /\ Compared(heap, order, deeper, a, b) \in Verdicts
           /\ Loops(heap, a, b) =>
                Settles(Below(heap, order, deeper, a, b), Len(order),
                      Compared(heap, order, deeper, a, b))
<1> DEFINE c == ComparedProperties(heap, order, deeper, a, b)
<1>1. CASE Loops(heap, a, b)
  <2>1. PICK S : order \in Seq(S)
    BY DEF IsHeap
  <2>2. Below(heap, order, deeper, a, b) \in [1..Len(order) -> Verdicts]
    BY <1>1, BelowIs
  <2>3. c \in Verdicts /\ Settles(Below(heap, order, deeper, a, b), Len(order), c)
    BY <2>1, <2>2, LoopIs
  <2> QED
    BY <1>1, <2>3, ComparedIs
<1>2. CASE ~Loops(heap, a, b)
  <2>1. Shallow(heap, a, b) \in Verdicts
    BY DEF Shallow, Verdicts
  <2> QED
    BY <1>2, <2>1, ComparedIs
<1> QED
  BY <1>1, <1>2

\* Each table is made of the one before; the last has what _deepEqual finds.
AreTables(h, heap, order, n) ==
    /\ n = Cardinality((DOMAIN heap) \X (DOMAIN heap))
    /\ h \in [0 .. n + 1 -> Tables(heap)]
    /\ \A a, b \in InHeap(heap) :
          /\ h[0][<<a, b>>] = "overflow"
          /\ \A i \in 1 .. n + 1 : h[i][<<a, b>>] = Compared(heap, order, h[i - 1], a, b)
          /\ DeepEqual(heap, order, a, b) = h[n + 1][<<a, b>>]

LEMMA TablesExist ==
    ASSUME NEW heap, NEW order, IsHeap(heap, order)
    PROVE  \E n \in Nat : \E h : AreTables(h, heap, order, n)
<1> DEFINE n == Cardinality((DOMAIN heap) \X (DOMAIN heap))
           N == n + 1
           V == Primitive \cup DOMAIN heap
           T == [V \X V -> Verdicts]
           e == "overflow"
           first == [p \in V \X V |-> e]
           Over(t) == [p \in V \X V |-> Compared(heap, order, t, p[1], p[2])]
           next == [i \in 1..N |-> [t \in T |-> Over(t)]]
           Level(g, i) ==
              [p \in V \X V |-> IF i = 0 THEN e
                                ELSE Compared(heap, order, g[i - 1], p[1], p[2])]
           h == CHOOSE g : g = [i \in 0..N |-> Level(g, i)]
<1>1. n \in Nat
  <2>1. IsFiniteSet(DOMAIN heap)
    BY DEF IsHeap
  <2> QED
    BY <2>1, FS_Product, FS_CardinalityType
<1>2. V = InHeap(heap) /\ T = Tables(heap)
  BY DEF InHeap, Tables
<1>3. \A a, b \in V : DeepEqual(heap, order, a, b) = h[N][<<a, b>>]
  BY Zenon DEF DeepEqual
<1> HIDE DEF n
<1>4. N \in Nat
  BY <1>1
<1> HIDE DEF N
<1>5. first \in T
  BY DEF Verdicts
<1>6. \A t \in T : Over(t) \in T
  <2> SUFFICES ASSUME NEW t \in T, NEW p \in V \X V
               PROVE  Compared(heap, order, t, p[1], p[2]) \in Verdicts
    OBVIOUS
  <2>1. p[1] \in InHeap(heap) /\ p[2] \in InHeap(heap) /\ t \in Tables(heap)
    BY <1>2
  <2> QED
    BY <2>1, ComparedVerdict
<1> HIDE DEF T, Over
<1>7. next \in [1..N -> [T -> T]] /\ \A i \in 1..N : \A t \in T : next[i][t] = Over(t)
  BY <1>6
<1> HIDE DEF next
<1>8. PICK f \in [0..N -> T] : f[0] = first /\ Follows(f, N, next)
  BY <1>4, <1>5, <1>7, Recursion
<1>9. \A g : Level(g, 0) = first
  OBVIOUS
<1>10. \A g : \A i \in 1..N : Level(g, i) = Over(g[i - 1])
  <2> SUFFICES ASSUME NEW g, NEW i \in 1..N PROVE Level(g, i) = Over(g[i - 1])
    OBVIOUS
  <2>1. i # 0
    OBVIOUS
  <2> QED
    BY <2>1 DEF Over
<1> HIDE DEF Level, first
<1>11. ASSUME NEW i \in 0..N PROVE f[i] = Level(f, i)
  <2>1. CASE i = 0
    BY <1>8, <1>9, <2>1
  <2>2. CASE i # 0
    <3>1. i \in 1..N /\ i - 1 \in 0..N
      BY <1>4, <2>2
    <3>2. f[i - 1] \in T /\ f[i] = next[i][f[i - 1]]
      BY <1>8, <3>1 DEF Follows
    <3> QED
      BY <1>7, <1>10, <3>1, <3>2
  <2> QED
    BY <2>1, <2>2
<1>12. f = [i \in 0..N |-> Level(f, i)]
  BY <1>11
<1>13. h = [i \in 0..N |-> Level(h, i)]
  BY <1>12
<1> HIDE DEF h
<1>14. h[0] = first /\ \A i \in 1..N : h[i] = Over(h[i - 1])
  <2>1. \A i \in 0..N : h[i] = Level(h, i)
    BY <1>13, Zenon
  <2>2. 0 \in 0..N /\ \A i \in 1..N : i \in 0..N
    BY <1>4
  <2> QED
    BY <1>9, <1>10, <2>1, <2>2, Zenon
<1> DEFINE bad == {i \in 0..N : h[i] \notin T}
<1>15. bad = {}
  <2> SUFFICES ASSUME bad # {} PROVE FALSE
    OBVIOUS
  <2>1. bad \in SUBSET Nat
    BY <1>4
  <2> HIDE DEF bad
  <2>2. PICK k \in bad : \A i \in bad : k <= i
    BY <2>1, LeastNatural
  <2>3. k \in 0..N /\ h[k] \notin T
    BY DEF bad
  <2>4. k \in 1..N /\ k - 1 \in 0..N /\ k - 1 \notin bad
    BY <1>4, <1>5, <1>14, <2>2, <2>3
  <2>5. h[k - 1] \in T
    BY <2>4 DEF bad
  <2> QED
    BY <1>6, <1>14, <2>3, <2>4, <2>5
<1>16. h \in [0..N -> T]
  <2>1. \A i \in 0..N : h[i] \in T
    BY <1>15
  <2>2. DOMAIN h = 0..N /\ h = [i \in 0..N |-> h[i]]
    BY <1>13
  <2> QED
    BY <2>1, <2>2
<1>17. ASSUME NEW a \in V, NEW b \in V
       PROVE  /\ h[0][<<a, b>>] = "overflow"
              /\ \A i \in 1..N : h[i][<<a, b>>] = Compared(heap, order, h[i - 1], a, b)
  <2>1. h[0][<<a, b>>] = "overflow"
    BY <1>14 DEF first
  <2>2. ASSUME NEW i \in 1..N PROVE h[i][<<a, b>>] = Compared(heap, order, h[i - 1], a, b)
    BY <1>14 DEF Over
  <2> QED
    BY <2>1, <2>2
<1>18. AreTables(h, heap, order, n)
  <2> HIDE DEF V
  <2> QED
    BY <1>1, <1>2, <1>3, <1>16, <1>17 DEF AreTables, n, N
<1> QED
  BY <1>1, <1>18

LEMMA TablesAre ==
    ASSUME NEW n \in Nat, NEW h, NEW heap, NEW order,
           AreTables(h, heap, order, n),
           NEW i \in 0 .. n + 1
    PROVE  h[i] \in Tables(heap)
<1> DEFINE N == n + 1
<1>1. h \in [0..N -> Tables(heap)]
  BY Zenon DEF AreTables
<1> HIDE DEF N
<1>2. \A j \in 0..N : h[j] \in Tables(heap)
  BY <1>1
<1> QED
  BY <1>2 DEF N

LEMMA MadeOf ==
    ASSUME NEW n \in Nat, NEW h, NEW heap, NEW order, IsHeap(heap, order),
           AreTables(h, heap, order, n),
           NEW i \in 1 .. n + 1, NEW a \in InHeap(heap), NEW b \in InHeap(heap)
    PROVE  /\ h[i][<<a, b>>] \in Verdicts
           /\ h[i - 1] \in Tables(heap) /\ h[i] \in Tables(heap)
           /\ ~Loops(heap, a, b) => h[i][<<a, b>>] = Shallow(heap, a, b)
           /\ Loops(heap, a, b) =>
                 Settles(Below(heap, order, h[i - 1], a, b), Len(order), h[i][<<a, b>>])
<1>1. h[i - 1] \in Tables(heap) /\ h[i] \in Tables(heap)
  <2>1. i \in 0 .. n + 1 /\ i - 1 \in 0 .. n + 1
    OBVIOUS
  <2> QED
    BY <2>1, TablesAre
<1>2. h[i][<<a, b>>] = Compared(heap, order, h[i - 1], a, b)
  <2>1. \A c, d \in InHeap(heap) : \A j \in 1 .. n + 1 :
           h[j][<<c, d>>] = Compared(heap, order, h[j - 1], c, d)
    BY Zenon DEF AreTables
  <2> QED
    BY <2>1, Zenon
<1> QED
  BY <1>1, <1>2, ComparedVerdict, ComparedIs

\* What a table has of two objects, the one before it has of their properties: of all if
\* they are equal, and of one if not.
LEMMA AllBelow ==
    ASSUME NEW n \in Nat, NEW h, NEW heap, NEW order, IsHeap(heap, order),
           AreTables(h, heap, order, n),
           NEW i \in 1 .. n + 1, NEW a \in InHeap(heap), NEW b \in InHeap(heap),
           Loops(heap, a, b), h[i][<<a, b>>] = "equal", NEW k \in Keys(heap, a)
    PROVE  h[i - 1][<<heap[a].own[k], heap[b].own[k]>>] = "equal"
<1> DEFINE v == h[i][<<a, b>>]
           t == h[i - 1]
           vs == Below(heap, order, t, a, b)
           N == Len(order)
<1>1. Settles(vs, N, v)
  BY MadeOf
<1>2. N \in Nat
  BY DEF IsHeap
<1>3. \A j \in 1..N : vs[j] = IF order[j] \notin Keys(heap, a) THEN "equal"
                              ELSE t[<<heap[a].own[order[j]], heap[b].own[order[j]]>>]
  BY DEF Below
<1>4. v = "equal"
  OBVIOUS
<1> HIDE DEF v, t, vs
<1>5. \A j \in 1..N : vs[j] = "equal"
  BY <1>1, <1>4 DEF Settles
<1>6. a \in DOMAIN heap /\ k \in DOMAIN heap[a].own
  BY LoopsIs DEF Keys
<1>7. PICK j \in 1..N : order[j] = k
  BY <1>6 DEF IsHeap
<1> QED
  BY <1>3, <1>5, <1>7 DEF t

LEMMA OneBelow ==
    ASSUME NEW n \in Nat, NEW h, NEW heap, NEW order, IsHeap(heap, order),
           AreTables(h, heap, order, n),
           NEW i \in 1 .. n + 1, NEW a \in InHeap(heap), NEW b \in InHeap(heap),
           Loops(heap, a, b), h[i][<<a, b>>] # "equal"
    PROVE  \E k \in Keys(heap, a) :
              h[i - 1][<<heap[a].own[k], heap[b].own[k]>>] = h[i][<<a, b>>]
<1> DEFINE v == h[i][<<a, b>>]
           t == h[i - 1]
           vs == Below(heap, order, t, a, b)
           N == Len(order)
<1>1. Settles(vs, N, v)
  BY MadeOf
<1>2. N \in Nat
  BY DEF IsHeap
<1>3. \A j \in 1..N : vs[j] = IF order[j] \notin Keys(heap, a) THEN "equal"
                              ELSE t[<<heap[a].own[order[j]], heap[b].own[order[j]]>>]
  BY DEF Below
<1>4. v # "equal"
  OBVIOUS
<1> HIDE DEF v, t, vs
<1>5. PICK j \in 1..N : vs[j] = v
  BY <1>1, <1>4 DEF Settles
<1>6. order[j] \in Keys(heap, a)
  BY <1>3, <1>4, <1>5
<1>7. t[<<heap[a].own[order[j]], heap[b].own[order[j]]>>] = v
  BY <1>3, <1>5, <1>6
<1> QED
  BY <1>6, <1>7 DEF t, v

\* It makes no difference which value comes first.
LEMMA TablesSymmetric ==
    ASSUME NEW n \in Nat, NEW h, NEW heap, NEW order, IsHeap(heap, order),
           AreTables(h, heap, order, n)
    PROVE  \A i \in 0 .. n + 1 : \A a, b \in InHeap(heap) : h[i][<<a, b>>] = h[i][<<b, a>>]
<1> DEFINE Good(i) == \A a, b \in InHeap(heap) : h[i][<<a, b>>] = h[i][<<b, a>>]
           bad == {i \in 0 .. n + 1 : ~Good(i)}
<1> SUFFICES ASSUME bad # {} PROVE FALSE
  OBVIOUS
<1>1. bad \in SUBSET Nat
  OBVIOUS
<1> HIDE DEF bad
<1>2. PICK i \in bad : \A j \in bad : i <= j
  BY <1>1, LeastNatural
<1>3. i \in 0 .. n + 1 /\ ~Good(i)
  BY DEF bad
<1>4. i # 0
  <2>1. \A a, b \in InHeap(heap) : h[0][<<a, b>>] = "overflow"
    BY Zenon DEF AreTables
  <2> QED
    BY <1>3, <2>1
<1>5. i \in 1 .. n + 1 /\ i - 1 \in 0 .. n + 1 /\ i - 1 \notin bad
  BY <1>2, <1>3, <1>4
<1>6. Good(i - 1)
  BY <1>5 DEF bad
<1>7. PICK a \in InHeap(heap), b \in InHeap(heap) : h[i][<<a, b>>] # h[i][<<b, a>>]
  BY <1>3
<1>8. {a, b} = {b, a}
  OBVIOUS
<1>9. CASE ~Loops(heap, a, b)
  <2>1. ~Loops(heap, b, a)
    BY <1>8, <1>9 DEF Loops, MayBeEquiv, SameKeys
  <2>2. Equal(a, b) <=> Equal(b, a)
    <3>1. <<a, b>> \in LooselyEqual <=> <<b, a>> \in LooselyEqual
      BY AssertAssumption
    <3> QED
      BY <3>1 DEF Equal
  <2>3. Shallow(heap, a, b) = Shallow(heap, b, a)
    BY <2>2 DEF Shallow
  <2> QED
    BY <1>5, <1>7, <1>9, <2>1, <2>3, MadeOf
<1>10. CASE Loops(heap, a, b)
  <2>1. Loops(heap, b, a)
    BY <1>8, <1>10 DEF Loops, MayBeEquiv, SameKeys
  <2> DEFINE t == h[i - 1]
             N == Len(order)
             vs == Below(heap, order, t, a, b)
             ws == Below(heap, order, t, b, a)
             v == h[i][<<a, b>>]
             w == h[i][<<b, a>>]
  <2>2. Settles(vs, N, v) /\ Settles(ws, N, w)
    BY <1>5, <1>10, <2>1, MadeOf
  <2>3. \A j \in 1..N : vs[j] = ws[j]
    <3> SUFFICES ASSUME NEW j \in 1..N PROVE vs[j] = ws[j]
      OBVIOUS
    <3>1. Keys(heap, a) = Keys(heap, b)
      BY <1>10, LoopsIs
    <3>2. CASE order[j] \notin Keys(heap, a)
      BY <3>1, <3>2 DEF Below
    <3>3. CASE order[j] \in Keys(heap, a)
      <4> DEFINE c == heap[a].own[order[j]]
                 d == heap[b].own[order[j]]
      <4>1. t \in Tables(heap)
        BY <1>5, MadeOf
      <4>2. <<c, d>> \in InHeap(heap) \X InHeap(heap)
        BY <1>10, <3>3, <4>1, BelowIs
      <4>3. vs[j] = t[<<c, d>>] /\ ws[j] = t[<<d, c>>]
        BY <3>1, <3>3 DEF Below
      <4> HIDE DEF c, d
      <4>4. c \in InHeap(heap) /\ d \in InHeap(heap)
        BY <4>2
      <4> QED
        BY <1>6, <4>3, <4>4
    <3> QED
      BY <3>2, <3>3
  <2>4. N \in Nat
    BY DEF IsHeap
  <2> HIDE DEF vs, ws, v, w
  <2>5. Settles(vs, N, w)
    BY <2>2, <2>3 DEF Settles
  <2>6. v = w
    BY <2>2, <2>4, <2>5, SettlesOnce
  <2> QED
    BY <1>7, <2>6 DEF v, w
<1> QED
  BY <1>9, <1>10

\* A verdict that is not "overflow" stays.
LEMMA VerdictsStay ==
    ASSUME NEW n \in Nat, NEW h, NEW heap, NEW order, IsHeap(heap, order),
           AreTables(h, heap, order, n)
    PROVE  \A i \in 0..n : \A a, b \in InHeap(heap) :
              h[i][<<a, b>>] # "overflow" => h[i + 1][<<a, b>>] = h[i][<<a, b>>]
<1> DEFINE Good(i) == \A a, b \in InHeap(heap) :
                         h[i][<<a, b>>] # "overflow" => h[i + 1][<<a, b>>] = h[i][<<a, b>>]
           bad == {i \in 0..n : ~Good(i)}
<1> SUFFICES ASSUME bad # {} PROVE FALSE
  OBVIOUS
<1>1. bad \in SUBSET Nat
  OBVIOUS
<1> HIDE DEF bad
<1>2. PICK i \in bad : \A j \in bad : i <= j
  BY <1>1, LeastNatural
<1>3. i \in 0..n /\ ~Good(i)
  BY DEF bad
<1>4. PICK a \in InHeap(heap), b \in InHeap(heap) :
         h[i][<<a, b>>] # "overflow" /\ h[i + 1][<<a, b>>] # h[i][<<a, b>>]
  BY <1>3
<1>5. i # 0
  <2>1. h[0][<<a, b>>] = "overflow"
    BY Zenon DEF AreTables
  <2> QED
    BY <1>4, <2>1
<1> DEFINE k == i - 1
<1>6. i \in 1 .. n + 1 /\ i + 1 \in 1 .. n + 1 /\ k \in 0..n /\ k \notin bad
      /\ (i + 1) - 1 = i /\ k + 1 = i
  BY <1>2, <1>3, <1>5
<1>7. Good(k)
  BY <1>6 DEF bad
<1>8. CASE ~Loops(heap, a, b)
  <2>1. h[i][<<a, b>>] = Shallow(heap, a, b)
    BY <1>6, <1>8, MadeOf
  <2>2. h[i + 1][<<a, b>>] = Shallow(heap, a, b)
    BY <1>6, <1>8, MadeOf
  <2> QED
    BY <1>4, <2>1, <2>2
<1>9. CASE Loops(heap, a, b)
  <2> DEFINE t == h[k]
             u == h[i]
             N == Len(order)
             vs == Below(heap, order, t, a, b)
             ws == Below(heap, order, u, a, b)
             v == h[i][<<a, b>>]
             w == h[i + 1][<<a, b>>]
  <2>1. Settles(vs, N, v) /\ t \in Tables(heap) /\ u \in Tables(heap)
    BY <1>6, <1>9, MadeOf
  <2>2. Settles(ws, N, w)
    <3> DEFINE m == i + 1
    <3>1. m \in 1 .. n + 1 /\ m - 1 = i
      BY <1>6
    <3> HIDE DEF m
    <3>2. Settles(Below(heap, order, h[m - 1], a, b), Len(order), h[m][<<a, b>>])
      BY <1>9, <3>1, MadeOf
    <3> QED
      BY <3>1, <3>2 DEF m
  <2>3. \A j \in 1..N : vs[j] # "overflow" => ws[j] = vs[j]
    <3> SUFFICES ASSUME NEW j \in 1..N, vs[j] # "overflow" PROVE ws[j] = vs[j]
      OBVIOUS
    <3>1. CASE order[j] \notin Keys(heap, a)
      BY <3>1 DEF Below
    <3>2. CASE order[j] \in Keys(heap, a)
      <4> DEFINE c == heap[a].own[order[j]]
                 d == heap[b].own[order[j]]
      <4>1. <<c, d>> \in InHeap(heap) \X InHeap(heap)
        BY <1>9, <2>1, <3>2, BelowIs
      <4>2. vs[j] = t[<<c, d>>] /\ ws[j] = u[<<c, d>>]
        BY <3>2 DEF Below
      <4> HIDE DEF c, d
      <4>3. c \in InHeap(heap) /\ d \in InHeap(heap)
        BY <4>1
      <4> HIDE DEF vs, ws, k
      <4> QED
        BY <1>6, <1>7, <4>2, <4>3
    <3> QED
      BY <3>1, <3>2
  <2>4. N \in Nat /\ v # "overflow" /\ v # w
    BY <1>4 DEF IsHeap
  <2> HIDE DEF vs, ws, v, w, N
  <2>5. Settles(ws, N, v)
    <3>1. CASE v = "equal" /\ \A j \in 1..N : vs[j] = "equal"
      <4>1. \A j \in 1..N : ws[j] = "equal"
        BY <2>3, <3>1
      <4> QED
        BY <3>1, <4>1 DEF Settles
    <3>2. CASE ~(v = "equal" /\ \A j \in 1..N : vs[j] = "equal")
      <4>1. PICK l \in 1..N : vs[l] = v /\ v # "equal" /\ \A j \in 1..N : j > l => vs[j] = "equal"
        BY <2>1, <3>2 DEF Settles
      <4>2. ws[l] = v
        BY <2>3, <2>4, <4>1
      <4>3. \A j \in 1..N : j > l => ws[j] = "equal"
        BY <2>3, <4>1
      <4> QED
        BY <4>1, <4>2, <4>3 DEF Settles
    <3> QED
      BY <3>1, <3>2
  <2> QED
    BY <2>2, <2>4, <2>5, SettlesOnce
<1> QED
  BY <1>8, <1>9

-----------------------------------------------------------------------------
(* A recursion that does not end. *)

\* Objects of which each has another as a property.
Circular(heap) ==
    \E S \in SUBSET DOMAIN heap : S # {} /\ \A x \in S : Range(heap[x].own) \cap S # {}

LEMMA OverflowCircular ==
    ASSUME NEW n \in Nat, NEW h, NEW heap, NEW order, IsHeap(heap, order),
           AreTables(h, heap, order, n),
           NEW a \in InHeap(heap), NEW b \in InHeap(heap),
           h[n + 1][<<a, b>>] = "overflow"
    PROVE  Circular(heap)
<1> DEFINE P == (DOMAIN heap) \X (DOMAIN heap)
           O == [i \in 1 .. n + 1 |-> {p \in P : h[i][p] = "overflow"}]
<1>1. IsFiniteSet(P) /\ Cardinality(P) = n
  <2>1. IsFiniteSet(DOMAIN heap)
    BY DEF IsHeap
  <2>2. IsFiniteSet(P)
    BY <2>1, FS_Product
  <2> QED
    BY <2>2 DEF AreTables
<1> HIDE DEF P
\* A pair has one below it, in the table before.
<1>2. ASSUME NEW i \in 1 .. n + 1, NEW c \in InHeap(heap), NEW d \in InHeap(heap),
             h[i][<<c, d>>] = "overflow"
      PROVE  /\ <<c, d>> \in P
             /\ \E k \in Keys(heap, c) :
                   /\ heap[c].own[k] \in InHeap(heap) /\ heap[d].own[k] \in InHeap(heap)
                   /\ h[i - 1][<<heap[c].own[k], heap[d].own[k]>>] = "overflow"
  <2>1. Loops(heap, c, d)
    <3>1. Shallow(heap, c, d) # "overflow"
      BY DEF Shallow
    <3> QED
      BY <1>2, <3>1, MadeOf
  <2>2. <<c, d>> \in P
    BY <2>1, LoopsIs DEF P
  <2>3. PICK k \in Keys(heap, c) :
           h[i - 1][<<heap[c].own[k], heap[d].own[k]>>] = "overflow"
    <3>1. h[i][<<c, d>>] # "equal"
      BY <1>2
    <3>2. \E k \in Keys(heap, c) :
             h[i - 1][<<heap[c].own[k], heap[d].own[k]>>] = h[i][<<c, d>>]
      BY <2>1, <3>1, OneBelow
    <3> QED
      BY <1>2, <3>2, Zenon
  <2>4. h[i - 1] \in Tables(heap)
    BY MadeOf
  <2>5. <<heap[c].own[k], heap[d].own[k]>> \in InHeap(heap) \X InHeap(heap)
    BY <2>1, <2>3, <2>4, BelowIs
  <2> QED
    BY <2>2, <2>3, <2>5
<1>3. \A i \in 1 .. n + 1 : \A p : p \in O[i] <=> p \in P /\ h[i][p] = "overflow"
  OBVIOUS
<1> HIDE DEF O
<1>4. \A i \in 1..n : O[i + 1] \subseteq O[i]
  <2> SUFFICES ASSUME NEW i \in 1..n, NEW p \in O[i + 1] PROVE p \in O[i]
    OBVIOUS
  <2>1. i \in 1 .. n + 1 /\ i + 1 \in 1 .. n + 1 /\ i \in 0..n
    OBVIOUS
  <2>2. p \in P /\ h[i + 1][p] = "overflow"
    BY <1>3, <2>1
  <2>3. PICK c \in DOMAIN heap, d \in DOMAIN heap : p = <<c, d>>
    BY <2>2 DEF P
  <2>4. c \in InHeap(heap) /\ d \in InHeap(heap)
    BY DEF InHeap
  <2>5. h[i][<<c, d>>] # "overflow" => h[i + 1][<<c, d>>] = h[i][<<c, d>>]
    BY <2>1, <2>4, VerdictsStay
  <2> QED
    BY <1>3, <2>1, <2>2, <2>3, <2>5
<1>5. n + 1 \in 1 .. n + 1 /\ <<a, b>> \in O[n + 1]
  <2>1. n + 1 \in 1 .. n + 1
    OBVIOUS
  <2>2. <<a, b>> \in P
    BY <1>2, <2>1, Zenon
  <2> QED
    BY <1>3, <2>1, <2>2
<1>6. \A i \in 1 .. n + 1 : O[i] \subseteq P
  BY <1>3
\* There are too few pairs for all tables to have different ones.
<1>7. PICK i \in 1..n : O[i + 1] = O[i]
  <2> SUFFICES ASSUME \A i \in 1..n : O[i + 1] # O[i] PROVE FALSE
    OBVIOUS
  <2> DEFINE Few(i) == Cardinality(O[i]) + i <= n + 1
             bad == {i \in 1 .. n + 1 : ~Few(i)}
  <2>1. \A i \in 1 .. n + 1 : IsFiniteSet(O[i]) /\ Cardinality(O[i]) \in 0..n
    <3> SUFFICES ASSUME NEW i \in 1 .. n + 1
                 PROVE  IsFiniteSet(O[i]) /\ Cardinality(O[i]) \in 0..n
      OBVIOUS
    <3>1. IsFiniteSet(O[i]) /\ Cardinality(O[i]) <= n
      BY <1>1, <1>6, FS_Subset
    <3> QED
      BY <3>1, FS_CardinalityType
  <2>2. bad = {}
    <3> SUFFICES ASSUME bad # {} PROVE FALSE
      OBVIOUS
    <3>1. bad \in SUBSET Nat
      OBVIOUS
    <3> HIDE DEF bad
    <3>2. PICK i \in bad : \A j \in bad : i <= j
      BY <3>1, LeastNatural
    <3>3. i \in 1 .. n + 1 /\ ~Few(i)
      BY DEF bad
    <3>4. i # 1
      <4>1. Cardinality(O[i]) \in 0..n
        BY <2>1, <3>3
      <4> DEFINE x == Cardinality(O[i])
      <4>2. x \in 0..n /\ ~(x + i <= n + 1)
        BY <3>3, <4>1
      <4> HIDE DEF x
      <4> QED
        BY <4>2
    <3> DEFINE j == i - 1
    <3>5. j \in 1..n /\ j \in 1 .. n + 1 /\ j \notin bad /\ j + 1 = i /\ j \in Nat
      BY <3>2, <3>3, <3>4
    <3> HIDE DEF j
    <3>6. Few(j)
      BY <3>5 DEF bad
    <3>7. O[i] \in SUBSET O[j] /\ O[i] # O[j]
      BY <1>4, <3>5
    <3>8. Cardinality(O[i]) <= Cardinality(O[j]) /\ Cardinality(O[j]) # Cardinality(O[i])
      BY <2>1, <3>5, <3>7, FS_Subset
    <3> DEFINE x == Cardinality(O[i])
               y == Cardinality(O[j])
    <3>9. x \in Nat /\ y \in Nat /\ x <= y /\ y # x /\ y + j <= n + 1
      BY <2>1, <3>3, <3>5, <3>6, <3>8
    <3> HIDE DEF x, y
    <3>10. x + i <= n + 1
      BY <3>5, <3>9
    <3> QED
      BY <3>3, <3>10 DEF x
  <2>3. Cardinality(O[n + 1]) + (n + 1) <= n + 1
    <3> DEFINE m == n + 1
    <3>1. m \in 1 .. n + 1
      BY <1>5
    <3> HIDE DEF m, Few
    <3>2. Few(m)
      BY <2>2, <3>1
    <3> QED
      BY <3>2 DEF Few, m
  <2>4. Cardinality(O[n + 1]) = 0
    BY <1>5, <2>1, <2>3
  <2> QED
    BY <1>5, <2>1, <2>4, FS_EmptySet
<1>8. i + 1 \in 1 .. n + 1 /\ (i + 1) - 1 = i /\ i \in 1 .. n + 1
  OBVIOUS
<1>9. O[i + 1] # {}
  <2> DEFINE bad == {j \in 1 .. n + 1 : <<a, b>> \notin O[(n + 2) - j]}
  <2> SUFFICES ASSUME O[i + 1] = {} PROVE FALSE
    OBVIOUS
  <2>1. bad = {}
    <3> SUFFICES ASSUME bad # {} PROVE FALSE
      OBVIOUS
    <3>1. bad \in SUBSET Nat
      OBVIOUS
    <3> HIDE DEF bad
    <3>2. PICK j \in bad : \A l \in bad : j <= l
      BY <3>1, LeastNatural
    <3>3. j \in 1 .. n + 1 /\ <<a, b>> \notin O[(n + 2) - j]
      BY DEF bad
    <3>4. j # 1
      <4>1. (n + 2) - 1 = n + 1
        OBVIOUS
      <4> QED
        BY <1>5, <3>3, <4>1
    <3> DEFINE l == j - 1
               m == (n + 2) - j
    <3>5. l \in 1 .. n + 1 /\ l \notin bad /\ (n + 2) - l = m + 1 /\ m \in 1..n
      BY <3>2, <3>3, <3>4
    <3> HIDE DEF l, m
    <3>6. <<a, b>> \in O[m + 1]
      BY <3>5 DEF bad
    <3>7. <<a, b>> \in O[m]
      BY <1>4, <3>5, <3>6
    <3> QED
      BY <3>3, <3>7 DEF m
  <2> DEFINE j == (n + 2) - (i + 1)
  <2>2. j \in 1 .. n + 1 /\ (n + 2) - j = i + 1
    BY <1>8
  <2> HIDE DEF j
  <2>3. <<a, b>> \in O[(n + 2) - j]
    BY <2>1, <2>2
  <2> QED
    BY <2>2, <2>3
<1> DEFINE S == {c \in DOMAIN heap : \E d \in DOMAIN heap : <<c, d>> \in O[i + 1]}
<1>10. S # {}
  <2>1. PICK p : p \in O[i + 1]
    BY <1>9
  <2>2. p \in P
    BY <1>3, <1>8, <2>1
  <2> QED
    BY <2>1, <2>2 DEF P
<1>11. ASSUME NEW c \in S PROVE Range(heap[c].own) \cap S # {}
  <2>1. c \in DOMAIN heap
    OBVIOUS
  <2>2. PICK d \in DOMAIN heap : <<c, d>> \in O[i + 1]
    OBVIOUS
  <2>3. h[i + 1][<<c, d>>] = "overflow"
    BY <1>3, <1>8, <2>2
  <2>4. c \in InHeap(heap) /\ d \in InHeap(heap)
    BY <2>1 DEF InHeap
  <2> HIDE DEF S
  <2>5. PICK k \in Keys(heap, c) :
           /\ heap[c].own[k] \in InHeap(heap) /\ heap[d].own[k] \in InHeap(heap)
           /\ h[i][<<heap[c].own[k], heap[d].own[k]>>] = "overflow"
    <3> DEFINE m == i + 1
    <3>1. m \in 1 .. n + 1 /\ m - 1 = i /\ h[m][<<c, d>>] = "overflow"
      BY <1>8, <2>3
    <3> HIDE DEF m
    <3> QED
      BY <1>2, <2>4, <3>1
  <2> DEFINE x == heap[c].own[k]
             y == heap[d].own[k]
  <2>6. <<x, y>> \in P /\ h[i][<<x, y>>] = "overflow"
    <3>1. x \in InHeap(heap) /\ y \in InHeap(heap) /\ h[i][<<x, y>>] = "overflow"
      BY <2>5
    <3> HIDE DEF x, y
    <3> QED
      BY <1>2, <1>8, <3>1, Zenon
  <2>7. x \in Range(heap[c].own)
    BY <2>5 DEF Keys, Range
  <2> HIDE DEF x, y
  <2>8. <<x, y>> \in O[i + 1]
    BY <1>3, <1>7, <1>8, <2>6
  <2>9. x \in DOMAIN heap /\ y \in DOMAIN heap
    BY <2>6 DEF P
  <2> QED
    BY <2>7, <2>8, <2>9 DEF S
<1> QED
  BY <1>10, <1>11 DEF Circular

-----------------------------------------------------------------------------
(* What the property asks of a pair of values, and of those below them. *)

Alike(heap, a, b) ==
    \/ a = b
    \/ /\ {a, b} \subseteq Primitive \ {null} /\ <<a, b>> \in LooselyEqual
    \/ /\ {a, b} \cap Primitive = {}
       /\ heap[a].class = heap[b].class /\ heap[a].value = heap[b].value
       /\ DOMAIN heap[a].own = DOMAIN heap[b].own
       /\ PrototypeOf(heap, a) = PrototypeOf(heap, b)

InnerPairs(heap, a, b) ==
    IF a = b \/ {a, b} \cap Primitive # {} THEN {}
    ELSE {<<heap[a].own[k], heap[b].own[k]>> : k \in DOMAIN heap[a].own}

\* Objects with a value have no properties, and others no value.
Ordinary(heap) ==
    \A x \in DOMAIN heap : IF heap[x].class \in HasValue THEN DOMAIN heap[x].own = {}
                           ELSE heap[x].value = 0

LEMMA ClassIs ==
    ASSUME NEW heap, NEW a
    PROVE  /\ a \in Primitive => Class(heap, a) \notin HasValue
           /\ a \notin Primitive => Class(heap, a) = heap[a].class
BY DEF Class, HasValue

LEMMA AlikeShallow ==
    ASSUME NEW heap, NEW a \in InHeap(heap), NEW b \in InHeap(heap), Alike(heap, a, b)
    PROVE  /\ ~Loops(heap, a, b) => Shallow(heap, a, b) = "equal"
           /\ ~Loops(heap, a, b) /\ a # b /\ {a, b} \cap Primitive = {} =>
                 heap[a].class \in HasValue
<1>1. CASE a = b
  BY <1>1 DEF Shallow
<1>2. CASE {a, b} \subseteq Primitive \ {null} /\ <<a, b>> \in LooselyEqual
  BY <1>2, ClassIs DEF Shallow, Equal, TypeofObject
<1>3. CASE /\ a # b /\ {a, b} \cap Primitive = {}
           /\ heap[a].class = heap[b].class /\ heap[a].value = heap[b].value
           /\ DOMAIN heap[a].own = DOMAIN heap[b].own
           /\ PrototypeOf(heap, a) = PrototypeOf(heap, b)
  <2>1. Class(heap, a) = heap[a].class /\ Class(heap, b) = heap[b].class
    BY <1>3, ClassIs
  <2>2. {a, b} \cap {undefined, null} = {}
    BY <1>3, AssertAssumption
  <2>3. MayBeEquiv(heap, a, b)
    BY <1>3, <2>1, <2>2 DEF MayBeEquiv, SameKeys, Keys
  <2>4. ~Loops(heap, a, b) => heap[a].class \in HasValue
    BY <1>3, <2>1, <2>3 DEF Loops
  <2> QED
    BY <1>3, <2>1, <2>4 DEF Shallow
<1> QED
  BY <1>1, <1>2, <1>3 DEF Alike

LEMMA EqualAlike ==
    ASSUME NEW n \in Nat, NEW h, NEW heap, NEW order, IsHeap(heap, order),
           AreTables(h, heap, order, n), Ordinary(heap),
           NEW i \in 1 .. n + 1, NEW a \in InHeap(heap), NEW b \in InHeap(heap),
           h[i][<<a, b>>] = "equal",
           {a, b} \cap Primitive = {} => heap[a].class = heap[b].class
    PROVE  Alike(heap, a, b)
<1>1. CASE Loops(heap, a, b)
  <2>1. /\ {a, b} \cap Primitive = {} /\ PrototypeOf(heap, a) = PrototypeOf(heap, b)
        /\ Keys(heap, a) = Keys(heap, b)
    BY <1>1 DEF Loops, MayBeEquiv, SameKeys
  <2>2. heap[a].class \notin HasValue /\ heap[b].class \notin HasValue
    BY <1>1, <2>1, ClassIs DEF Loops
  <2>3. a \in DOMAIN heap /\ b \in DOMAIN heap
    BY <1>1, LoopsIs
  <2>4. heap[a].value = 0 /\ heap[b].value = 0
    BY <2>2, <2>3 DEF Ordinary
  <2> QED
    BY <2>1, <2>4 DEF Alike, Keys
<1>2. CASE ~Loops(heap, a, b)
  <2>1. Shallow(heap, a, b) = "equal"
    BY <1>2, MadeOf
  <2>2. CASE a = b
    BY <2>2 DEF Alike
  <2>3. CASE /\ Class(heap, a) = Class(heap, b) /\ Class(heap, a) \in HasValue
             /\ heap[a].value = heap[b].value
    <3>1. a \notin Primitive /\ b \notin Primitive
      BY <2>3, ClassIs
    <3>2. a \in DOMAIN heap /\ b \in DOMAIN heap
      BY <3>1 DEF InHeap
    <3>3. heap[a].class = heap[b].class /\ heap[a].class \in HasValue
      BY <2>3, <3>1, ClassIs
    <3>4. DOMAIN heap[a].own = {} /\ DOMAIN heap[b].own = {}
      BY <3>2, <3>3 DEF Ordinary
    <3>5. PrototypeOf(heap, a) = undefined /\ PrototypeOf(heap, b) = undefined
      BY <3>4 DEF PrototypeOf, Keys
    <3> QED
      BY <2>3, <3>1, <3>3, <3>4, <3>5 DEF Alike
  <2>4. CASE a # b /\ ~TypeofObject(a) /\ ~TypeofObject(b) /\ Equal(a, b)
    BY <2>4 DEF Alike, TypeofObject, Equal
  <2> QED
    BY <2>1, <2>2, <2>3, <2>4 DEF Shallow
<1> QED
  BY <1>1, <1>2

LEMMA InnerIs ==
    ASSUME NEW heap, NEW order, IsHeap(heap, order), Ordinary(heap),
           NEW a \in InHeap(heap), NEW b \in InHeap(heap), Alike(heap, a, b)
    PROVE  /\ InnerPairs(heap, a, b) \in SUBSET (InHeap(heap) \X InHeap(heap))
           /\ Loops(heap, a, b) \/ InnerPairs(heap, a, b) = {}
           /\ Loops(heap, a, b) =>
                InnerPairs(heap, a, b)
                = {<<heap[a].own[k], heap[b].own[k]>> : k \in Keys(heap, a)}
<1>1. CASE a = b \/ {a, b} \cap Primitive # {}
  <2>1. InnerPairs(heap, a, b) = {} /\ ~Loops(heap, a, b)
    BY <1>1 DEF InnerPairs, Loops, MayBeEquiv
  <2> QED
    BY <2>1
<1>2. CASE a # b /\ {a, b} \cap Primitive = {}
  <2>1. a \in DOMAIN heap /\ b \in DOMAIN heap
    BY <1>2 DEF InHeap
  <2>2. InnerPairs(heap, a, b)
        = {<<heap[a].own[k], heap[b].own[k]>> : k \in DOMAIN heap[a].own}
    BY <1>2 DEF InnerPairs
  <2>3. DOMAIN heap[a].own = DOMAIN heap[b].own
    BY <1>2 DEF Alike
  <2>4. \A k \in DOMAIN heap[a].own :
           heap[a].own[k] \in InHeap(heap) /\ heap[b].own[k] \in InHeap(heap)
    BY <2>1, <2>3 DEF IsHeap
  <2>5. ~Loops(heap, a, b) => DOMAIN heap[a].own = {}
    <3>1. ~Loops(heap, a, b) => heap[a].class \in HasValue
      BY <1>2, AlikeShallow
    <3> QED
      BY <2>1, <3>1 DEF Ordinary
  <2> QED
    BY <2>2, <2>4, <2>5 DEF Keys
<1> QED
  BY <1>1, <1>2

\* What is below two equal values is equal, and something below two different ones is
\* different, if they look the same.
LEMMA EqualInner ==
    ASSUME NEW n \in Nat, NEW h, NEW heap, NEW order, IsHeap(heap, order),
           AreTables(h, heap, order, n), Ordinary(heap),
           NEW i \in 1 .. n + 1, NEW a \in InHeap(heap), NEW b \in InHeap(heap),
           Alike(heap, a, b), h[i][<<a, b>>] = "equal", NEW q \in InnerPairs(heap, a, b)
    PROVE  h[i - 1][q] = "equal"
<1>1. Loops(heap, a, b)
  BY InnerIs
<1>2. InnerPairs(heap, a, b) = {<<heap[a].own[k], heap[b].own[k]>> : k \in Keys(heap, a)}
  BY <1>1, InnerIs
<1>3. PICK k \in Keys(heap, a) : q = <<heap[a].own[k], heap[b].own[k]>>
  BY <1>2
<1>4. h[i - 1][<<heap[a].own[k], heap[b].own[k]>>] = "equal"
  BY <1>1, AllBelow
<1> QED
  BY <1>3, <1>4

LEMMA DifferentInner ==
    ASSUME NEW n \in Nat, NEW h, NEW heap, NEW order, IsHeap(heap, order),
           AreTables(h, heap, order, n), Ordinary(heap),
           NEW i \in 1 .. n + 1, NEW a \in InHeap(heap), NEW b \in InHeap(heap),
           Alike(heap, a, b), h[i][<<a, b>>] = "different"
    PROVE  \E q \in InnerPairs(heap, a, b) : h[i - 1][q] = "different"
<1>1. Loops(heap, a, b)
  <2>1. ~Loops(heap, a, b) => Shallow(heap, a, b) = "equal"
    BY AlikeShallow
  <2>2. ~Loops(heap, a, b) => h[i][<<a, b>>] = Shallow(heap, a, b)
    BY MadeOf
  <2> QED
    BY <2>1, <2>2
<1>2. InnerPairs(heap, a, b) = {<<heap[a].own[k], heap[b].own[k]>> : k \in Keys(heap, a)}
  BY <1>1, InnerIs
<1>3. h[i][<<a, b>>] # "equal"
  OBVIOUS
<1>4. \E k \in Keys(heap, a) :
         h[i - 1][<<heap[a].own[k], heap[b].own[k]>>] = h[i][<<a, b>>]
  BY <1>1, <1>3, OneBelow
<1>5. PICK k \in Keys(heap, a) : h[i - 1][<<heap[a].own[k], heap[b].own[k]>>] = "different"
  BY <1>4
<1>6. <<heap[a].own[k], heap[b].own[k]>> \in InnerPairs(heap, a, b)
  BY <1>2
<1> QED
  BY <1>5, <1>6

-----------------------------------------------------------------------------
(* The pairs the property looks at. *)

SeenPairs(heap, a, b, n) ==
    LET seen[i \in 0..n] ==
            IF i = 0 THEN {<<a, b>>}
            ELSE seen[i - 1] \cup UNION {InnerPairs(heap, p[1], p[2]) : p \in
                     {p \in seen[i - 1] : Alike(heap, p[1], p[2])}}
    IN seen

LEMMA SeenPairsAre ==
    ASSUME NEW heap, NEW order, IsHeap(heap, order), Ordinary(heap),
           NEW a \in InHeap(heap), NEW b \in InHeap(heap), NEW n \in Nat
    PROVE  LET seen == SeenPairs(heap, a, b, n)
           IN /\ \A i \in 0..n : seen[i] \in SUBSET (InHeap(heap) \X InHeap(heap))
              /\ seen[0] = {<<a, b>>}
              /\ \A i \in 1..n :
                    seen[i] = seen[i - 1] \cup UNION {InnerPairs(heap, p[1], p[2]) : p \in
                                 {p \in seen[i - 1] : Alike(heap, p[1], p[2])}}
<1> DEFINE S == InHeap(heap) \X InHeap(heap)
           T == SUBSET S
           first == {<<a, b>>}
           More(s) == s \cup UNION {InnerPairs(heap, p[1], p[2]) : p \in
                                       {p \in s : Alike(heap, p[1], p[2])}}
           next == [i \in 1..n |-> [s \in T |-> More(s)]]
           Level(g, i) == IF i = 0 THEN first
                          ELSE g[i - 1] \cup UNION {InnerPairs(heap, p[1], p[2]) : p \in
                                   {p \in g[i - 1] : Alike(heap, p[1], p[2])}}
           seen == SeenPairs(heap, a, b, n)
<1>1. first \in T
  OBVIOUS
<1>2. \A s \in T : More(s) \in T
  <2> SUFFICES ASSUME NEW s \in T, NEW q \in More(s) PROVE q \in S
    OBVIOUS
  <2>1. CASE q \in s
    BY <2>1
  <2>2. CASE q \notin s
    <3>1. PICK p \in s : Alike(heap, p[1], p[2]) /\ q \in InnerPairs(heap, p[1], p[2])
      BY <2>2
    <3>2. p[1] \in InHeap(heap) /\ p[2] \in InHeap(heap)
      BY <3>1
    <3> QED
      BY <3>1, <3>2, InnerIs
  <2> QED
    BY <2>1, <2>2
<1>3. seen = CHOOSE g : g = [i \in 0..n |-> Level(g, i)]
  BY Zenon DEF SeenPairs
<1>4. \A g : Level(g, 0) = first
  OBVIOUS
<1>5. \A g : \A i \in 1..n : Level(g, i) = More(g[i - 1])
  <2> SUFFICES ASSUME NEW g, NEW i \in 1..n PROVE Level(g, i) = More(g[i - 1])
    OBVIOUS
  <2>1. i # 0
    OBVIOUS
  <2> QED
    BY <2>1, Zenon
<1> HIDE DEF Level, seen, first, T, More
<1>6. next \in [1..n -> [T -> T]] /\ \A i \in 1..n : \A s \in T : next[i][s] = More(s)
  BY <1>2
<1> HIDE DEF next
<1>7. PICK f \in [0..n -> T] : f[0] = first /\ Follows(f, n, next)
  BY <1>1, <1>6, Recursion
<1>8. ASSUME NEW i \in 0..n PROVE f[i] = Level(f, i)
  <2>1. CASE i = 0
    BY <1>4, <1>7, <2>1
  <2>2. CASE i # 0
    <3>1. i \in 1..n /\ i - 1 \in 0..n
      BY <2>2
    <3>2. f[i - 1] \in T /\ f[i] = next[i][f[i - 1]]
      BY <1>7, <3>1 DEF Follows
    <3> QED
      BY <1>5, <1>6, <3>1, <3>2
  <2> QED
    BY <2>1, <2>2
<1>9. f = [i \in 0..n |-> Level(f, i)]
  BY <1>8
<1>10. seen = [i \in 0..n |-> Level(seen, i)]
  BY <1>3, <1>9
<1>11. seen[0] = first /\ \A i \in 1..n : seen[i] = More(seen[i - 1])
  <2>1. \A i \in 0..n : seen[i] = Level(seen, i)
    BY <1>10, Zenon
  <2>2. 0 \in 0..n /\ \A i \in 1..n : i \in 0..n
    OBVIOUS
  <2> QED
    BY <1>4, <1>5, <2>1, <2>2, Zenon
<1> DEFINE bad == {i \in 0..n : seen[i] \notin T}
<1>12. bad = {}
  <2> SUFFICES ASSUME bad # {} PROVE FALSE
    OBVIOUS
  <2>1. bad \in SUBSET Nat
    OBVIOUS
  <2> HIDE DEF bad
  <2>2. PICK k \in bad : \A i \in bad : k <= i
    BY <2>1, LeastNatural
  <2>3. k \in 0..n /\ seen[k] \notin T
    BY DEF bad
  <2>4. k # 0
    BY <1>1, <1>11, <2>3
  <2>5. k \in 1..n /\ k - 1 \in 0..n /\ k - 1 \notin bad
    BY <2>2, <2>3, <2>4
  <2>6. seen[k - 1] \in T
    BY <2>5 DEF bad
  <2> QED
    BY <1>2, <1>11, <2>3, <2>5, <2>6
<1> QED
  BY <1>11, <1>12 DEF T, first, More, seen

LEMMA SeenPairsGrow ==
    ASSUME NEW heap, NEW order, IsHeap(heap, order), Ordinary(heap),
           NEW a \in InHeap(heap), NEW b \in InHeap(heap), NEW n \in Nat
    PROVE  LET seen == SeenPairs(heap, a, b, n)
           IN \A i \in 0..n : seen[i] \subseteq seen[n]
<1> DEFINE seen == SeenPairs(heap, a, b, n)
           bad == {k \in 0..n : ~(seen[n - k] \subseteq seen[n])}
<1>1. \A i \in 1..n : seen[i - 1] \subseteq seen[i]
  BY SeenPairsAre
<1> HIDE DEF seen
<1>2. bad = {}
  <2> SUFFICES ASSUME bad # {} PROVE FALSE
    OBVIOUS
  <2>1. bad \in SUBSET Nat
    OBVIOUS
  <2> HIDE DEF bad
  <2>2. PICK k \in bad : \A i \in bad : k <= i
    BY <2>1, LeastNatural
  <2>3. k \in 0..n /\ ~(seen[n - k] \subseteq seen[n])
    BY DEF bad
  <2>4. k # 0
    <3>1. n - 0 = n
      OBVIOUS
    <3> QED
      BY <2>3, <3>1
  <2> DEFINE l == k - 1
             m == n - l
  <2>5. l \in 0..n /\ l \notin bad /\ m \in 1..n /\ m - 1 = n - k
    BY <2>2, <2>3, <2>4
  <2>6. seen[m] \subseteq seen[n]
    BY <2>5 DEF bad
  <2> HIDE DEF m
  <2>7. seen[m - 1] \subseteq seen[m]
    BY <1>1, <2>5
  <2> QED
    BY <2>3, <2>5, <2>6, <2>7
<1> SUFFICES ASSUME NEW i \in 0..n PROVE seen[i] \subseteq seen[n]
  BY DEF seen
<1> DEFINE k == n - i
<1>3. k \in 0..n /\ n - k = i
  OBVIOUS
<1> HIDE DEF k
<1>4. seen[n - k] \subseteq seen[n]
  BY <1>2, <1>3
<1> QED
  BY <1>3, <1>4

-----------------------------------------------------------------------------
(* The property. *)

\* All that is seen below equal values is equal.
LEMMA SeenEqual ==
    ASSUME NEW n \in Nat, NEW h, NEW heap, NEW order, IsHeap(heap, order),
           AreTables(h, heap, order, n), Ordinary(heap),
           NEW a \in InHeap(heap), NEW b \in InHeap(heap), h[n + 1][<<a, b>>] = "equal"
    PROVE  \A i \in 0..n : \A p \in SeenPairs(heap, a, b, n)[i] : h[n + 1][p] = "equal"
<1> DEFINE seen == SeenPairs(heap, a, b, n)
           Good(i) == \A p \in seen[i] : h[n + 1][p] = "equal"
           bad == {i \in 0..n : ~Good(i)}
<1> SUFFICES ASSUME bad # {} PROVE FALSE
  OBVIOUS
<1>1. /\ \A i \in 0..n : seen[i] \in SUBSET (InHeap(heap) \X InHeap(heap))
      /\ seen[0] = {<<a, b>>}
      /\ \A i \in 1..n :
            seen[i] = seen[i - 1] \cup UNION {InnerPairs(heap, p[1], p[2]) : p \in
                         {p \in seen[i - 1] : Alike(heap, p[1], p[2])}}
  BY SeenPairsAre
<1>2. bad \in SUBSET Nat
  OBVIOUS
<1> HIDE DEF seen, bad
<1>3. PICK i \in bad : \A j \in bad : i <= j
  BY <1>2, LeastNatural
<1>4. i \in 0..n /\ ~Good(i)
  BY DEF bad
<1>5. i # 0
  BY <1>1, <1>4
<1> DEFINE k == i - 1
<1>6. i \in 1..n /\ k \in 0..n /\ k \notin bad
  BY <1>3, <1>4, <1>5
<1>7. Good(k)
  BY <1>6 DEF bad
<1>8. seen[i] = seen[k] \cup UNION {InnerPairs(heap, p[1], p[2]) : p \in
                                      {p \in seen[k] : Alike(heap, p[1], p[2])}}
  BY <1>1, <1>6
<1>9. PICK q \in seen[i] : h[n + 1][q] # "equal"
  BY <1>4
<1>10. q \notin seen[k]
  BY <1>7, <1>9
<1>11. PICK p \in seen[k] : Alike(heap, p[1], p[2]) /\ q \in InnerPairs(heap, p[1], p[2])
  BY <1>8, <1>9, <1>10
<1> HIDE DEF k
<1> DEFINE c == p[1]
           d == p[2]
<1>12. p = <<c, d>> /\ c \in InHeap(heap) /\ d \in InHeap(heap)
  <2>1. p \in InHeap(heap) \X InHeap(heap)
    BY <1>1, <1>6, <1>11
  <2> QED
    BY <2>1
<1>13. Alike(heap, c, d) /\ q \in InnerPairs(heap, c, d) /\ h[n + 1][<<c, d>>] = "equal"
  BY <1>7, <1>11, <1>12
<1> HIDE DEF c, d
<1>14. h[n][q] = "equal"
  <2> DEFINE m == n + 1
  <2>1. m \in 1 .. n + 1 /\ m - 1 = n /\ h[m][<<c, d>>] = "equal"
    BY <1>13
  <2> HIDE DEF m
  <2>2. h[m - 1][q] = "equal"
    BY <1>12, <1>13, <2>1, EqualInner
  <2> QED
    BY <2>1, <2>2
<1>15. q \in InHeap(heap) \X InHeap(heap)
  BY <1>1, <1>4, <1>9
<1>16. PICK x \in InHeap(heap), y \in InHeap(heap) : q = <<x, y>>
  BY <1>15
<1>17. n \in 0..n /\ h[n][<<x, y>>] = "equal" /\ "equal" # "overflow"
  BY <1>14, <1>16
<1>18. h[n][<<x, y>>] # "overflow" => h[n + 1][<<x, y>>] = h[n][<<x, y>>]
  BY <1>17, VerdictsStay
<1> QED
  BY <1>9, <1>16, <1>17, <1>18

\* If all that is seen below two values looks the same, they are not different.
LEMMA SeenDifferent ==
    ASSUME NEW n \in Nat, NEW h, NEW heap, NEW order, IsHeap(heap, order),
           AreTables(h, heap, order, n), Ordinary(heap),
           NEW a \in InHeap(heap), NEW b \in InHeap(heap),
           \A p \in SeenPairs(heap, a, b, n)[n] : Alike(heap, p[1], p[2])
    PROVE  h[n + 1][<<a, b>>] # "different"
<1> SUFFICES ASSUME h[n + 1][<<a, b>>] = "different" PROVE FALSE
  OBVIOUS
<1> DEFINE seen == SeenPairs(heap, a, b, n)
           N == n + 1
           found == {i \in 1..N : \E p \in seen[N - i] : h[i][p] = "different"}
<1>1. /\ \A i \in 0..n : seen[i] \in SUBSET (InHeap(heap) \X InHeap(heap))
      /\ seen[0] = {<<a, b>>}
      /\ \A i \in 1..n :
            seen[i] = seen[i - 1] \cup UNION {InnerPairs(heap, p[1], p[2]) : p \in
                         {p \in seen[i - 1] : Alike(heap, p[1], p[2])}}
  BY SeenPairsAre
<1>2. \A i \in 0..n : \A p \in seen[i] : Alike(heap, p[1], p[2])
  <2>1. \A i \in 0..n : seen[i] \subseteq seen[n]
    BY SeenPairsGrow
  <2> QED
    BY <2>1
<1>3. \A c, d \in InHeap(heap) : h[0][<<c, d>>] = "overflow"
  BY Zenon DEF AreTables
<1>4. h[N][<<a, b>>] = "different"
  OBVIOUS
<1>5. N \in Nat /\ N \in 1..N /\ N - N = 0 /\ N = n + 1
  OBVIOUS
<1> HIDE DEF seen, N
<1>6. found # {}
  BY <1>1, <1>4, <1>5
<1>7. found \in SUBSET Nat
  BY <1>5
<1> HIDE DEF found
<1>8. PICK i \in found : \A j \in found : i <= j
  BY <1>6, <1>7, LeastNatural
<1>9. i \in 1..N /\ \E p \in seen[N - i] : h[i][p] = "different"
  BY DEF found
<1> DEFINE k == N - i
<1>10. k \in 0..n /\ i \in 1 .. n + 1
  BY <1>5, <1>9
<1>11. PICK p \in seen[k] : h[i][p] = "different"
  BY <1>9
<1> HIDE DEF k
<1> DEFINE c == p[1]
           d == p[2]
<1>12. p = <<c, d>> /\ c \in InHeap(heap) /\ d \in InHeap(heap)
  <2>1. p \in InHeap(heap) \X InHeap(heap)
    BY <1>1, <1>10, <1>11
  <2> QED
    BY <2>1
<1>13. Alike(heap, c, d) /\ h[i][<<c, d>>] = "different"
  BY <1>2, <1>10, <1>11, <1>12
<1> HIDE DEF c, d
<1>14. PICK q \in InnerPairs(heap, c, d) : h[i - 1][q] = "different"
  BY <1>10, <1>12, <1>13, DifferentInner
<1>15. InnerPairs(heap, c, d) \in SUBSET (InHeap(heap) \X InHeap(heap))
  BY <1>12, <1>13, InnerIs
<1>16. i # 1
  <2> SUFFICES ASSUME i = 1 PROVE FALSE
    OBVIOUS
  <2>1. h[0][q] = "different"
    BY <1>14
  <2>2. PICK x \in InHeap(heap), y \in InHeap(heap) : q = <<x, y>>
    BY <1>15
  <2>3. h[0][<<x, y>>] = "overflow"
    BY <1>3
  <2> QED
    BY <2>1, <2>2, <2>3
<1> DEFINE j == i - 1
<1>17. j \in 1..N /\ N - j = k + 1 /\ k + 1 \in 1..n /\ (k + 1) - 1 = k /\ j < i /\ i \in Nat
  BY <1>5, <1>9, <1>10, <1>16 DEF k
<1>18. q \in seen[k + 1]
  <2> DEFINE l == k + 1
  <2>1. l \in 1..n /\ l - 1 = k
    BY <1>17
  <2> HIDE DEF l
  <2>2. seen[l] = seen[k] \cup UNION {InnerPairs(heap, r[1], r[2]) : r \in
                                        {r \in seen[k] : Alike(heap, r[1], r[2])}}
    BY <1>1, <2>1
  <2>3. q \in InnerPairs(heap, p[1], p[2]) /\ Alike(heap, p[1], p[2])
    BY <1>13, <1>14 DEF c, d
  <2>4. p \in {r \in seen[k] : Alike(heap, r[1], r[2])}
    BY <1>11, <2>3
  <2>5. q \in UNION {InnerPairs(heap, r[1], r[2]) : r \in
                       {r \in seen[k] : Alike(heap, r[1], r[2])}}
    BY <2>3, <2>4
  <2> QED
    BY <2>2, <2>5 DEF l
<1>19. j \in found
  <2>1. q \in seen[N - j] /\ h[j][q] = "different"
    BY <1>14, <1>17, <1>18
  <2> QED
    BY <1>17, <2>1 DEF found
<1> QED
  BY <1>8, <1>17, <1>19

\* What deepEqual gives, for any objects (_deepEqual): only objects that contain
\* themselves make its recursion overflow; but for objects of unlike classes it passes
\* when all that is seen below the two values looks the same; and it makes no
\* difference which of them comes first.
THEOREM DeepEqualIs ==
    ASSUME NEW heap, NEW order, IsHeap(heap, order), Ordinary(heap),
           NEW a \in InHeap(heap), NEW b \in InHeap(heap),
           NEW n, n = Cardinality((DOMAIN heap) \X (DOMAIN heap))
    PROVE  LET result == AssertDeepEqual(heap, order, a, b)
               pairs == SeenPairs(heap, a, b, n)[n]
               unlike == \E p \in pairs : /\ {p[1], p[2]} \cap Primitive = {}
                                          /\ heap[p[1]].class # heap[p[2]].class
           IN /\ result = "overflow" => Circular(heap)
              /\ ~unlike /\ result # "overflow" =>
                   (result = "passes" <=> \A p \in pairs : Alike(heap, p[1], p[2]))
              /\ result = AssertDeepEqual(heap, order, b, a)
<1>1. PICK m \in Nat : \E g : AreTables(g, heap, order, m)
  BY TablesExist
<1>2. PICK h : AreTables(h, heap, order, m)
  BY <1>1
<1>3. m = n /\ n \in Nat
  BY <1>2 DEF AreTables
<1>4. AreTables(h, heap, order, n)
  BY <1>2, <1>3
<1>5. n + 1 \in 1 .. n + 1 /\ n + 1 \in 0 .. n + 1 /\ n \in 0..n
  BY <1>3
<1> DEFINE v == h[n + 1][<<a, b>>]
           w == h[n + 1][<<b, a>>]
           pairs == SeenPairs(heap, a, b, n)[n]
           N == n + 1
<1>6. v \in Verdicts /\ v = w
  <2>1. N \in 1 .. n + 1 /\ N \in 0 .. n + 1
    BY <1>5
  <2> HIDE DEF N
  <2>2. h[N][<<a, b>>] \in Verdicts
    BY <1>3, <1>4, <2>1, MadeOf
  <2>3. h[N][<<a, b>>] = h[N][<<b, a>>]
    BY <1>3, <1>4, <2>1, TablesSymmetric
  <2> QED
    BY <2>2, <2>3 DEF N
<1>7. DeepEqual(heap, order, a, b) = v /\ DeepEqual(heap, order, b, a) = w
  BY <1>4, Zenon DEF AreTables
<1>8. v = "overflow" => Circular(heap)
  BY <1>3, <1>4, OverflowCircular
<1>9. ASSUME v = "equal",
             \A p \in pairs : {p[1], p[2]} \cap Primitive = {} =>
                                 heap[p[1]].class = heap[p[2]].class
      PROVE  \A p \in pairs : Alike(heap, p[1], p[2])
  <2> SUFFICES ASSUME NEW p \in pairs PROVE Alike(heap, p[1], p[2])
    OBVIOUS
  <2>1. h[n + 1][p] = "equal"
    BY <1>3, <1>4, <1>5, <1>9, SeenEqual
  <2>2. p \in InHeap(heap) \X InHeap(heap)
    BY <1>3, <1>5, SeenPairsAre
  <2> DEFINE c == p[1]
             d == p[2]
  <2>3. p = <<c, d>> /\ c \in InHeap(heap) /\ d \in InHeap(heap)
    BY <2>2
  <2>4. {c, d} \cap Primitive = {} => heap[c].class = heap[d].class
    BY <1>9
  <2>5. N \in 1 .. n + 1
    BY <1>5
  <2>6. h[N][<<c, d>>] = "equal"
    BY <2>1, <2>3
  <2> HIDE DEF c, d, N
  <2>7. Alike(heap, c, d)
    BY <1>3, <1>4, <2>3, <2>4, <2>5, <2>6, EqualAlike
  <2> QED
    BY <2>7 DEF c, d
<1>10. ASSUME \A p \in pairs : Alike(heap, p[1], p[2]) PROVE v # "different"
  BY <1>3, <1>4, <1>10, SeenDifferent
<1>11. AssertDeepEqual(heap, order, a, b)
       = IF v = "overflow" THEN v ELSE IF v = "different" THEN "fails" ELSE "passes"
  BY <1>7 DEF AssertDeepEqual, Fail
<1>12. AssertDeepEqual(heap, order, b, a)
       = IF w = "overflow" THEN w ELSE IF w = "different" THEN "fails" ELSE "passes"
  BY <1>7 DEF AssertDeepEqual, Fail
<1> HIDE DEF v, w, pairs
<1>13. v \in {"equal", "different", "overflow"}
  BY <1>6 DEF Verdicts
<1>14. AssertDeepEqual(heap, order, a, b) = "overflow" <=> v = "overflow"
  BY <1>11, <1>13
<1>15. AssertDeepEqual(heap, order, a, b) = "passes" <=> v = "equal"
  BY <1>11, <1>13
<1>16. AssertDeepEqual(heap, order, a, b) = AssertDeepEqual(heap, order, b, a)
  BY <1>6, <1>11, <1>12
<1> QED
  BY <1>8, <1>9, <1>10, <1>13, <1>14, <1>15, <1>16 DEF pairs

LEMMA OwnIs ==
    ASSUME NEW keys, NEW values, NEW o \in Own(keys, values)
    PROVE  DOMAIN o \subseteq keys /\ \A k \in DOMAIN o : o[k] \in values
BY DEF Own

Order == <<"k", "l", "prototype">>

LEMMA OrderIs ==
    /\ \E S : Order \in Seq(S)
    /\ \A k \in {"k", "l", "prototype"} : \E i \in 1..Len(Order) : Order[i] = k
<1> DEFINE k == "k"
           l == "l"
           p == "prototype"
<1>1. Order = <<k, l, p>>
  BY DEF Order
<1> HIDE DEF k, l, p
<1>2. <<k, l, p>> \in Seq({k, l, p}) /\ Len(<<k, l, p>>) = 3
      /\ <<k, l, p>>[1] = k /\ <<k, l, p>>[2] = l /\ <<k, l, p>>[3] = p
  OBVIOUS
<1>3. 1 \in 1..3 /\ 2 \in 1..3 /\ 3 \in 1..3
  OBVIOUS
<1>4. \E i \in 1..Len(Order) : Order[i] = k
  BY <1>1, <1>2, <1>3
<1>5. \E i \in 1..Len(Order) : Order[i] = l
  BY <1>1, <1>2, <1>3
<1>6. \E i \in 1..Len(Order) : Order[i] = p
  BY <1>1, <1>2, <1>3
<1>7. \E S : Order \in Seq(S)
  BY <1>1, <1>2
<1> QED
  BY <1>4, <1>5, <1>6, <1>7 DEF k, l, p

LEMMA DeepEqualInput ==
    ASSUME Init, Is("deepEqual")
    PROVE  /\ IsHeap(input.heap, Order) /\ Ordinary(input.heap)
           /\ input.a \in InHeap(input.heap) /\ input.b \in InHeap(input.heap)
<1> DEFINE heap == input.heap
<1>1. \/ /\ input.a \in {1} /\ input.b \in {2} \cup Primitive
         /\ heap \in [1..MixedObjects ->
                        WithValue \cup SomeObject({"k", "prototype"},
                            1..MixedObjects \cup Primitive, {"Object", "Arguments"})]
      \/ /\ input.a \in {1} /\ input.b \in {2}
         /\ heap \in [1..PlainObjects ->
                        SomeObject({"k", "l"}, 1..PlainObjects \cup {null}, {"Object"})]
  BY DEF Init, AssertInput, BufferInput, PathInput, UtilInput, Is
<1> HIDE DEF heap
<1>2. PICK n \in {MixedObjects, PlainObjects} :
         /\ input.a \in 1..n /\ input.b \in (1..n) \cup Primitive
         /\ DOMAIN heap = 1..n
         /\ \A x \in 1..n :
               \/ heap[x] \in WithValue
               \/ heap[x] \in SomeObject({"k", "prototype"}, 1..n \cup Primitive,
                                         {"Object", "Arguments"})
               \/ heap[x] \in SomeObject({"k", "l"}, 1..n \cup {null}, {"Object"})
  <2>1. MixedObjects \in Nat \ {0, 1} /\ PlainObjects \in Nat \ {0, 1}
    BY LibraryAssumption
  <2>2. \A m \in Nat \ {0, 1} : 1 \in 1..m /\ 2 \in 1..m
    OBVIOUS
  <2> QED
    BY <1>1, <2>1, <2>2
<1>3. null \in Primitive /\ Primitive \cap (1..n) = {} /\ IsFiniteSet(1..n)
  <2>1. null \in Primitive
    BY AssertAssumption
  <2>2. Primitive \cap Nat = {}
    BY LibraryAssumption
  <2>3. 1..n \subseteq Nat
    OBVIOUS
  <2>4. Primitive \cap (1..n) = {}
    BY <2>2, <2>3
  <2>5. 1 \in Int /\ n \in Int
    BY <1>2, LibraryAssumption
  <2>6. IsFiniteSet(1..n)
    BY <2>5, FS_Interval
  <2> QED
    BY <2>1, <2>4, <2>6
<1>4. InHeap(heap) = Primitive \cup 1..n
  BY <1>2 DEF InHeap
<1>5. ASSUME NEW x \in 1..n
      PROVE  /\ \A k \in DOMAIN heap[x].own :
                   heap[x].own[k] \in InHeap(heap) /\ k \in {"k", "l", "prototype"}
             /\ IF heap[x].class \in HasValue THEN DOMAIN heap[x].own = {}
                ELSE heap[x].value = 0
  <2>1. CASE heap[x] \in WithValue
    <3>1. heap[x].own \in Own({}, {}) /\ heap[x].class \in {"Date", "Buffer"}
      BY <2>1 DEF WithValue
    <3>2. DOMAIN heap[x].own = {}
      BY <3>1, OwnIs
    <3> QED
      BY <3>1, <3>2 DEF HasValue
  <2>2. CASE heap[x] \in SomeObject({"k", "prototype"}, 1..n \cup Primitive,
                                    {"Object", "Arguments"})
    <3>1. /\ heap[x].own \in Own({"k", "prototype"}, 1..n \cup Primitive)
          /\ heap[x].class \in {"Object", "Arguments"} /\ heap[x].value = 0
      BY <2>2 DEF SomeObject
    <3>2. \A k \in DOMAIN heap[x].own :
             k \in {"k", "prototype"} /\ heap[x].own[k] \in 1..n \cup Primitive
      BY <3>1, OwnIs
    <3> QED
      BY <1>4, <3>1, <3>2 DEF HasValue
  <2>3. CASE heap[x] \in SomeObject({"k", "l"}, 1..n \cup {null}, {"Object"})
    <3>1. /\ heap[x].own \in Own({"k", "l"}, 1..n \cup {null})
          /\ heap[x].class \in {"Object"} /\ heap[x].value = 0
      BY <2>3 DEF SomeObject
    <3>2. \A k \in DOMAIN heap[x].own :
             k \in {"k", "l"} /\ heap[x].own[k] \in 1..n \cup {null}
      BY <3>1, OwnIs
    <3> QED
      BY <1>3, <1>4, <3>1, <3>2 DEF HasValue
  <2> QED
    BY <1>2, <2>1, <2>2, <2>3
<1>6. IsHeap(heap, Order)
  BY <1>2, <1>3, <1>5, OrderIs DEF IsHeap
<1>7. Ordinary(heap)
  BY <1>2, <1>5 DEF Ordinary
<1> QED
  BY <1>2, <1>4, <1>6, <1>7 DEF heap


LEMMA ThrowsInit ==
    ASSUME Init, Is("throws")
    PROVE  LET Try(should) == Throws(should, input.thrown, input.expected, input.matches)
           IN /\ Try(TRUE) = "passes" <=>
                    IsTrue(input.thrown) /\ (input.expected => input.matches)
              /\ Try(FALSE) = "passes" <=> ~IsTrue(input.thrown)
              /\ Try(TRUE) = "fails" <=> ~IsTrue(input.thrown)
<1>1. input.expected \in BOOLEAN /\ input.matches \in BOOLEAN
  BY DEF Init, AssertInput, BufferInput, PathInput, UtilInput, Is
<1> QED
  BY <1>1 DEF Throws, ExpectedException

LEMMA AssertInit == Init => AssertionsExact
<1> SUFFICES ASSUME Init PROVE AssertionsExact
  OBVIOUS
<1> DEFINE heap == input.heap
           a == input.a
           b == input.b
           n == Cardinality((DOMAIN heap) \X (DOMAIN heap))
           seen == SeenPairs(heap, a, b, n)
           pairs == seen[n]
           result == AssertDeepEqual(heap, Order, a, b)
           unlike == \E p \in pairs : /\ {p[1], p[2]} \cap Primitive = {}
                                      /\ heap[p[1]].class # heap[p[2]].class
<1>1. ASSUME Is("deepEqual")
      PROVE  /\ result = "overflow" => Circular(heap)
             /\ ~unlike /\ result # "overflow" =>
                  (result = "passes" <=> \A p \in pairs : Alike(heap, p[1], p[2]))
             /\ result = AssertDeepEqual(heap, Order, b, a)
  <2>1. /\ IsHeap(heap, Order) /\ Ordinary(heap) /\ a \in InHeap(heap) /\ b \in InHeap(heap)
    BY <1>1, DeepEqualInput
  <2> HIDE DEF heap, a, b, n
  <2>2. n = Cardinality((DOMAIN heap) \X (DOMAIN heap))
    BY DEF n
  <2> QED
    BY <2>1, <2>2, DeepEqualIs
<1>2. Is("throws") =>
         LET Try(should) == Throws(should, input.thrown, input.expected, input.matches)
         IN /\ Try(TRUE) = "passes" <=>
                  IsTrue(input.thrown) /\ (input.expected => input.matches)
            /\ Try(FALSE) = "passes" <=> ~IsTrue(input.thrown)
            /\ Try(TRUE) = "fails" <=> ~IsTrue(input.thrown)
  BY ThrowsInit
<1> QED
  BY <1>1, <1>2, Zenon DEF AssertionsExact, SeenPairs, Alike, InnerPairs, Circular, Order

\* However many objects a heap has, deepEqual holds of values that look the same, as far
\* as one may look, and its recursion ends but for objects that contain themselves;
\* throws and doesNotThrow pass when the block throws what it should (assert.js).
THEOREM AssertCorrect == Spec => []AssertionsExact
BY InputStays, AssertInit, PTL
===============================================================================
