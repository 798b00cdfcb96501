-------------------------------- MODULE Assert --------------------------------
(***************************************************************************)
(* The assertions of the assert module (src/nodeqml/js/assert.js).         *)
(*                                                                         *)
(* A value is a primitive or an object in the heap, which maps an object   *)
(* to its class and its own enumerable properties.  What an assertion does *)
(* is one of "passes", "fails" (throws an AssertionError), "rethrows" and  *)
(* "overflow" (the recursion of _deepEqual does not end, and V4 throws a   *)
(* RangeError).                                                            *)
(***************************************************************************)
EXTENDS Naturals, FiniteSets, SequencesExt

CONSTANTS
    Primitive,     \* undefined, null, numbers, strings, ...
    LooselyEqual,  \* the pairs of primitives that are equal for ==
    Truthy,        \* the primitives that are true in a condition
    undefined, null

ASSUME AssertAssumption ==
    /\ {undefined, null} \subseteq Primitive
    /\ Truthy \subseteq Primitive
    /\ LooselyEqual \subseteq Primitive \X Primitive
    /\ \A p \in LooselyEqual : <<p[2], p[1]>> \in LooselyEqual

IsTrue(v) == v \in Primitive => v \in Truthy

\* a == b, where at most one of them is an object: no object here equals a primitive.
Equal(a, b) == a = b \/ <<a, b>> \in LooselyEqual

Fail(condition) == IF condition THEN "fails" ELSE "passes"

Ok(v) == Fail(~IsTrue(v))
StrictEqual(a, b) == Fail(a # b)
NotStrictEqual(a, b) == Fail(a = b)
LooseEqual(a, b) == Fail(~Equal(a, b))
NotLooseEqual(a, b) == Fail(Equal(a, b))

-----------------------------------------------------------------------------
(* _deepEqual and objEquiv.  Objects are of the classes Object (arrays too),       *)
(* Arguments, Buffer, Date and RegExp; the last three have a value.                *)

Class(heap, v) == IF v \in Primitive THEN "Primitive" ELSE heap[v].class

HasValue == {"Buffer", "Date", "RegExp"}

\* typeof v == 'object'
TypeofObject(v) == v \notin Primitive \/ v = null

Keys(heap, v) == DOMAIN heap[v].own

\* v.prototype
PrototypeOf(heap, v) ==
    IF v \in Primitive \/ "prototype" \notin Keys(heap, v) THEN undefined
    ELSE heap[v].own["prototype"]

\* Mutant: the keys of the second are not counted.
SameKeysOfFirst(heap, a, b) == Keys(heap, a) \subseteq Keys(heap, b)

\* The same number of own keys, and the same ones.
SameKeys(heap, a, b) == Keys(heap, a) = Keys(heap, b)

\* objEquiv before it looks at the properties; Object.keys throws for a primitive.
MayBeEquiv(heap, a, b) ==
    /\ {a, b} \cap {undefined, null} = {}
    /\ PrototypeOf(heap, a) = PrototypeOf(heap, b)
    /\ Class(heap, a) = "Arguments" <=> Class(heap, b) = "Arguments"
    /\ {a, b} \cap Primitive = {}
    /\ SameKeys(heap, a, b)

\* The properties are compared in the reverse order of their names (order has all names,
\* sorted), up to the first that differs.  deeper is what _deepEqual finds of each pair
\* of values.
ComparedProperties(heap, order, deeper, a, b) ==
    LET upTo[i \in 0..Len(order)] ==
            IF i = 0 THEN "equal"
            ELSE LET key == order[i]
                     verdict == IF key \notin Keys(heap, a) THEN "equal"
                                ELSE deeper[<<heap[a].own[key], heap[b].own[key]>>]
                 IN IF verdict = "equal" THEN upTo[i - 1] ELSE verdict
    IN upTo[Len(order)]

Compared(heap, order, deeper, a, b) ==
    LET Verdict(equal) == IF equal THEN "equal" ELSE "different"
    IN IF a = b THEN "equal"
       ELSE IF Class(heap, a) = Class(heap, b) /\ Class(heap, a) \in HasValue
            THEN Verdict(heap[a].value = heap[b].value)
       ELSE IF ~TypeofObject(a) /\ ~TypeofObject(b) THEN Verdict(Equal(a, b))
       ELSE IF ~MayBeEquiv(heap, a, b) THEN "different"
       ELSE ComparedProperties(heap, order, deeper, a, b)

\* A recursion deeper than there are pairs of objects has come to the same pair again
\* and does not end.
DeepEqual(heap, order, actual, expected) ==
    LET Value == Primitive \cup DOMAIN heap
        depth == Cardinality((DOMAIN heap) \X (DOMAIN heap)) + 1
        compared[n \in 0..depth] ==
            [p \in Value \X Value |->
                IF n = 0 THEN "overflow"
                ELSE Compared(heap, order, compared[n - 1], p[1], p[2])]
    IN compared[depth][<<actual, expected>>]

AssertDeepEqual(heap, order, a, b) ==
    LET result == DeepEqual(heap, order, a, b)
    IN IF result = "overflow" THEN result ELSE Fail(result = "different")

AssertNotDeepEqual(heap, order, a, b) ==
    LET result == DeepEqual(heap, order, a, b)
    IN IF result = "overflow" THEN result ELSE Fail(result = "equal")

-----------------------------------------------------------------------------
(* throws, doesNotThrow and ifError.  What a block throws is a value; a block that *)
(* does not throw is one that throws undefined.  matches: the expected exception   *)
(* is a RegExp that matches it, a constructor of it, or a function that accepts it.*)

ExpectedException(actual, expected, matches) == IsTrue(actual) /\ expected /\ matches

\* expected: whether there is an expected exception (not only a message).
Throws(shouldThrow, actual, expected, matches) ==
    LET asExpected == ExpectedException(actual, expected, matches)
    IN IF IF shouldThrow THEN ~IsTrue(actual) ELSE asExpected THEN "fails"
       ELSE IF IsTrue(actual) /\ (shouldThrow => expected /\ ~asExpected) THEN "rethrows"
       ELSE "passes"

IfError(v) == IF IsTrue(v) THEN "rethrows" ELSE "passes"
=============================================================================
