------------------------- MODULE MCPermJsonPointer -------------------------
EXTENDS PermJsonPointer, SequencesExt

\* Keys as character sequences.
KeyA == <<"a">>
KeyB == <<"b">>
KeyC == <<"c">>
KeyAB == <<"a", ".", "b">>
KeyAC == <<"a", ".", "c">>
KeyABC == <<"a", ".", "b", "c">>

\* Top-level fields "a" and the literal dotted name "a.b", which collides
\* with the composed key of "b" under "a"; nested keys "b" and "c".
TopKeys == {KeyA, KeyAB}
NestedKeys == {KeyB, KeyC}

Scalars == {[t |-> "scalar", v |-> x] : x \in {"x", "y"}}
Objects(V, K) == {[t |-> "obj", f |-> g] : g \in UNION {[D -> V] : D \in SUBSET K}}
Arrays(V, n) == {[t |-> "arr", s |-> q] : q \in BoundedSeq(V, n)}

\* Leaves, flat objects and arrays of up to two leaves or one-key objects,
\* one level below the top-level field.
Flat == Scalars \cup {EmptyObject, EmptyArray}
OneKey == {[t |-> "obj", f |-> (k :> x)] : k \in NestedKeys, x \in Scalars}
FieldValues == Scalars \cup Objects(Flat, NestedKeys) \cup Arrays(Flat \cup OneKey, 2)

MCDocuments == UNION {[D -> FieldValues] : D \in SUBSET TopKeys}

\* No selectors, a top-level field, nested keys, a key that only shares
\* characters with "a.b", and two selectors.
MCSelectorChoices ==
    {[some |-> FALSE, list |-> {}]}
    \cup {[some |-> TRUE, list |-> l] :
            l \in {{KeyA}, {KeyAB}, {KeyAC}, {KeyABC}, {KeyAB, KeyAC}}}

MCNoSkip == {{}}
MCSkipChoices == {{KeyAB}, {KeyAC}}
=============================================================================
