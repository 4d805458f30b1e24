--------------------------- MODULE PermJsonPointer ---------------------------
(***************************************************************************)
(* The permissive JSON pointer of the new indexer (milli update/new/       *)
(* extract/mod.rs, perm_json_p) and the loop over the top-level fields of  *)
(* a document that drives it (tokenize_document, extract_document_facets). *)
(*                                                                         *)
(* A key is a sequence of characters, "." being the split symbol.  A JSON  *)
(* value is a record: a scalar [t |-> "scalar", v], an object              *)
(* [t |-> "obj", f] with f a function from keys to values, an array       *)
(* [t |-> "arr", s] with s a sequence.  The seeker is called on a (key,    *)
(* value) pair: a scalar, or an empty object or array.  The order in which *)
(* the seeker is called is not modelled: the calls are a set.              *)
(***************************************************************************)
EXTENDS Naturals, Sequences, FiniteSets

CONSTANTS
    Documents,          \* the top-level objects of the documents
    SelectorChoices,    \* attributes to extract: [some : BOOLEAN, list : set of keys]
    SkipChoices         \* attributes to skip: sets of keys

VARIABLES
    doc,        \* the document
    selectors,  \* Option<&[&str]>
    skips,      \* &[&str]
    todo,       \* the top-level fields not yet visited
    emitted     \* the seeker calls made: <<key, value>>

vars == <<doc, selectors, skips, todo, emitted>>

Dot == "."

\* The composed key of `key` under base_key (lines 68-72).
Compose(base, key) == IF base = <<>> THEN key ELSE base \o <<Dot>> \o key

\* Mutation of contained_in: the character after the prefix is not checked.
ContainedInPrefix(selector, key) ==
    Len(selector) >= Len(key) /\ SubSeq(selector, 1, Len(key)) = key

\* contained_in: selector starts with key, and the next character, if any,
\* is the split symbol.
ContainedIn(selector, key) ==
    /\ Len(selector) >= Len(key)
    /\ SubSeq(selector, 1, Len(key)) = key
    /\ Len(selector) = Len(key) \/ selector[Len(key) + 1] = Dot

\* select_field: the field is accepted when some selector is contained in it
\* or it in some selector (or there are no selectors), and skipped under the
\* same two-way rule.
SelectField(name, sel, skip) ==
    /\ ~sel.some \/ \E s \in sel.list : ContainedIn(s, name) \/ ContainedIn(name, s)
    /\ ~\E s \in skip : ContainedIn(s, name) \/ ContainedIn(name, s)

EmptyObject == [t |-> "obj", f |-> <<>>]
EmptyArray == [t |-> "arr", s |-> <<>>]

(***************************************************************************)
(* seek_leaf_values_in_object, seek_leaf_values_in_array and the match on  *)
(* a value they share: the set of seeker calls for a value under a key.   *)
(* An empty object or array is itself given to the seeker; the keys of an *)
(* object are composed and filtered by select_field; the elements of an   *)
(* array keep the key of the array and are not filtered again.            *)
(***************************************************************************)
RECURSIVE SeekInObject(_, _, _, _), SeekInArray(_, _, _, _), Seek(_, _, _, _)
SeekInObject(f, sel, skip, base) ==
    (IF DOMAIN f = {} THEN {<<base, EmptyObject>>} ELSE {})
    \cup UNION {IF SelectField(Compose(base, k), sel, skip)
                  THEN Seek(f[k], sel, skip, Compose(base, k))
                  ELSE {} : k \in DOMAIN f}

SeekInArray(s, sel, skip, base) ==
    (IF s = <<>> THEN {<<base, EmptyArray>>} ELSE {})
    \cup UNION {Seek(s[i], sel, skip, base) : i \in DOMAIN s}

Seek(v, sel, skip, key) ==
    CASE v.t = "obj" -> SeekInObject(v.f, sel, skip, key)
      [] v.t = "arr" -> SeekInArray(v.s, sel, skip, key)
      [] OTHER       -> {<<key, v>>}

Init ==
    /\ doc \in Documents
    /\ selectors \in SelectorChoices
    /\ skips \in SkipChoices
    /\ todo = DOMAIN doc
    /\ emitted = {}

(***************************************************************************)
(* One iteration of the loop over iter_top_level_fields: a selected field  *)
(* is walked from its own name as base key.                                *)
(***************************************************************************)
ExtractField(name) ==
    /\ name \in todo
    /\ todo' = todo \ {name}
    /\ emitted' = emitted \cup
         IF SelectField(name, selectors, skips)
           THEN Seek(doc[name], selectors, skips, name)
           ELSE {}
    /\ UNCHANGED <<doc, selectors, skips>>

Next == \E name \in todo : ExtractField(name)

Spec == Init /\ [][Next]_vars

TypeOK ==
    /\ doc \in Documents
    /\ selectors \in SelectorChoices
    /\ skips \in SkipChoices
    /\ todo \subseteq DOMAIN doc
    /\ \A c \in emitted : c[1] \in Seq(STRING)

-----------------------------------------------------------------------------
(***************************************************************************)
(* The reference: the leaves of a value under a key, with the key each is *)
(* reached at, and the selection rule of spec 4.B stated on whole dotted  *)
(* paths (p is q, or q continues p after a dot).                           *)
(***************************************************************************)
RECURSIVE Leaves(_, _)
Leaves(v, key) ==
    CASE v = EmptyObject \/ v = EmptyArray -> {<<key, v>>}
      [] v.t = "obj" -> UNION {Leaves(v.f[k], Compose(key, k)) : k \in DOMAIN v.f}
      [] v.t = "arr" -> UNION {Leaves(v.s[i], key) : i \in DOMAIN v.s}
      [] OTHER       -> {<<key, v>>}

DottedPrefix(p, q) ==
    p = q \/ (Len(q) > Len(p) /\ SubSeq(q, 1, Len(p) + 1) = p \o <<Dot>>)

Related(p, q) == DottedPrefix(p, q) \/ DottedPrefix(q, p)

Selected(key) ==
    /\ ~selectors.some \/ \E s \in selectors.list : Related(s, key)
    /\ ~\E s \in skips : Related(s, key)

(***************************************************************************)
(* The walk finds exactly the selected leaves: once every top-level field  *)
(* is visited, the seeker has been called on a leaf iff its composed key   *)
(* is selected, although select_field prunes whole subtrees at every      *)
(* intermediate key and never looks at the elements of an array again.     *)
(***************************************************************************)
WalkEmitsSelectedLeaves ==
    todo = {} =>
        emitted = {l \in UNION {Leaves(doc[n], n) : n \in DOMAIN doc} : Selected(l[1])}

=============================================================================
