--------------------------- MODULE DocumentTokenizer ---------------------------
(***************************************************************************)
(* DocumentTokenizer::tokenize_document and process_tokens                 *)
(* (milli update/new/extract/searchable/tokenize_document.rs): the word    *)
(* positions given to the leaves of a document.                            *)
(*                                                                         *)
(* The document is the sequence of leaves the field-path walker hands to   *)
(* tokenize_field, each a (field name, value) pair.  All leaves of a field *)
(* share one position counter: the first starts at 0, every later one     *)
(* MAX_DISTANCE after the last word kept in the field.  A string is cut    *)
(* into tokens by the tokenizer; only the token kinds matter here:         *)
(*   "w"  a Word or StopWord kept by tokenize_field;                      *)
(*   "x"  a Word whose lemma is not empty but trims to nothing or is       *)
(*        longer than MAX_WORD_LENGTH: it takes a position, then dropped;  *)
(*   "e"  a Word whose lemma is empty: process_tokens makes it Unknown;    *)
(*   "H", "S"  a hard and a soft separator.                                *)
(* A number is one token at the current position.                          *)
(***************************************************************************)
EXTENDS Naturals, Sequences, FiniteSets, SequencesExt

CONSTANTS
    Fields,         \* field names
    FieldIdLimit,   \* how many field ids the fields-ids map can still give
    MaxDistance,    \* crate::proximity::MAX_DISTANCE
    MaxPositions,   \* max_positions_per_attributes
    PositionLimit,  \* values of the u16 a position is converted to (2^16)
    MaxTokens,      \* bound on the tokens of a string leaf
    MaxLeaves       \* bound on the leaves of a document

ASSUME MaxDistance \in Nat \ {0} /\ MaxPositions \in Nat /\ PositionLimit \in Nat

TokenKind == {"w", "x", "e", "H", "S"}
\* A number leaf is the one-token sequence <<"num">>.
Number == <<"num">>
\* Any other value (bool, null) is the sequence <<"other">>.
Other == <<"other">>
Value == {Number, Other} \cup BoundedSeq(TokenKind, MaxTokens)
Leaf == [field : Fields, value : Value]

VARIABLES
    document,       \* the leaves of the document, as handed to tokenize_field
    leaves,         \* the leaves not yet tokenized
    leafCount,      \* how many leaves have been tokenized
    fieldIds,       \* the fields that have a field id
    fieldPosition,  \* the position counter of every field that has one
    emitted,        \* the calls to token_fn: [field, pos, leaf, idx, start]
    status          \* "running" | "done" | "attribute_limit"

vars == <<document, leaves, leafCount, fieldIds, fieldPosition, emitted, status>>

(***************************************************************************)
(* process_tokens: leading separators are skipped, then a scan keeps the   *)
(* offset and the kind of the previous token.  A word with a lemma moves   *)
(* the offset by MAX_DISTANCE after a hard separator, by 1 after anything  *)
(* else, by 0 for the first one.  A soft separator right after a hard one, *)
(* or a word with an empty lemma, becomes Unknown and leaves the previous  *)
(* kind as it was.  Only words are returned, with their index.             *)
(***************************************************************************)
\* Mutation of KindAfter: a soft separator after a hard one replaces it.
KindAfterSoftResets(t, prev) ==
    CASE t \in {"w", "x"}  -> "word"
      [] t \in {"H", "S"}  -> t
      [] OTHER             -> prev

\* The kind the scan remembers after token t (prev_kind).
KindAfter(t, prev) ==
    CASE t \in {"w", "x"}           -> "word"
      [] t = "H"                    -> "H"
      [] t = "S" /\ prev # "H"      -> "S"
      [] OTHER                      -> prev

\* The offset of a word with a lemma, given the previous kind.
Advance(offset, prev) ==
    offset + (CASE prev = "H"    -> MaxDistance
                [] prev = "none" -> 0
                [] OTHER         -> 1)

RECURSIVE Scan(_, _, _, _)
Scan(ts, i, offset, prev) ==
    IF i > Len(ts) THEN <<>>
    ELSE LET t == ts[i]
             o == IF t \in {"w", "x"} THEN Advance(offset, prev) ELSE offset
             rest == Scan(ts, i + 1, o, KindAfter(t, prev))
         IN  IF t \in {"w", "x"} THEN <<[pos |-> o, idx |-> i, tok |-> t]>> \o rest
                                 ELSE rest

RECURSIVE FirstNonSeparator(_, _)
FirstNonSeparator(ts, i) ==
    IF i <= Len(ts) /\ ts[i] \in {"H", "S"} THEN FirstNonSeparator(ts, i + 1) ELSE i

ProcessTokens(start, ts) == Scan(ts, FirstNonSeparator(ts, 1), start, "none")

\* Mutation of Below: the bound is compared with <= instead of <.
BelowOrAt(pos) == pos <= MaxPositions

\* `(p as u32) < self.max_positions_per_attributes`, the bound tested before
\* a leaf and on every token of a string.
Below(pos) == pos < MaxPositions

\* .take_while(|(p, _)| p < max_positions_per_attributes)
RECURSIVE TakeWhileBelow(_)
TakeWhileBelow(s) ==
    IF s = <<>> \/ ~Below(Head(s).pos) THEN <<>>
    ELSE <<Head(s)>> \o TakeWhileBelow(Tail(s))

Kept(s) == SelectSeq(s, LAMBDA t : t.tok = "w")

\* `if let Ok(position) = position.try_into()`: a position that does not fit
\* a u16 is not given to token_fn.
Fits(pos) == pos < PositionLimit

\* Mutation of NextPosition: the counter is not moved to the last kept word.
NextPositionUnmoved(pos, words) == pos

\* The counter after a leaf: left where the early return found it, else moved
\* to the last word kept (`*position = index`), if any.
NextPosition(pos, words) ==
    IF ~Below(pos) \/ words = <<>> THEN pos ELSE Last(words).pos

\* The calls to token_fn for the words of a leaf, each recorded with the
\* offset the leaf started at.
Emit(field, words, leaf, start) ==
    [j \in 1..Len(words) |-> [field |-> field, pos |-> words[j].pos,
                              leaf |-> leaf, idx |-> words[j].idx, start |-> start]]

\* The next leaf, and whether id_or_insert can give its field an id.
NextLeaf == Head(leaves)

\* Mutation of HasFieldId: the last free id is given out twice.
HasFieldIdAtLimit(f) == f \in fieldIds \/ Cardinality(fieldIds) <= FieldIdLimit

HasFieldId(f) == f \in fieldIds \/ Cardinality(fieldIds) < FieldIdLimit

(***************************************************************************)
(* tokenize_field for the next leaf.  The counter is created at 0 or moved *)
(* by MAX_DISTANCE before the max_positions check returns early.  A number *)
(* is given the counter's position; a string the positions process_tokens *)
(* gives its kept words, and the counter moves to the last of them; any    *)
(* other value is ignored.  Positions beyond a u16 are not given out.      *)
(***************************************************************************)
TokenizeField ==
    /\ status = "running"
    /\ leaves # <<>>
    /\ HasFieldId(NextLeaf.field)
    /\ LET leaf == NextLeaf
           f == leaf.field
           pos == IF f \in DOMAIN fieldPosition THEN fieldPosition[f] + MaxDistance ELSE 0
           words == IF leaf.value \in {Number, Other} THEN <<>>
                    ELSE Kept(TakeWhileBelow(ProcessTokens(pos, leaf.value)))
           n == leafCount + 1
           given == CASE ~Below(pos) \/ leaf.value = Other -> <<>>
                      [] leaf.value = Number -> <<[pos |-> pos, idx |-> 1]>>
                      [] OTHER -> words
       IN /\ fieldIds' = fieldIds \cup {f}
          /\ leaves' = Tail(leaves)
          /\ leafCount' = n
          /\ fieldPosition' = (f :> NextPosition(pos, words)) @@ fieldPosition
          /\ emitted' = emitted \o Emit(f, SelectSeq(given, LAMBDA w : Fits(w.pos)), n, pos)
          /\ UNCHANGED status

\* id_or_insert returns None: tokenize_document fails with
\* AttributeLimitReached and the rest of the document is not tokenized.
AttributeLimitReached ==
    /\ status = "running"
    /\ leaves # <<>>
    /\ ~HasFieldId(NextLeaf.field)
    /\ status' = "attribute_limit"
    /\ UNCHANGED <<leaves, leafCount, fieldIds, fieldPosition, emitted>>

Finish ==
    /\ status = "running"
    /\ leaves = <<>>
    /\ status' = "done"
    /\ UNCHANGED <<leaves, leafCount, fieldIds, fieldPosition, emitted>>

Init ==
    /\ document \in BoundedSeq(Leaf, MaxLeaves)
    /\ leaves = document
    /\ leafCount = 0
    /\ fieldIds = {}
    /\ fieldPosition = <<>>
    /\ emitted = <<>>
    /\ status = "running"

Next == (TokenizeField \/ AttributeLimitReached \/ Finish) /\ UNCHANGED document

Spec == Init /\ [][Next]_vars

TypeOK ==
    /\ document \in Seq(Leaf) /\ Len(document) <= MaxLeaves
    /\ leaves = SubSeq(document, leafCount + 1, Len(document))
    /\ leafCount \in 0..MaxLeaves
    /\ fieldIds \subseteq Fields /\ Cardinality(fieldIds) <= FieldIdLimit
    /\ DOMAIN fieldPosition \subseteq Fields
    /\ \A f \in DOMAIN fieldPosition : fieldPosition[f] \in Nat
    /\ \A i \in DOMAIN emitted : emitted[i] \in
          [field : Fields, pos : Nat, leaf : 1..MaxLeaves, idx : 1..MaxTokens,
           start : Nat]
    /\ status \in {"running", "done", "attribute_limit"}

-----------------------------------------------------------------------------
(***************************************************************************)
(* Leaves are kept apart: within a field, the positions given to token_fn  *)
(* strictly increase, and a word of a later leaf (another array element,  *)
(* or the same dotted name reached from another top-level field) is at    *)
(* least MAX_DISTANCE after every word of an earlier one, so that no two  *)
(* values look adjacent to the proximity criterion.                        *)
(***************************************************************************)
LeavesKeptApart ==
    \A i, j \in DOMAIN emitted :
        i < j /\ emitted[i].field = emitted[j].field =>
            /\ emitted[i].pos < emitted[j].pos
            /\ emitted[i].leaf # emitted[j].leaf =>
                   emitted[j].pos - emitted[i].pos >= MaxDistance

(***************************************************************************)
(* Separator proximity (spec section 8): two words of a string with only   *)
(* separators between them are MAX_DISTANCE apart when one of those is     *)
(* hard, and 1 apart otherwise, however hard and soft separators follow    *)
(* each other.                                                             *)
(***************************************************************************)
SeparatorProximity ==
    \A i \in 1..(Len(emitted) - 1) :
        LET a == emitted[i]
            b == emitted[i + 1]
            ts == document[a.leaf].value
            between == {ts[j] : j \in (a.idx + 1)..(b.idx - 1)}
        IN  a.leaf = b.leaf /\ between \subseteq {"H", "S"} =>
                b.pos - a.pos = IF "H" \in between THEN MaxDistance ELSE 1

(***************************************************************************)
(* No position reaches max_positions_per_attributes: neither a later leaf  *)
(* (the early return of tokenize_field) nor a later word of a string (the  *)
(* take_while of the token stream).                                        *)
(***************************************************************************)
WithinMaxPositions == \A i \in DOMAIN emitted : emitted[i].pos < MaxPositions

(***************************************************************************)
(* Leading non-words do not count (spec 4.C: positions start at the       *)
(* caller's offset, leading separators are skipped): a word of a string    *)
(* with only separators and words without a lemma before it is given the   *)
(* offset the leaf starts at (process_tokens, skip_while and scan).        *)
(***************************************************************************)
FirstWordAtStart ==
    \A i \in DOMAIN emitted :
        LET w == emitted[i]
        IN  (\A j \in 1..(w.idx - 1) : document[w.leaf].value[j] \in {"H", "S", "e"})
                => w.pos = w.start

=============================================================================
