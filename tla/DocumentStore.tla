---------------------------- MODULE DocumentStore ----------------------------
(***************************************************************************)
(* The documents of one index and the routes that read them back           *)
(* (routes/indexes/documents.rs: get_document, get_documents,              *)
(* documents_by_query, retrieve_document, retrieve_documents,              *)
(* some_documents) through the compressed obkv codec                       *)
(* (heed_codec/compressed_obkv_codec.rs).                                  *)
(*                                                                         *)
(* A stored block is the raw KV block of a document, or its lz4 block      *)
(* compressed against a dictionary.  Bytes are abstracted to the document  *)
(* they encode and their length: the codec's behaviour depends on nothing  *)
(* else.  The writer (the indexer) and the training of the dictionary are  *)
(* not in this repository and follow spec 2 and 4.B: a document is         *)
(* compressed iff the index has a dictionary when it is written, and       *)
(* training does not rewrite the documents already stored.                 *)
(***************************************************************************)
EXTENDS Naturals, Sequences, FiniteSets, SequencesExt

CONSTANTS
    DocIds,    \* internal document ids, a finite set of naturals
    Contents,  \* document contents
    RawSizes,  \* lengths of raw KV blocks
    Ratios,    \* compression ratios the contents reach with a dictionary
    Dicts,     \* trained dictionaries
    MaxPage    \* bound on offset and limit of a documents query

NoDict == "none"
NoBlock == [form |-> "absent"]

VARIABLES
    dict,      \* the index's decompression dictionary, or NoDict
    docs,      \* internal id -> stored block, or NoBlock
    response   \* the last answer of a read route

vars == <<dict, docs, response>>

(***************************************************************************)
(* The codec                                                               *)
(***************************************************************************)
\* lz4_flex::block::get_maximum_output_size: the largest compressed output
\* of an input of len bytes (16 + 4 + len * 1.1, truncated).
MaxOutputSize(len) == 20 + (11 * len) \div 10

RawBlock(c, n) == [form |-> "raw", doc |-> c, size |-> n]

\* CompressedKvWriterU16::new_with_dictionnary: compress_with_dict.
NewWithDictionnary(raw, d, ratio) ==
    [form |-> "lz4", doc |-> raw.doc, size |-> raw.size, dict |-> d,
     csize |-> IF raw.size \div ratio = 0 THEN 1 ELSE raw.size \div ratio]

\* CompressedKvReaderU16::decompress_with: the output buffer is resized to
\* get_maximum_output_size(self.0.len()) and decompress_into_with_dict
\* fails when the block inflates beyond it.  Bytes that are not an lz4
\* block of this dictionary fail or inflate to garbage.
DecompressWith(b, d) ==
    IF b.form = "lz4" /\ b.dict = d
      THEN IF b.size <= MaxOutputSize(b.csize) THEN {b.doc} ELSE {"error"}
      ELSE {"error", "garbage"}

\* CompressedKvReaderU16::as_non_compressed: the bytes read as a KV block.
AsNonCompressed(b) == IF b.form = "raw" THEN {b.doc} ELSE {"error", "garbage"}

\* decompress_with_optional_dictionary: the dictionary when there is one.
DecompressWithOptionalDictionary(b, d) ==
    IF d = NoDict THEN AsNonCompressed(b) ELSE DecompressWith(b, d)

(***************************************************************************)
(* The index: the writer and the dictionary (spec 2, 4.B)                  *)
(***************************************************************************)
Stored == {i \in DocIds : docs[i] # NoBlock}

\* put(internal_id, raw_kv_bytes): compressed against the current
\* dictionary if there is one.
PutDocument(i, c, n, ratio) ==
    /\ docs' = [docs EXCEPT ![i] = IF dict = NoDict THEN RawBlock(c, n)
                                   ELSE NewWithDictionnary(RawBlock(c, n), dict, ratio)]
    /\ UNCHANGED <<dict, response>>

DeleteDocument(i) ==
    /\ docs[i] # NoBlock
    /\ docs' = [docs EXCEPT ![i] = NoBlock]
    /\ UNCHANGED <<dict, response>>

\* A dictionary is trained once; the stored documents are left as they are.
TrainDictionary(d) ==
    /\ dict = NoDict
    /\ dict' = d
    /\ UNCHANGED <<docs, response>>

(***************************************************************************)
(* The read routes                                                         *)
(***************************************************************************)
\* some_documents: every document of ids is decompressed with the index's
\* current dictionary; obkv_to_json of garbage yields garbage.
SomeDocuments(ids) ==
    LET outs == [k \in 1..Len(ids) |-> DecompressWithOptionalDictionary(docs[ids[k]], dict)]
    IN  {s \in [1..Len(ids) -> UNION {outs[k] : k \in 1..Len(ids)}] :
            \A k \in 1..Len(ids) : s[k] \in outs[k]}

\* The stored ids in increasing order (documents_ids iterates a bitmap).
Candidates == SetToSortSeq(Stored, <)

\* candidates.into_iter().skip(offset).take(limit)
Page(s, offset, limit) ==
    IF offset >= Len(s) THEN <<>>
    ELSE SubSeq(s, offset + 1, Min({offset + limit, Len(s)}))

Contents0(ids) == [k \in 1..Len(ids) |-> docs[ids[k]].doc]

\* retrieve_document: DocumentNotFound for an unknown external id, else the
\* error of the decompression or the document.
RetrieveDocument(i) ==
    IF docs[i] = NoBlock
      THEN {[status |-> "not_found", docs |-> <<>>, expected |-> <<>>, total |-> 0]}
      ELSE {[status |-> IF out = "error" THEN "error" ELSE "ok",
             docs |-> IF out = "error" THEN <<>> ELSE <<out>>,
             expected |-> <<docs[i].doc>>, total |-> 1] :
                out \in DecompressWithOptionalDictionary(docs[i], dict)}

\* retrieve_documents without a filter: the candidates are documents_ids,
\* the page is decompressed by some_documents, the total is the number of
\* candidates, and the first error of the page fails the whole answer
\* (collect::<Result<_, _>>).
RetrieveDocuments(offset, limit) ==
    LET ids == Page(Candidates, offset, limit)
        Failed(s) == \E k \in 1..Len(ids) : s[k] = "error"
    IN  {[status |-> IF Failed(s) THEN "error" ELSE "ok",
          docs |-> IF Failed(s) THEN <<>> ELSE s,
          expected |-> Contents0(ids), total |-> Len(Candidates)] :
            s \in SomeDocuments(ids)}

\* GET /indexes/{uid}/documents/{id}
GetDocument(i) ==
    /\ response' \in RetrieveDocument(i)
    /\ UNCHANGED <<dict, docs>>

\* documents_by_query, behind GET and POST /indexes/{uid}/documents: one
\* read transaction, and the page answered with its offset, limit and total.
GetDocuments(offset, limit) ==
    /\ response' \in RetrieveDocuments(offset, limit)
    /\ UNCHANGED <<dict, docs>>

NoResponse == [status |-> "none", docs |-> <<>>, expected |-> <<>>, total |-> 0]

Init ==
    /\ dict \in {NoDict} \cup Dicts
    /\ docs = [i \in DocIds |-> NoBlock]
    /\ response = NoResponse

Next ==
    \/ \E i \in DocIds, c \in Contents, n \in RawSizes, r \in Ratios : PutDocument(i, c, n, r)
    \/ \E i \in DocIds : DeleteDocument(i) \/ GetDocument(i)
    \/ \E d \in Dicts : TrainDictionary(d)
    \/ \E o, l \in 0..MaxPage : GetDocuments(o, l)

Spec == Init /\ [][Next]_vars

-----------------------------------------------------------------------------
(***************************************************************************)
(* Reading back what was stored (spec 4.A round trip, decode(encode(kv,    *)
(* dict), dict) = kv, and 4.B get/iter): a read route never fails on a     *)
(* stored document and answers exactly the documents stored, whether they  *)
(* were written before or after the dictionary was trained.               *)
(***************************************************************************)
ReadReturnsStored ==
    response # NoResponse =>
        /\ response.status # "error"
        /\ response.status = "ok" => response.docs = response.expected

=============================================================================
