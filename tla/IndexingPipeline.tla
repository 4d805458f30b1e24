--------------------------- MODULE IndexingPipeline ---------------------------
(***************************************************************************)
(* One extractor of the indexing pipeline (spec 4.E) feeding the           *)
(* extraction cache, then the merge of the sorted run into the index.      *)
(*                                                                         *)
(* Every document of the batch changes at most once (a DocumentChange      *)
(* carries its old and new form).  The extractor turns a change of the     *)
(* keys of document d from old to new into inserts on the cache: del for a *)
(* key only the old form has, add for a key only the new form has, del_add *)
(* for a key both have.  After into_sorter, the sorted run is merged into  *)
(* the on-disk bitmaps: for every key, the union of the del bitmaps is     *)
(* subtracted, then the union of the add bitmaps is added; an empty bitmap *)
(* is a deleted key.                                                       *)
(***************************************************************************)
EXTENDS ExtractionCache

VARIABLES
    docKeys,    \* the keys of every document, as of the changes extracted
    changed,    \* the documents whose change has been extracted
    pending,    \* the cache inserts of the change being extracted
    index,      \* the on-disk bitmap of every key
    merged      \* the merged run has been written

vars == <<cacheVars, docKeys, changed, pending, index, merged>>

Op == [kind : {"del", "add", "del_add"}, key : Keys, doc : DocIds]

TypeOK ==
    /\ CacheTypeOK
    /\ docKeys \in [DocIds -> SUBSET Keys]
    /\ changed \subseteq DocIds
    /\ pending \in Seq(Op)
    /\ index \in [Keys -> SUBSET DocIds]
    /\ merged \in BOOLEAN

\* The documents holding key k, as the documents are now.
Holders(k) == {d \in DocIds : k \in docKeys[d]}

Init ==
    /\ CacheInit
    /\ docKeys \in [DocIds -> SUBSET Keys]
    /\ index = [k \in Keys |-> Holders(k)]
    /\ changed = {}
    /\ pending = <<>>
    /\ merged = FALSE

\* The inserts the extractor issues for document d going from old to new.
ChangeOps(d, old, new) ==
    SetToSeq(  {[kind |-> "del", key |-> k, doc |-> d] : k \in old \ new}
             \cup {[kind |-> "add", key |-> k, doc |-> d] : k \in new \ old}
             \cup {[kind |-> "del_add", key |-> k, doc |-> d] : k \in old \cap new})

\* A DocumentChange (deletion: new = {}, insertion: old = {}) is extracted.
ExtractChange(d, new) ==
    /\ phase = "running"
    /\ pending = <<>>
    /\ d \notin changed
    /\ pending' = ChangeOps(d, docKeys[d], new)
    /\ docKeys' = [docKeys EXCEPT ![d] = new]
    /\ changed' = changed \cup {d}
    /\ UNCHANGED <<cacheVars, index, merged>>

\* The extractor hands the next insert of the change to the cache.
FeedCache ==
    /\ pending # <<>>
    /\ LET op == Head(pending) IN
         CASE op.kind = "del"     -> InsertDel(op.key, op.doc)
           [] op.kind = "add"     -> InsertAdd(op.key, op.doc)
           [] op.kind = "del_add" -> InsertDelAdd(op.key, op.doc)
    /\ pending' = Tail(pending)
    /\ UNCHANGED <<docKeys, changed, index, merged>>

\* The document stream is exhausted: the cache is drained into the sorter.
Drain ==
    /\ pending = <<>>
    /\ IntoSorter
    /\ UNCHANGED <<docKeys, changed, pending, index, merged>>

\* MergeDeladdCboRoaringBitmaps applied to an existing bitmap.
MergeDelAdd(old, k) == (old \ SorterDel(k)) \cup SorterAdd(k)

\* The merged run is written into the index in the write transaction.
WriteMerged ==
    /\ phase = "drained"
    /\ ~merged
    /\ index' = [k \in Keys |-> MergeDelAdd(index[k], k)]
    /\ merged' = TRUE
    /\ UNCHANGED <<cacheVars, docKeys, changed, pending>>

Next ==
    \/ \E d \in DocIds, new \in SUBSET Keys : ExtractChange(d, new)
    \/ FeedCache
    \/ Drain
    \/ WriteMerged

Spec == Init /\ [][Next]_vars

-----------------------------------------------------------------------------
(***************************************************************************)
(* No lost update: while the extraction has not failed, every docid given  *)
(* to insert_del_u32 / insert_add_u32 / insert_del_add_u32 for key k is    *)
(* either in the cached entry of k or in a sorter entry of k, whatever the *)
(* LRU evicted in between (cache.rs lines 36-115).                         *)
(***************************************************************************)
NoLostUpdate ==
    phase \in {"running", "drained"} =>
        \A k \in Keys :
            /\ CacheDel(k) \cup SorterDel(k) = issuedDel[k]
            /\ CacheAdd(k) \cup SorterAdd(k) = issuedAdd[k]

=============================================================================
