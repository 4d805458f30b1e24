--------------------------- MODULE ExtractionCache ---------------------------
(***************************************************************************)
(* SorterCacheDelAddCboRoaringBitmap (milli update/index_documents/cache.rs)*)
(*                                                                         *)
(* An LRU of capacity Cap mapping a key to a pair of optional bitmaps      *)
(* {del, add}.  An insert on a cached key updates the entry in place (and  *)
(* LruCache::get_mut makes it the most recent); an insert on an uncached   *)
(* key pushes a new entry, and when the LRU is full the least recently     *)
(* used entry is evicted and written to the grenad sorter.  into_sorter    *)
(* drains every remaining entry into the sorter.  Before each sorter       *)
(* insert the code sends a Redis INCR for the key and unwraps the reply.   *)
(*                                                                         *)
(* A bitmap that is None is the empty set here: the code only ever creates *)
(* Some(bitmap) holding at least one docid.                                *)
(***************************************************************************)
EXTENDS Naturals, Sequences, FiniteSets, SequencesExt

CONSTANTS
    Keys,       \* the byte-string keys (words, facet values...)
    DocIds,     \* the u32 document ids
    Cap         \* the NonZeroUsize capacity of the LruCache

ASSUME Cap \in Nat \ {0}

VARIABLES
    cache,      \* Seq of entries, least recently used first
    sorter,     \* Seq of entries written to the grenad sorter, in order
    incr,       \* the Redis counter of every key (INCR key)
    phase,      \* "running" | "drained" | "failed" | "panicked"
    issuedDel,  \* history: docids given to a del insert, per key
    issuedAdd   \* history: docids given to an add insert, per key

cacheVars == <<cache, sorter, incr, phase, issuedDel, issuedAdd>>

Entry == [key : Keys, del : SUBSET DocIds, add : SUBSET DocIds]

\* The outcome of the two side effects of write_entry_to_sorter: the Redis
\* INCR (unwrapped: an error panics) and Sorter::insert (an error is
\* returned with `?`).
WriteOutcome == {"ok", "redis_error", "sorter_error"}

CacheTypeOK ==
    /\ cache \in Seq(Entry) /\ Len(cache) <= Cap
    /\ sorter \in Seq(Entry)
    /\ incr \in [Keys -> Nat]
    /\ phase \in {"running", "drained", "failed", "panicked"}
    /\ issuedDel \in [Keys -> SUBSET DocIds]
    /\ issuedAdd \in [Keys -> SUBSET DocIds]

CachedKeys == {cache[i].key : i \in DOMAIN cache}

Slot(k) == CHOOSE i \in DOMAIN cache : cache[i].key = k

\* DelAddRoaringBitmap { del: None, add: None } is not written (line 103).
HasBitmap(e) == e.del \cup e.add # {}

(***************************************************************************)
(* write_entry_to_sorter for the entries es, in order, ending in outcome.  *)
(* On "ok" every entry carrying a bitmap is INCRed and inserted.  On an    *)
(* error the entries before the last one are written, and the last one is *)
(* INCRed (sorter_error) or not (redis_error) but never inserted.          *)
(***************************************************************************)
WriteEntries(es, outcome, okPhase) ==
    LET written == IF outcome = "ok" THEN es ELSE Front(es)
        failing == IF outcome = "sorter_error" THEN <<Last(es)>> ELSE <<>>
        counted == SelectSeq(written \o failing, HasBitmap)
    IN  /\ sorter' = sorter \o SelectSeq(written, HasBitmap)
        /\ incr' = [k \in Keys |->
                      incr[k] + Cardinality({i \in DOMAIN counted : counted[i].key = k})]
        /\ phase' = CASE outcome = "ok"           -> okPhase
                      [] outcome = "redis_error"  -> "panicked"
                      [] outcome = "sorter_error" -> "failed"

WriteEntryToSorter(e, outcome) == WriteEntries(<<e>>, outcome, phase)

(***************************************************************************)
(* The common shape of insert_del_u32, insert_add_u32 and                  *)
(* insert_del_add_u32: Hit(e) updates a cached entry, fresh is the entry   *)
(* DelAddRoaringBitmap::new_* pushes for an uncached key.                  *)
(***************************************************************************)
\* Mutation of HasRoom: the LRU takes one entry more than its capacity.
HasRoomAtCap == Len(cache) <= Cap

\* LruCache::push evicts the least recently used entry only when full.
HasRoom == Len(cache) < Cap

\* DelAddRoaringBitmap::new_del, new_add, new_del_add: the entry of a key
\* pushed on a miss (a None bitmap is the empty set).
NewDel(k, n) == [key |-> k, del |-> {n}, add |-> {}]
NewAdd(k, n) == [key |-> k, del |-> {}, add |-> {n}]
NewDelAdd(k, n) == [key |-> k, del |-> {n}, add |-> {n}]

Insert(k, Hit(_), fresh) ==
    /\ phase = "running"
    /\ IF k \in CachedKeys
         THEN /\ cache' = Append(RemoveAt(cache, Slot(k)), Hit(cache[Slot(k)]))
              /\ UNCHANGED <<sorter, incr, phase>>
         ELSE IF HasRoom
         THEN /\ cache' = Append(cache, fresh)
              /\ UNCHANGED <<sorter, incr, phase>>
         ELSE /\ cache' = Append(Tail(cache), fresh)
              /\ \E outcome \in WriteOutcome : WriteEntryToSorter(Head(cache), outcome)

InsertDel(k, n) ==
    /\ Insert(k, LAMBDA e : [e EXCEPT !.del = @ \cup {n}],
              NewDel(k, n))
    /\ issuedDel' = [issuedDel EXCEPT ![k] = @ \cup {n}]
    /\ UNCHANGED issuedAdd

\* Mutation of InsertAdd: a hit overwrites the add bitmap with {n}.
InsertAddOverwriting(k, n) ==
    /\ Insert(k, LAMBDA e : [e EXCEPT !.add = {n}],
              NewAdd(k, n))
    /\ issuedAdd' = [issuedAdd EXCEPT ![k] = @ \cup {n}]
    /\ UNCHANGED issuedDel

InsertAdd(k, n) ==
    /\ Insert(k, LAMBDA e : [e EXCEPT !.add = @ \cup {n}],
              NewAdd(k, n))
    /\ issuedAdd' = [issuedAdd EXCEPT ![k] = @ \cup {n}]
    /\ UNCHANGED issuedDel

InsertDelAdd(k, n) ==
    /\ Insert(k, LAMBDA e : [e EXCEPT !.del = @ \cup {n}, !.add = @ \cup {n}],
              NewDelAdd(k, n))
    /\ issuedDel' = [issuedDel EXCEPT ![k] = @ \cup {n}]
    /\ issuedAdd' = [issuedAdd EXCEPT ![k] = @ \cup {n}]

\* into_sorter: replace the LRU by an empty one and write every entry, least
\* recently used first, stopping at the first error.
IntoSorter ==
    /\ phase = "running"
    /\ cache' = <<>>
    /\ \/ WriteEntries(cache, "ok", "drained")
       \/ \E i \in 1..Len(cache), outcome \in WriteOutcome \ {"ok"} :
             WriteEntries(SubSeq(cache, 1, i), outcome, phase)
    /\ UNCHANGED <<issuedDel, issuedAdd>>

CacheInit ==
    /\ cache = <<>>
    /\ sorter = <<>>
    /\ incr = [k \in Keys |-> 0]
    /\ phase = "running"
    /\ issuedDel = [k \in Keys |-> {}]
    /\ issuedAdd = [k \in Keys |-> {}]

(***************************************************************************)
(* The del and add docids of key k that the cache and the sorter hold.     *)
(***************************************************************************)
SorterDel(k) == UNION {sorter[i].del : i \in {j \in DOMAIN sorter : sorter[j].key = k}}
SorterAdd(k) == UNION {sorter[i].add : i \in {j \in DOMAIN sorter : sorter[j].key = k}}
CacheDel(k) == IF k \in CachedKeys THEN cache[Slot(k)].del ELSE {}
CacheAdd(k) == IF k \in CachedKeys THEN cache[Slot(k)].add ELSE {}

=============================================================================
