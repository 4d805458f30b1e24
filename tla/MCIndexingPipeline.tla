------------------------- MODULE MCIndexingPipeline -------------------------
EXTENDS IndexingPipeline

\* Three keys over an LRU of two entries: the third key evicts, and a key
\* evicted while its document changes is written to the sorter twice.
MCKeys == {"k1", "k2", "k3"}
MCDocIds == {1, 2}
MCCap == 2
=============================================================================
