--------------------------- MODULE MCDocumentStore ---------------------------
EXTENDS DocumentStore

\* Two documents, one small and one of 40 bytes; contents that do not
\* compress (ratio 1) and contents that compress four to one.
MCDocIds == {1, 2}
MCContents == {"d1", "d2"}
MCRawSizes == {8, 40}
MCRatios == {1, 4}
MCDicts == {"dictA"}
MCMaxPage == 2
=============================================================================
