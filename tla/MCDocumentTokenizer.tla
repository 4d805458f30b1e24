------------------------- MODULE MCDocumentTokenizer -------------------------
EXTENDS DocumentTokenizer

\* Two field names and room for one field id: the second name hits
\* AttributeLimitReached, two leaves of one name share a counter.
MCFields == {"a", "b"}
MCOneField == {"a"}
MCFieldIdLimit == 1
\* MAX_DISTANCE scaled down with max_positions_per_attributes so that the
\* second leaf of a field starts near the limit and a word can land on it.
MCMaxDistance == 4
MCMaxPositions == 8
\* The u16 bound: above every position in the run about leaves, and below
\* max_positions_per_attributes in the run about one string, where position
\* 5 and later are counted but cannot be converted.
MCPositionLimit == 9
MCSmallPositionLimit == 5
\* Three tokens for two leaves; four for one string, so that a word, a hard
\* and a soft separator and a word follow each other.
MCMaxTokens == 3
MCStringTokens == 4
MCMaxLeaves == 2
MCOneLeaf == 1
=============================================================================
