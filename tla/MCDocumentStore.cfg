SPECIFICATION Spec
CONSTANTS
    DocIds <- MCDocIds
    Contents <- MCContents
    RawSizes <- MCRawSizes
    Ratios <- MCRatios
    Dicts <- MCDicts
    MaxPage <- MCMaxPage
INVARIANT ReadReturnsStored
