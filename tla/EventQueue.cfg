SPECIFICATION Spec
CONSTANTS
    Events <- MCEvents
    Rank <- MCRank
    None = None
    MaxSize = 7
INVARIANTS
    HeapOrder
    CopiesKeepTheArray
    VisitsEveryEventOnce
    RemovesWhatItReturned
PROPERTIES
    ImplementsBag
