\* Every database an earlier release may have left, and up to three faults.
CONSTANTS
    MaxFaults = 3
SPECIFICATION FairSpec
INVARIANTS
    TypeOK
    SchemaFitsRecord
    ServesWhatItNeeds
PROPERTIES
    OwnPasswordStays
    ComesUpUnlessHalfDone
