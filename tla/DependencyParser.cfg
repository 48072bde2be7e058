SPECIFICATION FairSpec
CONSTANTS
    Corpora <- TestCorpora
    Datasets <- TestDatasets
    BatchSizes = {1, 2, 5}
INVARIANTS
    TypeOK
    AssertionHolds
    KeptIffProjective
    InstancesReplay
    StepIsLegal
    AnswersAreTrees
PROPERTIES
    EveryoneIsParsed
CHECK_DEADLOCK FALSE
