SPECIFICATION Spec
CONSTANTS
    Sources <- AllSources
    Translator <- Translate
INVARIANTS
    TranslationIsFaithful
    StraightLineIsKept
CHECK_DEADLOCK FALSE
