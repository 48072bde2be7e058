SPECIFICATION Spec
CONSTANTS
    Sources <- Calling
    Translator <- Translate
INVARIANT OnlyUnusedIsRemoved
CHECK_DEADLOCK FALSE
