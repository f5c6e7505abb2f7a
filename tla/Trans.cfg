SPECIFICATION Spec
CONSTANTS
  Texts = {t1}
  NoText = NoText
  Published = Published
  Edited = Edited
  MaxRuns = 2
  MaxChapter = 2
  Callers = {k1, k2}
  Forced = {FALSE}
  JobForce = TRUE
  Limit = 1
  MaxAttempts = 2
  MaxTrouble = 2
SYMMETRY Symmetry
CHECK_DEADLOCK FALSE
INVARIANTS
  TranslationIsOfItsSource
  
  ChargesBalance
PROPERTIES
  NoEditIsLostUnseen
