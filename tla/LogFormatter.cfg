CONSTANTS
  Chars <- SixChars
  Letters <- TwoLetters
  Known <- OneKnown
  Patterns <- ShortPatterns
SPECIFICATION Spec
INVARIANTS Lossless OneReading AcceptedIsClean
PROPERTIES Advances
