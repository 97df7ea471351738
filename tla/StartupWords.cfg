SPECIFICATION Spec
CONSTANTS
  CommandLines <- Lines
  Letters <- SomeLetters
  Configs <- Files
  DefaultRoot <- Root
  DefaultPath <- Path
  ToUpper <- Capitals
  MaxRuns = 1
INVARIANT EveryWordCounts
