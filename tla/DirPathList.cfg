SPECIFICATION PathSpec
CONSTANTS
  Paths <- SomePaths
  Slash = 47
  MaxList = 3
  FileNames <- SomeNames
INVARIANTS SubtreesTogether PrunePathIsExact ExtensionIsExact
