SPECIFICATION EngineSpec
CONSTANTS
  Nesting = 5
  Nfc <- NfcOf
  Recognised <- Labels
  TimeKeys <- Times
  Epochs <- EpochNumbers
  Written <- TextOf
  Parsed <- ParsedIn
  Words <- WordsIn
  Split <- SplitKey
  Largest = 1000
  Payloads <- MCPayloads
  Consumers <- MCConsumers
  Bodies <- MCBodies
  Settings <- MCSettings
INVARIANTS
  NoDifferenceIffSame
  DifferencesReal
  OnlyNoiseIsHidden
  JitAgrees
  LearnedRulesSettle
  BlastTells
  DriftIsStructure
  MutationsPrecise
CHECK_DEADLOCK FALSE
