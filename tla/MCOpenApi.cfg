SPECIFICATION OpenApiSpec
CONSTANTS
  Nesting = 5
  Recognised <- Labels
  TimeKeys <- Times
  Epochs <- EpochNumbers
  Configs <- MCConfigs
  Answers <- MCAnswers
  Masking <- Options
  Fractions <- Half
  Formats <- FormatOf
  Supplied <- MCSupplied
INVARIANTS
  GeneratedVerifies
  VerifyCatches
