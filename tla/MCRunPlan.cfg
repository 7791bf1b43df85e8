\* Every file with every command line, and one edit of the file at any moment.
CONSTANTS
  Files <- MCFiles
  CommandLines <- MCCommandLines
  Numerals <- MCNumerals
  MaxUnsigned = 3
  Edits = 1
SPECIFICATION Spec
INVARIANTS
  TypeOK
  CombinationsComplete
  ManifestIsOneContent
  SelectionReplays
  ValidationAgrees
  OnlyKnownGapsAbandon
  LimitFromOneLevel
\* An invocation ends.
CHECK_DEADLOCK FALSE
