SPECIFICATION Spec
CONSTANTS
  Library <- LibraryInputs
  Changes <- Changed
  Slips <- Mistaken
  MaxChanges = 1
INVARIANTS
  TermsRealised
CHECK_DEADLOCK FALSE
