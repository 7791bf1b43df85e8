SPECIFICATION Spec
CONSTANTS
  Library <- LibraryInputs
  Changes <- Changed
  Slips <- Mistaken
  MaxChanges = 2
INVARIANTS
  PortsResolve
  FamilyNamesModel
  ObjectiveRealised
  FacesHaveOneRole
CHECK_DEADLOCK FALSE
