SPECIFICATION Spec
CONSTANTS
  Forms <- AllForms
  MaxInputs = 2
CHECK_DEADLOCK FALSE
INVARIANTS FieldsFollowDependencies
PROPERTIES SaveKeepsShown SecondSaveIsQuiet
