CONSTANTS
  Calls = {c1, c2}
  NoCall = NoCall
  MaxPolls = 3
  MaxErrors = 1
  MaxExecuted = 1
SPECIFICATION Spec
INVARIANTS
  TypeOK
  AnswersAreHonest
  ShowsTheNewest
  BusyWhileWaiting
  ShownIsStored
PROPERTIES
  NeverTakenBack
  StaleWritesNothing
  SpinnerStops
  StoredIsShown
CHECK_DEADLOCK FALSE
