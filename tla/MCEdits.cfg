SPECIFICATION Spec
CONSTANTS
  Nil = Nil
  Instance <- MCInstance
  EmptySpec <- MCEmptySpec
  Looked <- AllButTwo
  MaxEdits = 2
  Addresses = {"a"}
PROPERTY EditVisible
CHECK_DEADLOCK FALSE
