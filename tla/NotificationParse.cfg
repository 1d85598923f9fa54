SPECIFICATION Spec
CONSTANTS
  ServiceNames <- SomeServices
  LabelKeys <- SomeKeys
  LabelValues <- SomeValues
INVARIANT LabelReadBack
CHECK_DEADLOCK FALSE
