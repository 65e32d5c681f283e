SPECIFICATION Spec
CONSTANTS
    Images = {i1, i2, i3}
    MaxGenerations = 2
    None = None
CHECK_DEADLOCK FALSE
INVARIANTS PromisesTracked JobsTracked
PROPERTIES PromisesSettle
