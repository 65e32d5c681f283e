SPECIFICATION Spec
CONSTANTS
    MaxActions = 3
    MaxQuits = 1
    WithComplete = {1, 3}
CHECK_DEADLOCK FALSE
INVARIANTS CallbackOnce
PROPERTIES ActionsSettle
