SPECIFICATION Spec
CONSTANTS
    Assets = 2
    WorkOf <- MCWorkOf
    MaxChanges = 1
    MaxFailures = 0
PROPERTIES
    EditsKept
CHECK_DEADLOCK FALSE
