\* Processes end.
SPECIFICATION Spec
CONSTANTS
    Off = Off
    Null = Null
PROPERTIES NetworkStarts   GuardingConverges
CHECK_DEADLOCK FALSE
