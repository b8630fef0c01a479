\* The processes of the slaves are aborted during SDO requests.
SPECIFICATION AbortSpec
CONSTANTS
    Off = Off
    Null = Null
INVARIANT OnBootDefined
CHECK_DEADLOCK FALSE
