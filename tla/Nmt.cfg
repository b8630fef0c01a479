\* Processes end, and a program ends with a failed assertion.
SPECIFICATION Spec
CONSTANTS
    Off = Off
    Null = Null
INVARIANTS
    MasterConsistent StartupInOrder  BootIsHonest
     LossTolerated
CHECK_DEADLOCK FALSE
