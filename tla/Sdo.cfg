\* The kinds of bus and of applications are defined in MCSdo.
SPECIFICATION Spec
INVARIANT TransfersSucceed
PROPERTIES ImplementsService EveryRequestConfirmed ServerReturns
