SPECIFICATION Spec
CONSTANTS
    MaxObjects = 4
    Overtaken = FALSE
INVARIANTS HeldIsAlive NothingLeaks
PROPERTIES ImplementsRegister NewestGetsThrough
