SPECIFICATION Spec
INVARIANTS
    NoDeadlock
