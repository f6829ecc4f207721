\* A NoPossibleOp outcome, recoverable by spec section 7, must never end
\* generation.
CONSTANTS
  Tys <- GenTys
  MaxArgs = 2
  MaxStmts = 2
SPECIFICATION Spec
INVARIANT ErrorsRecoverable
CHECK_DEADLOCK FALSE
