\* generate_rvalue's arms must not panic on the rng its own match
\* scrutinee still borrows.
CONSTANTS
  Tys <- GenTys
  MaxArgs = 1
  MaxStmts = 1
SPECIFICATION Spec
INVARIANT RngNeverDoubleBorrowed
CHECK_DEADLOCK FALSE
