\* Three tags over the allocation of MC_BorrowStack; checks can_write_with, against the protection clause of spec section 8.
CONSTANTS
  RunSize <- MCRunSize
  Kinds <- MCKinds
  MaxTags = 3
SPECIFICATION Spec
VIEW StackView
CHECK_DEADLOCK FALSE
INVARIANT CanWriteHonoursProtection
