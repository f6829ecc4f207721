\* Three tags over the allocation of MC_BorrowStack; checks every removal, against the fatal protected-borrow clause of spec 4.2.
CONSTANTS
  RunSize <- MCRunSize
  Kinds <- MCKinds
  MaxTags = 3
SPECIFICATION Spec
VIEW StackView
CHECK_DEADLOCK FALSE
PROPERTY ProtectedNeverPopped
