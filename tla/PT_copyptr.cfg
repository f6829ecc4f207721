\* The pointer setting of PT_ptr, checked against the structural copy
\* clause of spec 4.1.
CONSTANTS
  None = None
  Lits <- PtrLits
  Flows <- PtrFlows
  Offsets <- PtrOffsets
  IsizeBits = 2
  MaxAllocs = 3
  MaxFrames = 1
  Body0 <- PtrBody0
  Sigs <- PtrSigs
  LocalTys <- PtrLocalTys
SPECIFICATION Spec
VIEW TableView
PROPERTY CopyMirrorsPointee
