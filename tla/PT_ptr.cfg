\* One frame: main(*mut (i8, [i8; 2])) -> (i8, [i8; 2]) with pointer locals
\* that are set to pointees, offset by +1/-1, copied and (un)initialized.
CONSTANTS
  None = None
  Lits <- PtrLits
  Flows <- PtrFlows
  Offsets <- PtrOffsets
  IsizeBits = 2
  MaxAllocs = 3
  MaxFrames = 1
  Body0 <- PtrBody0
  Sigs <- PtrSigs
  LocalTys <- PtrLocalTys
SPECIFICATION Spec
VIEW TableView
PROPERTY PointerCopyFaithful
