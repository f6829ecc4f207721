\* Two frames: main() -> [i8; 2] with usize locals calls fn(usize) -> [i8; 2]
\* with copied, moved or constant arguments, and returns.
CONSTANTS
  None = None
  Lits <- CallLits
  Flows <- CallFlows
  Offsets = {}
  IsizeBits = 1
  MaxAllocs = 4
  MaxFrames = 2
  Body0 <- CallBody0
  Sigs <- CallSigs
  LocalTys <- CallLocalTys
SPECIFICATION Spec
VIEW TableView
INVARIANTS NoFault
PROPERTY ImplementsCallStack
