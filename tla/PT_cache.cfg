\* The call protocol of PT_call, checked against the index cache clause of
\* spec 4.1.
CONSTANTS
  None = None
  Lits <- CallLits
  Flows <- CallFlows
  Offsets = {}
  IsizeBits = 1
  MaxAllocs = 4
  MaxFrames = 2
  Body0 <- CallBody0
  Sigs <- CallSigs
  LocalTys <- CallLocalTys
SPECIFICATION Spec
VIEW TableView
INVARIANT IndexCacheCoherent
