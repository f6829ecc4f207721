\* One frame, a (i8, [i8; 2]) return place and usize locals holding 0 or 1:
\* field and index projections, literals, dataflow and init propagation,
\* and the selector over those tables.
CONSTANTS
  None = None
  Lits <- TreeLits
  Flows <- TreeFlows
  Offsets = {}
  IsizeBits = 1
  MaxAllocs = 3
  MaxFrames = 1
  Body0 <- TreeBody0
  Sigs <- TreeSigs
  LocalTys <- TreeLocalTys
SPECIFICATION Spec
VIEW TableView
INVARIANTS TypeOK DataflowIsMax IndexCacheCoherent LhsNeverStarved
PROPERTIES InitLocality
