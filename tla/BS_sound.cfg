\* Any sequence of retags, protections and removals by two tags over an
\* allocation with runs of two and one bytes.  A failed assert! aborts the
\* process, so the fault state has no successor.
CONSTANTS
  RunSize <- MCRunSize
  Kinds <- MCKinds
  MaxTags = 2
SPECIFICATION Spec
VIEW StackView
CHECK_DEADLOCK FALSE
INVARIANTS TypeOK SideTableSound
