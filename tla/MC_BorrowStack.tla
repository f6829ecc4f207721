--------------------------- MODULE MC_BorrowStack ---------------------------
(* One allocation with a three-byte run (an [i8; 3]) and a one-byte run   *)
(* (a second field of the same tuple); the cfgs bound the tags.           *)
EXTENDS BorrowStack

MCRunSize == <<3, 1>>
\* no operation tells Exclusive from Raw: only Shared is compared against
MCKinds == {"Raw", "Shared"}

\* last is a history read only by action properties
StackView == <<st, next>>
=============================================================================
