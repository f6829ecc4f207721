---------------------------- MODULE MC_Generator ----------------------------
EXTENDS Generator

\* one type of each variant choose_ty can return, two raw pointers (its
\* RawPtr case draws the pointee), the pair (i8, bool) that
\* generate_checked_binary_op needs, and the Adt that is todo!()
GenTys == {"Bool", "Char", "I8", "Usize", "F32", "PtrI8", "PtrBool", "PairI8", "Adt"}
=============================================================================
