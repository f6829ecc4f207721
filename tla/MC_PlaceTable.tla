--------------------------- MODULE MC_PlaceTable ---------------------------
(* Instantiations of PlaceTable for TLC.  Each cfg picks a main-function  *)
(* signature, the callee signatures and the input sets of one question.   *)
EXTENDS PlaceTable

\* ---- tree: one frame, a (i8, [i8; 2]) return place and usize locals
TreeLits == {0, 1}
TreeFlows == {1600}
TreeBody0 == [ret |-> "T", args |-> <<>>]
TreeSigs == {}
TreeLocalTys == {"U"}

\* ---- calls: a callee taking a usize and returning an [i8; 2]
CallLits == {1}
CallFlows == {1600}
CallBody0 == [ret |-> "A", args |-> <<>>]
CallSigs == {[ret |-> "A", args |-> <<"U">>]}
CallLocalTys == {"U"}

\* ---- pointers: main(*mut (i8, [i8; 2])) -> (i8, [i8; 2])
PtrLits == {1}
PtrFlows == {1600}
PtrOffsets == {1, -1}
PtrBody0 == [ret |-> "T", args |-> <<"P">>]
PtrSigs == {}
PtrLocalTys == {"P"}
\* act is a history read only by action properties: states are told
\* apart by the table alone
TableView == pt
=============================================================================
