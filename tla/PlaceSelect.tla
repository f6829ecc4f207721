---------------------------- MODULE PlaceSelect -----------------------------
(***************************************************************************)
(* The Place Selector of src/fuzz/src/place_select.rs over the Place Table *)
(* of PlaceTable: a selector's filter over reachable_nodes, the usage-     *)
(* dependent weights, and the outcome of into_weighted: the paths a        *)
(* weighted draw can return, or Exhausted (None) when WeightedIndex::new   *)
(* fails on an empty list or a zero total.  A selection does not change    *)
(* the table; the properties hold of every selector in every reachable    *)
(* table.                                                                 *)
(***************************************************************************)
EXTENDS PlaceTable

Usages == {"Operand", "LHS", "Pointee", "Argument", "KnownVal"}

\* for_operand / for_lhs / for_pointee / for_argument / for_known_val,
\* then of_tys and except
Selector(usage, tys, excl) ==
  [usage |-> usage, tys |-> tys, excl |-> excl,
   uninit |-> usage \in {"LHS", "Pointee"}]

\* into_iter_path: the reachable paths whose target is live, of an
\* accepted type, overlapping no excluded place and no pending return
\* destination, initialized unless allowed otherwise, and holding a known
\* value for KnownVal
IntoIterPath(s, sel) ==
  {q \in ReachableNodes(s) :
     LET n == q.target
     IN /\ IsPlaceLive(s, n)
        /\ sel.tys = {} \/ s.places[n].ty \in sel.tys
        /\ \A e \in sel.excl \cup ReturnDestStack(s) : ~Overlap(s, n, e)
        /\ sel.uninit \/ IsPlaceInit(s, n)
        /\ sel.usage = "KnownVal" => s.places[n].val # None}

HasDeref(q) == \E i \in DOMAIN q.proj : q.proj[i].kind = "deref"

\* into_weighted: the weight of one path
Weight(s, q, usage) ==
  LET n    == q.target
      df   == GetDataflow(s, n)
      base == CASE usage = "Argument" ->
                     df * (IF ContainsPtr(s.places[n].ty) THEN 10 ELSE 1)
                        * (IF s.places[n].val # None THEN 2 ELSE 1)
              []   usage = "LHS" ->
                     LET w == (IF ~IsPlaceInit(s, n) THEN 2 ELSE 1)
                              * (IF LocalOf(s, q.root) = 0 THEN 2 ELSE 1)
                     IN (w * 1000) \div (IF df > 1 THEN df ELSE 1)
              []   usage = "Pointee" -> 1
              []   OTHER -> df                 \* Operand, KnownVal
  IN IF HasDeref(q) THEN base * 2 ELSE base

TotalWeight(s, sel) ==
  FoldSet(LAMBDA q, acc : acc + Weight(s, q, sel.usage), 0, IntoIterPath(s, sel))

\* the outcome of a selection: Exhausted, or the paths the draw may return
Select(s, sel) ==
  [exhausted |-> TotalWeight(s, sel) = 0,
   paths     |-> {q \in IntoIterPath(s, sel) : Weight(s, q, sel.usage) > 0}]

-----------------------------------------------------------------------------
(***************************************************************************)
(* Properties.                                                             *)
(***************************************************************************)
\* A left-hand side is never Exhausted while a place of its type is
\* selectable: its weight w * 1000 / max(dataflow, 1) stays positive only
\* because update_dataflow caps dataflow at 100 (an aggregate's dataflow
\* is the sum of its operands', unbounded).
LhsNeverStarved ==
  \A ty \in Tys :
    LET sel == Selector("LHS", {ty}, {})
    IN IntoIterPath(pt, sel) # {} => ~Select(pt, sel).exhausted

=============================================================================
