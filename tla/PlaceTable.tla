----------------------------- MODULE PlaceTable -----------------------------
(***************************************************************************)
(* The Place Table of src/fuzz/src/ptable.rs: the call stack of frames,    *)
(* the place graph (one node per place, projection edges recorded as the   *)
(* child's parent/field, deref edges as the pointer node's `deref`), the   *)
(* table of index candidates, and the byte/liveness state of the           *)
(* BasicMemory it owns (src/generate/src/mem/mod.rs).                      *)
(*                                                                         *)
(* The whole table is one record `pt`; every public method of PlaceTable   *)
(* is an operator from a table to a table, so a handler that calls other   *)
(* handlers (enter_fn calls allocate_local, copy_place, assign_literal,    *)
(* mark_place_moved) is the composition of those operators, in the        *)
(* code's order.  A fatal assertion of the code sets pt.fault.             *)
(***************************************************************************)
EXTENDS Integers, Sequences, SequencesExt, FiniteSets, TLC

CONSTANTS
  None,       \* Option::None: no run pointer, literal, offset or node
  Lits,       \* usize literal values the generator assigns (index values)
  Flows,      \* dataflow values passed to update_dataflow
  Offsets,    \* deltas passed to offset_ptr
  IsizeBits,  \* the width of isize, scaled down: offsets wrap at it
  MaxAllocs,  \* bound on the number of allocations (allocate_local calls)
  MaxFrames,  \* bound on the depth of the call stack
  Body0,      \* signature of the outermost function: [ret |-> ty, args |-> <<ty,...>>]
  Sigs,       \* signatures of the functions the generator may call
  LocalTys    \* types the generator declares fresh locals with

ASSUME Lits \subseteq Nat /\ Flows \subseteq Nat /\ IsizeBits \in 1 .. 64

-----------------------------------------------------------------------------
(***************************************************************************)
(* Type oracle (the mir crate's TyKind, outside src/): a fixed universe of *)
(* five types covering every branch of add_place: two primitives, an      *)
(* array of a primitive (one run shared with its elements), a tuple (no   *)
(* guaranteed size, so each field gets its own run) and a raw pointer.    *)
(* Every primitive and the pointer occupy one abstract byte.              *)
(***************************************************************************)
Tys == {"I", "U", "A", "T", "P"}   \* i8, usize, [i8; 2], (i8, [i8; 2]), *mut (i8, [i8; 2])

Fields(ty) == CASE ty = "A" -> <<"I", "I">>
              []   ty = "T" -> <<"I", "A">>
              []   OTHER    -> <<>>

IsPtrTy(ty) == ty = "P"

PointeeTy(ty) == "T"

RECURSIVE ContainsPtr(_)
ContainsPtr(ty) == IsPtrTy(ty) \/ \E i \in DOMAIN Fields(ty) : ContainsPtr(Fields(ty)[i])

\* BasicMemory::ty_size: primitives and pointers have a size, arrays
\* element size times length, tuples none.
TySize(ty) == CASE ty \in {"I", "U", "P"} -> 1
              []   ty = "A"               -> 2 * 1
              []   OTHER                  -> None

-----------------------------------------------------------------------------
VARIABLES
  pt,    \* the PlaceTable (with its BasicMemory)
  act    \* the last operation and the place it named (history, for properties)

vars == <<pt, act>>

Fail(s, why) == [s EXCEPT !.fault = why]

(***************************************************************************)
(* BasicMemory: allocation liveness and the abstract bytes of every run.   *)
(* A run pointer is [alloc, run, off, len]; bytes are TRUE when Init.      *)
(***************************************************************************)
ByteRange(rp) == rp.off + 1 .. rp.off + rp.len

IsLiveAlloc(s, a) == s.live[a]

BytesInit(s, rp) == \A i \in ByteRange(rp) : s.runs[rp.run][i]

\* fill / bytes_mut: asserts the allocation is live.
Fill(s, rp, b) ==
  IF ~IsLiveAlloc(s, rp.alloc) THEN Fail(s, "can't access dead bytes")
  ELSE FoldSet(LAMBDA i, t : [t EXCEPT !.runs[rp.run][i] = b], s, ByteRange(rp))

\* BasicMemory::copy: same size, both bytes() and bytes_mut() assert liveness.
MemCopy(s, dst, src) ==
  IF ~IsLiveAlloc(s, src.alloc) \/ ~IsLiveAlloc(s, dst.alloc)
  THEN Fail(s, "can't access dead bytes")
  ELSE FoldSet(LAMBDA i, t : [t EXCEPT !.runs[dst.run][i] = s.runs[src.run][i - dst.off + src.off]],
               s, ByteRange(dst))

Deallocate(s, a) == [s EXCEPT !.live[a] = FALSE]

-----------------------------------------------------------------------------
(***************************************************************************)
(* The place graph.                                                        *)
(***************************************************************************)
Children(s, n) == {m \in DOMAIN s.places : s.places[m].parent = n}

ChildAt(s, n, f) == CHOOSE m \in Children(s, n) : s.places[m].field = f

\* m is n or a transitive (non-deref) subfield of n
RECURSIVE IsSubfield(_, _, _)
IsSubfield(s, m, n) ==
  \/ m = n
  \/ s.places[m].parent # 0 /\ IsSubfield(s, s.places[m].parent, n)

Subfields(s, n) == {m \in DOMAIN s.places : IsSubfield(s, m, n)}

CurFrame(s) == s.frames[Len(s.frames)]

CurLocals(s) == CurFrame(s).locals

LocalOf(s, n) == CHOOSE l \in DOMAIN CurLocals(s) : CurLocals(s)[l] = n

IsCurLocal(s, n) == \E l \in DOMAIN CurLocals(s) : CurLocals(s)[l] = n

IsPlaceLive(s, n) == IsLiveAlloc(s, s.places[n].alloc)

\* is_place_init: false when dead; a node with a run reads its bytes,
\* any other node is the conjunction of its immediate subfields.
RECURSIVE IsPlaceInit(_, _)
IsPlaceInit(s, n) ==
  /\ IsPlaceLive(s, n)
  /\ IF s.places[n].rp # None
     THEN BytesInit(s, s.places[n].rp)
     ELSE \A c \in Children(s, n) : IsPlaceInit(s, c)

\* add_place: a node for ty (inheriting the run pointer of an enclosing
\* array, or opening a run of its own when it has a size), then its
\* fields (tuple) or elements (array) recursively, in order.
NewNode(s, ty, alloc, parent, field, rp) ==
  LET own == IF rp # None THEN rp
             ELSE IF TySize(ty) # None
                  THEN [alloc |-> alloc, run |-> Len(s.runs) + 1, off |-> 0, len |-> TySize(ty)]
                  ELSE None
  IN [s EXCEPT
        !.places = Append(@, [ty |-> ty, alloc |-> alloc, parent |-> parent,
                              field |-> field, df |-> 0, moved |-> FALSE,
                              rp |-> own, val |-> None, ptroff |-> None,
                              deref |-> 0]),
        !.runs = IF rp = None /\ TySize(ty) # None
                 THEN Append(@, [i \in 1 .. TySize(ty) |-> FALSE])
                 ELSE @]

\* (mutant) every element given the whole run of its array
ElemRunPtrWhole(prp, ety, i) == prp

\* run pointer of element i (0-based) of an array node whose run is prp
ElemRunPtr(prp, ety, i) ==
  IF prp = None THEN None
  ELSE [prp EXCEPT !.off = prp.off + i * TySize(ety), !.len = TySize(ety)]

RECURSIVE AddPlace(_, _, _, _, _, _), AddFields(_, _, _)
\* the fields (tuple) or elements (array) of node pidx, from the i-th on
AddFields(s, pidx, i) ==
  LET node == s.places[pidx]
      fs   == Fields(node.ty)
      crp  == IF node.ty = "A" THEN ElemRunPtr(node.rp, fs[i], i - 1) ELSE None
  IN IF i > Len(fs) THEN s
     ELSE AddFields(AddPlace(s, fs[i], node.alloc, pidx, i - 1, crp), pidx, i + 1)

AddPlace(s, ty, alloc, parent, field, rp) ==
  AddFields(NewNode(s, ty, alloc, parent, field, rp), Len(s.places) + 1, 1)

-----------------------------------------------------------------------------
(***************************************************************************)
(* State propagation (update_transitive_subfields / _superfields).         *)
(***************************************************************************)
\* Set field `moved` / `df` / `val` of every node of a set.
SetMoved(s, ns) == FoldSet(LAMBDA m, t : [t EXCEPT !.places[m].moved = TRUE], s, ns)

SetDf(s, ns, v) == FoldSet(LAMBDA m, t : [t EXCEPT !.places[m].df = v], s, ns)

ClearVal(s, ns) == FoldSet(LAMBDA m, t : [t EXCEPT !.places[m].val = None], s, ns)

\* strict superfields of n (the chain of its parents up to the local)
Superfields(s, n) == {m \in DOMAIN s.places : m # n /\ IsSubfield(s, n, m)}

\* (mutant) the superfield walk stopping at the immediate parent
DfUpOneLevel(s, n) ==
  LET a == s.places[n].parent
  IN IF a = 0 THEN s
     ELSE [s EXCEPT !.places[a].df = Max({s.places[c].df : c \in Children(s, a)})]

\* the superfield walk of update_dataflow: each parent becomes the max of
\* its immediate subfields, from n's parent up to the local
RECURSIVE DfUp(_, _)
DfUp(s, n) ==
  LET a == s.places[n].parent
  IN IF a = 0 THEN s
     ELSE DfUp([s EXCEPT !.places[a].df = Max({s.places[c].df : c \in Children(s, a)})], a)

\* (mutant) update_dataflow without the min(100)
UpdateDataflowUncapped(s, target, newFlow) ==
  DfUp(SetDf(s, Subfields(s, target), newFlow), target)

\* update_dataflow: capped at 100, overwritten on every subfield, then
\* the max of the children on every superfield.
UpdateDataflow(s, target, newFlow) ==
  LET flow == IF newFlow < 100 THEN newFlow ELSE 100
  IN DfUp(SetDf(s, Subfields(s, target), flow), target)

\* the superfield walk of mark_place_moved: moved iff all children moved
RECURSIVE MovedUp(_, _)
MovedUp(s, n) ==
  LET a == s.places[n].parent
  IN IF a = 0 THEN s
     ELSE MovedUp([s EXCEPT !.places[a].moved = \A c \in Children(s, a) : s.places[c].moved], a)

MarkPlaceMoved(s, p) == MovedUp(SetMoved(s, Subfields(s, p)), p)

\* The subfield walk of mark_place_init/uninit: a node with a run has its
\* bytes filled and the walk does not descend below it; any other node
\* passes the walk on to its immediate subfields.
RECURSIVE FillPlace(_, _, _)
FillPlace(s, n, b) ==
  IF s.places[n].rp # None THEN Fill(s, s.places[n].rp, b)
  ELSE FoldSet(LAMBDA c, t : FillPlace(t, c, b), s, Children(s, n))

MarkPlaceInit(s, p) == FillPlace(s, p, TRUE)

\* mark_place_uninit: a pointer also loses its deref edge (only p itself).
MarkPlaceUninit(s, p) ==
  LET s1 == IF IsPtrTy(s.places[p].ty) THEN [s EXCEPT !.places[p].deref = 0] ELSE s
  IN FillPlace(s1, p, FALSE)

-----------------------------------------------------------------------------
(***************************************************************************)
(* Literals and the index-candidate table.                                 *)
(***************************************************************************)
\* (mutant) assign_literal emptying the old value's candidate list
\* instead of removing only this local from it
\* the value step of assign_literal: set the value, or forget the values
\* of the place, its subfields and its superfields
SetVal(s, p, val) ==
  IF val # None THEN [s EXCEPT !.places[p].val = val]
  ELSE ClearVal(s, Subfields(s, p) \cup Superfields(s, p))

\* (mutant) assign_literal emptying the old value's candidate list
\* instead of removing only this local from it
AssignLiteralClearsOld(s, p, val) ==
  LET l  == LocalOf(s, p)
      c1 == IF s.places[p].val # None
            THEN [s.cands EXCEPT ![s.places[p].val] = <<>>]
            ELSE s.cands
      c2 == IF val # None THEN [c1 EXCEPT ![val] = Append(@, l)] ELSE c1
  IN SetVal(IF IsCurLocal(s, p) THEN [s EXCEPT !.cands = c2] ELSE s, p, val)

\* assign_literal: for a local of the current frame, move it from the
\* candidate list of its old usize value to that of the new one; then set
\* the value.
AssignLiteral(s, p, val) ==
  LET l   == LocalOf(s, p)
      old == s.places[p].val
      c1  == IF old # None THEN [s.cands EXCEPT ![old] = RemoveFirst(@, l)] ELSE s.cands
      c2  == IF val # None THEN [c1 EXCEPT ![val] = Append(@, l)] ELSE c1
  IN SetVal(IF IsCurLocal(s, p) THEN [s EXCEPT !.cands = c2] ELSE s, p, val)

\* locals_with_val: the candidates for value v that are initialized, not
\* moved and still hold v.
LocalsWithVal(s, v) ==
  IF v \notin DOMAIN s.cands THEN <<>>
  ELSE SelectSeq(s.cands[v],
         LAMBDA l : /\ l \in DOMAIN CurLocals(s)
                    /\ IsPlaceInit(s, CurLocals(s)[l])
                    /\ ~s.places[CurLocals(s)[l]].moved
                    /\ s.places[CurLocals(s)[l]].val = v)

-----------------------------------------------------------------------------
(***************************************************************************)
(* Pointers.                                                               *)
(***************************************************************************)
\* set_ref: drop the old deref edge, reset the offset, take the pointee's
\* dataflow, add the new deref edge.
AddDeref(s, r, pointee) == [s EXCEPT !.places[r].deref = pointee]

SetRef(s, r, pointee) ==
  AddDeref(UpdateDataflow([s EXCEPT !.places[r].deref = 0, !.places[r].ptroff = None],
                          r, s.places[pointee].df),
           r, pointee)

\* get_dataflow: a pointer with a pointee reports the pointee's dataflow
RECURSIVE GetDataflow(_, _)
GetDataflow(s, p) ==
  IF IsPtrTy(s.places[p].ty) /\ s.places[p].deref # 0
  THEN GetDataflow(s, s.places[p].deref)
  ELSE s.places[p].df

\* offseted: the offset is set and non-zero
Offseted(s, p) == s.places[p].ptroff \notin {None, 0}

\* the isize values, and isize::wrapping_add
Isize == -(2^(IsizeBits - 1)) .. 2^(IsizeBits - 1) - 1

WrappingAdd(a, b) == ((a + b + 2^(IsizeBits - 1)) % 2^IsizeBits) - 2^(IsizeBits - 1)

\* offset_ptr: the delta itself on a fresh pointer, else added (wrapping)
\* to the pointer's offset
OffsetPtr(s, p, k) ==
  [s EXCEPT !.places[p].ptroff = IF @ = None THEN k ELSE WrappingAdd(k, @)]

-----------------------------------------------------------------------------
(***************************************************************************)
(* copy_place: dataflow, literal, bytes, pointee and offset of the         *)
(* destination from the source, then every projection pairwise.            *)
(***************************************************************************)
\* (mutant) the offset copied before set_ref, which resets it
CopyPointeeOffsetFirst(s, dst, src) ==
  LET t == [s EXCEPT !.places[dst].ptroff = s.places[src].ptroff]
  IN IF s.places[src].deref # 0 THEN SetRef(t, dst, s.places[src].deref) ELSE t

\* take the source's offset
CopyOffset(s, dst, src) == [s EXCEPT !.places[dst].ptroff = s.places[src].ptroff]

\* the pointer step of copy_place: set_ref to the source's pointee, if
\* it has one, then take the source's offset
CopyPointee(s, dst, src) ==
  CopyOffset(IF s.places[src].deref # 0 THEN SetRef(s, dst, s.places[src].deref) ELSE s,
             dst, src)

\* the bytes step of copy_place: a source with a run copies its bytes
CopyBytes(s, dst, src) ==
  IF s.places[src].rp # None THEN MemCopy(s, s.places[dst].rp, s.places[src].rp) ELSE s

\* the pointer step, for a pointer destination
CopyPtr(s, dst, src) == IF IsPtrTy(s.places[dst].ty) THEN CopyPointee(s, dst, src) ELSE s

RECURSIVE CopyPlace(_, _, _), CopyFields(_, _, _)
\* every immediate projection of dst copied from src's, pairwise
CopyFields(s, dst, src) ==
  FoldSet(LAMBDA f, t : CopyPlace(t, ChildAt(t, dst, f), ChildAt(t, src, f)),
          s, {s.places[c].field : c \in Children(s, dst)})

\* copy_place: dataflow, literal, bytes, pointee and offset, then the
\* projections (update_dataflow leaves the source's literal unchanged)
CopyPlace(s, dst, src) ==
  IF dst = src THEN s
  ELSE CopyFields(CopyPtr(CopyBytes(AssignLiteral(UpdateDataflow(s, dst, s.places[src].df),
                                                  dst, s.places[src].val),
                                    dst, src),
                          dst, src),
                  dst, src)

-----------------------------------------------------------------------------
(***************************************************************************)
(* Locals and the call protocol.                                           *)
(***************************************************************************)
NoLocals == [l \in {} |-> 0]

\* Frame::add_local in the current frame
AddLocal(s, l, pidx) == [s EXCEPT !.frames[Len(s.frames)].locals = (l :> pidx) @@ @]

\* allocate_local: a new allocation holding the place tree of ty, bound
\* to local l in the current frame.
AllocateLocal(s, l, ty) ==
  AddLocal(AddPlace([s EXCEPT !.live = Append(@, TRUE)], ty, Len(s.live) + 1, 0, 0, None),
           l, Len(s.places) + 1)

\* deallocate_local: the allocation dies, the local stays in the frame.
DeallocateLocal(s, l) == Deallocate(s, s.places[CurLocals(s)[l]].alloc)

\* enter_fn0: the return place, then every argument with dataflow 5.
EnterFn0(s, body) ==
  LET RECURSIVE DeclArgs(_, _)
      DeclArgs(t, i) ==
        IF i > Len(body.args) THEN t
        ELSE DeclArgs(UpdateDataflow(AllocateLocal(t, i, body.args[i]), Len(t.places) + 1, 5), i + 1)
  IN DeclArgs(AllocateLocal(s, 0, body.ret), 1)

\* (mutant) a moved operand marked moved but left allocated
MoveOutNoDealloc(s, p) == MarkPlaceMoved(s, p)

\* the move step of enter_fn: the operand's allocation dies, then the
\* operand is marked moved
MoveOut(s, p) == MarkPlaceMoved(Deallocate(s, s.places[p].alloc), p)

\* the frame switch of enter_fn: push a frame recording the destination,
\* clear the candidate cache
PushFrame(s, dest) ==
  [s EXCEPT !.frames = Append(@, [locals |-> NoLocals, ret |-> dest]),
            !.cands  = [v \in Lits |-> <<>>]]

\* enter_fn: forget the destination's literal, push the frame (clearing
\* the candidate cache), declare the return place, then for each argument
\* declare it and fill it from its operand; a moved operand's allocation
\* is deallocated and the operand marked moved right after its copy.
\* An argument is [kind |-> "copy" | "move" | "const", place, lit].
EnterFn(s, body, args, dest) ==
  LET RECURSIVE PassArgs(_, _)
      \* argument i: declared as local i (its node is the next one), filled
      \* from its operand, and the operand moved out if it is a Move
      PassArgs(t, i) ==
        IF i > Len(args) THEN t
        ELSE PassArgs(LET arg == args[i] IN
                        IF arg.kind = "const"
                        THEN AssignLiteral(AllocateLocal(t, i, body.args[i]), Len(t.places) + 1, arg.lit)
                        ELSE IF arg.kind = "move"
                        THEN MoveOut(CopyPlace(AllocateLocal(t, i, body.args[i]), Len(t.places) + 1, arg.place),
                                     arg.place)
                        ELSE CopyPlace(AllocateLocal(t, i, body.args[i]), Len(t.places) + 1, arg.place),
                      i + 1)
  IN PassArgs(AllocateLocal(PushFrame(AssignLiteral(s, dest, None), dest), 0, body.ret), 1)

\* the callee's locals' allocations, all deallocated
DeallocFrame(s, frame) ==
  FoldSet(LAMBDA a, t : Deallocate(t, a), s,
          {s.places[frame.locals[l]].alloc : l \in DOMAIN frame.locals})

\* pop the current frame and clear the candidate cache
PopFrame(s) ==
  [s EXCEPT !.frames = SubSeq(@, 1, Len(@) - 1), !.cands = [v \in Lits |-> <<>>]]

\* (mutant) the callee's locals deallocated before the return copy
ExitFnDeallocFirst(s) ==
  CopyPlace(DeallocFrame(PopFrame(s), CurFrame(s)), CurFrame(s).ret, CurFrame(s).locals[0])

\* exit_fn: pop the frame (clearing the cache), copy the callee's return
\* place into the recorded destination, deallocate every callee local.
ExitFn(s) ==
  DeallocFrame(CopyPlace(PopFrame(s), CurFrame(s).ret, CurFrame(s).locals[0]), CurFrame(s))

\* overlap: identical, or in one allocation with a common subfield
Overlap(s, a, b) ==
  \/ a = b
  \/ /\ s.places[a].alloc = s.places[b].alloc
     /\ Subfields(s, a) \cap Subfields(s, b) # {}

-----------------------------------------------------------------------------
(***************************************************************************)
(* Reachability (ProjectionIter, reachable_nodes) and place resolution     *)
(* (get_node, project_from_node, PlacePath::to_place).  A projection is    *)
(* [kind |-> "field" | "index" | "deref" | "var", idx]: "index" is a       *)
(* ConstantIndex edge, "var" an Index(local) projection of a Place.        *)
(***************************************************************************)
Proj(s, c) ==
  [kind |-> IF s.places[s.places[c].parent].ty = "A" THEN "index" ELSE "field",
   idx  |-> s.places[c].field]

\* a ConstantIndex edge is followed only when some local holds its index
Visible(s, c) == Proj(s, c).kind = "index" => LocalsWithVal(s, Proj(s, c).idx) # <<>>

RECURSIVE PathsBelow(_, _, _, _)
PathsBelow(s, root, n, prefix) ==
  {[root |-> root, proj |-> prefix, target |-> n]}
    \cup UNION {PathsBelow(s, root, c, Append(prefix, Proj(s, c))) :
                  c \in {c \in Children(s, n) : Visible(s, c)}}

\* from a local: its subfields, plus one deref hop when the local is a
\* pointer with a pointee and no non-zero offset.
PathsFrom(s, r) ==
  PathsBelow(s, r, r, <<>>)
    \cup IF IsPtrTy(s.places[r].ty) /\ s.places[r].deref # 0 /\ ~Offseted(s, r)
         THEN PathsBelow(s, r, s.places[r].deref, <<[kind |-> "deref", idx |-> 0]>>)
         ELSE {}

ReachableNodes(s) == UNION {PathsFrom(s, CurLocals(s)[l]) : l \in DOMAIN CurLocals(s)}

\* to_place: each ConstantIndex becomes Index of the first local holding it
ToPlace(s, path) ==
  [local |-> LocalOf(s, path.root),
   proj  |-> [i \in DOMAIN path.proj |->
                IF path.proj[i].kind = "index"
                THEN [kind |-> "var", idx |-> LocalsWithVal(s, path.proj[i].idx)[1]]
                ELSE path.proj[i]]]

\* project_from_node (0 when there is no such edge): Index(local) is first
\* resolved through the local's known usize value.
ProjectFromNode(s, n, proj) ==
  LET pr == IF proj.kind = "var"
            THEN [kind |-> "index", idx |-> s.places[CurLocals(s)[proj.idx]].val]
            ELSE proj
  IN IF pr.kind = "deref" THEN s.places[n].deref
     ELSE IF \E c \in Children(s, n) : Proj(s, c) = pr
          THEN CHOOSE c \in Children(s, n) : Proj(s, c) = pr
          ELSE 0

\* get_node: the local in the current frame, then each projection
GetNode(s, place) ==
  LET RECURSIVE Walk(_, _)
      Walk(n, i) == IF n = 0 \/ i > Len(place.proj) THEN n
                    ELSE Walk(ProjectFromNode(s, n, place.proj[i]), i + 1)
  IN IF place.local \in DOMAIN CurLocals(s) THEN Walk(CurLocals(s)[place.local], 1) ELSE 0

-----------------------------------------------------------------------------
(***************************************************************************)
(* The state machine: the Generator (outside the core) calls the table's   *)
(* mutators on places it obtained from reachable_nodes, respecting the     *)
(* contract of spec section 7: every place it names is live and well      *)
(* typed, operands are initialized, a moved operand is a whole local that *)
(* no other operand of the call and not the destination overlaps.         *)
(***************************************************************************)
EmptyTable ==
  [places |-> <<>>, live |-> <<>>, runs |-> <<>>,
   frames |-> <<[locals |-> NoLocals, ret |-> 0]>>,   \* fn0's dummy frame
   cands  |-> [v \in Lits |-> <<>>], fault |-> "none"]

Init ==
  /\ pt  = EnterFn0(EmptyTable, Body0)
  /\ act = [op |-> "init", p |-> 0]

\* return_dest_stack: the destinations of every pending call
ReturnDestStack(s) == {s.frames[i].ret : i \in 2 .. Len(s.frames)}

\* PlaceSelector::into_iter_path, the filter every selection goes
\* through: reachable, live, and overlapping no pending return destination
Named(s) ==
  {n \in {q.target : q \in ReachableNodes(s)} :
     IsPlaceLive(s, n) /\ \A d \in ReturnDestStack(s) : ~Overlap(s, n, d)}

NamedOf(s, ty) == {n \in Named(s) : s.places[n].ty = ty}

Ok == pt.fault = "none"

\* declare_new_var + allocate_local: the next local number
DoAllocateLocal ==
  \E ty \in LocalTys :
    /\ Ok /\ Len(pt.live) < MaxAllocs
    /\ pt' = AllocateLocal(pt, Max(DOMAIN CurLocals(pt)) + 1, ty)
    /\ act' = [op |-> "AllocateLocal", p |-> Len(pt.places) + 1]

DoDeallocateLocal ==
  \E l \in DOMAIN CurLocals(pt) \ {0} :
    /\ Ok /\ IsPlaceLive(pt, CurLocals(pt)[l])
    /\ pt' = DeallocateLocal(pt, l)
    /\ act' = [op |-> "DeallocateLocal", p |-> CurLocals(pt)[l]]

DoMarkInit ==
  \E p \in Named(pt) :
    /\ Ok
    /\ pt' = MarkPlaceInit(pt, p)
    /\ act' = [op |-> "MarkInit", p |-> p]

DoMarkUninit ==
  \E p \in Named(pt) :
    /\ Ok
    /\ pt' = MarkPlaceUninit(pt, p)
    /\ act' = [op |-> "MarkUninit", p |-> p]

DoUpdateDataflow ==
  \E p \in Named(pt), v \in Flows :
    /\ Ok
    /\ pt' = UpdateDataflow(pt, p, v)
    /\ act' = [op |-> "UpdateDataflow", p |-> p]

DoAssignLiteral ==
  \E p \in Named(pt), v \in Lits \cup {None} :
    /\ Ok /\ (v # None => pt.places[p].ty = "U")
    /\ pt' = AssignLiteral(pt, p, v)
    /\ act' = [op |-> "AssignLiteral", p |-> p]

DoCopyPlace ==
  \E dst, src \in Named(pt) :
    /\ Ok /\ pt.places[dst].ty = pt.places[src].ty /\ IsPlaceInit(pt, src)
    /\ pt' = CopyPlace(pt, dst, src)
    /\ act' = [op |-> "CopyPlace", p |-> dst, src |-> src]

DoSetRef ==
  \E r \in NamedOf(pt, "P"), pointee \in NamedOf(pt, PointeeTy("P")) :
    /\ Ok
    /\ pt' = SetRef(pt, r, pointee)
    /\ act' = [op |-> "SetRef", p |-> r]

DoOffsetPtr ==
  \E p \in NamedOf(pt, "P"), k \in Offsets :
    /\ Ok
    /\ pt' = OffsetPtr(pt, p, k)
    /\ act' = [op |-> "OffsetPtr", p |-> p]

\* the operands the generator may pass for an argument of type ty
ArgOperands(s, ty) ==
  {[kind |-> "copy", place |-> n, lit |-> None] : n \in {n \in NamedOf(s, ty) : IsPlaceInit(s, n)}}
    \cup {[kind |-> "move", place |-> n, lit |-> None] :
            n \in {n \in NamedOf(s, ty) : IsCurLocal(s, n) /\ IsPlaceInit(s, n)}}
    \cup IF ty = "U" THEN {[kind |-> "const", place |-> 0, lit |-> v] : v \in Lits} ELSE {}

ArgLists(s, body) ==
  {args \in [1 .. Len(body.args) -> UNION {ArgOperands(s, ty) : ty \in Tys}] :
     \A i \in 1 .. Len(body.args) : args[i] \in ArgOperands(s, body.args[i])}

\* a moved operand overlaps no other operand and not the destination
MovesDisjoint(s, args, dest) ==
  \A i \in DOMAIN args : args[i].kind = "move" =>
    /\ ~Overlap(s, args[i].place, dest)
    /\ \A j \in DOMAIN args : j # i /\ args[j].kind # "const" => ~Overlap(s, args[i].place, args[j].place)

DoEnterFn ==
  \E body \in Sigs :
    /\ Ok /\ Len(pt.frames) < MaxFrames
    /\ Len(pt.live) + 1 + Len(body.args) <= MaxAllocs
    /\ \E dest \in NamedOf(pt, body.ret), args \in ArgLists(pt, body) :
         /\ MovesDisjoint(pt, args, dest)
         /\ pt' = EnterFn(pt, body, args, dest)
         /\ act' = [op |-> "EnterFn", p |-> dest]

DoExitFn ==
  /\ Ok /\ Len(pt.frames) > 1
  /\ pt' = ExitFn(pt)
  /\ act' = [op |-> "ExitFn", p |-> CurFrame(pt).ret]

Next ==
  \/ DoAllocateLocal \/ DoDeallocateLocal
  \/ DoMarkInit \/ DoMarkUninit \/ DoUpdateDataflow \/ DoAssignLiteral
  \/ DoCopyPlace \/ DoSetRef \/ DoOffsetPtr
  \/ DoEnterFn \/ DoExitFn

Spec == Init /\ [][Next]_vars

-----------------------------------------------------------------------------
(***************************************************************************)
(* Properties.                                                             *)
(***************************************************************************)
RunPtrs == [alloc : Nat, run : Nat, off : Nat, len : Nat] \cup {None}

PlaceNodes ==
  [ty : Tys, alloc : Nat, parent : Nat, field : Nat, df : 0 .. 100,
   moved : BOOLEAN, rp : RunPtrs, val : Lits \cup {None},
   ptroff : Isize \cup {None}, deref : Nat]

TypeOK ==
  /\ \A n \in DOMAIN pt.places : pt.places[n] \in PlaceNodes
  /\ pt.live \in Seq(BOOLEAN)
  /\ \A r \in DOMAIN pt.runs : pt.runs[r] \in Seq(BOOLEAN)
  /\ \A i \in DOMAIN pt.frames : pt.frames[i].ret \in Nat
  /\ pt.cands \in [Lits -> Seq(Nat)]

\* No fatal assertion of the core (dead bytes read or written by
\* copy_place, mark_place_init/uninit, exit_fn's return copy) is reached
\* by a generator that keeps the contract.
NoFault == pt.fault = "none"

\* Spec invariant 3: the dataflow of a composite place is the max of its
\* immediate subfields, after update_dataflow on any subfield or
\* superfield, copy_place (field by field) and set_ref.
DataflowIsMax ==
  \A n \in DOMAIN pt.places :
    Children(pt, n) # {} => pt.places[n].df = Max({pt.places[c].df : c \in Children(pt, n)})

\* Marking a place (un)initialized or copying into it changes the
\* initialization of no live place that does not overlap it: the run
\* pointers of array elements cut the array's run exactly, and the
\* subfield walk stops at the first node with a run.
InitLocality ==
  [][act'.op \in {"MarkInit", "MarkUninit", "CopyPlace"} =>
       \A q \in DOMAIN pt.places :
         IsPlaceLive(pt, q) /\ ~Overlap(pt, act'.p, q)
           => IsPlaceInit(pt', q) = IsPlaceInit(pt, q)]_vars

\* copy_place of a pointer whose source has a pointee leaves the
\* destination dereferencing that same pointee with the source's offset:
\* set_ref resets the offset, so the order of the two steps matters.
PointerCopyFaithful ==
  [][act'.op = "CopyPlace" /\ IsPtrTy(pt.places[act'.p].ty) /\ pt.places[act'.src].deref # 0
       => /\ pt'.places[act'.p].deref = pt.places[act'.src].deref
          /\ pt'.places[act'.p].ptroff = pt.places[act'.src].ptroff]_vars

\* Spec 4.1 (reachability): a constant-index edge is emitted exactly when
\* some initialized, unmoved local of the current frame holds the index
\* value; locals_with_val answers from the index_candidates cache, which
\* enter_fn and exit_fn clear.
IndexCacheCoherent ==
  \A v \in Lits :
    (LocalsWithVal(pt, v) # <<>>) =
      \E l \in DOMAIN CurLocals(pt) :
        LET n == CurLocals(pt)[l]
        IN IsPlaceInit(pt, n) /\ ~pt.places[n].moved /\ pt.places[n].val = v

\* Spec 4.1 (structural copy): after copy_place the destination pointer's
\* pointee edge mirrors the source's, including when the source has none.
CopyMirrorsPointee ==
  [][act'.op = "CopyPlace" /\ IsPtrTy(pt.places[act'.p].ty)
       => pt'.places[act'.p].deref = pt.places[act'.src].deref]_vars


(***************************************************************************)
(* Refinement: the table implements the abstract call stack of CallStack. *)
(* A frame's local is bound to the allocation of its place; allocation a  *)
(* is live when the memory says so; allocation ids are 1 .. Len(live).    *)
(***************************************************************************)
FrameAllocs(s, i) == [l \in DOMAIN s.frames[i].locals |-> s.places[s.frames[i].locals[l]].alloc]

CS == INSTANCE CallStack WITH
        Locals <- 0 .. MaxAllocs,
        frames <- [i \in 1 .. Len(pt.frames) |-> FrameAllocs(pt, i)],
        live   <- {a \in DOMAIN pt.live : pt.live[a]},
        count  <- Len(pt.live),
        moved  <- {pt.places[n].alloc : n \in {n \in DOMAIN pt.places : pt.places[n].moved}}

\* The call protocol of enter_fn and exit_fn, together with
\* allocate_local, deallocate_local and the other methods, changes the
\* frames and the live allocations only as CallStack allows: the caller
\* allocations a call kills are exactly the ones it marks moved (each the
\* whole allocation of a caller local), a return kills every callee
\* allocation and nothing else, and no other method kills, binds or marks
\* anything moved.
ImplementsCallStack == CS!Spec
=============================================================================
