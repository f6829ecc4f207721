---------------------------- MODULE BorrowStack ----------------------------
(***************************************************************************)
(* The borrow-stack protocol of BasicMemory (src/generate/src/mem/mod.rs): *)
(* per-byte stacks of borrows in the runs of one allocation (Run's         *)
(* RangeMap<Vec<Borrow>>, kept here byte by byte), and the side table      *)
(* `pointers` from a tag to the run pointers it occupies.                  *)
(*                                                                         *)
(* No code under src/ calls this API yet, so the client is any sequence    *)
(* of its public calls: a retag pushes a fresh tag over one range in each  *)
(* of some runs (a pointer to a composite place covers one range per run), *)
(* then tags are protected, removed, or popped from ranges.  A failed      *)
(* assert! aborts the process: st.fault is set and nothing follows.        *)
(***************************************************************************)
EXTENDS Integers, Sequences, SequencesExt, FiniteSets

CONSTANTS
  RunSize,   \* RunSize[r]: the byte length of run r of the allocation
  Kinds,     \* the BorrowType values: "Raw", "Shared", "Exclusive"
  MaxTags    \* bound on the number of tags created

Runs == DOMAIN RunSize

ASSUME \A r \in Runs : RunSize[r] \in 1 .. 8

Tags == 1 .. MaxTags

\* the bytes of the allocation, <<run, offset>>
Bytes == UNION {{<<r, i>> : i \in 0 .. RunSize[r] - 1} : r \in Runs}

\* the non-empty run pointers [run, off, len] inside a run
RunPtrs == {p \in [run : Runs, off : 0 .. 8, len : 1 .. 8] : p.off + p.len <= RunSize[p.run]}

RangeBytes(rp) == {<<rp.run, i>> : i \in rp.off .. rp.off + rp.len - 1}

VARIABLES
  st,     \* [stacks |-> [Bytes -> Seq(Borrow)], ptrs |-> [Tags -> SUBSET RunPtrs], fault]
  next,   \* the next fresh tag
  last    \* the last call and what it returned (history, for properties)

vars == <<st, next, last>>

Ok == ~st.fault

-----------------------------------------------------------------------------
(***************************************************************************)
(* Run: operations on the stacks of the bytes of one range.                *)
(***************************************************************************)
\* the (1-based) position of the first borrow of tag in a stack, 0 if none
Pos(stack, tag) ==
  IF \E i \in DOMAIN stack : stack[i].tag = tag
  THEN CHOOSE i \in DOMAIN stack : stack[i].tag = tag /\ \A j \in 1 .. i - 1 : stack[j].tag # tag
  ELSE 0

\* the position of the first Shared borrow, 0 if none
FirstShared(stack) ==
  IF \E i \in DOMAIN stack : stack[i].kind = "Shared"
  THEN CHOOSE i \in DOMAIN stack : stack[i].kind = "Shared" /\ \A j \in 1 .. i - 1 : stack[j].kind # "Shared"
  ELSE 0

\* add_borrow: push an unprotected borrow on every byte
AddBorrow(s, rp, kind, tag) ==
  FoldSet(LAMBDA b, t : [t EXCEPT !.stacks[b] = Append(@, [kind |-> kind, tag |-> tag, prot |-> FALSE])],
          s, RangeBytes(rp))

\* remove_borrow: remove the first borrow of tag on every byte holding it;
\* assert!(!removed.protected)
RemoveBorrow(s, rp, tag) ==
  FoldSet(LAMBDA b, t :
            LET i == Pos(t.stacks[b], tag)
            IN IF i = 0 THEN t
               ELSE [t EXCEPT !.stacks[b] = RemoveAt(@, i), !.fault = @ \/ t.stacks[b][i].prot],
          s, RangeBytes(rp))

\* protect: mark the first borrow of tag protected on every byte holding it
Protect(s, rp, tag) ==
  FoldSet(LAMBDA b, t :
            LET i == Pos(t.stacks[b], tag)
            IN IF i = 0 THEN t ELSE [t EXCEPT !.stacks[b][i].prot = TRUE],
          s, RangeBytes(rp))

\* remove_all_above: the tags at and above tag on every byte holding it
\* (the edges returned) and the stacks truncated below tag
AboveTag(s, rp, tag) ==
  UNION {LET i == Pos(s.stacks[b], tag)
         IN IF i = 0 THEN {} ELSE {s.stacks[b][j].tag : j \in i .. Len(s.stacks[b])} :
           b \in RangeBytes(rp)}

RemoveAllAbove(s, rp, tag) ==
  FoldSet(LAMBDA b, t :
            LET i == Pos(t.stacks[b], tag)
            IN IF i = 0 THEN t ELSE [t EXCEPT !.stacks[b] = SubSeq(@, 1, i - 1)],
          s, RangeBytes(rp))

\* can_write_with: on every byte, nothing at or above the first Shared is
\* protected, and tag occurs strictly below the first Shared (anywhere
\* when there is none)
CanWriteWith(s, rp, tag) ==
  \A b \in RangeBytes(rp) :
    LET stack == s.stacks[b]
        fs    == FirstShared(stack)
        limit == IF fs = 0 THEN Len(stack) ELSE fs - 1
    IN /\ fs # 0 => \A j \in fs .. Len(stack) : ~stack[j].prot
       /\ \E j \in 1 .. limit : stack[j].tag = tag

-----------------------------------------------------------------------------
(***************************************************************************)
(* The side table and BasicMemory's entry points.                          *)
(***************************************************************************)
\* RangeExt::overlap of the byte ranges, end points included
RangeOverlap(a, b) ==
  /\ a.off <= b.off + b.len
  /\ b.off <= a.off + a.len

\* RunPointer::overlap: same run (same_run; the allocation is the one
\* modelled) and overlapping byte ranges
RunPtrOverlap(a, b) == a.run = b.run /\ RangeOverlap(a, b)

\* (mutant) subtract keeping an empty right part (<= for <)
SubtractRightLe(a, b) ==
  (IF a.off < b.off THEN {[a EXCEPT !.len = b.off - a.off]} ELSE {})
    \cup (IF b.off + b.len <= a.off + a.len
          THEN {[a EXCEPT !.off = b.off + b.len, !.len = a.off + a.len - (b.off + b.len)]}
          ELSE {})

\* RangeExt::subtract: the parts of a left and right of b
Subtract(a, b) ==
  (IF a.off < b.off THEN {[a EXCEPT !.len = b.off - a.off]} ELSE {})
    \cup (IF b.off + b.len < a.off + a.len
          THEN {[a EXCEPT !.off = b.off + b.len, !.len = a.off + a.len - (b.off + b.len)]}
          ELSE {})

\* derange: every stored range of tag that overlaps rp is replaced by its
\* parts outside rp (an empty result removes the entry)
Derange(s, tag, rp) ==
  [s EXCEPT !.ptrs[tag] = UNION {IF RunPtrOverlap(q, rp) THEN Subtract(q, rp) ELSE {q} : q \in @}]

\* add_ref, once per run pointer of a retag
AddRef(s, rp, kind, tag) ==
  [AddBorrow(s, rp, kind, tag) EXCEPT !.ptrs[tag] = @ \cup {rp}]

\* remove_tag: take the entry out of the table, remove the tag from each
\* of its ranges
RemoveTag(s, tag) ==
  FoldSet(LAMBDA rp, t : RemoveBorrow(t, rp, tag), [s EXCEPT !.ptrs[tag] = {}], s.ptrs[tag])

\* (mutant) remove_tag_run_ptr without the derange
RemoveTagRunPtrNoDerange(s, tag, rp) == RemoveBorrow(s, rp, tag)

\* remove_tag_run_ptr: remove the tag from one range, then derange;
\* returns whether the tag has no entry left
RemoveTagRunPtr(s, tag, rp) == Derange(RemoveBorrow(s, rp, tag), tag, rp)

\* remove_tags_above: truncate the range's stacks, derange every removed
\* tag by the whole range; returns the removed tags with no entry left
RemoveTagsAbove(s, tag, rp) ==
  FoldSet(LAMBDA e, t : Derange(t, e, rp), RemoveAllAbove(s, rp, tag), AboveTag(s, rp, tag))

GoneAfter(s, tag, rp) == {e \in AboveTag(s, rp, tag) : RemoveTagsAbove(s, tag, rp).ptrs[e] = {}}

MarkProtected(s, rp, tag) == Protect(s, rp, tag)

-----------------------------------------------------------------------------
(***************************************************************************)
(* The client.                                                             *)
(***************************************************************************)
Init ==
  /\ st = [stacks |-> [b \in Bytes |-> <<>>], ptrs |-> [t \in Tags |-> {}], fault |-> FALSE]
  /\ next = 1
  /\ last = [op |-> "init", tag |-> 0, gone |-> {}]

UsedTags == 1 .. next - 1

\* a retag: add_ref of a fresh tag on one range in each of some runs
DoAddRef ==
  \E R \in SUBSET Runs \ {{}}, kind \in Kinds :
    \E g \in [R -> RunPtrs] :
      /\ Ok /\ next <= MaxTags
      /\ \A r \in R : g[r].run = r
      /\ st' = FoldSet(LAMBDA r, t : AddRef(t, g[r], kind, next), st, R)
      /\ next' = next + 1
      /\ last' = [op |-> "AddRef", tag |-> next, gone |-> {}]

DoRemoveTag ==
  \E tag \in UsedTags :
    /\ Ok
    /\ st' = RemoveTag(st, tag)
    /\ last' = [op |-> "RemoveTag", tag |-> tag, gone |-> {tag}]
    /\ UNCHANGED next

DoRemoveTagRunPtr ==
  \E tag \in UsedTags, rp \in RunPtrs :
    /\ Ok
    /\ st' = RemoveTagRunPtr(st, tag, rp)
    /\ last' = [op |-> "RemoveTagRunPtr", tag |-> tag,
                gone |-> IF st'.ptrs[tag] = {} THEN {tag} ELSE {}]
    /\ UNCHANGED next

DoRemoveTagsAbove ==
  \E tag \in UsedTags, rp \in RunPtrs :
    /\ Ok
    /\ st' = RemoveTagsAbove(st, tag, rp)
    /\ last' = [op |-> "RemoveTagsAbove", tag |-> tag, gone |-> GoneAfter(st, tag, rp)]
    /\ UNCHANGED next

DoMarkProtected ==
  \E tag \in UsedTags, rp \in RunPtrs :
    /\ Ok
    /\ st' = MarkProtected(st, rp, tag)
    /\ last' = [op |-> "MarkProtected", tag |-> tag, gone |-> {}]
    /\ UNCHANGED next

Next ==
  \/ DoAddRef \/ DoRemoveTag \/ DoRemoveTagRunPtr \/ DoRemoveTagsAbove \/ DoMarkProtected

Spec == Init /\ [][Next]_vars

-----------------------------------------------------------------------------
(***************************************************************************)
(* Properties.                                                             *)
(***************************************************************************)
Borrows == [kind : Kinds, tag : Tags, prot : BOOLEAN]

TypeOK ==
  /\ st.stacks \in [Bytes -> Seq(Borrows)]
  /\ st.ptrs \in [Tags -> SUBSET RunPtrs]
  /\ st.fault \in BOOLEAN
  /\ next \in 1 .. MaxTags + 1

\* Every range the side table records for a tag is held by that tag on
\* every byte: derange, called by remove_tag_run_ptr and
\* remove_tags_above with the whole range, never leaves a range whose
\* bytes lost the tag.
SideTableSound ==
  \A t \in Tags : \A rp \in st.ptrs[t] : \A b \in RangeBytes(rp) : Pos(st.stacks[b], t) # 0

\* The doc comment of remove_tags_above: the tags it returns have "no
\* valid borrows left in any run after removal".
RemovedTagsGone ==
  [][last'.op = "RemoveTagsAbove" =>
       \A e \in last'.gone, b \in Bytes : Pos(st'.stacks[b], e) = 0]_vars

\* Spec section 8: can_write_with is false when a borrow strictly above
\* the querying tag is protected and a Shared borrow is at or above it.
CanWriteHonoursProtection ==
  \A rp \in RunPtrs, t \in UsedTags :
    (\E b \in RangeBytes(rp) :
       LET stack == st.stacks[b]
           i     == Pos(stack, t)
       IN /\ i # 0
          /\ \E j \in i + 1 .. Len(stack) : stack[j].prot
          /\ \E k \in i .. Len(stack) : stack[k].kind = "Shared")
      => ~CanWriteWith(st, rp, t)

\* Spec section 4.2: removing a protected borrow is a fatal assertion, so
\* no step leaves the process running with a protected borrow popped
\* (remove_borrow asserts; remove_all_above, behind remove_tags_above,
\* does not).
ProtectedNeverPopped ==
  [][~st'.fault =>
       \A b \in Bytes : \A i \in DOMAIN st.stacks[b] :
         st.stacks[b][i].prot => \E j \in DOMAIN st'.stacks[b] : st'.stacks[b][j] = st.stacks[b][i]]_vars

=============================================================================
