----------------------------- MODULE CallStack ------------------------------
(***************************************************************************)
(* What the place table of src/fuzz/src/ptable.rs promises about its call  *)
(* stack: a stack of frames, each binding MIR locals to allocations of its *)
(* BasicMemory, and the set of allocations still live.  Only four things   *)
(* change it:                                                              *)
(*   Declare  a new local of the current frame, on a fresh allocation     *)
(*            (allocate_local);                                            *)
(*   Kill     the allocation of a local of the current frame dies          *)
(*            (deallocate_local);                                          *)
(*   Call     a frame with locals 0..k on fresh allocations is pushed, and *)
(*            the allocations of some of the caller's live locals, the     *)
(*            moved arguments, are recorded as moved and die, and no       *)
(*            other allocation dies (enter_fn);                            *)
(*   Return   the current frame is popped and all its allocations die      *)
(*            (exit_fn).                                                   *)
(* No other operation of the table touches a frame or an allocation's     *)
(* liveness, and no step kills an allocation of a frame below the top      *)
(* except the moved arguments of a call.                                   *)
(***************************************************************************)
EXTENDS Integers, Sequences, Functions, TLC

CONSTANTS Locals   \* the local numbers a frame may bind

VARIABLES
  frames,   \* frames[i]: the locals of frame i, a function local -> allocation
  live,     \* the allocations that are live
  count,    \* allocations made so far: allocation ids are 1 .. count
  moved     \* the allocations passed to a call by Move

vars == <<frames, live, count, moved>>

Top == frames[Len(frames)]

\* allocations count + 1 .. count + n, the next n fresh ones
Fresh(n) == {count + i : i \in 1 .. n}

\* the outermost frame (enter_fn0): locals 0..k, all live
Init ==
  \E k \in Locals :
    /\ frames = <<[l \in 0 .. k |-> l + 1]>>
    /\ live = 1 .. k + 1
    /\ count = k + 1
    /\ moved = {}

Declare ==
  /\ count' = count + 1
  /\ \E l \in Locals \ DOMAIN Top :
       frames' = [frames EXCEPT ![Len(frames)] = (l :> count + 1) @@ Top]
  /\ live' = live \cup Fresh(1)
  /\ moved' = moved

\* the one allocation that dies is bound in the current frame
Kill ==
  /\ count' = count
  /\ \E a \in live \ live' : a \in Range(Top) /\ live' = live \ {a}
  /\ frames' = frames
  /\ moved' = moved

Call ==
  \E k \in Locals :
    /\ count' = count + k + 1
    /\ frames' = Append(frames, [l \in 0 .. k |-> count + 1 + l])
    /\ \E m \in SUBSET (Range(Top) \cap live) :
         moved' = moved \cup m /\ live' = (live \ m) \cup Fresh(k + 1)

Return ==
  /\ Len(frames) > 1
  /\ count' = count
  /\ frames' = SubSeq(frames, 1, Len(frames) - 1)
  /\ live' = live \ Range(Top)
  /\ moved' = moved

Next == Declare \/ Kill \/ Call \/ Return

Spec == Init /\ [][Next]_vars

=============================================================================
