----------------------------- MODULE Generator -----------------------------
(***************************************************************************)
(* The statement generator of src/fuzz/src/generation.rs: generate()       *)
(* draws a signature and a statement count, then calls choose_statement    *)
(* that many times.  Every random draw is a nondeterministic choice, so a  *)
(* handler is the set of outcomes it can have.  A panic (a todo!(), the    *)
(* unwrap() of a SelectionError, or a RefCell BorrowMutError) ends the     *)
(* process.                                                                *)
(*                                                                         *)
(* generate_rvalue matches on self.rng.borrow_mut().gen_range(..): the     *)
(* RefMut is a temporary of the match scrutinee and lives until the match  *)
(* ends, so every arm that borrows rng again panics before it builds an    *)
(* operand.  The model keeps this: no statement is ever inserted.          *)
(*                                                                         *)
(* The types of the mir crate, which is not in this repository, are        *)
(* modelled from their interface: Kind classifies a type, PairOf is        *)
(* try_unwrap_pair, BodyNew is Body::new.                                  *)
(***************************************************************************)
EXTENDS Integers, Sequences, FiniteSets

CONSTANTS
  Tys,       \* what choose_ty can return: names of types, "Adt" included
  MaxArgs,   \* bound on argc (the code draws 0..=16)
  MaxStmts   \* bound on statement_count (the code draws 0..=128)

(***************************************************************************)
(* The mir crate's Ty, for the types of Tys: its variant, and              *)
(* try_unwrap_pair.                                                        *)
(***************************************************************************)
Kind(ty) ==
  CASE ty \in {"Bool", "Char", "Adt"} -> ty
  []   ty \in {"I8", "Isize"}         -> "Int"
  []   ty = "Usize"                   -> "Uint"
  []   ty = "F32"                     -> "Float"
  []   ty \in {"PtrI8", "PtrBool"}    -> "RawPtr"
  []   ty = "PairI8"                  -> "Tuple"

PairOf(ty) == IF ty = "PairI8" THEN <<"I8", "Bool">> ELSE <<>>

\* choose_ty: every variant but Adt (todo!()) returns its type
ChooseTyReturns(ty) == ty # "Adt"

\* Body::new: the return place _0 (mutable) then the arguments
BodyNew(argTys, ret) ==
  <<[ty |-> ret, mut |-> TRUE]>> \o [i \in DOMAIN argTys |-> [ty |-> argTys[i], mut |-> FALSE]]

-----------------------------------------------------------------------------
VARIABLES
  phase,   \* "init", "gen" (the statement loop), "done" or "panic"
  decls,   \* local_decls of the current function: [ty, mut]
  left,    \* iterations of the statement loop still to run
  cause    \* why the process panicked

vars == <<phase, decls, left, cause>>

\* an outcome of a handler that fails: the local_decls it leaves and why
\* ("todo", "NoPossibleOp", "BorrowMutError")
Failed(d, why) == [why |-> why, decls |-> d]

\* generate_checked_binary_op's test: lhs is a pair (ret, bool)
CheckedOnPair(ty) == PairOf(ty) # <<>> /\ PairOf(ty)[2] = "Bool"

\* The arms of generate_rvalue while its scrutinee still holds the RefMut
\* of rng: generate_use reaches choose_operand, whose borrow_mut panics;
\* generate_unary_op and generate_binary_op borrow rng for .choose();
\* generate_checked_binary_op borrows for .choose() on a (ret, bool) pair
\* and returns NoPossibleOp, without borrowing, on any other lhs.
GenerateArm(d, lhs, arm) ==
  CASE arm \in {"Use", "Un", "Bin"} -> Failed(d, "BorrowMutError")
  []   arm = "Checked" ->
         IF CheckedOnPair(d[lhs].ty) THEN Failed(d, "BorrowMutError")
         ELSE Failed(d, "NoPossibleOp")

\* generate_rvalue: one of the first four Rvalue variants, todo!() for any
\* other
GenerateRvalue(d, lhs) ==
  {GenerateArm(d, lhs, arm) : arm \in {"Use", "Un", "Bin", "Checked"}} \cup {Failed(d, "todo")}

\* generate_assign: a mutable local as lhs, or, when there is none, a new
\* mutable variable of a type from choose_ty (Adt is todo!()), then the
\* rvalue
GenerateAssign(d) ==
  LET M == {i \in DOMAIN d : d[i].mut}
  IN IF M # {} THEN UNION {GenerateRvalue(d, l) : l \in M}
     ELSE UNION {IF ~ChooseTyReturns(ty) THEN {Failed(d, "todo")}
                 ELSE GenerateRvalue(Append(d, [ty |-> ty, mut |-> TRUE]), Len(d) + 1)
                 : ty \in Tys}

\* choose_statement: Assign, or one of the four todo!() statement kinds
ChooseStatement(d) == GenerateAssign(d) \cup {Failed(d, "todo")}

-----------------------------------------------------------------------------
Init == phase = "init" /\ decls = <<>> /\ left = 0 /\ cause = "none"

\* generate: argc, the argument types, the return type (choose_ty panics
\* on Adt), then statement_count
DoGenerate ==
  /\ phase = "init"
  /\ \E argc \in 0 .. MaxArgs, ret \in Tys, n \in 0 .. MaxStmts :
     \E argTys \in [1 .. argc -> Tys] :
       LET adt == \E ty \in {ret} \cup {argTys[i] : i \in 1 .. argc} : ~ChooseTyReturns(ty)
       IN \/ /\ adt
             /\ phase' = "panic" /\ cause' = "todo"
             /\ UNCHANGED <<decls, left>>
          \/ /\ ~adt
             /\ phase' = "gen" /\ decls' = BodyNew(argTys, ret) /\ left' = n
             /\ UNCHANGED cause

\* one iteration of the statement loop: every outcome of choose_statement
\* is a panic (the unwrap() of a SelectionError, a todo!(), or the
\* BorrowMutError of generate_rvalue's arms)
DoAbort ==
  /\ phase = "gen" /\ left > 0
  /\ \E o \in ChooseStatement(decls) :
       /\ phase' = "panic" /\ cause' = o.why /\ decls' = o.decls
       /\ UNCHANGED left

\* the loop has run statement_count times: generate returns
DoFinish ==
  /\ phase = "gen" /\ left = 0
  /\ phase' = "done"
  /\ UNCHANGED <<decls, left, cause>>

Next == DoGenerate \/ DoAbort \/ DoFinish

Spec == Init /\ [][Next]_vars

-----------------------------------------------------------------------------
(***************************************************************************)
(* Properties.                                                             *)
(***************************************************************************)
\* Spec section 7: NoPossibleOp (like Exhausted) is a recoverable outcome
\* the caller must answer with another generation choice, never fatal;
\* here, choose_statement unwrap()s the Result of generate_assign.  (The
\* lhs selection cannot be Exhausted: it falls back to a new variable.)
ErrorsRecoverable == cause # "NoPossibleOp"

\* generate_rvalue's arms return a Result, and a failed draw is meant to
\* be a SelectionError (the TODO at its first arm asks to try another
\* variant): the shared rng is never borrowed twice, so no arm panics
\* with BorrowMutError.
RngNeverDoubleBorrowed == cause # "BorrowMutError"

====
