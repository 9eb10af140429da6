---------------------------- MODULE WrapAtomic ----------------------------
(***************************************************************************)
(* WrapSteps implements ValueWrap when the values make no calls of their   *)
(* own: the steps of a call, from the state in which it began to the one   *)
(* in which it returns, amount to one action of ValueWrap.  This is what   *)
(* justifies that the actions of ValueWrap are whole calls.                *)
(***************************************************************************)
EXTENDS WrapSteps

NobodyInterferes == ~ Reentrant /\ Local = Temp

VARIABLE before   (* The state in which the running call began; history only. *)

AtomicInit == StepsInit /\ before = Now
AtomicNext == StepsNext /\ before' = IF todo' = <<>> THEN Now' ELSE before
AtomicSpec == AtomicInit /\ [][AtomicNext]_<<vars, stepVars, before>>

(* Every step the code makes, and no other, is accounted for.              *)
Atomic == INSTANCE ValueWrap WITH
  ptr <- before.ptr, held <- before.held, ub <- before.ub

ImplementsValueWrap == Atomic!Spec
============================================================================
