------------------------------ MODULE StdFunc ------------------------------
(***************************************************************************)
(* The callable of tutorial/std_function.cpp: a wrap around anything that  *)
(* can be invoked, which may be another callable, by value or by           *)
(* reference.  A call, and the conversion to bool, go down from wrapper to *)
(* wrapper until they meet an empty one or a function; this module follows *)
(* them frame by frame.                                                    *)
(*                                                                         *)
(* A std::function held by value is not told apart from a nested callable, *)
(* nor a reference to a function from the function.                        *)
(***************************************************************************)
EXTENDS FiniteSets, Integers, Sequences

CONSTANTS
  Callables,    (* The callable objects of the program.                    *)
  MaxDepth,     (* The frames that fit on the program's stack.             *)
  Invalid,      (* What a callable in the invalid state holds.             *)
  NullPointer,  (* A null pointer to a function or member.                 *)
  Function,     (* Anything that is simply run: a pointer, a lambda.       *)
  Unasked       (* Nothing is known from a conversion to bool.             *)

ASSUME StackIsLargeEnough ==
  IsFiniteSet(Callables) /\ MaxDepth \in Nat /\ MaxDepth >= 2 * Cardinality(Callables)

(* What a callable holds: something simple, a reference to a callable, or  *)
(* a callable of another signature by value.                               *)
Refs == [ref : Callables]
Flat == {Invalid, NullPointer, Function} \cup Refs
Nested == [value : Flat]
Content == Flat \cup Nested

(* What is not a callable is told apart from the callables, and a function *)
(* from what is empty.                                                     *)
ASSUME ContentsAreDistinct ==
  /\ {Invalid, NullPointer, Function} \cap (Refs \cup Nested) = {}
  /\ Function \notin {Invalid, NullPointer}

VARIABLES
  holds,  (* holds[f]: what callable f holds.                              *)
  task,   (* "idle", a running "call" or "bool" conversion, or "overflow". *)
  stack,  (* The wrappers entered: a callable or the one nested in it.     *)
  asked,  (* The last conversion to bool, while it is the latest news.     *)
  out     (* How the last task ended, until anything else happens.         *)

vars == <<holds, task, stack, asked, out>>

Frame == [fn : Callables, inner : BOOLEAN]
ContentAt(fr) == IF fr.inner THEN holds[fr.fn].value ELSE holds[fr.fn]
Top == stack[Len(stack)]
Running == task \in {"call", "bool"}

Init ==
  /\ holds \in [Callables -> {NullPointer}]
  /\ task = "idle" /\ stack = <<>> /\ asked = Unasked /\ out = "none"

----------------------------------------------------------------------------
(* Calls and conversions.                                                  *)

Start(f, what) ==
  /\ task = "idle"
  /\ task' = what /\ stack' = <<[fn |-> f, inner |-> FALSE]>>
  /\ asked' = IF asked # Unasked /\ asked.fn = f THEN asked ELSE Unasked
  /\ out' = "none" /\ UNCHANGED holds

(* Mutant: the end of a task leaves the innermost wrapper only.            *)
FinishInnermost(how) ==
  /\ task' = "idle" /\ stack' = SubSeq(stack, 1, Len(stack) - 1) /\ out' = how
  /\ asked' = IF task = "bool" THEN [fn |-> stack[1].fn, answer |-> how = "true"] ELSE asked
  /\ UNCHANGED holds

(* A return, or an exception, which no wrapper catches.                    *)
Finish(how) ==
  /\ task' = "idle" /\ stack' = <<>> /\ out' = how
  /\ asked' = IF task = "bool" THEN [fn |-> stack[1].fn, answer |-> how = "true"] ELSE asked
  /\ UNCHANGED holds

(* Mutant: a reference is not unwrapped.                                   *)
InvokedAsIs(fr, c) == IF c \in Refs THEN fr ELSE [fn |-> fr.fn, inner |-> TRUE]

(* std::invoke(getval(...)): the referent, or the nested callable.         *)
Invoked(fr, c) ==
  IF c \in Refs THEN [fn |-> c.ref, inner |-> FALSE] ELSE [fn |-> fr.fn, inner |-> TRUE]

(* Mutant: the conversion asks a nested callable only if it is valid.      *)
EnterShallow ==
  /\ Running /\ ContentAt(Top) \in Refs \cup Nested
  /\ IF task = "bool" /\ ContentAt(Top) \in Nested
     THEN Finish(IF ContentAt(Top).value = Invalid THEN "false" ELSE "true")
     ELSE /\ Len(stack) < MaxDepth
          /\ stack' = Append(stack, Invoked(Top, ContentAt(Top)))
          /\ UNCHANGED <<holds, task, asked, out>>

(* A wrapper whose value is a callable enters that one.                    *)
Enter ==
  /\ Running /\ ContentAt(Top) \in Refs \cup Nested
  /\ \/ /\ Len(stack) < MaxDepth
        /\ stack' = Append(stack, Invoked(Top, ContentAt(Top))) /\ UNCHANGED task
     \/ Len(stack) = MaxDepth /\ task' = "overflow" /\ UNCHANGED stack
  /\ UNCHANGED <<holds, asked, out>>

(* Mutants: a null pointer is called without a test; the conversion of an  *)
(* empty callable goes through the call operator.                          *)
RefuseInvalid ==
  /\ Running /\ ContentAt(Top) = Invalid
  /\ Finish(IF task = "bool" THEN "false" ELSE "bad_function_call")

RefuseByThrowing ==
  Running /\ ContentAt(Top) \in {Invalid, NullPointer} /\ Finish("bad_function_call")

(* An empty wrapper: the reference interface tests for the invalid state,  *)
(* the interface implementation for a null pointer.                        *)
Refuse ==
  /\ Running /\ ContentAt(Top) \in {Invalid, NullPointer}
  /\ Finish(IF task = "bool" THEN "false" ELSE "bad_function_call")

(* A function is there; a call runs it, and it returns or throws.          *)
Reach ==
  /\ Running /\ ContentAt(Top) = Function
  /\ \E how \in IF task = "bool" THEN {"true"} ELSE {"returned", "threw"} : Finish(how)

----------------------------------------------------------------------------
(* What the user does to callables, between calls or in a function that is *)
(* running; not to those that the call goes through.                       *)

UserCode == task = "idle" \/ (task = "call" /\ ContentAt(Top) = Function)
Free == Callables \ {stack[i].fn : i \in DOMAIN stack}

Change(h) ==
  /\ holds' = h /\ asked' = Unasked /\ out' = "none" /\ UNCHANGED <<task, stack>>

(* Generic assignment, or assignment of the invalid state.                 *)
Assign(f, c) == Change([holds EXCEPT ![f] = c])

(* Copies: an invalid callable cannot be copied, nested or not.            *)
CopyAssign(f, g) ==
  /\ holds[g] \notin {Invalid, [value |-> Invalid]}
  /\ Change([holds EXCEPT ![f] = holds[g]])

(* What is left of a content that was moved: pointers and references stay, *)
(* a nested callable goes, a function object may be of either kind.        *)
Leftovers(c) ==
  {d \in {c} : c \notin Nested} \cup {d \in {Invalid} : c \in {Function, Invalid} \cup Nested}

SameType(c, d) == {c, d} \subseteq Nested \/ {c, d} \subseteq {Function}

MoveAssign(f, g) ==
  /\ f # g /\ (holds[g] = Invalid => holds[f] = Invalid)
  /\ \E c \in Leftovers(holds[g]) \cup {d \in {holds[f]} : SameType(d, holds[g])} :
       Change([holds EXCEPT ![f] = holds[g], ![g] = c])

(* Moving the nested callable out, through value_ref.                      *)
TakeNested(f) ==
  /\ holds[f] \in Nested
  /\ \E c \in Leftovers(holds[f].value) : Change([holds EXCEPT ![f] = [value |-> c]])

User ==
  /\ UserCode
  /\ \E f \in Free :
       \/ \E c \in Content : Assign(f, c)
       \/ \E g \in Free : CopyAssign(f, g) \/ MoveAssign(f, g)
       \/ TakeNested(f)

Next ==
  \/ \E f \in Callables, what \in {"call", "bool"} : Start(f, what)
  \/ Enter \/ Refuse \/ Reach
  \/ User

Spec == Init /\ [][Next]_vars

(* A call that has begun goes on: the thread that makes it runs, and a     *)
(* function that is called returns or throws.                              *)
FairSpec == Spec /\ WF_vars(Enter) /\ WF_vars(Refuse) /\ WF_vars(Reach)

----------------------------------------------------------------------------
(* The variables keep their types; wrappers are entered in a task only.    *)
TypeOK ==
  /\ holds \in [Callables -> Content]
  /\ task \in {"idle", "call", "bool", "overflow"}
  /\ stack \in Seq(Frame) /\ Len(stack) <= MaxDepth
  /\ stack = <<>> <=> task = "idle"
  /\ asked \in {Unasked} \cup [fn : Callables, answer : BOOLEAN]
  /\ out \in {"none", "true", "false", "returned", "threw", "bad_function_call"}

(* operator bool is noexcept: it ends with an answer and never with the    *)
(* exception that a call of the same wrapper, or of one nested in it, ends *)
(* with.                                                                   *)
BoolNeverThrows == [][task = "bool" => out' \in {"none", "true", "false"}]_vars

(* The conversion to bool tells how a call would go: directly after it, a  *)
(* call finds nothing to invoke if and only if the answer was false, down  *)
(* all references and nested callables and after any moves before.         *)
BoolForetellsCalls ==
  (out \in {"returned", "threw", "bad_function_call"} /\ asked # Unasked) =>
    (out = "bad_function_call" <=> ~ asked.answer)

(* The callables that lead back to themselves, or to one that does.        *)
Leads(f, g) == holds[f] \in {[ref |-> g], [value |-> [ref |-> g]]}
Endless(f) ==
  \E S \in SUBSET Callables : f \in S /\ \A g \in S : \E h \in S : Leads(g, h)

(* Only references that form a cycle exhaust the stack.                    *)
OnlyCyclesOverflow == task = "overflow" => Endless(stack[1].fn)

(* Every other call and conversion ends.                                   *)
CallsEnd == (Running /\ ~ Endless(stack[1].fn)) ~> task = "idle"
============================================================================
