---------------------------- MODULE WrapConfig ----------------------------
(***************************************************************************)
(* The configuration of a wrap class against the types it works with:      *)
(* which special members the class offers, whether their bodies can be     *)
(* compiled, and which exceptions leave a call, and which end the program  *)
(* because a function that throws was declared noexcept.                   *)
(*                                                                         *)
(* A call is the sequence of the places in it where something can throw:   *)
(* memory allocation and the special members of the value, of the          *)
(* interface implementation and of the reference interface.  The contents  *)
(* of wraps are the subject of ValueWrap and RefWrap.  Where two values    *)
(* are involved, both are of types that are alike.                         *)
(***************************************************************************)
EXTENDS Sequences

VARIABLES
  class, (* The configuration and the traits of the types, once chosen.    *)
  run    (* The call: operation, the places left in it, its result.        *)

vars == <<class, run>>

(* What may be declared noexcept by the user.  Allocation never is.        *)
Members == {"ref default", "impl default", "value construct", "value copy", "value copy assign",
            "value move", "value move assign", "value swap"}

(* small: the holder fits static_size and static_align; quiet: what does   *)
(* not throw and says so.                                                  *)
Configs ==
  [semantics : {"value", "reference"}, copyable : BOOLEAN, movable : BOOLEAN,
   swappable : BOOLEAN, small : BOOLEAN, quiet : SUBSET Members]

(* Mutant: copyable is not tied to movable.                                *)
ValidConfigCopyOnly(c) == c.movable => c.swappable

ValidConfig(c) == (c.copyable => c.movable) /\ (c.movable => c.swappable)

Ops == {"invalid construct", "construct", "copy construct", "move construct", "copy assign",
        "move assign", "assign", "emplace", "swap"}

ByReference(c) == c.semantics = "reference"

(* The requires clauses.  The reference interface can be initialised, or   *)
(* there would be no wrap at all.                                          *)
Offered(c, op) ==
  CASE op \in {"copy construct", "copy assign"} -> c.copyable \/ ByReference(c)
    [] op \in {"move construct", "move assign"} -> c.movable \/ ByReference(c)
    [] op = "swap" -> c.swappable
    [] OTHER -> TRUE

(* The operations of the class that the body of op uses.                   *)
Uses(c, op) ==
  CASE op = "copy assign" /\ ~ ByReference(c) -> {"copy construct", "move assign"}
    [] op = "swap" /\ ~ ByReference(c) -> {"move construct", "move assign"}
    [] OTHER -> {}

Compiles(c, op) == \A used \in Uses(c, op) : Offered(c, used)

----------------------------------------------------------------------------
(* A place where something may throw, and one in a noexcept function.      *)
Open(what) == [what |-> what, sealed |-> FALSE]
Sealed(what) == [what |-> what, sealed |-> TRUE]

OnHeap(c) == ByReference(c) \/ ~ c.small

(* ctor_impl and the cloning primitives: the block, the implementation as  *)
(* the holder's base, the value.                                           *)
NewHolder(c, how) ==
  (IF OnHeap(c) THEN <<Open("alloc")>> ELSE <<>>) \o <<Open("impl default"), Open(how)>>

(* move_init_from: a pointer is taken over, or a holder made in place.     *)
MoveInit(c) == IF OnHeap(c) THEN <<>> ELSE <<Sealed("impl default"), Sealed("value move")>>

CopyConstruction(c) ==
  <<Open("ref default")>> \o (IF ByReference(c) THEN <<>> ELSE NewHolder(c, "value copy"))

(* The ways the operations may go, by the types and validity of the wraps. *)
ValuePaths(c, op) ==
  CASE op = "copy assign" -> {<<Open("value copy assign")>>, CopyConstruction(c) \o MoveInit(c)}
    [] op = "move assign" -> {MoveInit(c), IF OnHeap(c) THEN <<>> ELSE <<Sealed("value move assign")>>}
    [] op = "assign" -> {NewHolder(c, "value construct"), <<Open("value copy assign")>>,
                         <<Sealed("value move assign")>>}
    [] op = "swap" -> {MoveInit(c), IF OnHeap(c) THEN <<>> ELSE <<Sealed("value swap")>>,
                       <<Sealed("ref default")>> \o MoveInit(c) \o MoveInit(c) \o MoveInit(c)}

Paths(c, op) ==
  CASE op = "invalid construct" -> {<<Open("ref default")>>}
    [] op = "construct" -> {<<Open("ref default")>> \o NewHolder(c, "value construct")}
    [] op = "copy construct" -> {CopyConstruction(c)}
    [] op = "move construct" ->
         {<<Open("ref default")>> \o (IF ByReference(c) THEN <<>> ELSE MoveInit(c))}
    [] op = "emplace" \/ (op = "assign" /\ ByReference(c)) -> {NewHolder(c, "value construct")}
    [] op \in {"copy assign", "move assign", "swap"} /\ ByReference(c) -> {<<>>}
    [] OTHER -> ValuePaths(c, op)

(* Mutant: the implementation's constructor is not thought of.             *)
QuietCtorValueOnly(c) == ~ OnHeap(c) /\ "value construct" \in c.quiet

(* The noexcept of ctor_impl, through that of the holder's constructors.   *)
QuietCtor(c) == ~ OnHeap(c) /\ {"impl default", "value construct"} \subseteq c.quiet

(* The noexcept clauses.                                                   *)
Noexcept(c, op) ==
  CASE op = "invalid construct" -> "ref default" \in c.quiet
    [] op = "construct" -> QuietCtor(c) /\ "ref default" \in c.quiet
    [] op = "copy construct" -> ByReference(c) /\ "ref default" \in c.quiet
    [] op = "copy assign" -> ByReference(c)
    [] op = "emplace" -> QuietCtor(c)
    [] op \in {"move construct", "move assign", "swap"} -> TRUE
    [] op = "assign" -> FALSE

----------------------------------------------------------------------------
Idle == [op |-> "none", left |-> <<>>, result |-> "done"]

Init == class \in {c \in Configs : ValidConfig(c)} /\ run = Idle

Call(op) ==
  /\ run = Idle /\ Offered(class, op) /\ Compiles(class, op)
  /\ \E path \in Paths(class, op) : run' = [op |-> op, left |-> path, result |-> "running"]
  /\ UNCHANGED class

(* The compiler rejects the call, as not offered or in the body of op.     *)
Reject(op) ==
  /\ run = Idle /\ ~ (Offered(class, op) /\ Compiles(class, op))
  /\ run' = [op |-> op, left |-> <<>>,
             result |-> IF Offered(class, op) THEN "ill-formed" ELSE "not offered"]
  /\ UNCHANGED class

(* The next special member returns, and the operation goes on or ends.     *)
Proceed ==
  /\ run.result = "running" /\ run.left # <<>>
  /\ run' = [run EXCEPT !.left = Tail(@)] /\ UNCHANGED class

Return ==
  /\ run.result = "running" /\ run.left = <<>>
  /\ run' = Idle /\ UNCHANGED class

(* It throws: the exception leaves the operation, or the program ends.     *)
Throw ==
  /\ run.result = "running" /\ run.left # <<>> /\ Head(run.left).what \notin class.quiet
  /\ run' = [run EXCEPT !.result = IF Head(run.left).sealed \/ Noexcept(class, run.op)
                                   THEN "terminated" ELSE "threw"]
  /\ UNCHANGED class

Caught == run.result = "threw" /\ run' = Idle /\ UNCHANGED class

Next == (\E op \in Ops : Call(op) \/ Reject(op)) \/ Proceed \/ Return \/ Throw \/ Caught

Spec == Init /\ [][Next]_vars

----------------------------------------------------------------------------
(* What ends the program is only what moves and swaps values, or makes the *)
(* parts of a holder or wrap that is moved into; an exception of a value's *)
(* construction or copy or of the allocation always reaches the caller.    *)
OnlyMovesTerminate ==
  run.result = "terminated" =>
    \/ Head(run.left).what \in {"value move", "value move assign", "value swap"}
    \/ /\ Head(run.left).what \in {"impl default", "ref default"}
       /\ run.op \in {"copy assign", "move construct", "move assign", "swap"}

(* The constructors and assignments that the requires clauses admit have   *)
(* bodies that compile: valid_config ties the switches as they need.       *)
OfferedCompile == run.result = "ill-formed" => run.op = "swap"

(* What the documentation of config::swappable says: the switch selects    *)
(* whether the class is swappable.                                         *)
SwappableCompiles == run.op = "swap" /\ class.swappable => run.result # "ill-formed"
============================================================================
