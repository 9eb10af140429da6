----------------------------- MODULE RefAccess -----------------------------
(***************************************************************************)
(* How a value is reached through a wrap: calls of the interface's const   *)
(* and non-const members, whose implementation takes the value from        *)
(* getval(), and value_ptr() and value_ref().  The value may be the        *)
(* wrap's own or an object of the program that a std::reference_wrapper    *)
(* refers to, which is how several wraps come to share one.                *)
(*                                                                         *)
(* Wraps have value semantics and all contents fit the static storage, as  *)
(* with foobar_iface of wrap_reference.cpp.  Exceptions of the value's own *)
(* special members are the subject of ValueWrap and left out here.         *)
(***************************************************************************)
CONSTANTS
  Wraps,      (* The wrap objects of the program.                          *)
  ConstWraps, (* Those that are declared const.                            *)
  Objs,       (* The objects the program keeps itself.                     *)
  ConstObjs,  (* Those that are declared const.                            *)
  Vals,
  Invalid,    (* What a wrap in the invalid state holds.                   *)
  NoWrap,     (* There is no wrap object here.                             *)
  Outside     (* The argument of a call when that is not a wrap.           *)

Kinds == {"value", "reference", "const reference"}

(* T, std::reference_wrapper<T> and std::reference_wrapper<const T>:       *)
(* std::ref of a const object is of the third kind.                        *)
Content ==
  [kind : {"value"}, val : Vals]
    \cup [kind : {"reference"}, obj : Objs \ ConstObjs]
    \cup [kind : {"const reference"}, obj : Objs]

ASSUME AccessConstantsOK ==
  /\ ConstWraps \subseteq Wraps /\ ConstObjs \subseteq Objs /\ Wraps \cap Objs = {}
  /\ Invalid \notin Content /\ NoWrap \notin Content /\ Invalid # NoWrap

VARIABLES
  objs,  (* objs[x]: the value of object x.                                *)
  held,  (* held[w]: a content, Invalid or NoWrap.                         *)
  call   (* The last call: operation, wrap, other wrap, what it threw.     *)

vars == <<objs, held, call>>

Ops == {"none", "owner", "construct", "copy", "move", "destroy", "assign", "emplace", "reset",
        "swap", "member", "const member", "value_ref"}
Outcomes == {"ok", "runtime_error", "bad_cast"}

Returned(op, w, o, out) == call' = [op |-> op, dst |-> w, src |-> o, out |-> out]

Exists(w) == held[w] # NoWrap
Valid(w) == held[w] \in Content

(* w may be the object of a call that needs a non-const wrap.              *)
Mutable(w) == Exists(w) /\ w \notin ConstWraps

----------------------------------------------------------------------------
(* getval: the place of the value and whether it may be changed there.     *)
Throws == [out |-> "runtime_error"]
Own(w, writable) == [out |-> "ok", at |-> w, writable |-> writable]
Referred(x, writable) == [out |-> "ok", at |-> x, writable |-> writable]

(* Mutant: const does not pass through a reference.                        *)
GetvalConstShallow(w) ==
  LET c == held[w]
  IN  CASE c.kind = "value" -> Own(w, FALSE)
        [] c.kind = "reference" -> Referred(c.obj, TRUE)
        [] c.kind = "const reference" -> Referred(c.obj, FALSE)

GetvalConst(w) ==
  IF held[w].kind = "value" THEN Own(w, FALSE) ELSE Referred(held[w].obj, FALSE)

(* Mutant: the reference to const is cast away.                            *)
GetvalCasting(w) ==
  IF held[w].kind = "value" THEN Own(w, TRUE) ELSE Referred(held[w].obj, TRUE)

Getval(w) ==
  LET c == held[w]
  IN  CASE c.kind = "value" -> Own(w, TRUE)
        [] c.kind = "reference" -> Referred(c.obj, TRUE)
        [] c.kind = "const reference" -> Throws

(* The caller's code finds a value at p and may change it if p allows.     *)
Use(p, v) ==
  IF ~ p.writable THEN UNCHANGED <<objs, held>>
  ELSE IF p.at \in Objs THEN objs' = [objs EXCEPT ![p.at] = v] /\ UNCHANGED held
  ELSE held' = [held EXCEPT ![p.at] = [kind |-> "value", val |-> v]] /\ UNCHANGED objs

(* Mutant: a moved reference_wrapper loses its referent.                    *)
MovedFromNulled(c) ==
  IF c.kind = "value" THEN [kind : {"value"}, val : Vals] ELSE {[c EXCEPT !.obj = Invalid]}

(* What a move leaves in a content: a reference_wrapper is only copied.    *)
MovedFrom(c) == IF c.kind = "value" THEN [kind : {"value"}, val : Vals] ELSE {c}

----------------------------------------------------------------------------
Init ==
  /\ objs \in [Objs -> Vals]
  /\ held = [w \in Wraps |-> NoWrap]
  /\ \E w \in Wraps : call = [op |-> "none", dst |-> w, src |-> Outside, out |-> "ok"]

(* The value, reference and invalid constructors, which also make the      *)
(* const wraps; generic assignment, emplace and operator=(invalid_wrap_t). *)
Construct(w, c) ==
  /\ ~ Exists(w)
  /\ held' = [held EXCEPT ![w] = c] /\ UNCHANGED objs
  /\ Returned("construct", w, Outside, "ok")

(* Mutant: a value is assigned to the object the wrap refers to.           *)
AssignThrough(w, c) ==
  /\ Mutable(w)
  /\ IF Valid(w) /\ held[w].kind = "reference" /\ c.kind = "value"
     THEN objs' = [objs EXCEPT ![held[w].obj] = c.val] /\ UNCHANGED held
     ELSE held' = [held EXCEPT ![w] = c] /\ UNCHANGED objs
  /\ Returned("assign", w, Outside, "ok")

Assign(w, c) ==
  /\ Mutable(w)
  /\ held' = [held EXCEPT ![w] = c] /\ UNCHANGED objs
  /\ \E op \in {"assign", "emplace"} : Returned(op, w, Outside, "ok")

Reset(w) ==
  /\ Mutable(w)
  /\ held' = [held EXCEPT ![w] = Invalid] /\ UNCHANGED objs
  /\ Returned("reset", w, Outside, "ok")

(* Copy and move construction and assignment, which also copy and move     *)
(* const wraps' contents out, but never move them away.                    *)
Target(w) == ~ Exists(w) \/ Mutable(w)

CopyFrom(w, o) ==
  /\ Target(w) /\ w # o /\ Valid(o)
  /\ held' = [held EXCEPT ![w] = held[o]] /\ UNCHANGED objs
  /\ Returned("copy", w, o, "ok")

Moved(w, o) == \E left \in MovedFrom(held[o]) : held' = [held EXCEPT ![w] = held[o], ![o] = left]

MoveFrom(w, o) ==
  /\ Target(w) /\ w # o /\ Mutable(o) /\ Valid(o)
  /\ Moved(w, o) /\ UNCHANGED objs
  /\ Returned("move", w, o, "ok")

Destruct(w) ==
  /\ Exists(w)
  /\ held' = [held EXCEPT ![w] = NoWrap] /\ UNCHANGED objs
  /\ Returned("destroy", w, Outside, "ok")

(* swap(): with one side invalid it moves the other side's content over.   *)
Swap(w, o) ==
  /\ Mutable(w) /\ Mutable(o)
  /\ \/ (w = o \/ (~ Valid(w) /\ ~ Valid(o))) /\ UNCHANGED held
     \/ /\ w # o /\ Valid(w) /\ Valid(o)
        /\ held' = [held EXCEPT ![w] = held[o], ![o] = held[w]]
     \/ \E to, from \in {w, o} : ~ Valid(to) /\ Valid(from) /\ Moved(to, from)
  /\ UNCHANGED objs /\ Returned("swap", w, o, "ok")

(* A call of a non-const and of a const member of the interface, through   *)
(* the pointer interface or any of the overloads of a reference interface. *)
Member(w, v) ==
  /\ Mutable(w) /\ Valid(w)
  /\ LET p == Getval(w) IN
     \/ p.out = "ok" /\ Use(p, v)
     \/ p.out # "ok" /\ UNCHANGED <<objs, held>>
  /\ Returned("member", w, Outside, Getval(w).out)

ConstMember(w, v) ==
  /\ Valid(w)
  /\ Use(GetvalConst(w), v)
  /\ Returned("const member", w, Outside, "ok")

(* value_ref<T>: the exact type, and the reference_wrapper itself, whose   *)
(* get() gives a T & even if the wrapper is const.                         *)
Retrieved(w, T) ==
  IF held[w].kind # T THEN [out |-> "bad_cast"]
  ELSE IF T = "value" THEN Own(w, w \notin ConstWraps)
  ELSE Referred(held[w].obj, T = "reference")

ValueRef(w, T, v) ==
  /\ Valid(w)
  /\ LET p == Retrieved(w, T) IN
     \/ p.out = "ok" /\ Use(p, v)
     \/ p.out # "ok" /\ UNCHANGED <<objs, held>>
  /\ Returned("value_ref", w, Outside, Retrieved(w, T).out)

(* The program changes an object of its own.                               *)
Owner(x, v) ==
  /\ x \notin ConstObjs
  /\ objs' = [objs EXCEPT ![x] = v] /\ UNCHANGED held
  /\ \E w \in Wraps : Returned("owner", w, Outside, "ok")

Next ==
  \/ \E x \in Objs, v \in Vals : Owner(x, v)
  \/ \E w \in Wraps :
       \/ Reset(w) \/ Destruct(w)
       \/ \E c \in Content : Assign(w, c)
       \/ \E c \in Content \cup {Invalid} : Construct(w, c)
       \/ \E v \in Vals : Member(w, v) \/ ConstMember(w, v) \/ \E T \in Kinds : ValueRef(w, T, v)
       \/ \E o \in Wraps : CopyFrom(w, o) \/ MoveFrom(w, o) \/ Swap(w, o)

Spec == Init /\ [][Next]_vars

----------------------------------------------------------------------------
(* Objects and wraps keep their types; no wrap holds a reference to        *)
(* non-const for a const object, whatever was copied from where.           *)
TypeOK ==
  /\ objs \in [Objs -> Vals]
  /\ held \in [Wraps -> Content \cup {Invalid, NoWrap}]
  /\ call \in [op : Ops, dst : Wraps, src : Wraps \cup {Outside}, out : Outcomes]

(* A const object keeps its value, and a const wrap its content for life,  *)
(* over every chain of wraps that a reference to it was copied through.    *)
ConstStaysConst ==
  [][/\ \A x \in ConstObjs : objs'[x] = objs[x]
     /\ \A w \in ConstWraps : Exists(w) => held'[w] \in {held[w], NoWrap}]_vars

(* A const member changes nothing, not even what the wrap refers to: only  *)
(* unpacking the reference_wrapper gets around a wrap that is const.       *)
ConstIsDeep ==
  [][/\ call'.op = "const member" => UNCHANGED <<objs, held>>
     /\ UNCHANGED objs \/ call'.op \in {"owner", "value_ref"} \/ call'.dst \notin ConstWraps]_vars

(* Wraps of references are rebound and never written through by copying,   *)
(* moving, assigning or swapping: an object changes only by a call that    *)
(* uses the value of a wrap that refers to it, and then no other does, nor *)
(* does any wrap.                                                          *)
RefersTo(w, x) == Valid(w) /\ held[w].kind # "value" /\ held[w].obj = x
OnlyUseWritesThrough ==
  [][\A x \in Objs : objs'[x] # objs[x] /\ call'.op # "owner" =>
       /\ call'.op \in {"member", "value_ref"} /\ RefersTo(call'.dst, x)
       /\ UNCHANGED held /\ \A y \in Objs \ {x} : objs'[y] = objs[y]]_vars
============================================================================
