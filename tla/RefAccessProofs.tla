-------------------------- MODULE RefAccessProofs --------------------------
(***************************************************************************)
(* Theorems about RefAccess, for all sets of wraps, objects and values.    *)
(*                                                                         *)
(* A step of Next is one of four things: it rebinds wraps and changes no   *)
(* object, it only reads, it writes through one wrap, or the program       *)
(* changes an object of its own.  The properties follow from what each of  *)
(* the four may do, given that the types are right: that no wrap holds a   *)
(* reference to non-const for a const object is part of TypeOK, and is the *)
(* inductive invariant they need.                                          *)
(***************************************************************************)
EXTENDS RefAccess, TLAPS

Calls == [op : Ops, dst : Wraps, src : Wraps \cup {Outside}, out : Outcomes]

(* The wraps keep their types, and const wraps their contents.             *)
Rebound(h) ==
  /\ h \in [Wraps -> Content \cup {Invalid, NoWrap}]
  /\ \A w \in ConstWraps : Exists(w) => h[w] \in {held[w], NoWrap}

Rebinds == UNCHANGED objs /\ Rebound(held') /\ call' \in Calls /\ call'.op # "const member"

Reads == UNCHANGED <<objs, held>> /\ call' \in Calls

WritesThrough(w) ==
  /\ w \in Wraps /\ UNCHANGED held
  /\ \E x \in Objs \ ConstObjs, v \in Vals : RefersTo(w, x) /\ objs' = [objs EXCEPT ![x] = v]
  /\ call' \in Calls /\ call'.dst = w
  /\ call'.op = "value_ref" \/ (call'.op = "member" /\ w \notin ConstWraps)

Owns ==
  /\ UNCHANGED held
  /\ \E x \in Objs \ ConstObjs, v \in Vals : objs' = [objs EXCEPT ![x] = v]
  /\ call' \in Calls /\ call'.op = "owner"

----------------------------------------------------------------------------
LEMMA Contents ==
  ASSUME NEW c \in Content
  PROVE  /\ c.kind \in Kinds
         /\ c.kind = "value" => c \in [kind : {"value"}, val : Vals]
         /\ c.kind = "reference" => c.obj \in Objs \ ConstObjs
         /\ c.kind = "const reference" => c.obj \in Objs
         /\ c # Invalid /\ c # NoWrap
  BY AccessConstantsOK DEF Content, Kinds, AccessConstantsOK

LEMMA ReturnedTypes ==
  ASSUME NEW op \in Ops, NEW w \in Wraps, NEW o \in Wraps \cup {Outside}, NEW out \in Outcomes,
         Returned(op, w, o, out)
  PROVE  call' \in Calls /\ call'.op = op /\ call'.dst = w
  BY DEF Returned, Calls

(* A wrap that is not const may get any content.                           *)
LEMMA ReboundOne ==
  ASSUME TypeOK, NEW w \in Wraps, NEW c \in Content \cup {Invalid, NoWrap},
         ~ Exists(w) \/ w \notin ConstWraps \/ c = NoWrap
  PROVE  Rebound([held EXCEPT ![w] = c])
  BY DEF Rebound, TypeOK, Exists

LEMMA ReboundTwo ==
  ASSUME TypeOK, NEW w \in Wraps, NEW o \in Wraps,
         NEW c \in Content \cup {Invalid, NoWrap}, NEW d \in Content \cup {Invalid, NoWrap},
         ~ Exists(w) \/ w \notin ConstWraps, o \notin ConstWraps
  PROVE  Rebound([held EXCEPT ![w] = c, ![o] = d])
<1> DEFINE h == [held EXCEPT ![w] = c, ![o] = d]
<1>1. h \in [Wraps -> Content \cup {Invalid, NoWrap}]
  BY DEF TypeOK
<1>2. ASSUME NEW u \in ConstWraps, Exists(u) PROVE h[u] = held[u]
  <2>1. u \in Wraps /\ u # o /\ u # w
    BY <1>2, AccessConstantsOK DEF AccessConstantsOK
  <2> QED
    BY <2>1 DEF TypeOK
<1> QED
  BY <1>1, <1>2 DEF Rebound

LEMMA LeftBehind ==
  ASSUME NEW c \in Content
  PROVE  MovedFrom(c) \subseteq Content
  BY DEF MovedFrom, Content

LEMMA MovedRebinds ==
  ASSUME TypeOK, NEW w \in Wraps, NEW o \in Wraps, Moved(w, o), Valid(o),
         ~ Exists(w) \/ w \notin ConstWraps, o \notin ConstWraps
  PROVE  Rebound(held')
<1>1. PICK left \in MovedFrom(held[o]) : held' = [held EXCEPT ![w] = held[o], ![o] = left]
  BY DEF Moved
<1>2. held[o] \in Content /\ left \in Content
  BY <1>1, LeftBehind DEF Valid
<1> QED
  BY <1>1, <1>2, ReboundTwo

----------------------------------------------------------------------------
(* What code that finds the value of w at p does, if p is a place that it  *)
(* may write to only when it is w itself, not const, or an object that w   *)
(* refers to as non-const.                                                 *)
MayUse(w, p) ==
  p.writable =>
    \/ p.at = w /\ w \notin ConstWraps
    \/ p.at \in Objs \ ConstObjs /\ RefersTo(w, p.at)

LEMMA UseEffect ==
  ASSUME TypeOK, NEW w \in Wraps, NEW v \in Vals, NEW p, MayUse(w, p), Use(p, v),
         call' \in Calls, call'.dst = w,
         call'.op = "value_ref" \/ (call'.op = "member" /\ w \notin ConstWraps)
  PROVE  Rebinds \/ Reads \/ WritesThrough(w)
<1>1. CASE ~ p.writable
  BY <1>1 DEF Use, Reads
<1>2. CASE p.writable /\ p.at \in Objs
  <2>1. p.at \in Objs \ ConstObjs /\ RefersTo(w, p.at)
    BY <1>2, AccessConstantsOK DEF MayUse, AccessConstantsOK
  <2>2. objs' = [objs EXCEPT ![p.at] = v] /\ UNCHANGED held
    BY <1>2 DEF Use
  <2> QED
    BY <2>1, <2>2 DEF WritesThrough
<1>3. CASE p.writable /\ p.at \notin Objs
  <2>1. p.at = w /\ w \notin ConstWraps
    BY <1>3 DEF MayUse
  <2>2. held' = [held EXCEPT ![w] = [kind |-> "value", val |-> v]] /\ UNCHANGED objs
    BY <1>3, <2>1 DEF Use
  <2>3. [kind |-> "value", val |-> v] \in Content
    BY DEF Content
  <2> QED
    BY <2>1, <2>2, <2>3, ReboundOne DEF Rebinds
<1> QED
  BY <1>1, <1>2, <1>3

LEMMA GetvalAllows ==
  ASSUME NEW w \in Wraps, Valid(w), w \notin ConstWraps, Getval(w).out = "ok"
  PROVE  MayUse(w, Getval(w))
<1>1. held[w] \in Content
  BY DEF Valid
<1>2. CASE held[w].kind = "value"
  BY <1>2 DEF Getval, Own, MayUse
<1>3. CASE held[w].kind = "reference"
  BY <1>1, <1>3, Contents DEF Getval, Referred, MayUse, RefersTo
<1>4. CASE held[w].kind = "const reference"
  BY <1>4 DEF Getval, Throws
<1> QED
  BY <1>1, <1>2, <1>3, <1>4, Contents DEF Kinds

LEMMA RetrievedAllows ==
  ASSUME NEW w \in Wraps, Valid(w), NEW T \in Kinds, Retrieved(w, T).out = "ok"
  PROVE  MayUse(w, Retrieved(w, T))
<1>1. held[w] \in Content
  BY DEF Valid
<1>2. held[w].kind = T
  BY DEF Retrieved
<1>3. CASE T = "value"
  BY <1>2, <1>3 DEF Retrieved, Own, MayUse
<1>4. CASE T = "reference"
  BY <1>1, <1>2, <1>4, Contents DEF Retrieved, Referred, MayUse, RefersTo
<1>5. CASE T = "const reference"
  BY <1>2, <1>5 DEF Retrieved, Referred, MayUse
<1> QED
  BY <1>3, <1>4, <1>5 DEF Kinds

----------------------------------------------------------------------------
LEMMA RebindingSteps ==
  ASSUME TypeOK, NEW w \in Wraps,
         \/ Reset(w) \/ Destruct(w)
         \/ \E c \in Content : Assign(w, c)
         \/ \E c \in Content \cup {Invalid} : Construct(w, c)
         \/ \E o \in Wraps : CopyFrom(w, o) \/ MoveFrom(w, o)
  PROVE  Rebinds
<1> USE ReturnedTypes DEF Ops, Outcomes, Rebinds
<1>1. CASE Reset(w)
  BY <1>1, ReboundOne DEF Reset, Mutable
<1>2. CASE Destruct(w)
  BY <1>2, ReboundOne DEF Destruct
<1>3. ASSUME NEW c \in Content, Assign(w, c) PROVE Rebinds
  BY <1>3, ReboundOne DEF Assign, Mutable
<1>4. ASSUME NEW c \in Content \cup {Invalid}, Construct(w, c) PROVE Rebinds
  BY <1>4, ReboundOne DEF Construct
<1>5. ASSUME NEW o \in Wraps, CopyFrom(w, o) PROVE Rebinds
  <2>1. held[o] \in Content
    BY <1>5 DEF CopyFrom, Valid
  <2> QED
    BY <1>5, <2>1, ReboundOne DEF CopyFrom, Target, Mutable
<1>6. ASSUME NEW o \in Wraps, MoveFrom(w, o) PROVE Rebinds
  BY <1>6, MovedRebinds DEF MoveFrom, Target, Mutable
<1> QED
  BY <1>1, <1>2, <1>3, <1>4, <1>5, <1>6

LEMMA SwapRebinds ==
  ASSUME TypeOK, NEW w \in Wraps, NEW o \in Wraps, Swap(w, o)
  PROVE  Rebinds
<1>1. call' \in Calls /\ call'.op = "swap" /\ UNCHANGED objs
  BY ReturnedTypes DEF Swap, Ops, Outcomes
<1>2. w \notin ConstWraps /\ o \notin ConstWraps
  BY DEF Swap, Mutable
<1>3. Rebound(held)
  BY AccessConstantsOK DEF Rebound, TypeOK, AccessConstantsOK
<1>4. ASSUME Valid(w), Valid(o), held' = [held EXCEPT ![w] = held[o], ![o] = held[w]]
      PROVE  Rebound(held')
  BY <1>2, <1>4, ReboundTwo DEF Valid
<1>5. ASSUME NEW to \in {w, o}, NEW from \in {w, o}, Valid(from), Moved(to, from)
      PROVE  Rebound(held')
  BY <1>2, <1>5, MovedRebinds
<1>6. Rebound(held')
  <2>1. \/ UNCHANGED held
        \/ Valid(w) /\ Valid(o) /\ held' = [held EXCEPT ![w] = held[o], ![o] = held[w]]
        \/ \E to, from \in {w, o} : Valid(from) /\ Moved(to, from)
    BY DEF Swap
  <2> QED
    BY <1>3, <1>4, <1>5, <2>1
<1> QED
  BY <1>1, <1>6 DEF Rebinds

LEMMA UsingSteps ==
  ASSUME TypeOK, NEW w \in Wraps, NEW v \in Vals,
         Member(w, v) \/ ConstMember(w, v) \/ \E T \in Kinds : ValueRef(w, T, v)
  PROVE  Rebinds \/ Reads \/ WritesThrough(w)
<1>1. CASE Member(w, v)
  <2>1. Valid(w) /\ w \notin ConstWraps /\ Returned("member", w, Outside, Getval(w).out)
    BY <1>1 DEF Member, Mutable
  <2>2. Getval(w).out \in Outcomes
    BY <2>1, Contents DEF Getval, Own, Referred, Throws, Outcomes, Valid, Kinds
  <2>3. call' \in Calls /\ call'.op = "member" /\ call'.dst = w
    BY <2>1, <2>2, ReturnedTypes DEF Ops
  <2>4. CASE Getval(w).out = "ok" /\ Use(Getval(w), v)
    BY <2>1, <2>3, <2>4, GetvalAllows, UseEffect
  <2> QED
    BY <1>1, <2>3, <2>4 DEF Member, Reads
<1>2. CASE ConstMember(w, v)
  <2>1. call' \in Calls
    BY <1>2, ReturnedTypes DEF ConstMember, Ops, Outcomes
  <2>2. ~ GetvalConst(w).writable
    BY DEF GetvalConst, Own, Referred
  <2> QED
    BY <1>2, <2>1, <2>2 DEF ConstMember, Use, Reads
<1>3. ASSUME NEW T \in Kinds, ValueRef(w, T, v) PROVE Rebinds \/ Reads \/ WritesThrough(w)
  <2>1. Retrieved(w, T).out \in Outcomes
    BY DEF Retrieved, Own, Referred, Outcomes
  <2>2. call' \in Calls /\ call'.op = "value_ref" /\ call'.dst = w
    BY <1>3, <2>1, ReturnedTypes DEF ValueRef, Ops
  <2>3. CASE Retrieved(w, T).out = "ok" /\ Use(Retrieved(w, T), v)
    BY <1>3, <2>2, <2>3, RetrievedAllows, UseEffect DEF ValueRef
  <2> QED
    BY <1>3, <2>2, <2>3 DEF ValueRef, Reads
<1> QED
  BY <1>1, <1>2, <1>3

LEMMA OwnerStep ==
  ASSUME NEW x \in Objs, NEW v \in Vals, Owner(x, v)
  PROVE  Owns
  BY ReturnedTypes DEF Owner, Owns, Ops, Outcomes

LEMMA Steps ==
  ASSUME TypeOK, Next
  PROVE  Rebinds \/ Reads \/ Owns \/ \E w \in Wraps : WritesThrough(w)
<1>1. CASE \E x \in Objs, v \in Vals : Owner(x, v)
  BY <1>1, OwnerStep
<1>2. ASSUME NEW w \in Wraps,
             \/ Reset(w) \/ Destruct(w)
             \/ \E c \in Content : Assign(w, c)
             \/ \E c \in Content \cup {Invalid} : Construct(w, c)
             \/ \E o \in Wraps : CopyFrom(w, o) \/ MoveFrom(w, o)
      PROVE  Rebinds
  BY <1>2, RebindingSteps
<1>3. ASSUME NEW w \in Wraps, NEW o \in Wraps, Swap(w, o) PROVE Rebinds
  BY <1>3, SwapRebinds
<1>4. ASSUME NEW w \in Wraps, NEW v \in Vals,
             Member(w, v) \/ ConstMember(w, v) \/ \E T \in Kinds : ValueRef(w, T, v)
      PROVE  Rebinds \/ Reads \/ WritesThrough(w)
  BY <1>4, UsingSteps
<1> QED
  BY <1>1, <1>2, <1>3, <1>4 DEF Next

(* What a write to one object changes.                                     *)
LEMMA OneObject ==
  ASSUME TypeOK, NEW x \in Objs, NEW v \in Vals, objs' = [objs EXCEPT ![x] = v]
  PROVE  objs' \in [Objs -> Vals] /\ \A y \in Objs \ {x} : objs'[y] = objs[y]
  BY DEF TypeOK

----------------------------------------------------------------------------
(* Every object, wrap and call keeps its type, and no wrap ever refers to  *)
(* a const object as if it were not, whatever is copied from where.        *)
THEOREM TypeCorrect == Spec => []TypeOK
<1>1. Init => TypeOK
  BY DEF Init, TypeOK, Ops, Outcomes
<1>2. TypeOK /\ [Next]_vars => TypeOK'
  <2> SUFFICES ASSUME TypeOK, Next PROVE TypeOK'
    BY DEF TypeOK, vars
  <2>1. CASE Rebinds
    BY <2>1 DEF Rebinds, Rebound, TypeOK, Calls
  <2>2. CASE Reads
    BY <2>2 DEF Reads, TypeOK, Calls
  <2>3. CASE Owns
    BY <2>3, OneObject DEF Owns, TypeOK, Calls
  <2>4. ASSUME NEW w \in Wraps, WritesThrough(w) PROVE TypeOK'
    BY <2>4, OneObject DEF WritesThrough, TypeOK, Calls
  <2> QED
    BY <2>1, <2>2, <2>3, <2>4, Steps
<1> QED
  BY <1>1, <1>2, PTL DEF Spec

(* No chain of copied references, and no call through them, changes a      *)
(* const object, and a const wrap keeps its content for life.              *)
THEOREM ConstKept == Spec => ConstStaysConst
<1> DEFINE A == /\ \A x \in ConstObjs : objs'[x] = objs[x]
                /\ \A w \in ConstWraps : Exists(w) => held'[w] \in {held[w], NoWrap}
<1>1. ASSUME TypeOK, Next PROVE A
  <2>1. CASE Rebinds
    BY <2>1 DEF Rebinds, Rebound
  <2>2. CASE Reads
    BY <2>2 DEF Reads
  <2>3. ASSUME NEW x \in Objs \ ConstObjs, NEW v \in Vals,
               objs' = [objs EXCEPT ![x] = v], UNCHANGED held
        PROVE  A
    BY <1>1, <2>3, OneObject, AccessConstantsOK DEF AccessConstantsOK
  <2> QED
    BY <1>1, <2>1, <2>2, <2>3, Steps DEF Owns, WritesThrough
<1>2. TypeOK /\ [Next]_vars => [A]_vars
  BY <1>1
<1> QED
  BY <1>2, TypeCorrect, PTL DEF Spec, ConstStaysConst

(* Copying, moving, assigning and swapping wraps of references rebind them *)
(* and write to no object; a call writes only to the one its wrap refers   *)
(* to.                                                                     *)
THEOREM RebindingOnly == Spec => OnlyUseWritesThrough
<1> DEFINE A == \A x \in Objs : objs'[x] # objs[x] /\ call'.op # "owner" =>
                  /\ call'.op \in {"member", "value_ref"} /\ RefersTo(call'.dst, x)
                  /\ UNCHANGED held /\ \A y \in Objs \ {x} : objs'[y] = objs[y]
<1>1. ASSUME TypeOK, Next PROVE A
  <2>1. CASE Rebinds \/ Reads \/ Owns
    BY <2>1 DEF Rebinds, Reads, Owns
  <2>2. ASSUME NEW w \in Wraps, WritesThrough(w) PROVE A
    <3>1. PICK x \in Objs \ ConstObjs, v \in Vals : RefersTo(w, x) /\ objs' = [objs EXCEPT ![x] = v]
      BY <2>2 DEF WritesThrough
    <3>2. \A y \in Objs \ {x} : objs'[y] = objs[y]
      BY <1>1, <3>1, OneObject
    <3>3. call'.op \in {"member", "value_ref"} /\ call'.dst = w /\ UNCHANGED held
      BY <2>2 DEF WritesThrough
    <3> QED
      BY <3>1, <3>2, <3>3
  <2> QED
    BY <1>1, <2>1, <2>2, Steps
<1>2. TypeOK /\ [Next]_vars => [A]_vars
  BY <1>1
<1> QED
  BY <1>2, TypeCorrect, PTL DEF Spec, OnlyUseWritesThrough

(* A const member reads only, however the value is reached, and a const    *)
(* wrap is not a way to write to an object but by value_ref().             *)
THEOREM DeepConst == Spec => ConstIsDeep
<1> DEFINE A == /\ call'.op = "const member" => UNCHANGED <<objs, held>>
                /\ UNCHANGED objs \/ call'.op \in {"owner", "value_ref"} \/ call'.dst \notin ConstWraps
<1>1. ASSUME TypeOK, Next PROVE A
  <2>1. CASE Rebinds \/ Reads \/ Owns
    BY <2>1 DEF Rebinds, Reads, Owns
  <2>2. ASSUME NEW w \in Wraps, WritesThrough(w) PROVE A
    BY <2>2 DEF WritesThrough
  <2> QED
    BY <1>1, <2>1, <2>2, Steps
<1>2. TypeOK /\ [Next]_vars => [A]_vars
  BY <1>1
<1> QED
  BY <1>2, TypeCorrect, PTL DEF Spec, ConstIsDeep
============================================================================
