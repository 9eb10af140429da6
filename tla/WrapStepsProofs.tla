--------------------------- MODULE WrapStepsProofs ---------------------------
(***************************************************************************)
(* Theorems about WrapSteps: calls made one step at a time while the       *)
(* values being copied, moved or destroyed make calls of their own.        *)
(*                                                                         *)
(* The invariant lists, for each kind of call, the states it can be in     *)
(* (Closing, Creating, ..., Rotating): the wraps that own what they should *)
(* (all of them, or all but the one being made), the steps that are left,  *)
(* and what the goal has to do with the wraps.  A step of the call leads   *)
(* from one of these to the next, or ends the call; a nested call, which   *)
(* may change anything but the wraps the step works on, leads back to the  *)
(* same one.                                                               *)
(*                                                                         *)
(* The first sections, about lists of steps, state records and single      *)
(* steps, are also what WrapAtomicProofs rests on.                         *)
(***************************************************************************)
EXTENDS WrapSteps, ValueWrapProofs, SequenceTheorems

----------------------------------------------------------------------------
(* Lists of steps: the first one and the others.                           *)
IsList(t) == \E S : t \in Seq(S)
Then(x, t) == <<x>> \o t

LEMMA ThenIs ==
  ASSUME NEW x, NEW t, IsList(t)
  PROVE  /\ IsList(Then(x, t)) /\ Then(x, t) # <<>>
         /\ Then(x, t)[1] = x /\ Tail(Then(x, t)) = t
         /\ Len(Then(x, t)) = 1 <=> t = <<>>
         /\ <<>> \o t = t /\ <<x>> \o t = Then(x, t)
<1>1. PICK S : t \in Seq(S) BY DEF IsList
<1> DEFINE R == S \cup {x}
<1>2. t \in Seq(R) /\ x \in R
  <2>1. S \subseteq R OBVIOUS
  <2> HIDE DEF R
  <2>2. Seq(S) \subseteq Seq(R) BY <2>1
  <2> QED BY <1>1, <2>2 DEF R
<1> HIDE DEF R
<1>3. <<x>> \in Seq(R) BY <1>2
<1>4. Then(x, t) \in Seq(R) BY <1>2, <1>3 DEF Then
<1>5. IsList(Then(x, t)) BY <1>4 DEF IsList
<1>6. Len(Then(x, t)) = 1 + Len(t) /\ Len(t) \in Nat BY <1>2, <1>3 DEF Then
<1>7. t = <<>> <=> Len(t) = 0 BY <1>2
<1>8. Then(x, t)[1] = x BY <1>2, <1>3 DEF Then
<1>9. Tail(Then(x, t)) = t
  <2>1. Tail(Then(x, t)) \in Seq(R) /\ Len(Tail(Then(x, t))) = Len(t)
    BY <1>2, <1>3, <1>4, <1>6 DEF Then
  <2>2. \A i \in 1 .. Len(t) : Tail(Then(x, t))[i] = t[i]
    BY <1>2, <1>3, <1>4, <1>6 DEF Then
  <2> QED BY <1>2, <2>1, <2>2, SeqEqual
<1>10. <<>> \o t = t BY <1>2
<1> QED BY <1>4, <1>5, <1>6, <1>7, <1>8, <1>9, <1>10 DEF Then

LEMMA ThenTwo ==
  ASSUME NEW x, NEW y, NEW t, IsList(t)
  PROVE  <<x, y>> \o t = Then(x, Then(y, t))
<1>1. PICK S : t \in Seq(S) BY DEF IsList
<1> DEFINE R == S \cup {x, y}
<1>2. t \in Seq(R) /\ x \in R /\ y \in R
  <2>1. S \subseteq R OBVIOUS
  <2> HIDE DEF R
  <2>2. Seq(S) \subseteq Seq(R) BY <2>1
  <2> QED BY <1>1, <2>2 DEF R
<1> HIDE DEF R
<1>3. <<x>> \in Seq(R) /\ <<y>> \in Seq(R) BY <1>2
<1>4. <<x, y>> = <<x>> \o <<y>>
  <2>1. <<x, y>> \in Seq(R) /\ Len(<<x, y>>) = 2 /\ <<x, y>>[1] = x /\ <<x, y>>[2] = y BY <1>2
  <2> DEFINE p == <<x, y>>
             q == <<x>> \o <<y>>
  <2>2. q \in Seq(R) /\ Len(q) = 2 /\ q[1] = x /\ q[2] = y BY <1>2, <1>3
  <2>3. p \in Seq(R) /\ Len(p) = 2 /\ p[1] = x /\ p[2] = y BY <2>1
  <2> HIDE DEF p, q
  <2>4. \A i \in 1 .. Len(p) : p[i] = q[i] BY <2>2, <2>3
  <2>5. p = q BY <2>2, <2>3, <2>4, SeqEqual
  <2> QED BY <2>5 DEF p, q
<1> QED BY <1>2, <1>3, <1>4, ConcatAssociative DEF Then

LEMMA ThenNothing == \A x : IsList(<<>>) /\ <<x>> = Then(x, <<>>) /\ IsList(<<x>>)
<1> TAKE x
<1>1. <<>> \in Seq({x}) /\ <<x>> \in Seq({x}) OBVIOUS
<1>2. <<x>> \o <<>> = <<x>> BY <1>1
<1> QED BY <1>1, <1>2 DEF Then, IsList

(* Lists of one and two steps, and the record of a call.                   *)
Only(x) == Then(x, <<>>)
Record(op, w, o) == [op |-> op, dst |-> w, src |-> o]

LEMMA OnlyIs ==
  ASSUME NEW x PROVE IsList(Only(x)) /\ Only(x) # <<>>
BY ThenIs, ThenNothing DEF Only

LEMMA PairIs ==
  ASSUME NEW x, NEW y PROVE <<x, y>> = Then(x, Only(y))
<1>1. <<x, y>> \o <<>> = Then(x, Only(y))
  <2>1. \A t : IsList(t) => <<x, y>> \o t = Then(x, Then(y, t)) BY ThenTwo
  <2>2. PICK t : t = <<>> /\ IsList(t) BY ThenNothing
  <2>3. <<x, y>> \o t = Then(x, Then(y, t)) BY <2>1, <2>2
  <2> QED BY <2>2, <2>3 DEF Only
<1>2. <<x, y>> \in Seq({x, y}) OBVIOUS
<1>3. <<x, y>> \o <<>> = <<x, y>> BY <1>2
<1> QED BY <1>1, <1>3

LEMMA ThenThree ==
  ASSUME NEW x, NEW y, NEW z, NEW t, IsList(t)
  PROVE  <<x, y, z>> \o t = Then(x, Then(y, Then(z, t)))
<1>1. PICK S : t \in Seq(S) BY DEF IsList
<1> DEFINE R == S \cup {x, y, z}
<1>2. t \in Seq(R) /\ x \in R /\ y \in R /\ z \in R
  <2>1. S \subseteq R OBVIOUS
  <2> HIDE DEF R
  <2>2. Seq(S) \subseteq Seq(R) BY <2>1
  <2> QED BY <1>1, <2>2 DEF R
<1> HIDE DEF R
<1>3. <<x>> \in Seq(R) /\ <<y, z>> \in Seq(R) BY <1>2
<1>4. <<x, y, z>> = <<x>> \o <<y, z>>
  <2> DEFINE p == <<x, y, z>>
             q == <<x>> \o <<y, z>>
  <2>1. p \in Seq(R) /\ Len(p) = 3 /\ p[1] = x /\ p[2] = y /\ p[3] = z BY <1>2
  <2>2. q \in Seq(R) /\ Len(q) = 3 /\ q[1] = x /\ q[2] = y /\ q[3] = z BY <1>2, <1>3
  <2> HIDE DEF p, q
  <2>3. \A i \in 1 .. Len(p) : p[i] = q[i] BY <2>1, <2>2
  <2>4. p = q BY <2>1, <2>2, <2>3, SeqEqual
  <2> QED BY <2>4 DEF p, q
<1>5. <<y, z>> \o t = Then(y, Then(z, t)) BY ThenTwo
<1> QED BY <1>2, <1>3, <1>4, <1>5, ConcatAssociative DEF Then

(* The wrap u is destroyed and its pointer is set.                         *)
Last(what) == IF what = "clear" THEN Null ELSE NoWrap
Finish(u, what) == Then(Step("destroy", u, u), Only(Step(what, u, u)))

LEMMA FinishIs ==
  ASSUME NEW u, NEW what PROVE IsList(Finish(u, what)) /\ Finish(u, what) # <<>>
<1>1. PICK x, t : x = Step("destroy", u, u) /\ t = Only(Step(what, u, u)) OBVIOUS
<1>2. IsList(t) BY <1>1, OnlyIs
<1> QED BY <1>1, <1>2, ThenIs DEF Finish

----------------------------------------------------------------------------
(* State records as they are while a call runs: nothing is said of who     *)
(* owns what.                                                              *)
Pointees == Places \cup {Null, NoWrap}
Pointers == [Slots -> Pointees]
Proper(s) == s = [ptr |-> s.ptr, held |-> s.held, ub |-> s.ub] /\ s.ptr \in Pointers

LEMMA SetPtrProper ==
  ASSUME NEW s, Proper(s), NEW w \in Slots, NEW x \in Pointees
  PROVE  /\ Proper(SetPtr(s, w, x))
         /\ \A u \in Slots : SetPtr(s, w, x).ptr[u] = IF u = w THEN x ELSE s.ptr[u]
  BY DEF Proper, SetPtr, Pointers

LEMMA SetValueProper ==
  ASSUME NEW s, Proper(s), NEW p, NEW v
  PROVE  Proper(SetValue(s, p, v)) /\ SetValue(s, p, v).ptr = s.ptr
  BY DEF Proper, SetValue

LEMMA AccuseProper ==
  ASSUME NEW s, Proper(s), NEW what
  PROVE  Proper(Accuse(s, what)) /\ Accuse(s, what).ptr = s.ptr
  BY DEF Proper, Accuse

LEMMA NotAccusedProper ==
  ASSUME NEW s, Proper(s) PROVE Accuse(s, {}) = s
  BY DEF Proper, Accuse

LEMMA NewHolderProper ==
  ASSUME NEW s, Proper(s), NEW w \in Slots, NEW p \in Places, NEW h
  PROVE  /\ Proper(NewHolder(s, w, p, h))
         /\ \A u \in Slots : NewHolder(s, w, p, h).ptr[u] = IF u = w THEN p ELSE s.ptr[u]
  BY DEF Proper, NewHolder, Pointers, Pointees

LEMMA CopyInitProper ==
  ASSUME NEW s, Proper(s), NEW w \in Slots, NEW o \in Slots, NEW p \in CopyPlaces(s, w, o)
  PROVE  Proper(CopyInit(s, w, o, p)) /\ CopyInit(s, w, o, p).ptr[w] = p
<1> DEFINE a == Accuse(s, Run(s, s.ptr[o], "copy ctor"))
<1>1. p \in Places BY DEF CopyPlaces, FreeBlocks, Places
<1>2. Proper(a) /\ a.ptr = s.ptr BY AccuseProper
<1> HIDE DEF a
<1>3. Proper(NewHolder(a, w, p, HolderOf(s, o))) /\ NewHolder(a, w, p, HolderOf(s, o)).ptr[w] = p
  BY <1>1, <1>2, NewHolderProper
<1> QED BY <1>2, <1>3 DEF CopyInit, a

LEMMA DestroyProper ==
  ASSUME NEW s, Proper(s), NEW w
  PROVE  Proper(Destroy(s, w)) /\ Destroy(s, w).ptr = s.ptr
<1>1. CASE Invalid(s, w) BY <1>1 DEF Destroy
<1>2. CASE ~ Invalid(s, w) BY <1>2 DEF Destroy, Proper
<1> QED BY <1>1, <1>2

LEMMA SwapPointersProper ==
  ASSUME NEW s, Proper(s), NEW w \in Slots, NEW o \in Slots
  PROVE  /\ Proper(SwapPointers(s, w, o))
         /\ \A u \in Slots \ {w, o} : SwapPointers(s, w, o).ptr[u] = s.ptr[u]
<1>1. PICK x, y \in Pointees : x = s.ptr[o] /\ y = s.ptr[w]
  BY DEF Proper, Pointers
<1> DEFINE m == SetPtr(s, w, x)
           n == SetPtr(m, o, y)
<1>2. Proper(m) /\ \A u \in Slots : m.ptr[u] = IF u = w THEN x ELSE s.ptr[u] BY SetPtrProper
<1>4. SwapPointers(s, w, o) = n BY <1>1 DEF SwapPointers
<1> HIDE DEF m
<1>3. Proper(n) /\ \A u \in Slots : n.ptr[u] = IF u = o THEN y ELSE m.ptr[u] BY <1>2, SetPtrProper
<1> HIDE DEF n
<1> QED BY <1>2, <1>3, <1>4 DEF Proper, Pointers

(* The state n is one, and has the pointers of s but for those of w and o. *)
Touches(n, s, w, o) == Proper(n) /\ \A u \in Slots \ {w, o} : n.ptr[u] = s.ptr[u]

LEMMA MoveInitPointers ==
  ASSUME NEW s, Proper(s), NEW w \in Slots, NEW o \in Slots
  PROVE  /\ Touches(MoveInitFrom(s, w, o), s, w, o)
         /\ w # o /\ Valid(s, o) => Valid(MoveInitFrom(s, w, o), w)
<1>1. CASE Stype(s, o)
  <2> DEFINE m == SetValue(s, o, Hollow)
             a == Accuse(m, Run(s, o, "move ctor"))
             n == NewHolder(a, w, w, s.held[o])
  <2>1. Proper(m) /\ m.ptr = s.ptr BY SetValueProper
  <2> HIDE DEF m
  <2>2. Proper(a) /\ a.ptr = m.ptr BY <2>1, AccuseProper
  <2> HIDE DEF a
  <2>3. w \in Places BY DEF Places
  <2>4. Proper(n) /\ \A u \in Slots : n.ptr[u] = IF u = w THEN w ELSE a.ptr[u] BY <2>2, <2>3, NewHolderProper
  <2>5. MoveInitFrom(s, w, o) = n BY <1>1 DEF MoveInitFrom, n, a, m
  <2> HIDE DEF n
  <2>6. \A u \in Slots : n.ptr[u] = IF u = w THEN w ELSE s.ptr[u] BY <2>1, <2>2, <2>4
  <2>7. w # Null /\ w # NoWrap BY <2>3, ConstantsOK DEF ConstantsOK
  <2> QED BY <2>4, <2>5, <2>6, <2>7 DEF Touches, Proper, Pointers, Valid
<1>2. CASE ~ Stype(s, o)
  <2> DEFINE m == SetPtr(s, w, s.ptr[o])
             n == SetPtr(m, o, Null)
  <2>1. Proper(m) /\ \A u \in Slots : m.ptr[u] = IF u = w THEN s.ptr[o] ELSE s.ptr[u]
    <3>1. s.ptr[o] \in Pointees BY DEF Proper, Pointers
    <3> QED BY <3>1, SetPtrProper
  <2> HIDE DEF m
  <2>2. Proper(n) /\ \A u \in Slots : n.ptr[u] = IF u = o THEN Null ELSE m.ptr[u]
    <3>1. Null \in Pointees BY DEF Pointees
    <3> QED BY <2>1, <3>1, SetPtrProper
  <2>3. MoveInitFrom(s, w, o) = n BY <1>2 DEF MoveInitFrom, n, m
  <2> HIDE DEF n
  <2> QED BY <2>1, <2>2, <2>3 DEF Touches, Proper, Pointers, Valid
<1> QED BY <1>1, <1>2

LEMMA MoveInitProper ==
  ASSUME NEW s, Proper(s), NEW w \in Slots, NEW o \in Slots
  PROVE  Touches(MoveInitFrom(s, w, o), s, w, o)
BY MoveInitPointers

LEMMA MoveInitFills ==
  ASSUME NEW s, Proper(s), NEW w \in Slots, NEW o \in Slots, w # o, Valid(s, o)
  PROVE  Valid(MoveInitFrom(s, w, o), w)
BY MoveInitPointers

LEMMA SetTwoProper ==
  ASSUME NEW s, Proper(s), NEW p, NEW q, NEW v, NEW x
  PROVE  /\ Proper(SetValue(SetValue(s, p, v), q, x))
         /\ SetValue(SetValue(s, p, v), q, x).ptr = s.ptr
<1>1. Proper(SetValue(s, p, v)) /\ SetValue(s, p, v).ptr = s.ptr BY SetValueProper
<1> QED BY <1>1, SetValueProper

LEMMA MoveAssignProper ==
  ASSUME NEW s, Proper(s), NEW w \in Slots, NEW o \in Slots
  PROVE  Touches(MoveAssign(s, w, o), s, w, o)
<1> DEFINE n == MoveAssign(s, w, o)
           d == Destroy(s, w)
           a == Accuse(s, AssertSameStorage(s, w, o))
           r == Accuse(a, Run(s, s.ptr[o], "move assign"))
<1>1. CASE Invalid(s, w)
  <2>1. n = MoveInitFrom(s, w, o) BY <1>1 DEF MoveAssign
  <2>2. Touches(MoveInitFrom(s, w, o), s, w, o) BY MoveInitProper
  <2> HIDE DEF n
  <2>3. Touches(n, s, w, o) BY <2>1, <2>2
  <2> QED BY <2>3 DEF n
<1>2. CASE ~ Invalid(s, w) /\ TypeOf(s, w) # TypeOf(s, o)
  <2>1. n = MoveInitFrom(d, w, o) BY <1>2 DEF MoveAssign
  <2>2. Proper(d) /\ d.ptr = s.ptr BY DestroyProper
  <2> HIDE DEF d, n
  <2>3. Touches(MoveInitFrom(d, w, o), d, w, o) BY <2>2, MoveInitProper
  <2>4. Touches(n, s, w, o) BY <2>1, <2>2, <2>3 DEF Touches
  <2> QED BY <2>4 DEF n
<1>3. CASE ~ Invalid(s, w) /\ TypeOf(s, w) = TypeOf(s, o)
  <2>1. Proper(a) /\ a.ptr = s.ptr BY AccuseProper
  <2>2. Proper(r) /\ r.ptr = s.ptr
    <3> HIDE DEF a
    <3> QED BY <2>1, AccuseProper
  <2>3. CASE Stype(s, w)
    <3>1. n = SetValue(SetValue(r, w, HolderOf(s, o).val), s.ptr[o], Hollow)
      BY <1>3, <2>3 DEF MoveAssign
    <3> HIDE DEF n, r
    <3>2. Proper(n) /\ n.ptr = s.ptr BY <2>2, <3>1, SetTwoProper
    <3>3. Touches(n, s, w, o) BY <3>2 DEF Touches
    <3> QED BY <3>3 DEF n
  <2>4. CASE ~ Stype(s, w)
    <3>1. n = SwapPointers(a, w, o) BY <1>3, <2>4 DEF MoveAssign
    <3> HIDE DEF n, a
    <3>2. /\ Proper(SwapPointers(a, w, o))
          /\ \A u \in Slots \ {w, o} : SwapPointers(a, w, o).ptr[u] = a.ptr[u]
      BY <2>1, SwapPointersProper
    <3>3. Touches(n, s, w, o) BY <2>1, <3>1, <3>2 DEF Touches
    <3> QED BY <3>3 DEF n
  <2> QED BY <2>3, <2>4
<1> QED BY <1>1, <1>2, <1>3

LEMMA SwapSameTypeProper ==
  ASSUME NEW s, Proper(s), NEW w \in Slots, NEW o \in Slots
  PROVE  Proper(SwapSameType(s, w, o))
<1> DEFINE n == SwapSameType(s, w, o)
           a == Accuse(s, AssertSameStorage(s, w, o))
           r == Accuse(a, Run(s, s.ptr[o], "swap"))
<1>1. Proper(a) BY AccuseProper
<1>2. Proper(r)
  <2> HIDE DEF a
  <2> QED BY <1>1, AccuseProper
<1>3. CASE Stype(s, w)
  <2>1. n = SetValue(SetValue(r, w, HolderOf(s, o).val), s.ptr[o], HolderOf(s, w).val)
    BY <1>3 DEF SwapSameType
  <2> HIDE DEF n, r
  <2>2. Proper(n) BY <1>2, <2>1, SetTwoProper
  <2> QED BY <2>2 DEF n
<1>4. CASE ~ Stype(s, w)
  <2>1. n = SwapPointers(a, w, o) BY <1>4 DEF SwapSameType
  <2> HIDE DEF n, a
  <2>2. Proper(n) BY <1>1, <2>1, SwapPointersProper
  <2> QED BY <2>2 DEF n
<1> QED BY <1>3, <1>4

----------------------------------------------------------------------------
(* One step of a call that works through the list Then(x, t).              *)
Doer == Perform \/ Decide \/ Clone \/ Build \/ CopyValue \/ Set

Moves(n, t) ==
  /\ Now' = n /\ todo' = t /\ Proper(n)
  /\ IF t = <<>> THEN Return(FALSE) ELSE UNCHANGED <<call, running>>
Fails(n) == Now' = n /\ todo' = <<>> /\ Proper(n) /\ Return(TRUE)

LEMMA CommitsTo ==
  ASSUME NEW n, Proper(n), Commit(n) PROVE Now' = n
BY DEF Proper, Commit, Now

LEMMA ProceedsTo ==
  ASSUME NEW x, NEW t, IsList(t), todo = Then(x, t), NEW n, Proper(n), NEW g,
         Proceed(n, <<>>, g)
  PROVE  Moves(n, t) /\ (t # <<>> => goal' = g)
<1>1. Tail(todo) = t /\ <<>> \o t = t /\ (Len(todo) = 1 <=> t = <<>>) BY ThenIs
<1> QED BY <1>1, CommitsTo DEF Proceed, Moves

LEMMA ThrowsTo ==
  ASSUME NEW n, Proper(n), Throw(n) PROVE Fails(n)
BY CommitsTo DEF Throw, Fails

LEMMA StepIs ==
  \A what, w, o : /\ Step(what, w, o).do = what
                  /\ Step(what, w, o).on = w /\ Step(what, w, o).from = o
BY DEF Step

Effects == {"destroy", "clear", "end", "init", "transfer", "exchange"}

(* What the head of a list says of the step to make.                       *)
LEMMA HeadIs ==
  ASSUME NEW what, NEW w, NEW o, NEW t, IsList(t), todo = Then(Step(what, w, o), t)
  PROVE  /\ todo # <<>> /\ todo[1] = Step(what, w, o) /\ Tail(todo) = t
         /\ todo[1].do = what /\ todo[1].on = w /\ todo[1].from = o
<1>1. PICK x : x = Step(what, w, o) OBVIOUS
<1>2. todo # <<>> /\ todo[1] = x /\ Tail(todo) = t BY <1>1, ThenIs
<1> QED BY <1>1, <1>2, StepIs

(* The steps that can only succeed: each leaves the state Effect           *)
(* describes.                                                              *)
LEMMA EffectStep ==
  ASSUME NEW what \in Effects, NEW w, NEW o, NEW t, IsList(t), todo = Then(Step(what, w, o), t), Doer,
         Proper(Effect(Now, Step(what, w, o)))
  PROVE  Moves(Effect(Now, Step(what, w, o)), t) /\ (t # <<>> => goal' = goal)
<1> DEFINE x == Step(what, w, o)
<1>1. todo[1] = x /\ todo[1].do = what BY HeadIs
<1>2. Perform BY <1>1 DEF Doer, Effects, Decide, Clone, Build, CopyValue, Set, Doing
<1>3. Proceed(Effect(Now, x), <<>>, goal) BY <1>1, <1>2 DEF Perform
<1> HIDE DEF x
<1> QED BY <1>3, ProceedsTo DEF x

LEMMA EffectIs ==
  ASSUME NEW s, NEW w, NEW o
  PROVE  /\ Effect(s, Step("destroy", w, o)) = Destroy(s, w)
         /\ Effect(s, Step("clear", w, o)) = SetPtr(s, w, Null)
         /\ Effect(s, Step("end", w, o)) = SetPtr(s, w, NoWrap)
         /\ Effect(s, Step("init", w, o)) = MoveInitFrom(s, w, o)
         /\ Effect(s, Step("transfer", w, o)) = MoveAssign(s, w, o)
         /\ Effect(s, Step("exchange", w, o)) = SwapSameType(s, w, o)
BY StepIs DEF Effect

LEMMA EffectProper ==
  ASSUME NEW s, Proper(s), NEW w \in Slots, NEW o \in Slots, NEW what \in Effects
  PROVE  Proper(Effect(s, Step(what, w, o)))
<1>1. Null \in Pointees /\ NoWrap \in Pointees BY DEF Pointees
<1> USE EffectIs
<1>2. CASE what = "destroy" BY <1>2, DestroyProper
<1>3. CASE what = "clear" BY <1>1, <1>3, SetPtrProper
<1>4. CASE what = "end" BY <1>1, <1>4, SetPtrProper
<1>5. CASE what = "init" BY <1>5, MoveInitProper DEF Touches
<1>6. CASE what = "transfer" BY <1>6, MoveAssignProper DEF Touches
<1>7. CASE what = "exchange" BY <1>7, SwapSameTypeProper
<1> QED BY <1>2, <1>3, <1>4, <1>5, <1>6, <1>7 DEF Effects

(* operator=(wrap &&) decides what its steps are.                          *)
Differ(s, u, v) == Valid(s, u) /\ TypeOf(s, u) # TypeOf(s, v)

Decided(s, q, u, v, t) ==
  \/ Invalid(s, u) /\ q = Then(Step("init", u, v), t)
  \/ Differ(s, u, v) /\ q = Then(Step("destroy", u, u), Then(Step("init", u, v), t))
  \/ ~ Invalid(s, u) /\ ~ Differ(s, u, v) /\ q = Then(Step("transfer", u, v), t)

LEMMA DecideStep ==
  ASSUME Proper(Now), NEW u \in Slots, NEW v \in Slots, NEW t, IsList(t),
         todo = Then(Step("move", u, v), t), Doer, Valid(Now, u) => Valid(Now, v)
  PROVE  /\ Now' = Now /\ Decided(Now, todo', u, v, t) /\ todo' # <<>>
         /\ UNCHANGED <<call, running, goal>>
<1> DEFINE r == Accuse(Now, Blame(Valid(Now, u) /\ ~ Valid(Now, v), "no holder there"))
           m == MoveSteps(Now, u, v)
<1>1. /\ todo[1].do = "move" /\ todo[1].on = u /\ todo[1].from = v
      /\ Tail(todo) = t
  BY HeadIs
<1>2. Decide BY <1>1 DEF Doer, Perform, Clone, Build, CopyValue, Set, Doing
<1>3. Proceed(r, m, goal) BY <1>1, <1>2 DEF Decide
<1>4. r = Now BY NotAccusedProper DEF Blame
<1>5. Commit(Now) /\ todo' = m \o t /\ (m # <<>> => UNCHANGED <<call, running, goal>>)
  BY <1>1, <1>3, <1>4 DEF Proceed
<1>6. Now' = Now BY <1>5, CommitsTo
<1>7. m # <<>> /\ Decided(Now, m \o t, u, v, t) /\ m \o t # <<>>
  <2>1. CASE Invalid(Now, u)
    <3>1. m = <<Step("init", u, v)>> BY <2>1 DEF MoveSteps, Valid, Invalid
    <3>2. m \o t = Then(Step("init", u, v), t) /\ m \o t # <<>> BY <3>1, ThenIs
    <3> QED BY <2>1, <3>1, <3>2 DEF Decided
  <2>2. CASE ~ Invalid(Now, u) /\ Differ(Now, u, v)
    <3>1. m = <<Step("destroy", u, u), Step("init", u, v)>> BY <2>2 DEF MoveSteps, Differ, Valid, Invalid
    <3>2. IsList(Then(Step("init", u, v), t)) BY ThenIs
    <3>3. m \o t = Then(Step("destroy", u, u), Then(Step("init", u, v), t)) BY <3>1, ThenTwo
    <3>4. Then(Step("destroy", u, u), Then(Step("init", u, v), t)) # <<>> BY <3>2, ThenIs
    <3> QED BY <2>2, <3>1, <3>3, <3>4 DEF Decided
  <2>3. CASE ~ Invalid(Now, u) /\ ~ Differ(Now, u, v)
    <3>1. m = <<Step("transfer", u, v)>> BY <2>3 DEF MoveSteps, Differ
    <3>2. m \o t = Then(Step("transfer", u, v), t) /\ m \o t # <<>> BY <3>1, ThenIs
    <3> QED BY <2>3, <3>1, <3>2 DEF Decided
  <2> QED BY <2>1, <2>2, <2>3
<1> QED BY <1>5, <1>6, <1>7

----------------------------------------------------------------------------
(* The steps that may throw.                                               *)
LEMMA CloneStep ==
  ASSUME Proper(Now), NEW w \in Slots, NEW o \in Slots, NEW t, IsList(t),
         todo = Then(Step("clone", w, o), t), Doer
  PROVE  \/ /\ \E p \in CopyPlaces(Now, w, o) : Moves(CopyInit(Now, w, o, p), t)
            /\ t # <<>> => goal' = [goal EXCEPT ![running.dst] = HolderOf(Now, o)]
         \/ CopyThrows(Now, o) /\ Fails(Now)
<1>1. todo[1].do = "clone" /\ todo[1].on = w /\ todo[1].from = o BY HeadIs
<1>2. Clone BY <1>1 DEF Doer, Perform, Decide, Build, CopyValue, Set, Doing
<1>3. CASE CopyThrows(Now, o) /\ Throw(Now) BY <1>3, ThrowsTo
<1>4. ASSUME NEW p \in CopyPlaces(Now, w, o), NEW g, Proceed(CopyInit(Now, w, o, p), <<>>, g)
      PROVE  Moves(CopyInit(Now, w, o, p), t) /\ (t # <<>> => goal' = g)
  BY <1>4, CopyInitProper, ProceedsTo
<1> QED BY <1>1, <1>2, <1>3, <1>4 DEF Clone

LEMMA ArgumentIs ==
  \A t, v, how : /\ Argument(t, v, how).holder = [type |-> t, val |-> v]
                 /\ Argument(t, v, how).holder.type = t /\ Argument(t, v, how).holder.val = v
                 /\ Argument(t, v, how).how = how
BY DEF Argument

LEMMA BuildStep ==
  ASSUME Proper(Now), NEW w \in Wraps, NEW ty, NEW v, NEW how,
         todo = Only(Step("build", w, Argument(ty, v, how))), Doer
  PROVE  \/ \E p \in CtorPlaces(Now, w, ty) :
              Moves(NewHolder(Now, w, p, [type |-> ty, val |-> v]), <<>>)
         \/ /\ CtorThrows(ty)
            /\ Fails(IF running.op = "construct" THEN Now ELSE SetPtr(Now, w, Null))
<1> DEFINE n == IF running.op = "construct" THEN Now ELSE SetPtr(Now, w, Null)
<1>0. PICK a : a = Argument(ty, v, how) OBVIOUS
<1>1. todo[1].do = "build" /\ todo[1].on = w /\ todo[1].from = a
  BY <1>0, ThenNothing, HeadIs DEF Only
<1>2. a.holder = [type |-> ty, val |-> v] /\ a.holder.type = ty /\ a.how = how
  BY <1>0, ArgumentIs
<1>3. Build BY <1>1 DEF Doer, Perform, Decide, Clone, CopyValue, Set, Doing
<1>4. \/ \E p \in CtorPlaces(Now, w, ty) : Proceed(NewHolder(Now, w, p, a.holder), <<>>, goal)
      \/ CtorThrows(ty) /\ Throw(n)
  BY <1>1, <1>2, <1>3 DEF Build
<1>5. Proper(n)
  <2>1. w \in Slots /\ Null \in Pointees BY DEF Slots, Pointees
  <2> QED BY <2>1, SetPtrProper
<1>6. CASE CtorThrows(ty) /\ Throw(n)
  <2> HIDE DEF n
  <2>1. Fails(n) BY <1>5, <1>6, ThrowsTo
  <2> QED BY <1>6, <2>1 DEF n
<1>7. ASSUME NEW p \in CtorPlaces(Now, w, ty), Proceed(NewHolder(Now, w, p, a.holder), <<>>, goal)
      PROVE  Moves(NewHolder(Now, w, p, a.holder), <<>>)
  <2>1. p \in Places /\ w \in Slots BY DEF CtorPlaces, FreeBlocks, Places, Slots
  <2>2. PICK n2 : n2 = NewHolder(Now, w, p, a.holder) OBVIOUS
  <2>3. Proper(n2) BY <2>1, <2>2, NewHolderProper
  <2>4. Moves(n2, <<>>) BY <1>7, <2>2, <2>3, ThenNothing, ProceedsTo DEF Only
  <2> QED BY <2>2, <2>4
<1> QED BY <1>2, <1>4, <1>6, <1>7

LEMMA CopyValueStep ==
  ASSUME Proper(Now), NEW w \in Wraps, NEW o \in Wraps,
         todo = Only(Step("copy value", w, o)), Doer
  PROVE  \E threw \in BOOLEAN :
           LET r == Accuse(Accuse(Now, AssertSameStorage(Now, w, o)), Run(Now, ptr[o], "copy assign"))
               n == SetValue(r, ptr[w], IF threw THEN Hollow ELSE HolderOf(Now, o).val)
           IN  /\ threw => TypeOf(Now, o) \in FragileTypes
               /\ IF threw THEN Fails(n) ELSE Moves(n, <<>>)
<1> DEFINE r == Accuse(Now, AssertSameStorage(Now, w, o) \cup Run(Now, ptr[o], "copy assign"))
<1>1. todo[1].do = "copy value" /\ todo[1].on = w /\ todo[1].from = o
  BY ThenNothing, HeadIs DEF Only
<1>2. CopyValue BY <1>1 DEF Doer, Perform, Decide, Clone, Build, Set, Doing
<1>3. \/ Proceed(SetValue(r, ptr[w], HolderOf(Now, o).val), <<>>, goal)
      \/ TypeOf(Now, o) \in FragileTypes /\ Throw(SetValue(r, ptr[w], Hollow))
  BY <1>1, <1>2 DEF CopyValue
<1>4. Proper(r) BY AccuseProper
<1>5. r = Accuse(Accuse(Now, AssertSameStorage(Now, w, o)), Run(Now, ptr[o], "copy assign"))
  <2>1. PICK A, B, C : /\ A = AssertSameStorage(Now, w, o) /\ B = Run(Now, ptr[o], "copy assign")
                       /\ C = A \cup B
    OBVIOUS
  <2>2. ub \cup C = (ub \cup A) \cup B BY <2>1
  <2>3. Accuse(Now, C) = Accuse(Accuse(Now, A), B) BY <2>2 DEF Accuse, Now
  <2> QED BY <2>1, <2>3
<1> HIDE DEF r
<1>6. \A v : Proper(SetValue(r, ptr[w], v)) BY <1>4, SetValueProper
<1>7. CASE Proceed(SetValue(r, ptr[w], HolderOf(Now, o).val), <<>>, goal)
  <2>1. PICK n : n = SetValue(r, ptr[w], HolderOf(Now, o).val) OBVIOUS
  <2>2. Moves(n, <<>>) BY <1>6, <1>7, <2>1, ThenNothing, ProceedsTo DEF Only
  <2> WITNESS FALSE \in BOOLEAN
  <2> QED BY <1>5, <2>1, <2>2
<1>8. CASE TypeOf(Now, o) \in FragileTypes /\ Throw(SetValue(r, ptr[w], Hollow))
  <2>1. PICK n : n = SetValue(r, ptr[w], Hollow) OBVIOUS
  <2>2. Fails(n) BY <1>6, <1>8, <2>1, ThrowsTo
  <2> WITNESS TRUE \in BOOLEAN
  <2> QED BY <1>5, <1>8, <2>1, <2>2
<1> QED BY <1>3, <1>7, <1>8

LEMMA SetStep ==
  ASSUME Proper(Now), NEW w \in Wraps, NEW ty, NEW v, NEW how,
         todo = Only(Step("set", w, Argument(ty, v, how))), Doer
  PROVE  \E threw \in BOOLEAN :
           LET r == Accuse(Now, Run(Now, ptr[w], IF how = "copy" THEN "copy assign" ELSE "move assign"))
               n == SetValue(r, ptr[w], IF threw THEN Hollow ELSE v)
           IN  /\ threw => how = "copy" /\ ty \in FragileTypes
               /\ IF threw THEN Fails(n) ELSE Moves(n, <<>>)
<1> DEFINE r == Accuse(Now, Run(Now, ptr[w], IF how = "copy" THEN "copy assign" ELSE "move assign"))
<1>0. PICK a : a = Argument(ty, v, how) OBVIOUS
<1>1. todo[1].do = "set" /\ todo[1].on = w /\ todo[1].from = a
  BY <1>0, ThenNothing, HeadIs DEF Only
<1>2. a.holder.val = v /\ a.holder.type = ty /\ a.how = how BY <1>0, ArgumentIs
<1>3. Set BY <1>1 DEF Doer, Perform, Decide, Clone, Build, CopyValue, Doing
<1>4. \/ Proceed(SetValue(r, ptr[w], v), <<>>, goal)
      \/ how = "copy" /\ ty \in FragileTypes /\ Throw(SetValue(r, ptr[w], Hollow))
  BY <1>1, <1>2, <1>3 DEF Set
<1>5. Proper(r) BY AccuseProper
<1> HIDE DEF r
<1>6. \A x : Proper(SetValue(r, ptr[w], x)) BY <1>5, SetValueProper
<1>7. CASE Proceed(SetValue(r, ptr[w], v), <<>>, goal)
  <2>1. PICK n : n = SetValue(r, ptr[w], v) OBVIOUS
  <2>2. Moves(n, <<>>) BY <1>6, <1>7, <2>1, ThenNothing, ProceedsTo DEF Only
  <2> WITNESS FALSE \in BOOLEAN
  <2> QED BY <2>1, <2>2 DEF r
<1>8. CASE how = "copy" /\ ty \in FragileTypes /\ Throw(SetValue(r, ptr[w], Hollow))
  <2>1. PICK n : n = SetValue(r, ptr[w], Hollow) OBVIOUS
  <2>2. Fails(n) BY <1>6, <1>8, <2>1, ThrowsTo
  <2> WITNESS TRUE \in BOOLEAN
  <2> QED BY <1>8, <2>1, <2>2 DEF r
<1> QED BY <1>4, <1>7, <1>8

----------------------------------------------------------------------------
(* A call that has nothing to do returns at once; any other one is put     *)
(* down as a list of steps.                                                *)
LEMMA BeginIs ==
  ASSUME Proper(Now), NEW op, NEW w, NEW o, NEW steps, NEW g, Begin(op, w, o, steps, g)
  PROVE  /\ Now' = Now
         /\ steps = <<>> => todo' = <<>> /\ Returned(op, w, o, FALSE) /\ UNCHANGED stepVars
         /\ steps # <<>> => /\ todo' = steps /\ running' = Record(op, w, o) /\ goal' = g
                            /\ UNCHANGED call
BY CommitsTo DEF Begin, stepVars, Record

(* The local wrap goes out of scope.                                       *)
Leave == Finish(Local, "end")

LEMMA LeaveIs == DropLocal = Leave /\ IsList(Leave) /\ Leave # <<>>
BY PairIs, FinishIs DEF DropLocal, Leave, Finish

LEMMA CopyStepsIs ==
  ASSUME NEW s, NEW w, NEW o
  PROVE  /\ CopySteps(s, w, o) = Then(Step("clone", Local, o), Then(Step("move", w, Local), Leave))
         /\ CopySteps(s, w, o) # <<>>
<1>1. PICK x, y, t : x = Step("clone", Local, o) /\ y = Step("move", w, Local) /\ t = Leave
  OBVIOUS
<1>2. IsList(t) /\ CopySteps(s, w, o) = <<x, y>> \o t BY <1>1, LeaveIs DEF CopySteps
<1>3. <<x, y>> \o t = Then(x, Then(y, t)) BY <1>2, ThenTwo
<1>4. IsList(Then(y, t)) BY <1>2, ThenIs
<1>5. Then(x, Then(y, t)) # <<>> BY <1>4, ThenIs
<1> QED BY <1>1, <1>2, <1>3, <1>5

(* The second half of a swap.                                              *)
Back(o) == Then(Step("move", o, Local), Leave)

LEMMA BackIs == \A o : IsList(Back(o)) /\ Back(o) # <<>>
<1> TAKE o
<1>1. PICK z, t : z = Step("move", o, Local) /\ t = Leave OBVIOUS
<1>2. IsList(t) BY <1>1, LeaveIs
<1>3. IsList(Then(z, t)) /\ Then(z, t) # <<>> BY <1>2, ThenIs
<1> QED BY <1>1, <1>3 DEF Back

LEMMA SwapByLocalIs ==
  ASSUME NEW w, NEW o
  PROVE  /\ SwapByLocal(w, o) = Then(Step("init", Local, w), Then(Step("move", w, o), Back(o)))
         /\ SwapByLocal(w, o) # <<>>
<1>1. PICK x, y, z, t : /\ x = Step("init", Local, w) /\ y = Step("move", w, o)
                        /\ z = Step("move", o, Local) /\ t = Leave
  OBVIOUS
<1>2. IsList(t) /\ SwapByLocal(w, o) = <<x, y, z>> \o t BY <1>1, LeaveIs DEF SwapByLocal
<1>3. <<x, y, z>> \o t = Then(x, Then(y, Then(z, t))) BY <1>2, ThenThree
<1>4. IsList(Then(z, t)) BY <1>2, ThenIs
<1>5. IsList(Then(y, Then(z, t))) BY <1>4, ThenIs
<1>6. Then(x, Then(y, Then(z, t))) # <<>> BY <1>5, ThenIs
<1> QED BY <1>1, <1>2, <1>3, <1>6 DEF Back

----------------------------------------------------------------------------
(* What a nested call may do.  V holds the wraps that own something while  *)
(* the running call waits: all of them, or all but the one that it is      *)
(* about to make.  An operation on wraps w and o of V leaves the others as *)
(* they were, and only a destructor ends a wrap.                           *)
Spares(V, w, o) ==
  /\ Good(Now', V) /\ ptr'[Temp] = NoWrap
  /\ SameSeen(Now', Now, V \ {w, o})
  /\ \A x \in V : IsWrap(Now, x) => IsWrap(Now', x) \/ (call'.op = "destroy" /\ call'.dst = x)

LEMMA SparesIs ==
  ASSUME NEW V \in SUBSET Wraps, Good(Now, V), NEW n, Good(n, V), n.ptr[Temp] = NoWrap,
         NEW w, NEW o, SameSeen(n, Now, V \ {w, o}),
         \A x \in V : x \in {w, o} /\ IsWrap(Now, x) => IsWrap(n, x),
         Commit(n)
  PROVE  Spares(V, w, o) /\ ub' = n.ub
<1>1. V \in SUBSET Slots BY DEF Slots
<1>2. Now' = n /\ ptr' = n.ptr /\ ub' = n.ub BY Committed DEF Good, Commit
<1>3. \A x \in V \ {w, o} : IsWrap(Now, x) => IsWrap(n, x)
  <2> TAKE x \in V \ {w, o}
  <2>1. Seen(n, x) = Seen(Now, x) BY DEF SameSeen
  <2>2. (Seen(Now, x) = NoWrap <=> ~ IsWrap(Now, x)) /\ (Seen(n, x) = NoWrap <=> ~ IsWrap(n, x))
    BY <1>1, SeenKinds
  <2> QED BY <2>1, <2>2
<1> QED BY <1>2, <1>3 DEF Spares

LEMMA NothingSpares ==
  ASSUME NEW V \in SUBSET Wraps, Good(Now, V), ptr[Temp] = NoWrap, NEW w, NEW o, Commit(Now)
  PROVE  Spares(V, w, o) /\ ub' = ub
<1>1. PICK n : n = Now OBVIOUS
<1>2. n.ptr[Temp] = NoWrap /\ n.ub = ub BY <1>1 DEF Now
<1>3. SameSeen(n, Now, V \ {w, o}) BY <1>1 DEF SameSeen
<1> QED BY <1>1, <1>2, <1>3, SparesIs

LEMMA ReplacedSpares ==
  ASSUME NEW V \in SUBSET Wraps, Good(Now, V), NEW n, NEW w \in V, NEW c, Replaced(n, V, w, c),
         c # NoWrap, NEW o, Commit(n)
  PROVE  Spares(V, w, o) /\ ub' = ub
<1>1. Good(n, V) /\ n.ptr[Temp] = NoWrap /\ n.ub = ub /\ Seen(n, w) = c
  BY DEF Replaced, Settled, Now
<1>2. SameSeen(n, Now, V \ {w}) BY DEF Replaced
<1>3. SameSeen(n, Now, V \ {w, o}) BY <1>2 DEF SameSeen
<1>4. V \in SUBSET Slots BY DEF Slots
<1>5. \A x \in V : (Seen(n, x) = NoWrap <=> ~ IsWrap(n, x))
                   /\ (Seen(Now, x) = NoWrap <=> ~ IsWrap(Now, x))
  BY <1>1, <1>4, SeenKinds
<1>6. \A x \in V : x \in {w, o} /\ IsWrap(Now, x) => IsWrap(n, x)
  BY <1>1, <1>2, <1>5 DEF SameSeen
<1> QED BY <1>1, <1>3, <1>6, SparesIs

(* In d, the wrap w owns nothing and is ready to be made.                  *)
Ready(d, V, w) ==
  /\ Good(d, V \ {w}) /\ d.ub = ub /\ d.ptr = ptr
  /\ SameSeen(d, Now, V \ {w})

LEMMA ReadyIs ==
  ASSUME NEW V \in SUBSET Wraps, Good(Now, V), ptr[Temp] = NoWrap, NEW w \in V
  PROVE  /\ ~ IsWrap(Now, w) => Ready(Now, V, w)
         /\ IsWrap(Now, w) => Ready(Destroy(Now, w), V, w)
<1>1. ASSUME ~ IsWrap(Now, w) PROVE Ready(Now, V, w)
  <2>1. ~ Valid(Now, w) /\ V \in SUBSET Slots BY <1>1 DEF IsWrap, Valid, Slots
  <2>2. Good(Now, V \ {w}) BY <2>1, DropIdle
  <2> QED BY <2>2 DEF Ready, SameSeen, Now
<1>2. ASSUME IsWrap(Now, w) PROVE Ready(Destroy(Now, w), V, w)
  BY <1>2, Cleared DEF Ready
<1> QED BY <1>1, <1>2

LEMMA MakingSpares ==
  ASSUME NEW V \in SUBSET Wraps, Good(Now, V), ptr[Temp] = NoWrap, NEW w \in V, NEW d, Ready(d, V, w),
         NEW o, NEW h \in Holder, Wrappable(h.type),
         \/ Commit(SetPtr(d, w, Null))
         \/ \E p \in CtorPlaces(d, w, h.type) : Commit(NewHolder(d, w, p, h))
  PROVE  Spares(V, w, o) /\ ub' = ub
<1>1. Null # NoWrap /\ h # NoWrap BY ConstantsOK DEF ConstantsOK
<1>2. CASE Commit(SetPtr(d, w, Null))
  <2>1. Replaced(SetPtr(d, w, Null), V, w, Null) BY Emptied DEF Ready
  <2> QED BY <1>1, <1>2, <2>1, ReplacedSpares
<1>3. ASSUME NEW p \in CtorPlaces(d, w, h.type), Commit(NewHolder(d, w, p, h))
      PROVE  Spares(V, w, o) /\ ub' = ub
  <2>1. Replaced(NewHolder(d, w, p, h), V, w, h) BY Built DEF Ready
  <2> QED BY <1>1, <1>3, <2>1, ReplacedSpares
<1> QED BY <1>2, <1>3

(* The operations on one wrap.                                             *)
LEMMA NestedMaking ==
  ASSUME NEW V \in SUBSET Wraps, Good(Now, V), ptr[Temp] = NoWrap, NEW w \in V, NEW o,
         NEW t \in Types, NEW v \in Vals, NEW how,
         Construct(w, t, v, how) \/ AssignFresh(w, t, v, how) \/ Emplace(w, t, v)
  PROVE  Spares(V, w, o) /\ ub' = ub
<1>1. PICK h : h = [type |-> t, val |-> v] OBVIOUS
<1>2. h \in Holder /\ h.type = t /\ Wrappable(t)
  BY <1>1 DEF Holder, Construct, AssignFresh, Emplace
<1>3. CASE Construct(w, t, v, how)
  <2>1. Ready(Now, V, w) BY <1>3, ReadyIs DEF Construct
  <2>2. \/ Commit(Now) \/ \E p \in CtorPlaces(Now, w, t) : Commit(NewHolder(Now, w, p, h))
    BY <1>1, <1>3 DEF Construct
  <2> QED BY <1>2, <2>1, <2>2, NothingSpares, MakingSpares
<1>4. CASE AssignFresh(w, t, v, how) \/ Emplace(w, t, v)
  <2>1. PICK d : d = Destroy(Now, w) OBVIOUS
  <2>2. Ready(d, V, w) BY <1>4, <2>1, ReadyIs DEF AssignFresh, Emplace
  <2>3. \/ Commit(SetPtr(d, w, Null)) \/ \E p \in CtorPlaces(d, w, t) : Commit(NewHolder(d, w, p, h))
    BY <1>1, <1>4, <2>1 DEF AssignFresh, Emplace
  <2> QED BY <1>2, <2>2, <2>3, MakingSpares
<1> QED BY <1>3, <1>4

LEMMA NestedEmptying ==
  ASSUME NEW V \in SUBSET Wraps, Good(Now, V), ptr[Temp] = NoWrap, NEW w \in V, NEW o,
         InvalidConstruct(w) \/ Reset(w) \/ CopySelf(w)
  PROVE  Spares(V, w, o) /\ ub' = ub
<1>1. Null # NoWrap BY Apart
<1>2. CASE InvalidConstruct(w)
  <2>1. Ready(Now, V, w) /\ Commit(SetPtr(Now, w, Null)) BY <1>2, ReadyIs DEF InvalidConstruct
  <2>2. Replaced(SetPtr(Now, w, Null), V, w, Null) BY <2>1, Emptied DEF Ready
  <2> QED BY <1>1, <2>1, <2>2, ReplacedSpares
<1>3. CASE Reset(w)
  <2>1. PICK d : d = Destroy(Now, w) OBVIOUS
  <2>2. Ready(d, V, w) /\ Commit(SetPtr(d, w, Null)) BY <1>3, <2>1, ReadyIs DEF Reset
  <2>3. Replaced(SetPtr(d, w, Null), V, w, Null) BY <2>2, Emptied DEF Ready
  <2> QED BY <1>1, <2>2, <2>3, ReplacedSpares
<1>4. CASE CopySelf(w) BY <1>4, NothingSpares DEF CopySelf
<1> QED BY <1>2, <1>3, <1>4

LEMMA NestedDestruct ==
  ASSUME NEW V \in SUBSET Wraps, Good(Now, V), ptr[Temp] = NoWrap, NEW w \in V, NEW o, Destruct(w)
  PROVE  Spares(V, w, o) /\ ub' = ub
<1>1. V \in SUBSET Slots /\ w # Temp BY Apart DEF Slots
<1>2. PICK n : n = Dtor(Now, w) OBVIOUS
<1>3. IsWrap(Now, w) /\ Commit(n) /\ call'.op = "destroy" /\ call'.dst = w
  BY <1>2 DEF Destruct, Returned
<1>4. Ended(n, Now, V, w) BY <1>1, <1>2, <1>3, DtorGood
<1>5. Good(n, V) /\ n.ub = ub /\ n.ptr = [ptr EXCEPT ![w] = NoWrap] /\ SameSeen(n, Now, V \ {w})
  BY <1>4 DEF Ended, Now
<1>6. n \in State /\ ptr \in [Slots -> Places \cup {Null, NoWrap}]
  BY <1>5 DEF Good, State, Now
<1>7. Now' = n /\ ptr' = n.ptr /\ ub' = ub BY <1>3, <1>5, <1>6, Committed DEF Commit
<1>8. Temp \in Slots /\ V \subseteq Slots BY <1>1 DEF Slots
<1>9. \A x \in Slots : x # w => n.ptr[x] = ptr[x] BY <1>5, <1>6
<1>10. ptr'[Temp] = NoWrap BY <1>1, <1>7, <1>8, <1>9
<1>11. \A x \in V \ {w} : IsWrap(Now, x) => IsWrap(Now', x)
  BY <1>7, <1>8, <1>9 DEF IsWrap, Now
<1>12. SameSeen(n, Now, V \ {w, o}) BY <1>5 DEF SameSeen
<1> QED BY <1>3, <1>5, <1>7, <1>10, <1>11, <1>12 DEF Spares

LEMMA NestedWrite ==
  ASSUME NEW V \in SUBSET Wraps, Good(Now, V), ptr[Temp] = NoWrap, NEW w \in V, NEW o,
         NEW v \in Vals, Write(w, v)
  PROVE  Spares(V, w, o) /\ ub' = ub
<1>1. V \in SUBSET Slots BY DEF Slots
<1>2. PICK n, c : n = SetValue(Now, Now.ptr[w], v) /\ c = [type |-> TypeOf(Now, w), val |-> v]
  OBVIOUS
<1>3. Valid(Now, w) /\ Commit(n) BY <1>2 DEF Write, Now
<1>4. ValueSet(n, Now, V, w, v) BY <1>1, <1>2, <1>3, SetValueGood
<1>5. Replaced(n, V, w, c) BY <1>2, <1>4 DEF ValueSet, Replaced, Settled, Now
<1>6. c # NoWrap
  <2>1. TypeOf(Now, w) \in Types BY <1>1, <1>3, SeenKinds
  <2>2. c \in Holder BY <1>2, <2>1 DEF Holder
  <2> QED BY <2>2, ConstantsOK DEF ConstantsOK
<1> QED BY <1>3, <1>5, <1>6, ReplacedSpares

(* The operations on two wraps, and assignment to a value.                 *)
LEMMA NestedConstructs ==
  ASSUME NEW V \in SUBSET Wraps, Good(Now, V), ptr[Temp] = NoWrap, NEW w \in V, NEW o \in V,
         CopyConstruct(w, o) \/ MoveConstruct(w, o)
  PROVE  Spares(V, w, o) /\ ub' = ub
<1> DEFINE U == V \ {w}
<1>1. ~ IsWrap(Now, w) /\ IsWrap(Now, o) /\ w # o
  BY DEF CopyConstruct, MoveConstruct, IsWrap, Valid
<1>2. Good(Now, U) BY <1>1, ReadyIs DEF Ready
<1>3. /\ U \in SUBSET Slots /\ w \in Slots \ U /\ o \in U /\ U \cup {w} = V /\ Temp \in Slots \ {w}
      /\ V \ {w, o} = U \ {o}
  BY <1>1, Apart DEF Slots
<1>4. Now.ptr = ptr /\ Now.ub = ub BY DEF Now
<1> HIDE DEF U
<1>5. CASE CopyConstruct(w, o)
  <2>1. Copyable /\ Valid(Now, o) BY <1>5 DEF CopyConstruct
  <2>2. CASE Commit(Now) BY <2>2, NothingSpares
  <2>3. ASSUME NEW p \in CopyPlaces(Now, w, o), Commit(CopyInit(Now, w, o, p))
        PROVE  Spares(V, w, o) /\ ub' = ub
    <3>1. PICK n, h : n = CopyInit(Now, w, o, p) /\ h = HolderOf(Now, o) OBVIOUS
    <3>2. Constructed(n, Now, U, w, p, h) BY <1>2, <1>3, <2>1, <3>1, CopyInitGood
    <3>3. h # NoWrap
      <4>1. h \in Holder BY <1>2, <1>3, <2>1, <3>1, SeenKinds
      <4> QED BY <4>1, ConstantsOK DEF ConstantsOK
    <3>4. Good(n, V) /\ n.ub = ub /\ Seen(n, w) = h /\ SameSeen(n, Now, V \ {w})
      BY <1>3, <1>4, <3>2 DEF Constructed, SameSeen
    <3>5. n.ptr[Temp] = NoWrap
      <4>1. n.ptr = [Now.ptr EXCEPT ![w] = p] BY <3>2 DEF Constructed
      <4>2. Now.ptr \in [Slots -> Places \cup {Null, NoWrap}] BY <1>2 DEF Good, State
      <4> QED BY <1>3, <1>4, <4>1, <4>2
    <3>6. Replaced(n, V, w, h) BY <1>4, <3>4, <3>5 DEF Replaced, Settled
    <3> QED BY <2>3, <3>1, <3>3, <3>6, ReplacedSpares
  <2> QED BY <1>5, <2>2, <2>3 DEF CopyConstruct
<1>6. CASE MoveConstruct(w, o)
  <2>1. PICK n : n = MoveInitFrom(Now, w, o) OBVIOUS
  <2>2. Movable /\ Commit(n) BY <1>6, <2>1 DEF MoveConstruct
  <2>3. MovedInit(n, Now, U, w, o) BY <1>1, <1>2, <1>3, <2>1, <2>2, MoveInitGood
  <2>4. Good(n, V) /\ n.ub = ub /\ IsWrap(n, w) /\ (\A u \in Slots \ {w} : IsWrap(n, u) <=> IsWrap(Now, u))
        /\ SameSeen(n, Now, V \ {w, o})
    BY <1>3, <1>4, <2>3 DEF MovedInit
  <2>5. n.ptr[Temp] = NoWrap /\ IsWrap(n, o)
    BY <1>1, <1>3, <1>4, <2>4 DEF IsWrap
  <2>6. \A x \in V : x \in {w, o} /\ IsWrap(Now, x) => IsWrap(n, x) BY <2>4, <2>5
  <2> QED BY <2>2, <2>4, <2>5, <2>6, SparesIs
<1> QED BY <1>5, <1>6

(* Whatever moves content between existing wraps spares the others.        *)
LEMMA KeepingSpares ==
  ASSUME NEW V \in SUBSET Wraps, Good(Now, V), ptr[Temp] = NoWrap, NEW w \in V, NEW o \in V, NEW n,
         Good(n, V), n.ub = ub, \A u \in Slots : IsWrap(n, u) <=> IsWrap(Now, u),
         SameSeen(n, Now, V \ {w, o}), Commit(n)
  PROVE  Spares(V, w, o) /\ ub' = ub
<1>1. Temp \in Slots /\ V \subseteq Slots /\ Now.ptr = ptr BY DEF Slots, Now
<1>2. n.ptr[Temp] = NoWrap BY <1>1 DEF IsWrap
<1>3. \A x \in V : x \in {w, o} /\ IsWrap(Now, x) => IsWrap(n, x) BY <1>1
<1> QED BY <1>2, <1>3, SparesIs

LEMMA NestedMoveAssign ==
  ASSUME NEW V \in SUBSET Wraps, Good(Now, V), ptr[Temp] = NoWrap, NEW w \in V, NEW o \in V, w # o,
         Movable, IsWrap(Now, w), IsWrap(Now, o), Invalid(Now, o) => Invalid(Now, w),
         Commit(MoveAssign(Now, w, o))
  PROVE  Spares(V, w, o) /\ Spares(V, o, w) /\ ub' = ub
<1>1. PICK n : n = MoveAssign(Now, w, o) OBVIOUS
<1>2. V \in SUBSET Slots BY DEF Slots
<1>3. MoveAssigned(n, Now, V, w, o) BY <1>1, <1>2, MoveAssignGood
<1>4. Good(n, V) /\ n.ub = ub /\ (\A u \in Slots : IsWrap(n, u) <=> IsWrap(Now, u))
      /\ SameSeen(n, Now, V \ {w, o})
  BY <1>3 DEF MoveAssigned, Now
<1>5. SameSeen(n, Now, V \ {o, w}) BY <1>4 DEF SameSeen
<1> QED BY <1>1, <1>4, <1>5, KeepingSpares

LEMMA NestedCopies ==
  ASSUME NEW V \in SUBSET Wraps, Good(Now, V), ptr[Temp] = NoWrap, NEW w \in V, NEW o \in V,
         CopyByTemp(w, o) \/ CopyInPlace(w, o)
  PROVE  Spares(V, w, o) /\ ub' = ub
<1>1. Copyable /\ Movable /\ w # o /\ IsWrap(Now, w) /\ Valid(Now, o) /\ V \in SUBSET Slots
      /\ Now.ptr = ptr /\ Now.ub = ub
  BY ConstantsOK DEF CopyByTemp, CopyInPlace, Slots, Now, ConstantsOK, ValidConfig
<1>2. CASE CopyByTemp(w, o)
  <2>1. CASE Commit(Now) BY <2>1, NothingSpares
  <2>2. ASSUME NEW p \in CopyPlaces(Now, Temp, o),
               Commit(Dtor(MoveAssign(CopyInit(Now, Temp, o, p), w, Temp), Temp))
        PROVE  Spares(V, w, o) /\ ub' = ub
    <3>1. PICK n : n = Dtor(MoveAssign(CopyInit(Now, Temp, o, p), w, Temp), Temp) OBVIOUS
    <3>2. CopiedInto(n, Now, V, w, o) BY <1>1, <1>2, <3>1, CopyByTempGood DEF CopyByTemp
    <3>3. PICK c : c = Seen(Now, o) OBVIOUS
    <3>4. c # NoWrap BY <1>1, <3>3, SeenKinds DEF Valid, IsWrap
    <3>5. Replaced(n, V, w, c) BY <3>2, <3>3 DEF CopiedInto, Replaced
    <3> QED BY <2>2, <3>1, <3>4, <3>5, ReplacedSpares
  <2> QED BY <1>2, <2>1, <2>2 DEF CopyByTemp
<1>3. CASE CopyInPlace(w, o)
  <2>1. Valid(Now, w) /\ TypeOf(Now, w) = TypeOf(Now, o)
    BY <1>3 DEF CopyInPlace, InPlace, IsWrap, Invalid, Valid
  <2>2. AssertSameStorage(Now, w, o) = {} /\ Accuse(Now, {}) = Now
    BY <1>1, <2>1, SameStorage, NotAccused DEF Good
  <2>3. Run(Now, ptr[o], "copy assign") = {}
    <3>1. Wrappable(TypeOf(Now, o)) BY <1>1, SeenKinds
    <3>2. "copy assign" \in Can[TypeOf(Now, o)] BY <1>1, <3>1 DEF Wrappable, CopyableType, Members
    <3>3. Run(Now, Now.ptr[o], "copy assign") = {} BY <1>1, <3>2, RunBlameless
    <3> QED BY <1>1, <3>3
  <2>4. PICK x \in {Hollow, HolderOf(Now, o).val} : Commit(SetValue(Now, Now.ptr[w], x))
    BY <1>1, <1>3, <2>2, <2>3 DEF CopyInPlace, Blame
  <2>5. x \in Vals \cup {Hollow} BY <1>1, <2>1, SameContent
  <2>6. PICK n, c : n = SetValue(Now, Now.ptr[w], x) /\ c = [type |-> TypeOf(Now, w), val |-> x]
    OBVIOUS
  <2>7. ValueSet(n, Now, V, w, x) BY <1>1, <2>1, <2>5, <2>6, SetValueGood
  <2>8. Replaced(n, V, w, c) BY <1>1, <2>6, <2>7 DEF ValueSet, Replaced, Settled
  <2>9. c # NoWrap
    <3>1. TypeOf(Now, w) \in Types BY <1>1, <2>1, SeenKinds
    <3>2. c \in Holder BY <2>5, <2>6, <3>1 DEF Holder
    <3> QED BY <3>2, ConstantsOK DEF ConstantsOK
  <2> QED BY <2>4, <2>6, <2>8, <2>9, ReplacedSpares
<1> QED BY <1>2, <1>3

LEMMA NestedMoves ==
  ASSUME NEW V \in SUBSET Wraps, Good(Now, V), ptr[Temp] = NoWrap, NEW w \in V, NEW o \in V,
         MoveAssignment(w, o) \/ Swap(w, o)
  PROVE  Spares(V, w, o) /\ ub' = ub
<1>1. /\ Movable /\ IsWrap(Now, w) /\ IsWrap(Now, o) /\ V \in SUBSET Slots /\ Now.ptr = ptr /\ Now.ub = ub
  BY DEF MoveAssignment, Swap, Slots, Now
<1>2. CASE Commit(Now) BY <1>2, NothingSpares
<1>3. CASE w # o /\ (Invalid(Now, o) => Invalid(Now, w)) /\ Commit(MoveAssign(Now, w, o))
  BY <1>1, <1>3, NestedMoveAssign
<1>4. CASE w # o /\ (Invalid(Now, w) => Invalid(Now, o)) /\ Commit(MoveAssign(Now, o, w))
  BY <1>1, <1>4, NestedMoveAssign
<1>5. ASSUME NEW n, ContentsSwapped(n, Now, V, w, o), Commit(n) PROVE Spares(V, w, o) /\ ub' = ub
  <2>1. Good(n, V) /\ n.ub = ub /\ (\A u \in Slots : IsWrap(n, u) <=> IsWrap(Now, u))
        /\ SameSeen(n, Now, V \ {w, o})
    BY <1>1, <1>5 DEF ContentsSwapped
  <2> QED BY <1>5, <2>1, KeepingSpares
<1>6. ASSUME w # o, Valid(Now, w), Valid(Now, o), Swap(w, o), ~ Commit(Now)
      PROVE  Spares(V, w, o) /\ ub' = ub
  <2>1. CASE TypeOf(Now, w) = TypeOf(Now, o)
    <3>1. Swappable /\ Commit(SwapSameType(Now, w, o)) BY <1>6, <2>1 DEF Swap, Valid, Invalid
    <3>2. ContentsSwapped(SwapSameType(Now, w, o), Now, V, w, o)
      BY <1>1, <1>6, <2>1, <3>1, SwapSameTypeGood
    <3> QED BY <1>5, <3>1, <3>2
  <2>2. CASE TypeOf(Now, w) # TypeOf(Now, o)
    <3>1. Commit(SwapByTemp(Now, w, o)) BY <1>6, <2>2 DEF Swap, Valid, Invalid
    <3>2. ContentsSwapped(SwapByTemp(Now, w, o), Now, V, w, o)
      BY <1>1, <1>6, <2>2, SwapByTempGood
    <3> QED BY <1>5, <3>1, <3>2
  <2> QED BY <2>1, <2>2
<1>7. CASE MoveAssignment(w, o) BY <1>2, <1>3, <1>7 DEF MoveAssignment
<1>8. CASE Swap(w, o)
  <2>1. CASE w # o /\ Valid(Now, w) /\ Valid(Now, o) BY <1>2, <1>6, <1>8, <2>1
  <2>2. CASE ~ (w # o /\ Valid(Now, w) /\ Valid(Now, o))
    <3>1. \/ Commit(Now)
          \/ Invalid(Now, w) /\ Valid(Now, o) /\ Commit(MoveAssign(Now, w, o))
          \/ Valid(Now, w) /\ Invalid(Now, o) /\ Commit(MoveAssign(Now, o, w))
      BY <1>8, <2>2 DEF Swap
    <3> QED BY <1>2, <1>3, <1>4, <3>1 DEF Valid, Invalid
  <2> QED BY <2>1, <2>2
<1> QED BY <1>7, <1>8

LEMMA NestedAssignValue ==
  ASSUME NEW V \in SUBSET Wraps, Good(Now, V), ptr[Temp] = NoWrap, NEW w \in V, NEW o,
         NEW t \in Types, NEW v \in Vals, NEW how \in {"copy", "move"}, AssignValue(w, t, v, how)
  PROVE  Spares(V, w, o) /\ (Regular => ub' = ub)
<1> DEFINE b == Run(Now, ptr[w], Assigner(how))
           r == Accuse(Now, b)
<1>1. V \in SUBSET Slots /\ Now.ptr = ptr /\ Now.ub = ub /\ b \in SUBSET Blames /\ Temp \in Slots
  BY RunIsBlame DEF Slots, Now
<1>2. Valid(Now, w) /\ Wrappable(t) /\ Constructible(t, how) /\ TypeOf(Now, w) = t
  BY DEF AssignValue
<1>3. Good(r, V) /\ r.ptr = Now.ptr /\ r.held = Now.held /\ r.ub = Now.ub \cup b
  BY <1>1, AccuseGood
<1>4. PICK x \in {Hollow, v} : Commit(SetValue(r, r.ptr[w], x))
  BY <1>1, <1>3 DEF AssignValue, Blame, Assigner
<1>5. Regular => b = {}
  <2> SUFFICES ASSUME Regular PROVE b = {} OBVIOUS
  <2>1. Assigner(how) \in Can[TypeOf(Now, w)] BY <1>2 DEF Regular, Constructible, Assigner
  <2>2. Run(Now, Now.ptr[w], Assigner(how)) = {} BY <1>1, <1>2, <2>1, RunBlameless
  <2> QED BY <1>1, <2>2
<1> HIDE DEF b, r
<1>6. Valid(r, w) /\ TypeOf(r, w) = t /\ SameSeen(r, Now, V)
  BY <1>2, <1>3 DEF Valid, TypeOf, HolderOf, SameSeen, Seen
<1>7. PICK n : n = SetValue(r, r.ptr[w], x) OBVIOUS
<1>8. ValueSet(n, r, V, w, x) BY <1>1, <1>3, <1>6, <1>7, SetValueGood
<1>9. Good(n, V) /\ n.ub = ub \cup b /\ n.ptr = ptr /\ SameSeen(n, Now, V \ {w, o})
  BY <1>1, <1>3, <1>6, <1>8 DEF ValueSet, SameSeen
<1>10. n.ptr[Temp] = NoWrap /\ \A u \in V : u \in {w, o} /\ IsWrap(Now, u) => IsWrap(n, u)
  BY <1>1, <1>9 DEF IsWrap
<1>11. Spares(V, w, o) /\ ub' = n.ub BY <1>4, <1>7, <1>9, <1>10, SparesIs
<1> QED BY <1>5, <1>9, <1>11

LEMMA ReturnedIs ==
  \A op, w, o, threw : Returned(op, w, o, threw) => call'.op = op /\ call'.dst = w /\ call'.src = o
BY DEF Returned

LEMMA NextSpares ==
  ASSUME NEW V \in SUBSET Wraps, Good(Now, V), ptr[Temp] = NoWrap, Next,
         \A x \in Wraps : x = call'.dst \/ x = call'.src => x \in V
  PROVE  Spares(V, call'.dst, call'.src) /\ (Regular => ub' = ub)
<1>1. PICK w \in Wraps :
        \/ InvalidConstruct(w) \/ Destruct(w) \/ Reset(w) \/ CopySelf(w)
        \/ \E v \in Vals : Write(w, v)
        \/ \E t \in Types, v \in Vals :
             \/ \E how \in {"args", "copy", "move"} : Construct(w, t, v, how)
             \/ \E how \in {"copy", "move"} : AssignFresh(w, t, v, how) \/ AssignValue(w, t, v, how)
             \/ Emplace(w, t, v)
        \/ \E o \in Wraps :
             \/ CopyConstruct(w, o) \/ MoveConstruct(w, o)
             \/ MoveAssignment(w, o) \/ CopyByTemp(w, o) \/ CopyInPlace(w, o)
             \/ Swap(w, o)
  BY DEF Next
<1>2. w = call'.dst
  <2>1. CASE InvalidConstruct(w) \/ Destruct(w) \/ Reset(w) \/ CopySelf(w)
    BY <2>1, ReturnedIs DEF InvalidConstruct, Destruct, Reset, CopySelf
  <2>2. ASSUME NEW v \in Vals, Write(w, v) PROVE w = call'.dst
    BY <2>2, ReturnedIs DEF Write
  <2>3. ASSUME NEW t, NEW v, NEW how,
               \/ Construct(w, t, v, how) \/ AssignFresh(w, t, v, how)
               \/ AssignValue(w, t, v, how) \/ Emplace(w, t, v)
        PROVE  w = call'.dst
    BY <2>3, ReturnedIs DEF Construct, AssignFresh, AssignValue, Emplace
  <2>4. ASSUME NEW o,
               \/ CopyConstruct(w, o) \/ MoveConstruct(w, o) \/ MoveAssignment(w, o)
               \/ CopyByTemp(w, o) \/ CopyInPlace(w, o) \/ Swap(w, o)
        PROVE  w = call'.dst
    BY <2>4, ReturnedIs DEF CopyConstruct, MoveConstruct, MoveAssignment, CopyByTemp, CopyInPlace, Swap
  <2> QED BY <1>1, <2>1, <2>2, <2>3, <2>4
<1>3. w \in V BY <1>2
<1>4. PICK src : src = call'.src OBVIOUS
<1>5. CASE InvalidConstruct(w) \/ Destruct(w) \/ Reset(w) \/ CopySelf(w)
  BY <1>2, <1>3, <1>4, <1>5, NestedEmptying, NestedDestruct
<1>6. ASSUME NEW v \in Vals, Write(w, v)
      PROVE  Spares(V, call'.dst, call'.src) /\ (Regular => ub' = ub)
  BY <1>2, <1>3, <1>4, <1>6, NestedWrite
<1>7. ASSUME NEW t \in Types, NEW v \in Vals, NEW how,
             Construct(w, t, v, how) \/ AssignFresh(w, t, v, how) \/ Emplace(w, t, v)
      PROVE  Spares(V, call'.dst, call'.src) /\ (Regular => ub' = ub)
  BY <1>2, <1>3, <1>4, <1>7, NestedMaking
<1>8. ASSUME NEW t \in Types, NEW v \in Vals, NEW how \in {"copy", "move"}, AssignValue(w, t, v, how)
      PROVE  Spares(V, call'.dst, call'.src) /\ (Regular => ub' = ub)
  BY <1>2, <1>3, <1>4, <1>8, NestedAssignValue
<1>9. ASSUME NEW o \in Wraps,
             \/ CopyConstruct(w, o) \/ MoveConstruct(w, o) \/ MoveAssignment(w, o)
             \/ CopyByTemp(w, o) \/ CopyInPlace(w, o) \/ Swap(w, o)
      PROVE  Spares(V, call'.dst, call'.src) /\ (Regular => ub' = ub)
  <2>1. o = call'.src
    BY <1>9, ReturnedIs DEF CopyConstruct, MoveConstruct, MoveAssignment, CopyByTemp, CopyInPlace, Swap
  <2>2. o \in V BY <2>1
  <2> QED BY <1>2, <1>3, <1>9, <2>1, <2>2, NestedConstructs, NestedCopies, NestedMoves
<1> QED BY <1>1, <1>5, <1>6, <1>7, <1>8, <1>9

----------------------------------------------------------------------------
(* A nested call, seen from the running one.                               *)
All == Wraps \cup {Local}
But(u) == All \ {u}
TempGone(n) == Local # Temp => n.ptr[Temp] = NoWrap

(* What a wrap shows tells its kind.                                       *)
LEMMA SameKind ==
  ASSUME NEW W \in SUBSET Slots, NEW n, NEW s, Good(n, W), Good(s, W), NEW x \in W,
         Seen(n, x) = Seen(s, x)
  PROVE  /\ Valid(n, x) <=> Valid(s, x)
         /\ Invalid(n, x) <=> Invalid(s, x)
         /\ IsWrap(n, x) <=> IsWrap(s, x)
         /\ Valid(s, x) => TypeOf(n, x) = TypeOf(s, x)
<1>1. /\ Valid(n, x) => Seen(n, x) = HolderOf(n, x)
      /\ Seen(n, x) \in Holder <=> Valid(n, x)
      /\ Seen(n, x) = Null <=> Invalid(n, x)
      /\ Seen(n, x) = NoWrap <=> ~ IsWrap(n, x)
  BY SeenKinds
<1>2. /\ Valid(s, x) => Seen(s, x) = HolderOf(s, x)
      /\ Seen(s, x) \in Holder <=> Valid(s, x)
      /\ Seen(s, x) = Null <=> Invalid(s, x)
      /\ Seen(s, x) = NoWrap <=> ~ IsWrap(s, x)
  BY SeenKinds
<1> QED BY <1>1, <1>2 DEF TypeOf

(* While a nested call runs, the owners other than the wraps it works on   *)
(* stay as they are, the ones that the running call needs stay alive, and  *)
(* whatever was touched is nobody's goal any more.                         *)
Same(x) ==
  /\ Seen(Now', x) = Seen(Now, x)
  /\ Valid(Now', x) <=> Valid(Now, x)
  /\ Invalid(Now', x) <=> Invalid(Now, x)
  /\ IsWrap(Now', x) <=> IsWrap(Now, x)
  /\ Valid(Now, x) => TypeOf(Now', x) = TypeOf(Now, x)

Undisturbed(V) ==
  /\ Good(Now', V) /\ TempGone(Now')
  /\ todo' = todo /\ running' = running
  /\ \A x \in V : x \in Engaged => Same(x)
  /\ \A x \in V : x \in Needed /\ IsWrap(Now, x) => IsWrap(Now', x)
  /\ \A x \in Wraps : \/ goal'[x] = Anything
                      \/ goal'[x] = goal[x] /\ (x \in V => Seen(Now', x) = Seen(Now, x))
  /\ goal' \in [Wraps -> Contents]

LEMMA NestedIs ==
  ASSUME NestedCall, TempGone(Now), goal \in [Wraps -> Contents],
         NEW V \in SUBSET All, Good(Now, V), \A x \in Wraps : x \notin V => x \in Engaged
  PROVE  Undisturbed(V) /\ (Regular => ub' = ub)
<1>1. /\ Reentrant /\ Next
      /\ call'.dst \notin Engaged /\ call'.src \notin Engaged
      /\ call'.op = "destroy" => call'.dst \notin Needed
      /\ goal' = [w \in Wraps |-> IF w \in {call'.dst, call'.src} THEN Anything ELSE goal[w]]
      /\ todo' = todo /\ running' = running
  BY DEF NestedCall
<1>2. Local # Temp /\ Local \in Wraps /\ V \in SUBSET Wraps /\ V \in SUBSET Slots
  BY <1>1, StepConstantsOK DEF StepConstantsOK, Slots, All
<1>3. ptr[Temp] = NoWrap BY <1>2 DEF TempGone, Now
<1>4. \A x \in Wraps : x = call'.dst \/ x = call'.src => x \in V BY <1>1
<1>5. Spares(V, call'.dst, call'.src) /\ (Regular => ub' = ub)
  BY <1>1, <1>2, <1>3, <1>4, NextSpares
<1>6. /\ Good(Now', V) /\ ptr'[Temp] = NoWrap
      /\ \A x \in V : x # call'.dst /\ x # call'.src => Seen(Now', x) = Seen(Now, x)
      /\ \A x \in V : IsWrap(Now, x) => IsWrap(Now', x) \/ (call'.op = "destroy" /\ call'.dst = x)
  BY <1>5 DEF Spares, SameSeen
<1>7. TempGone(Now') BY <1>6 DEF TempGone, Now
<1>8. ASSUME NEW x \in V, x \in Engaged PROVE Same(x)
  <2>1. Seen(Now', x) = Seen(Now, x) BY <1>1, <1>6, <1>8
  <2> QED BY <1>2, <1>6, <2>1, SameKind DEF Same
<1>9. \A x \in V : x \in Needed /\ IsWrap(Now, x) => IsWrap(Now', x) BY <1>1, <1>6
<1>10. \A x \in Wraps : \/ goal'[x] = Anything
                        \/ goal'[x] = goal[x] /\ (x \in V => Seen(Now', x) = Seen(Now, x))
  BY <1>1, <1>6
<1>11. goal' \in [Wraps -> Contents]
  <2>1. Anything \in Contents BY DEF Contents
  <2> QED BY <1>1, <2>1
<1> QED BY <1>1, <1>5, <1>6, <1>7, <1>8, <1>9, <1>10, <1>11 DEF Undisturbed

(* The wraps that a call works on are engaged.                             *)
LEMMA ThenSecond ==
  ASSUME NEW x, NEW y, NEW t, IsList(t)
  PROVE  Then(x, Then(y, t))[2] = y /\ {1, 2} \subseteq DOMAIN Then(x, Then(y, t))
<1>1. PICK S : t \in Seq(S) BY DEF IsList
<1> DEFINE R == S \cup {x, y}
<1>2. t \in Seq(R) /\ x \in R /\ y \in R
  <2>1. S \subseteq R OBVIOUS
  <2> HIDE DEF R
  <2>2. Seq(S) \subseteq Seq(R) BY <2>1
  <2> QED BY <1>1, <2>2 DEF R
<1> HIDE DEF R
<1>3. <<x>> \in Seq(R) /\ <<y>> \in Seq(R) BY <1>2
<1>4. PICK u : u = <<y>> \o t OBVIOUS
<1>5. u \in Seq(R) /\ Len(u) = 1 + Len(t) /\ u[1] = y /\ Len(t) \in Nat BY <1>2, <1>3, <1>4
<1>6. PICK q : q = <<x>> \o u OBVIOUS
<1>7. q \in Seq(R) /\ Len(q) = 2 + Len(t) /\ q[2] = y BY <1>2, <1>3, <1>5, <1>6
<1>8. DOMAIN q = 1 .. Len(q) BY <1>7
<1>9. {1, 2} \subseteq DOMAIN q BY <1>5, <1>7, <1>8
<1> QED BY <1>4, <1>6, <1>7, <1>9 DEF Then

LEMMA EngagedAt ==
  ASSUME running.op = "swap", NEW i \in DOMAIN todo, NEW what, NEW w, NEW o,
         todo[i] = Step(what, w, o)
  PROVE  (w \in Wraps => w \in Engaged) /\ (o \in Wraps => o \in Engaged)
<1>1. todo[i].on = w /\ todo[i].from = o BY StepIs
<1>2. Engaged = WorksOn(todo) \cup {Local} BY DEF Engaged
<1>3. {w, o} \cap Wraps \subseteq WorksOn(todo) BY <1>1 DEF WorksOn
<1> QED BY <1>2, <1>3

LEMMA EngagedHead ==
  ASSUME NEW what, NEW w, NEW o, NEW t, IsList(t), todo = Then(Step(what, w, o), t)
  PROVE  Local \in Engaged /\ (w \in Wraps => w \in Engaged) /\ (o \in Wraps => o \in Engaged)
<1>1. todo[1].on = w /\ todo[1].from = o /\ todo[1] = Step(what, w, o) BY HeadIs
<1>2. Local \in Engaged BY DEF Engaged
<1>3. CASE running.op = "swap"
  <2>1. 1 \in DOMAIN todo
    <3>1. PICK S : t \in Seq(S) BY DEF IsList
    <3>2. PICK x, R : x = Step(what, w, o) /\ R = S \cup {x} OBVIOUS
    <3>3. S \subseteq R /\ x \in R BY <3>2
    <3>4. Seq(S) \subseteq Seq(R) BY <3>3
    <3>5. t \in Seq(R) /\ <<x>> \in Seq(R) BY <3>1, <3>3, <3>4
    <3>6. <<x>> \o t \in Seq(R) /\ Len(<<x>> \o t) = 1 + Len(t) /\ Len(t) \in Nat BY <3>5
    <3>7. todo = <<x>> \o t BY <3>2 DEF Then
    <3>8. DOMAIN todo = 1 .. Len(todo) BY <3>6, <3>7
    <3> QED BY <3>6, <3>7, <3>8
  <2> QED BY <1>1, <1>2, <1>3, <2>1, EngagedAt
<1>4. CASE running.op # "swap"
  <2>1. PICK y : y = todo[1] OBVIOUS
  <2>2. Engaged = WorksOn(<<y>>) \cup {Local} BY <1>4, <2>1 DEF Engaged
  <2>3. 1 \in DOMAIN <<y>> /\ <<y>>[1] = y OBVIOUS
  <2>4. {y.on, y.from} \cap Wraps \subseteq WorksOn(<<y>>) BY <2>3 DEF WorksOn
  <2>5. y.on = w /\ y.from = o BY <1>1, <2>1
  <2> QED BY <1>2, <2>2, <2>4, <2>5
<1> QED BY <1>3, <1>4

LEMMA EngagedNext ==
  ASSUME running.op = "swap", NEW x, NEW what, NEW w, NEW o, NEW t, IsList(t),
         todo = Then(x, Then(Step(what, w, o), t))
  PROVE  (w \in Wraps => w \in Engaged) /\ (o \in Wraps => o \in Engaged)
<1>1. PICK y : y = Step(what, w, o) OBVIOUS
<1>2. 2 \in DOMAIN todo /\ todo[2] = y BY <1>1, ThenSecond
<1> QED BY <1>1, <1>2, EngagedAt


----------------------------------------------------------------------------
(* Calls in progress: what state n, the steps q that are left, the record  *)
(* r of the running call and its goal g have to do with each other.        *)

(* The call promised nothing, that w will show c, or also that o will      *)
(* show d; user code may have taken a promise back.                        *)
Silent(g) == \A x \in Wraps : g[x] = Anything
Owes(g, w, c) == g[w] \in {Anything, c} /\ \A x \in Wraps \ {w} : g[x] = Anything
OwesBoth(g, w, c, o, d) ==
  /\ g[w] \in {Anything, c} /\ g[o] \in {Anything, d}
  /\ \A x \in Wraps \ {w, o} : g[x] = Anything

(* The wrap u is destroyed and its pointer set.                            *)
Removing(n, q, u, what) ==
  \/ Good(n, All) /\ IsWrap(n, u) /\ q = Finish(u, what)
  \/ Good(n, But(u)) /\ q = Only(Step(what, u, u))

(* operator=(wrap &&) from v to u, followed by t.                          *)
Relocating(n, q, u, v, t) ==
  /\ IsWrap(n, v)
  /\ \/ /\ Good(n, All) /\ IsWrap(n, u) /\ (Valid(n, u) => Valid(n, v))
        /\ q = Then(Step("move", u, v), t)
     \/ /\ Good(n, All) /\ Valid(n, u)
        /\ q = Then(Step("destroy", u, u), Then(Step("init", u, v), t))
     \/ Good(n, But(u)) /\ q = Then(Step("init", u, v), t)
     \/ /\ Good(n, All) /\ Valid(n, u) /\ Valid(n, v) /\ TypeOf(n, u) = TypeOf(n, v)
        /\ q = Then(Step("transfer", u, v), t)

(* One operator for each kind of call: destruction and invalidation,       *)
(* construction from an argument, the same in place of an old value, and   *)
(* assignment to a value of the same type;                                 *)
Closing(n, q, r, g, w) ==
  /\ ~ IsWrap(n, Local)
  /\ \/ r = Record("reset", w, Outside) /\ Removing(n, q, w, "clear") /\ Owes(g, w, Null)
     \/ r = Record("destroy", w, Outside) /\ Removing(n, q, w, "end") /\ Owes(g, w, NoWrap)

Creating(n, q, r, g, w, t, v, how) ==
  /\ Good(n, All) /\ ~ IsWrap(n, Local) /\ ~ IsWrap(n, w) /\ Wrappable(t)
  /\ r = Record("construct", w, Outside)
  /\ q = Only(Step("build", w, Argument(t, v, how))) /\ Owes(g, w, [type |-> t, val |-> v])

Recreating(n, q, r, g, w, t, v, how) ==
  /\ ~ IsWrap(n, Local) /\ Wrappable(t)
  /\ r \in {Record("assign", w, Outside), Record("emplace", w, Outside)}
  /\ \/ /\ Good(n, All) /\ IsWrap(n, w)
        /\ q = Then(Step("destroy", w, w), Only(Step("build", w, Argument(t, v, how))))
     \/ Good(n, But(w)) /\ q = Only(Step("build", w, Argument(t, v, how)))
  /\ Owes(g, w, [type |-> t, val |-> v])

Overwriting(n, q, r, g, w, t, v, how) ==
  /\ Good(n, All) /\ ~ IsWrap(n, Local) /\ Valid(n, w) /\ TypeOf(n, w) = t
  /\ how # "args" /\ Constructible(t, how)
  /\ r = Record("assign", w, Outside)
  /\ q = Only(Step("set", w, Argument(t, v, how))) /\ Owes(g, w, [type |-> t, val |-> v])

(* copy and move construction, move assignment (also as swap with an       *)
(* invalid wrap), copy assignment to the same and to another type, and     *)
(* swap of the same and of different types.                                *)
Cloning(n, q, r, g, w, o) ==
  /\ Copyable /\ Good(n, All) /\ ~ IsWrap(n, Local) /\ ~ IsWrap(n, w) /\ Valid(n, o)
  /\ r = Record("copy construct", w, o)
  /\ q = Only(Step("clone", w, o)) /\ Owes(g, w, Seen(n, o))

Taking(n, q, r, g, w, o) ==
  /\ Movable /\ w # o /\ ~ IsWrap(n, Local)
  /\ r = Record("move construct", w, o)
  /\ Good(n, But(w)) /\ IsWrap(n, o)
  /\ q = Only(Step("init", w, o)) /\ Owes(g, w, Seen(n, o))

Transferring(n, q, r, g, w, o) ==
  /\ Movable /\ w # o /\ ~ IsWrap(n, Local)
  /\ r \in {Record("move assign", w, o), Record("swap", w, o), Record("swap", o, w)}
  /\ Relocating(n, q, w, o, <<>>) /\ Silent(g)

CopyingValue(n, q, r, g, w, o) ==
  /\ Copyable /\ w # o /\ Good(n, All) /\ ~ IsWrap(n, Local)
  /\ Valid(n, w) /\ Valid(n, o) /\ TypeOf(n, w) = TypeOf(n, o)
  /\ r = Record("copy assign", w, o)
  /\ q = Only(Step("copy value", w, o)) /\ Silent(g)

CopyingOver(n, q, r, g, w, o) ==
  /\ Copyable /\ w # o /\ r = Record("copy assign", w, o)
  /\ \/ /\ Good(n, All) /\ ~ IsWrap(n, Local) /\ IsWrap(n, w) /\ Valid(n, o) /\ Silent(g)
        /\ q = Then(Step("clone", Local, o), Then(Step("move", w, Local), Leave))
     \/ Relocating(n, q, w, Local, Leave) /\ Owes(g, w, Seen(n, Local))
     \/ Removing(n, q, Local, "end") /\ Owes(g, w, Seen(n, w))

Trading(n, q, r, g, w, o) ==
  /\ Swappable /\ w # o /\ Good(n, All) /\ ~ IsWrap(n, Local)
  /\ Valid(n, w) /\ Valid(n, o) /\ TypeOf(n, w) = TypeOf(n, o)
  /\ r = Record("swap", w, o)
  /\ q = Only(Step("exchange", w, o)) /\ OwesBoth(g, w, Seen(n, o), o, Seen(n, w))

Rotating(n, q, r, g, w, o) ==
  /\ Movable /\ w # o /\ r = Record("swap", w, o)
  /\ \/ /\ Good(n, But(Local)) /\ Valid(n, w) /\ Valid(n, o)
        /\ q = Then(Step("init", Local, w), Then(Step("move", w, o), Back(o)))
        /\ OwesBoth(g, w, Seen(n, o), o, Seen(n, w))
     \/ /\ Relocating(n, q, w, o, Back(o)) /\ Valid(n, Local)
        /\ OwesBoth(g, w, Seen(n, o), o, Seen(n, Local))
     \/ Relocating(n, q, o, Local, Leave) /\ OwesBoth(g, w, Seen(n, w), o, Seen(n, Local))
     \/ Removing(n, q, Local, "end") /\ OwesBoth(g, w, Seen(n, w), o, Seen(n, o))

UnderWay(n, q, r, g) ==
  \E w \in Callers :
    \/ Closing(n, q, r, g, w)
    \/ \E t \in Types, v \in Vals, how \in {"args", "copy", "move"} :
         \/ Creating(n, q, r, g, w, t, v, how)
         \/ Recreating(n, q, r, g, w, t, v, how)
         \/ Overwriting(n, q, r, g, w, t, v, how)
    \/ \E o \in Callers :
         \/ Cloning(n, q, r, g, w, o) \/ Taking(n, q, r, g, w, o)
         \/ Transferring(n, q, r, g, w, o)
         \/ CopyingValue(n, q, r, g, w, o) \/ CopyingOver(n, q, r, g, w, o)
         \/ Trading(n, q, r, g, w, o) \/ Rotating(n, q, r, g, w, o)

(* The inductive invariant.                                                *)
Resting(n) == Good(n, All) /\ ~ IsWrap(n, Local)
StepsInv ==
  /\ TempGone(Now) /\ goal \in [Wraps -> Contents]
  /\ todo = <<>> => running = Idle /\ Resting(Now)
  /\ todo # <<>> => UnderWay(Now, todo, running, goal)

----------------------------------------------------------------------------
(* About owners.                                                           *)
LEMMA AllIs ==
  /\ All \in SUBSET Slots /\ Wraps \subseteq All /\ Local \in All /\ Local \in Slots
  /\ \A u \in All : u \in Slots /\ u \in Slots \ But(u) /\ But(u) \cup {u} = All
                    /\ But(u) \in SUBSET Slots
  /\ \A u, x : x \in But(u) <=> x \in All /\ x # u
BY StepConstantsOK DEF StepConstantsOK, All, But, Slots

LEMMA CallersAre ==
  \A w \in Callers : w \in Wraps /\ w # Local /\ w \in All /\ w \in Slots /\ w # Temp
BY Apart DEF Callers, All, Slots

LEMMA GoodIs ==
  ASSUME NEW s, NEW W, Good(s, W) PROVE Proper(s) /\ s \in State
BY DEF Good, State, Proper, Pointers, Pointees

LEMMA KindsIs ==
  ASSUME NEW s, NEW w
  PROVE  /\ Valid(s, w) => IsWrap(s, w) /\ ~ Invalid(s, w)
         /\ IsWrap(s, w) => Valid(s, w) \/ Invalid(s, w)
         /\ Invalid(s, w) => IsWrap(s, w) /\ ~ Valid(s, w)
BY Apart DEF Valid, Invalid, IsWrap

LEMMA TempStays ==
  ASSUME NEW n, NEW s, TempGone(s), NEW u, u = Local \/ u # Temp,
         \A x \in Slots \ {u} : IsWrap(n, x) <=> IsWrap(s, x)
  PROVE  TempGone(n)
BY DEF TempGone, IsWrap, Slots

(* The owners W show the same in n as in s, and what exists is the same.   *)
Keeps(n, s, W) ==
  n.ub = s.ub /\ SameSeen(n, s, W) /\ \A x \in Slots : IsWrap(n, x) <=> IsWrap(s, x)

LEMMA SeenNow == Now.ub = ub /\ Now'.ub = ub' BY DEF Now

----------------------------------------------------------------------------
(* The next step of what several calls have in common.                     *)

(* The call goes on.                                                       *)
StepsOn == todo' # <<>> /\ UNCHANGED <<call, running, goal>>

(* One call's step makes the wrap u, or ends it.                           *)
Leaves(n, s, u, c) ==
  /\ Good(n, All) /\ n.ub = s.ub /\ Seen(n, u) = c /\ SameSeen(n, s, But(u))
  /\ \A x \in Slots \ {u} : IsWrap(n, x) <=> IsWrap(s, x)

LEMMA DestroyLeads ==
  ASSUME NEW u \in All, NEW t, IsList(t), t # <<>>, Good(Now, All), IsWrap(Now, u),
         todo = Then(Step("destroy", u, u), t), Doer
  PROVE  StepsOn /\ todo' = t /\ Good(Now', But(u)) /\ Keeps(Now', Now, But(u))
<1>1. Destroyed(Destroy(Now, u), Now, All, u) BY AllIs, DestroyGood DEF IsWrap
<1>2. PICK n : n = Destroy(Now, u) OBVIOUS
<1>3. Good(n, But(u)) /\ n.ub = Now.ub /\ n.ptr = Now.ptr /\ SameSeen(n, Now, But(u))
  BY <1>1, <1>2 DEF Destroyed, But
<1>4. Effect(Now, Step("destroy", u, u)) = n BY <1>2, EffectIs
<1>5. Proper(n) BY <1>3, GoodIs
<1>6. Moves(n, t) /\ (t # <<>> => goal' = goal) BY <1>4, <1>5, EffectStep DEF Effects
<1>7. Now' = n /\ StepsOn /\ todo' = t BY <1>6 DEF Moves, StepsOn
<1>8. Keeps(n, Now, But(u)) BY <1>3 DEF Keeps, IsWrap
<1> QED BY <1>3, <1>7, <1>8

LEMMA Removed ==
  ASSUME NEW u \in All, NEW what \in {"clear", "end"}, Removing(Now, todo, u, what), Doer
  PROVE  \/ StepsOn /\ Removing(Now', todo', u, what) /\ Keeps(Now', Now, But(u))
         \/ Moves(Now', <<>>) /\ Leaves(Now', Now, u, Last(what))
<1>1. CASE Good(Now, All) /\ IsWrap(Now, u) /\ todo = Finish(u, what)
  <2>1. PICK t : t = Only(Step(what, u, u)) OBVIOUS
  <2>2. IsList(t) /\ t # <<>> BY <2>1, OnlyIs
  <2>3. todo = Then(Step("destroy", u, u), t) BY <1>1, <2>1 DEF Finish
  <2>4. StepsOn /\ todo' = t /\ Good(Now', But(u)) /\ Keeps(Now', Now, But(u))
    BY <1>1, <2>2, <2>3, DestroyLeads
  <2> QED BY <2>1, <2>4 DEF Removing
<1>2. CASE Good(Now, But(u)) /\ todo = Only(Step(what, u, u))
  <2>1. PICK n, x : n = SetPtr(Now, u, x) /\ x = Last(what) OBVIOUS
  <2>2. x \in {Null, NoWrap} BY <2>1 DEF Last
  <2>3. Idled(n, Now, But(u), u, x) BY <1>2, <2>1, <2>2, AllIs, IdleGood
  <2>4. Good(n, All) /\ n.ub = Now.ub /\ n.ptr = [Now.ptr EXCEPT ![u] = x] /\ Seen(n, u) = x
        /\ SameSeen(n, Now, But(u))
    BY <2>3, AllIs DEF Idled
  <2>5. Now \in State /\ Proper(n) BY <1>2, <2>4, GoodIs
  <2>6. \A y \in Slots \ {u} : IsWrap(n, y) <=> IsWrap(Now, y)
    BY <2>4, <2>5 DEF State, IsWrap
  <2>7. Effect(Now, Step(what, u, u)) = n BY <2>1, EffectIs DEF Last
  <2>8. todo = Then(Step(what, u, u), <<>>) BY <1>2 DEF Only
  <2>9. Moves(n, <<>>) BY <2>5, <2>7, <2>8, ThenNothing, EffectStep DEF Effects
  <2>10. Now' = n BY <2>9 DEF Moves
  <2> QED BY <2>1, <2>4, <2>6, <2>9, <2>10 DEF Leaves
<1> QED BY <1>1, <1>2 DEF Removing

(* The content of v has gone to u.                                         *)
Relocated(n, s, u, v) ==
  /\ Good(n, All) /\ n.ub = s.ub /\ IsWrap(n, u) /\ Seen(n, u) = Seen(s, v)
  /\ \A x \in Slots \ {u} : IsWrap(n, x) <=> IsWrap(s, x)
  /\ \A x \in All : x # u /\ x # v => Seen(n, x) = Seen(s, x)

LEMMA InitLeads ==
  ASSUME Movable, NEW u \in All, NEW v \in All, u # v, NEW t, IsList(t),
         Good(Now, But(u)), IsWrap(Now, v), todo = Then(Step("init", u, v), t), Doer
  PROVE  Moves(Now', t) /\ (t # <<>> => goal' = goal) /\ Relocated(Now', Now, u, v)
<1>1. v \in But(u) /\ u \in Slots \ But(u) /\ But(u) \in SUBSET Slots /\ But(u) \cup {u} = All
  BY AllIs
<1>2. PICK n : n = MoveInitFrom(Now, u, v) OBVIOUS
<1>3. MovedInit(n, Now, But(u), u, v) BY <1>1, <1>2, MoveInitGood
<1>4. /\ Good(n, All) /\ n.ub = Now.ub /\ IsWrap(n, u) /\ Seen(n, u) = Seen(Now, v)
      /\ \A x \in Slots \ {u} : IsWrap(n, x) <=> IsWrap(Now, x)
      /\ SameSeen(n, Now, But(u) \ {v})
  BY <1>1, <1>3 DEF MovedInit
<1>5. \A x \in All : x # u /\ x # v => Seen(n, x) = Seen(Now, x)
  BY <1>4, AllIs DEF SameSeen
<1>6. Relocated(n, Now, u, v) BY <1>4, <1>5 DEF Relocated
<1>7. Proper(n) BY <1>4, GoodIs
<1>8. Effect(Now, Step("init", u, v)) = n BY <1>2, EffectIs
<1>9. Moves(n, t) /\ (t # <<>> => goal' = goal) BY <1>7, <1>8, EffectStep DEF Effects
<1>10. Now' = n BY <1>9 DEF Moves
<1> QED BY <1>6, <1>9, <1>10

LEMMA TransferLeads ==
  ASSUME Movable, NEW u \in All, NEW v \in All, u # v, NEW t, IsList(t), Good(Now, All),
         Valid(Now, u), Valid(Now, v), todo = Then(Step("transfer", u, v), t), Doer
  PROVE  Moves(Now', t) /\ (t # <<>> => goal' = goal) /\ Relocated(Now', Now, u, v)
<1>1. IsWrap(Now, u) /\ IsWrap(Now, v) /\ (Invalid(Now, v) => Invalid(Now, u)) BY KindsIs
<1>2. PICK n : n = MoveAssign(Now, u, v) OBVIOUS
<1>3. MoveAssigned(n, Now, All, u, v) BY <1>1, <1>2, AllIs, MoveAssignGood
<1>4. /\ Good(n, All) /\ n.ub = Now.ub /\ Seen(n, u) = Seen(Now, v)
      /\ \A x \in Slots : IsWrap(n, x) <=> IsWrap(Now, x)
      /\ SameSeen(n, Now, All \ {u, v})
  BY <1>3 DEF MoveAssigned
<1>5. \A x \in All : x # u /\ x # v => Seen(n, x) = Seen(Now, x)
  BY <1>4 DEF SameSeen
<1>6. Relocated(n, Now, u, v) BY <1>1, <1>4, <1>5, AllIs DEF Relocated
<1>7. Proper(n) BY <1>4, GoodIs
<1>8. Effect(Now, Step("transfer", u, v)) = n BY <1>2, EffectIs
<1>9. Moves(n, t) /\ (t # <<>> => goal' = goal) BY <1>7, <1>8, EffectStep DEF Effects
<1>10. Now' = n BY <1>9 DEF Moves
<1> QED BY <1>6, <1>9, <1>10

LEMMA DecideLeads ==
  ASSUME NEW u \in All, NEW v \in All, NEW t, IsList(t), Good(Now, All),
         IsWrap(Now, u), IsWrap(Now, v), Valid(Now, u) => Valid(Now, v),
         todo = Then(Step("move", u, v), t), Doer
  PROVE  StepsOn /\ Now' = Now /\ Relocating(Now', todo', u, v, t)
<1>1. u \in Slots /\ v \in Slots /\ Proper(Now) BY AllIs, GoodIs
<1>2. Now' = Now /\ Decided(Now, todo', u, v, t) /\ StepsOn BY <1>1, DecideStep DEF StepsOn
<1>3. CASE Invalid(Now, u) /\ todo' = Then(Step("init", u, v), t)
  <2>1. ~ Valid(Now, u) BY <1>3, KindsIs
  <2>2. Good(Now, But(u)) BY <2>1, AllIs, DropIdle DEF But
  <2> QED BY <1>2, <1>3, <2>2 DEF Relocating
<1>4. CASE /\ Differ(Now, u, v)
           /\ todo' = Then(Step("destroy", u, u), Then(Step("init", u, v), t))
  BY <1>2, <1>4 DEF Relocating, Differ
<1>5. CASE ~ Invalid(Now, u) /\ ~ Differ(Now, u, v) /\ todo' = Then(Step("transfer", u, v), t)
  BY <1>2, <1>5, KindsIs DEF Relocating, Differ
<1> QED BY <1>2, <1>3, <1>4, <1>5 DEF Decided

LEMMA Relocates ==
  ASSUME Movable, NEW u \in All, NEW v \in All, u # v, NEW t, IsList(t),
         Relocating(Now, todo, u, v, t), Doer
  PROVE  \/ StepsOn /\ Relocating(Now', todo', u, v, t) /\ Keeps(Now', Now, But(u))
         \/ Moves(Now', t) /\ (t # <<>> => goal' = goal) /\ Relocated(Now', Now, u, v)
<1>1. CASE /\ Good(Now, All) /\ IsWrap(Now, u) /\ (Valid(Now, u) => Valid(Now, v))
           /\ todo = Then(Step("move", u, v), t)
  <2>1. StepsOn /\ Now' = Now /\ Relocating(Now', todo', u, v, t)
    BY <1>1, DecideLeads DEF Relocating
  <2>2. Keeps(Now, Now, But(u)) BY DEF Keeps, SameSeen
  <2> QED BY <2>1, <2>2
<1>2. CASE /\ Good(Now, All) /\ Valid(Now, u)
           /\ todo = Then(Step("destroy", u, u), Then(Step("init", u, v), t))
  <2>1. PICK i : i = Then(Step("init", u, v), t) OBVIOUS
  <2>2. IsList(i) /\ i # <<>> BY <2>1, ThenIs
  <2>3. IsWrap(Now, u) BY <1>2, KindsIs
  <2>4. StepsOn /\ todo' = i /\ Good(Now', But(u)) /\ Keeps(Now', Now, But(u))
    BY <1>2, <2>1, <2>2, <2>3, DestroyLeads
  <2>5. IsWrap(Now', v) BY <2>4, AllIs DEF Keeps, Relocating
  <2> QED BY <2>1, <2>4, <2>5 DEF Relocating
<1>3. CASE Good(Now, But(u)) /\ todo = Then(Step("init", u, v), t)
  BY <1>3, InitLeads DEF Relocating
<1>4. CASE /\ Good(Now, All) /\ Valid(Now, u) /\ Valid(Now, v) /\ TypeOf(Now, u) = TypeOf(Now, v)
           /\ todo = Then(Step("transfer", u, v), t)
  BY <1>4, TransferLeads
<1> QED BY <1>1, <1>2, <1>3, <1>4 DEF Relocating

----------------------------------------------------------------------------
(* One step of each call: the call goes on as it should, or it is over,    *)
(* has left every wrap in order and, unless it threw, kept its promise.    *)
Continued == todo' # <<>> /\ UnderWay(Now', todo', running', goal') /\ goal' \in [Wraps -> Contents]
Met == \A x \in Wraps : goal[x] \in {Anything, Seen(Now', x)}
Over ==
  /\ todo' = <<>> /\ running' = Idle /\ goal' = NoGoal
  /\ Resting(Now') /\ (~ call'.threw => Met)
Advances == TempGone(Now') /\ (Regular => ub' = ub) /\ (Continued \/ Over)

LEMMA CarriesOn ==
  ASSUME TempGone(Now), goal \in [Wraps -> Contents], StepsOn, UnderWay(Now', todo', running, goal),
         NEW W, Keeps(Now', Now, W)
  PROVE  Advances
<1>1. TempGone(Now') BY AllIs, TempStays DEF Keeps
<1> QED BY <1>1, SeenNow DEF Advances, Continued, StepsOn, Keeps

LEMMA ComesToEnd ==
  ASSUME TempGone(Now), Moves(Now', <<>>) \/ Fails(Now'), Good(Now', All), ~ IsWrap(Now', Local),
         NEW u, u = Local \/ u # Temp, \A x \in Slots \ {u} : IsWrap(Now', x) <=> IsWrap(Now, x),
         Regular => ub' = ub, Met \/ Fails(Now')
  PROVE  Advances
<1>1. TempGone(Now') BY TempStays
<1>2. todo' = <<>> /\ running' = Idle /\ goal' = NoGoal BY DEF Moves, Fails, Return
<1>3. Fails(Now') => call'.threw BY DEF Fails, Return, Returned
<1> QED BY <1>1, <1>2, <1>3 DEF Advances, Over, Resting

LEMMA OwesMet ==
  ASSUME NEW w, NEW c, Owes(goal, w, c), Seen(Now', w) = c PROVE Met
BY DEF Owes, Met

LEMMA ClosingStep ==
  ASSUME TempGone(Now), goal \in [Wraps -> Contents], NEW w \in Callers,
         Closing(Now, todo, running, goal, w), Doer
  PROVE  Advances
<1>1. w \in All /\ w # Local /\ w # Temp /\ Local \in Slots BY CallersAre, AllIs
<1>2. PICK what \in {"clear", "end"} :
        /\ Removing(Now, todo, w, what) /\ Owes(goal, w, Last(what))
        /\ \/ running = Record("reset", w, Outside) /\ what = "clear"
           \/ running = Record("destroy", w, Outside) /\ what = "end"
  BY DEF Closing, Last
<1>3. CASE StepsOn /\ Removing(Now', todo', w, what) /\ Keeps(Now', Now, But(w))
  <2>1. ~ IsWrap(Now', Local) BY <1>1, <1>3 DEF Closing, Keeps
  <2>2. Closing(Now', todo', running, goal, w) BY <1>2, <1>3, <2>1 DEF Closing, Last
  <2>3. UnderWay(Now', todo', running, goal) BY <2>2 DEF UnderWay
  <2> QED BY <1>3, <2>3, CarriesOn
<1>4. CASE Moves(Now', <<>>) /\ Leaves(Now', Now, w, Last(what))
  <2>1. /\ Good(Now', All) /\ ub' = ub /\ Seen(Now', w) = Last(what)
        /\ \A x \in Slots \ {w} : IsWrap(Now', x) <=> IsWrap(Now, x)
    BY <1>4, SeenNow DEF Leaves
  <2>2. ~ IsWrap(Now', Local) BY <1>1, <2>1 DEF Closing
  <2>3. Met BY <1>2, <2>1, OwesMet
  <2> QED BY <1>1, <1>4, <2>1, <2>2, <2>3, ComesToEnd
<1> QED BY <1>1, <1>2, <1>3, <1>4, Removed

(* A value is constructed in a wrap that owns nothing.                     *)
LEMMA Makes ==
  ASSUME NEW s, NEW W \in SUBSET Slots, Good(s, W), NEW w \in Slots \ W, NEW h \in Holder,
         Wrappable(h.type), NEW p \in CtorPlaces(s, w, h.type)
  PROVE  Constructed(NewHolder(s, w, p, h), s, W, w, p, h)
<1>1. w \in Places /\ s.held[w] = Raw BY FreeStorage
<1>2. p \in Places /\ s.held[p] = Raw /\ Suits(w, p, h.type)
  BY <1>1 DEF CtorPlaces, FreeBlocks, Places, Suits
<1> QED BY <1>2, NewHolderGood

LEMMA PutsPointer ==
  ASSUME NEW n, NEW s \in State, NEW w \in Slots, NEW x, n.ptr = [s.ptr EXCEPT ![w] = x]
  PROVE  \A y \in Slots \ {w} : IsWrap(n, y) <=> IsWrap(s, y)
BY DEF State, IsWrap

LEMMA BuildLeads ==
  ASSUME TempGone(Now), NEW w \in Callers, Good(Now, But(w)), ~ IsWrap(Now, Local),
         running.op = "construct" => Good(Now, All),
         NEW t \in Types, NEW v \in Vals, NEW how, Wrappable(t),
         todo = Only(Step("build", w, Argument(t, v, how))),
         Owes(goal, w, [type |-> t, val |-> v]), Doer
  PROVE  Advances
<1>1. /\ w \in Wraps /\ w # Local /\ w # Temp /\ Local \in Slots /\ w \in Slots
      /\ w \in Slots \ But(w) /\ But(w) \in SUBSET Slots /\ But(w) \cup {w} = All
  BY CallersAre, AllIs
<1>2. Proper(Now) /\ Now \in State BY GoodIs
<1>3. PICK h : h = [type |-> t, val |-> v] OBVIOUS
<1>4. h \in Holder /\ h.type = t BY <1>3 DEF Holder
<1>5. \/ \E p \in CtorPlaces(Now, w, t) : Moves(NewHolder(Now, w, p, h), <<>>)
      \/ Fails(IF running.op = "construct" THEN Now ELSE SetPtr(Now, w, Null))
  BY <1>1, <1>2, <1>3, BuildStep
<1>6. ASSUME NEW p \in CtorPlaces(Now, w, t), Moves(NewHolder(Now, w, p, h), <<>>) PROVE Advances
  <2>1. PICK n : n = NewHolder(Now, w, p, h) OBVIOUS
  <2>2. Constructed(n, Now, But(w), w, p, h) BY <1>1, <1>4, <2>1, Makes
  <2>3. Now' = n /\ Moves(Now', <<>>) BY <1>6, <2>1 DEF Moves
  <2>4. Good(Now', All) /\ Now'.ub = Now.ub /\ Now'.ptr = [Now.ptr EXCEPT ![w] = p] /\ Seen(Now', w) = h
    BY <1>1, <2>2, <2>3 DEF Constructed
  <2>5. \A y \in Slots \ {w} : IsWrap(Now', y) <=> IsWrap(Now, y) BY <1>1, <1>2, <2>4, PutsPointer
  <2>6. ~ IsWrap(Now', Local) BY <1>1, <2>5
  <2>7. Met BY <1>3, <2>4, OwesMet
  <2> QED BY <1>1, <2>3, <2>4, <2>5, <2>6, <2>7, SeenNow, ComesToEnd
<1>7. CASE Fails(Now) /\ running.op = "construct"
  <2>1. Now' = Now BY <1>7 DEF Fails
  <2>2. ub' = ub BY <2>1, SeenNow
  <2> QED BY <1>1, <1>7, <2>1, <2>2, ComesToEnd
<1>8. CASE Fails(SetPtr(Now, w, Null))
  <2>1. PICK n : n = SetPtr(Now, w, Null) OBVIOUS
  <2>2. Idled(n, Now, But(w), w, Null) BY <1>1, <2>1, IdleGood
  <2>3. Now' = n /\ Fails(Now') BY <1>8, <2>1 DEF Fails
  <2>4. Good(Now', All) /\ Now'.ub = Now.ub /\ Now'.ptr = [Now.ptr EXCEPT ![w] = Null]
    BY <1>1, <2>2, <2>3 DEF Idled
  <2>5. \A y \in Slots \ {w} : IsWrap(Now', y) <=> IsWrap(Now, y) BY <1>1, <1>2, <2>4, PutsPointer
  <2>6. ~ IsWrap(Now', Local) BY <1>1, <2>5
  <2> QED BY <1>1, <2>3, <2>4, <2>5, <2>6, SeenNow, ComesToEnd
<1> QED BY <1>5, <1>6, <1>7, <1>8

LEMMA CreatingStep ==
  ASSUME TempGone(Now), NEW w \in Callers, NEW t \in Types, NEW v \in Vals, NEW how,
         Creating(Now, todo, running, goal, w, t, v, how), Doer
  PROVE  Advances
<1>1. w \in All /\ ~ Valid(Now, w) BY CallersAre, KindsIs DEF Creating
<1>2. Good(Now, But(w)) BY <1>1, AllIs, DropIdle DEF Creating, But
<1> QED BY <1>2, BuildLeads DEF Creating

LEMMA RecreatingStep ==
  ASSUME TempGone(Now), goal \in [Wraps -> Contents], NEW w \in Callers,
         NEW t \in Types, NEW v \in Vals, NEW how \in {"args", "copy", "move"},
         Recreating(Now, todo, running, goal, w, t, v, how), Doer
  PROVE  Advances
<1>1. w \in All /\ w # Local /\ Local \in Slots BY CallersAre, AllIs
<1>2. PICK b : b = Only(Step("build", w, Argument(t, v, how))) OBVIOUS
<1>3. CASE Good(Now, All) /\ IsWrap(Now, w) /\ todo = Then(Step("destroy", w, w), b)
  <2>1. IsList(b) /\ b # <<>> BY <1>2, OnlyIs
  <2>2. StepsOn /\ todo' = b /\ Good(Now', But(w)) /\ Keeps(Now', Now, But(w))
    BY <1>1, <1>3, <2>1, DestroyLeads
  <2>3. ~ IsWrap(Now', Local) BY <1>1, <2>2 DEF Recreating, Keeps
  <2>4. Recreating(Now', todo', running, goal, w, t, v, how)
    BY <1>2, <2>2, <2>3 DEF Recreating
  <2>5. UnderWay(Now', todo', running, goal) BY <2>4 DEF UnderWay
  <2> QED BY <2>2, <2>5, CarriesOn
<1>4. CASE Good(Now, But(w)) /\ todo = b
  <2>1. running.op # "construct" BY DEF Recreating, Record
  <2> QED BY <1>2, <1>4, <2>1, BuildLeads DEF Recreating
<1> QED BY <1>2, <1>3, <1>4 DEF Recreating

(* Assigning to the value of w, after a member of the value was run.       *)
LEMMA Overwrites ==
  ASSUME TempGone(Now), Good(Now, All), ~ IsWrap(Now, Local), NEW w \in Callers, Valid(Now, w),
         NEW b \in SUBSET Blames, Regular => b = {}, NEW x \in Vals \cup {Hollow},
         LET n == SetValue(Accuse(Now, b), ptr[w], x) IN
           \/ Moves(n, <<>>) /\ (Seen(n, w) = [type |-> TypeOf(Now, w), val |-> x] =>
                \A y \in Wraps : goal[y] \in {Anything, Seen(n, y)})
           \/ Fails(n)
  PROVE  Advances
<1>1. w \in All /\ All \in SUBSET Slots /\ w # Temp BY CallersAre, AllIs
<1>2. PICK r : r = Accuse(Now, b) OBVIOUS
<1>3. Good(r, All) /\ r.ptr = Now.ptr /\ r.held = Now.held /\ r.ub = Now.ub \cup b
  BY <1>1, <1>2, AccuseGood
<1>4. Valid(r, w) /\ TypeOf(r, w) = TypeOf(Now, w) /\ r.ptr[w] = ptr[w]
  BY <1>3 DEF Valid, TypeOf, HolderOf, Now
<1>5. PICK n : n = SetValue(r, r.ptr[w], x) OBVIOUS
<1>6. ValueSet(n, r, All, w, x) BY <1>1, <1>3, <1>4, <1>5, SetValueGood
<1>7. Good(n, All) /\ n.ub = Now.ub \cup b /\ n.ptr = Now.ptr
      /\ Seen(n, w) = [type |-> TypeOf(Now, w), val |-> x]
  BY <1>3, <1>4, <1>6 DEF ValueSet
<1>8. \/ Moves(n, <<>>) /\ \A y \in Wraps : goal[y] \in {Anything, Seen(n, y)}
      \/ Fails(n)
  BY <1>2, <1>4, <1>5, <1>7
<1>9. Now' = n BY <1>8 DEF Moves, Fails
<1>10. \A y \in Slots \ {w} : IsWrap(Now', y) <=> IsWrap(Now, y) BY <1>7, <1>9 DEF IsWrap
<1>11. ~ IsWrap(Now', Local) BY <1>7, <1>9 DEF IsWrap
<1>12. Regular => ub' = ub BY <1>7, <1>9, SeenNow
<1> QED BY <1>1, <1>7, <1>8, <1>9, <1>10, <1>11, <1>12, ComesToEnd DEF Met

LEMMA OverwritingStep ==
  ASSUME TempGone(Now), NEW w \in Callers, NEW t \in Types, NEW v \in Vals,
         NEW how \in {"args", "copy", "move"},
         Overwriting(Now, todo, running, goal, w, t, v, how), Doer
  PROVE  Advances
<1>1. /\ Good(Now, All) /\ ~ IsWrap(Now, Local) /\ Valid(Now, w) /\ TypeOf(Now, w) = t
      /\ how # "args" /\ Constructible(t, how)
      /\ todo = Only(Step("set", w, Argument(t, v, how))) /\ Owes(goal, w, [type |-> t, val |-> v])
  BY DEF Overwriting
<1>2. w \in Wraps /\ w \in All /\ All \in SUBSET Slots BY CallersAre, AllIs
<1>3. PICK b : b = Run(Now, ptr[w], IF how = "copy" THEN "copy assign" ELSE "move assign") OBVIOUS
<1>4. b \in SUBSET Blames BY <1>3, RunIsBlame
<1>5. Regular => b = {}
  <2> SUFFICES ASSUME Regular PROVE b = {} OBVIOUS
  <2>1. PICK m : m = IF how = "copy" THEN "copy assign" ELSE "move assign" OBVIOUS
  <2>2. Wrappable(t) BY <1>1, <1>2, SeenKinds
  <2>3. m \in Can[TypeOf(Now, w)] BY <1>1, <2>1, <2>2 DEF Regular, Constructible
  <2>4. Run(Now, Now.ptr[w], m) = {} BY <1>1, <1>2, <2>3, RunBlameless
  <2> QED BY <1>3, <2>1, <2>4 DEF Now
<1>6. Proper(Now) BY <1>1, GoodIs
<1>7. PICK threw \in BOOLEAN :
        LET n == SetValue(Accuse(Now, b), ptr[w], IF threw THEN Hollow ELSE v)
        IN  IF threw THEN Fails(n) ELSE Moves(n, <<>>)
  BY <1>1, <1>2, <1>3, <1>6, SetStep
<1>8. PICK x \in Vals \cup {Hollow} :
        LET n == SetValue(Accuse(Now, b), ptr[w], x)
        IN  Fails(n) \/ (Moves(n, <<>>) /\ x = v)
  BY <1>7
<1>9. PICK n : n = SetValue(Accuse(Now, b), ptr[w], x) OBVIOUS
<1>10. Fails(n) \/ (Moves(n, <<>>) /\ x = v) BY <1>8, <1>9
<1>11. Seen(n, w) = [type |-> t, val |-> v] => \A y \in Wraps : goal[y] \in {Anything, Seen(n, y)}
  BY <1>1 DEF Owes
<1>12. \/ Moves(n, <<>>) /\ (Seen(n, w) = [type |-> TypeOf(Now, w), val |-> x] =>
             \A y \in Wraps : goal[y] \in {Anything, Seen(n, y)})
       \/ Fails(n)
  BY <1>1, <1>10, <1>11
<1> QED BY <1>1, <1>4, <1>5, <1>9, <1>12, Overwrites

LEMMA CopyingValueStep ==
  ASSUME TempGone(Now), NEW w \in Callers, NEW o \in Callers,
         CopyingValue(Now, todo, running, goal, w, o), Doer
  PROVE  Advances
<1>1. /\ Copyable /\ Good(Now, All) /\ ~ IsWrap(Now, Local) /\ Valid(Now, w) /\ Valid(Now, o)
      /\ TypeOf(Now, w) = TypeOf(Now, o) /\ todo = Only(Step("copy value", w, o)) /\ Silent(goal)
  BY DEF CopyingValue
<1>2. w \in Wraps /\ o \in Wraps /\ w \in All /\ o \in All /\ All \in SUBSET Slots
  BY CallersAre, AllIs
<1>3. Proper(Now) /\ Now \in State BY <1>1, GoodIs
<1>4. AssertSameStorage(Now, w, o) = {} BY <1>1, <1>2, SameStorage
<1>5. Run(Now, ptr[o], "copy assign") = {}
  <2>1. Wrappable(TypeOf(Now, o)) BY <1>1, <1>2, SeenKinds
  <2>2. "copy assign" \in Can[TypeOf(Now, o)] BY <1>1, <2>1 DEF Wrappable, CopyableType, Members
  <2>3. Run(Now, Now.ptr[o], "copy assign") = {} BY <1>1, <1>2, <2>2, RunBlameless
  <2> QED BY <2>3 DEF Now
<1>6. Accuse(Now, {}) = Now BY <1>3, NotAccused
<1>7. HolderOf(Now, o).val \in Vals \cup {Hollow} BY <1>1, <1>2, SameContent
<1>8. PICK threw \in BOOLEAN :
        LET n == SetValue(Now, ptr[w], IF threw THEN Hollow ELSE HolderOf(Now, o).val)
        IN  IF threw THEN Fails(n) ELSE Moves(n, <<>>)
  BY <1>1, <1>2, <1>3, <1>4, <1>5, <1>6, CopyValueStep
<1>9. PICK x \in Vals \cup {Hollow} :
        LET n == SetValue(Accuse(Now, {}), ptr[w], x) IN Fails(n) \/ Moves(n, <<>>)
  BY <1>6, <1>7, <1>8
<1>10. \A n : \A y \in Wraps : goal[y] \in {Anything, Seen(n, y)} BY <1>1 DEF Silent
<1>11. {} \in SUBSET Blames OBVIOUS
<1> QED BY <1>1, <1>9, <1>10, <1>11, Overwrites

(* A copy is made in a wrap that does not exist.                           *)
LEMMA Copies ==
  ASSUME Copyable, Good(Now, All), NEW w \in All, NEW o \in All, ~ IsWrap(Now, w), Valid(Now, o),
         NEW p \in CopyPlaces(Now, w, o)
  PROVE  LET n == CopyInit(Now, w, o, p) IN
         /\ Good(n, All) /\ n.ub = Now.ub /\ Seen(n, w) = Seen(Now, o)
         /\ Seen(Now, o) = HolderOf(Now, o) /\ HolderOf(Now, o) \in Holder
         /\ \A y \in Slots \ {w} : IsWrap(n, y) <=> IsWrap(Now, y)
<1>1. /\ w \in Slots \ But(w) /\ But(w) \in SUBSET Slots /\ But(w) \cup {w} = All /\ w \in Slots
      /\ All \in SUBSET Slots
  BY AllIs
<1>2. ~ Valid(Now, w) /\ w # o BY KindsIs
<1>3. Good(Now, But(w)) /\ o \in But(w) BY <1>1, <1>2, DropIdle, AllIs DEF But
<1>4. PICK n, h : n = CopyInit(Now, w, o, p) /\ h = HolderOf(Now, o) OBVIOUS
<1>5. Constructed(n, Now, But(w), w, p, h) BY <1>1, <1>3, <1>4, CopyInitGood
<1>6. Seen(Now, o) = h /\ h \in Holder BY <1>1, <1>4, SeenKinds
<1>7. Good(n, All) /\ n.ub = Now.ub /\ n.ptr = [Now.ptr EXCEPT ![w] = p] /\ Seen(n, w) = h
  BY <1>1, <1>5 DEF Constructed
<1>8. Now \in State BY GoodIs
<1>9. \A y \in Slots \ {w} : IsWrap(n, y) <=> IsWrap(Now, y) BY <1>1, <1>7, <1>8, PutsPointer
<1> QED BY <1>4, <1>6, <1>7, <1>9

LEMMA CloningStep ==
  ASSUME TempGone(Now), NEW w \in Callers, NEW o \in Callers,
         Cloning(Now, todo, running, goal, w, o), Doer
  PROVE  Advances
<1>1. /\ Copyable /\ Good(Now, All) /\ ~ IsWrap(Now, Local) /\ ~ IsWrap(Now, w) /\ Valid(Now, o)
      /\ todo = Then(Step("clone", w, o), <<>>) /\ Owes(goal, w, Seen(Now, o))
  BY DEF Cloning, Only
<1>2. w \in All /\ o \in All /\ w \in Slots /\ o \in Slots /\ w # Local /\ w # Temp /\ Local \in Slots
  BY CallersAre, AllIs
<1>3. Proper(Now) BY <1>1, GoodIs
<1>4. \/ \E p \in CopyPlaces(Now, w, o) : Moves(CopyInit(Now, w, o, p), <<>>)
      \/ Fails(Now)
  BY <1>1, <1>2, <1>3, ThenNothing, CloneStep
<1>5. ASSUME NEW p \in CopyPlaces(Now, w, o), Moves(CopyInit(Now, w, o, p), <<>>) PROVE Advances
  <2>1. PICK n : n = CopyInit(Now, w, o, p) OBVIOUS
  <2>2. /\ Good(n, All) /\ n.ub = Now.ub /\ Seen(n, w) = Seen(Now, o)
        /\ \A y \in Slots \ {w} : IsWrap(n, y) <=> IsWrap(Now, y)
    BY <1>1, <1>2, <2>1, Copies
  <2>3. Now' = n /\ Moves(Now', <<>>) BY <1>5, <2>1 DEF Moves
  <2>4. Met BY <1>1, <2>2, <2>3, OwesMet
  <2>5. ~ IsWrap(Now', Local) BY <1>1, <1>2, <2>2, <2>3
  <2> QED BY <1>2, <2>2, <2>3, <2>4, <2>5, SeenNow, ComesToEnd
<1>6. CASE Fails(Now)
  <2>1. Now' = Now BY <1>6 DEF Fails
  <2>2. ub' = ub BY <2>1, SeenNow
  <2> QED BY <1>1, <1>2, <1>6, <2>1, <2>2, ComesToEnd
<1> QED BY <1>4, <1>5, <1>6

LEMMA TakingStep ==
  ASSUME TempGone(Now), NEW w \in Callers, NEW o \in Callers,
         Taking(Now, todo, running, goal, w, o), Doer
  PROVE  Advances
<1>1. /\ Movable /\ w # o /\ ~ IsWrap(Now, Local) /\ Good(Now, But(w)) /\ IsWrap(Now, o)
      /\ todo = Then(Step("init", w, o), <<>>) /\ Owes(goal, w, Seen(Now, o))
  BY DEF Taking, Only
<1>2. w \in All /\ o \in All /\ w # Local /\ w # Temp /\ Local \in Slots BY CallersAre, AllIs
<1>3. Moves(Now', <<>>) /\ Relocated(Now', Now, w, o) BY <1>1, <1>2, ThenNothing, InitLeads
<1>4. /\ Good(Now', All) /\ ub' = ub /\ Seen(Now', w) = Seen(Now, o)
      /\ \A x \in Slots \ {w} : IsWrap(Now', x) <=> IsWrap(Now, x)
  BY <1>3, SeenNow DEF Relocated
<1>5. Met BY <1>1, <1>4, OwesMet
<1>6. ~ IsWrap(Now', Local) BY <1>1, <1>2, <1>4
<1> QED BY <1>2, <1>3, <1>4, <1>5, <1>6, ComesToEnd

LEMMA TransferringStep ==
  ASSUME TempGone(Now), goal \in [Wraps -> Contents], NEW w \in Callers, NEW o \in Callers,
         Transferring(Now, todo, running, goal, w, o), Doer
  PROVE  Advances
<1>1. Movable /\ w # o /\ ~ IsWrap(Now, Local) /\ Relocating(Now, todo, w, o, <<>>) /\ Silent(goal)
  BY DEF Transferring
<1>2. w \in All /\ o \in All /\ w # Local /\ w # Temp /\ Local \in Slots BY CallersAre, AllIs
<1>3. CASE StepsOn /\ Relocating(Now', todo', w, o, <<>>) /\ Keeps(Now', Now, But(w))
  <2>1. ~ IsWrap(Now', Local) BY <1>1, <1>2, <1>3 DEF Keeps
  <2>2. Transferring(Now', todo', running, goal, w, o) BY <1>3, <2>1 DEF Transferring
  <2>3. UnderWay(Now', todo', running, goal) BY <2>2 DEF UnderWay
  <2> QED BY <1>3, <2>3, CarriesOn
<1>4. CASE Moves(Now', <<>>) /\ Relocated(Now', Now, w, o)
  <2>1. /\ Good(Now', All) /\ ub' = ub
        /\ \A x \in Slots \ {w} : IsWrap(Now', x) <=> IsWrap(Now, x)
    BY <1>4, SeenNow DEF Relocated
  <2>2. ~ IsWrap(Now', Local) BY <1>1, <1>2, <2>1
  <2>3. Met BY <1>1 DEF Silent, Met
  <2> QED BY <1>2, <1>4, <2>1, <2>2, <2>3, ComesToEnd
<1> QED BY <1>1, <1>2, <1>3, <1>4, ThenNothing, Relocates

LEMMA TradingStep ==
  ASSUME TempGone(Now), NEW w \in Callers, NEW o \in Callers,
         Trading(Now, todo, running, goal, w, o), Doer
  PROVE  Advances
<1>1. /\ Swappable /\ w # o /\ Good(Now, All) /\ ~ IsWrap(Now, Local) /\ Valid(Now, w) /\ Valid(Now, o)
      /\ TypeOf(Now, w) = TypeOf(Now, o) /\ todo = Then(Step("exchange", w, o), <<>>)
      /\ OwesBoth(goal, w, Seen(Now, o), o, Seen(Now, w))
  BY DEF Trading, Only
<1>2. w \in All /\ o \in All /\ w # Temp /\ Local \in Slots /\ All \in SUBSET Slots BY CallersAre, AllIs
<1>3. PICK n : n = SwapSameType(Now, w, o) OBVIOUS
<1>4. ContentsSwapped(n, Now, All, w, o) BY <1>1, <1>2, <1>3, SwapSameTypeGood
<1>5. /\ Good(n, All) /\ n.ub = Now.ub /\ (\A u \in Slots : IsWrap(n, u) <=> IsWrap(Now, u))
      /\ Seen(n, w) = Seen(Now, o) /\ Seen(n, o) = Seen(Now, w)
  BY <1>4 DEF ContentsSwapped
<1>6. Proper(n) BY <1>5, GoodIs
<1>7. Effect(Now, Step("exchange", w, o)) = n BY <1>3, EffectIs
<1>8. Moves(n, <<>>) BY <1>1, <1>6, <1>7, ThenNothing, EffectStep DEF Effects
<1>9. Now' = n /\ Moves(Now', <<>>) BY <1>8 DEF Moves
<1>10. Met BY <1>1, <1>5, <1>9 DEF OwesBoth, Met
<1>11. ~ IsWrap(Now', Local) BY <1>1, <1>2, <1>5, <1>9
<1> QED BY <1>2, <1>5, <1>9, <1>10, <1>11, SeenNow, ComesToEnd

(* The calls that use the local wrap.                                      *)
LEMMA GoesFurther ==
  ASSUME TempGone(Now), NEW u, u = Local \/ u # Temp,
         \A x \in Slots \ {u} : IsWrap(Now', x) <=> IsWrap(Now, x),
         Now'.ub = Now.ub, todo' # <<>>, UnderWay(Now', todo', running', goal'),
         goal' \in [Wraps -> Contents]
  PROVE  Advances
<1>1. TempGone(Now') BY TempStays
<1> QED BY <1>1, SeenNow DEF Advances, Continued

LEMMA OwnerKinds ==
  ASSUME NEW n, NEW u \in All, Good(n, All) \/ Good(n, But(u)), NEW x \in All, x # u
  PROVE  /\ Seen(n, x) \in Holder <=> Valid(n, x)
         /\ Seen(n, x) = NoWrap <=> ~ IsWrap(n, x)
<1>1. x \in But(u) /\ But(u) \in SUBSET Slots /\ All \in SUBSET Slots BY AllIs
<1> QED BY <1>1, SeenKinds

LEMMA RelocatingGood ==
  ASSUME NEW n, NEW q, NEW u, NEW v, NEW t, Relocating(n, q, u, v, t)
  PROVE  (Good(n, All) \/ Good(n, But(u))) /\ IsWrap(n, v)
BY DEF Relocating

(* The local wrap was destroyed and w shows what it should.                *)
LEMMA LocalGone ==
  ASSUME TempGone(Now), Moves(Now', <<>>), Leaves(Now', Now, Local, NoWrap),
         \A n : SameSeen(n, Now, But(Local)) => \A x \in Wraps : goal[x] \in {Anything, Seen(n, x)}
  PROVE  Advances
<1>1. /\ Good(Now', All) /\ ub' = ub /\ Seen(Now', Local) = NoWrap /\ SameSeen(Now', Now, But(Local))
      /\ \A x \in Slots \ {Local} : IsWrap(Now', x) <=> IsWrap(Now, x)
  BY SeenNow DEF Leaves
<1>2. ~ IsWrap(Now', Local) BY <1>1, AllIs, SeenKinds
<1>3. PICK n : n = Now' OBVIOUS
<1>4. Met BY <1>1, <1>3 DEF Met
<1> QED BY <1>1, <1>2, <1>4, ComesToEnd

LEMMA CopyingOverClones ==
  ASSUME TempGone(Now), goal \in [Wraps -> Contents], NEW w \in Callers, NEW o \in Callers,
         Copyable, w # o, running = Record("copy assign", w, o),
         Good(Now, All), ~ IsWrap(Now, Local), IsWrap(Now, w), Valid(Now, o), Silent(goal),
         todo = Then(Step("clone", Local, o), Then(Step("move", w, Local), Leave)), Doer
  PROVE  Advances
<1>1. /\ w \in Wraps /\ w \in All /\ o \in All /\ o \in Slots /\ w \in Slots /\ w # Local /\ Local \in Slots
      /\ Local \in All /\ w # Temp
  BY CallersAre, AllIs
<1>2. Proper(Now) BY GoodIs
<1>3. PICK t : t = Then(Step("move", w, Local), Leave) OBVIOUS
<1>4. IsList(t) /\ t # <<>> BY <1>3, LeaveIs, ThenIs
<1>5. running.dst = w BY DEF Record
<1>6. \/ /\ \E p \in CopyPlaces(Now, Local, o) : Moves(CopyInit(Now, Local, o, p), t)
         /\ goal' = [goal EXCEPT ![w] = HolderOf(Now, o)]
      \/ Fails(Now)
  BY <1>1, <1>2, <1>3, <1>4, <1>5, CloneStep
<1>7. ASSUME NEW p \in CopyPlaces(Now, Local, o), Moves(CopyInit(Now, Local, o, p), t),
             goal' = [goal EXCEPT ![w] = HolderOf(Now, o)]
      PROVE  Advances
  <2>1. PICK n : n = CopyInit(Now, Local, o, p) OBVIOUS
  <2>2. /\ Good(n, All) /\ n.ub = Now.ub /\ Seen(n, Local) = Seen(Now, o)
        /\ Seen(Now, o) = HolderOf(Now, o) /\ HolderOf(Now, o) \in Holder
        /\ \A y \in Slots \ {Local} : IsWrap(n, y) <=> IsWrap(Now, y)
    BY <1>1, <2>1, Copies
  <2>3. Now' = n /\ todo' = t /\ running' = running BY <1>4, <1>7, <2>1 DEF Moves
  <2>4. Valid(n, Local) /\ IsWrap(n, Local) /\ IsWrap(n, w)
    BY <1>1, <2>2, AllIs, SeenKinds, KindsIs
  <2>5. Relocating(n, t, w, Local, Leave) BY <1>3, <2>2, <2>4 DEF Relocating
  <2>6. Owes(goal', w, Seen(n, Local)) BY <1>1, <1>7, <2>2 DEF Owes, Silent
  <2>7. CopyingOver(n, t, running, goal', w, o) BY <2>5, <2>6 DEF CopyingOver
  <2>8. UnderWay(Now', todo', running', goal') BY <2>3, <2>7 DEF UnderWay
  <2>9. goal' \in [Wraps -> Contents] BY <1>7, <2>2 DEF Contents
  <2> QED BY <1>1, <1>4, <2>2, <2>3, <2>8, <2>9, GoesFurther
<1>8. CASE Fails(Now)
  <2>1. Now' = Now BY <1>8 DEF Fails
  <2>2. ub' = ub BY <2>1, SeenNow
  <2> QED BY <1>1, <1>8, <2>1, <2>2, ComesToEnd
<1> QED BY <1>6, <1>7, <1>8

(* The local wrap is moved into one of the program's.                      *)
LEMMA LocalRelocates ==
  ASSUME Movable, NEW w \in Callers, Relocating(Now, todo, w, Local, Leave), Doer
  PROVE  \/ StepsOn /\ Relocating(Now', todo', w, Local, Leave) /\ Keeps(Now', Now, But(w))
         \/ Moves(Now', Leave) /\ goal' = goal /\ Relocated(Now', Now, w, Local)
<1>1. w \in All /\ Local \in All /\ w # Local BY CallersAre, AllIs
<1>2. IsList(Leave) /\ Leave # <<>> BY LeaveIs
<1> QED BY <1>1, <1>2, Relocates

LEMMA CopyingOverStep ==
  ASSUME TempGone(Now), goal \in [Wraps -> Contents], NEW w \in Callers, NEW o \in Callers,
         CopyingOver(Now, todo, running, goal, w, o), Doer
  PROVE  Advances
<1>1. w \in Wraps /\ w \in All /\ w # Local /\ Local \in All /\ w # Temp /\ w \in Slots /\ Local \in Slots
  BY CallersAre, AllIs
<1>2. Copyable /\ Movable /\ w # o /\ running = Record("copy assign", w, o)
  BY ConstantsOK DEF CopyingOver, ConstantsOK, ValidConfig
<1>3. Local \in But(w) /\ w \in But(Local) BY <1>1, AllIs
<1>4. ASSUME NEW q, q = todo', UNCHANGED <<running, goal>>,
             \/ Relocating(Now', q, w, Local, Leave) /\ Owes(goal, w, Seen(Now', Local))
             \/ Removing(Now', q, Local, "end") /\ Owes(goal, w, Seen(Now', w))
      PROVE  UnderWay(Now', todo', running', goal')
  <2>1. CopyingOver(Now', todo', running', goal', w, o) BY <1>2, <1>4 DEF CopyingOver
  <2> QED BY <2>1 DEF UnderWay
<1>5. CASE Relocating(Now, todo, w, Local, Leave) /\ Owes(goal, w, Seen(Now, Local))
  <2>1. CASE StepsOn /\ Relocating(Now', todo', w, Local, Leave) /\ Keeps(Now', Now, But(w))
    <3>1. Seen(Now', Local) = Seen(Now, Local) BY <1>3, <2>1 DEF Keeps, SameSeen
    <3>2. UnderWay(Now', todo', running, goal) BY <1>4, <1>5, <2>1, <3>1 DEF StepsOn
    <3> QED BY <2>1, <3>2, CarriesOn
  <2>2. CASE Moves(Now', Leave) /\ goal' = goal /\ Relocated(Now', Now, w, Local)
    <3>1. /\ Good(Now', All) /\ Now'.ub = Now.ub /\ Seen(Now', w) = Seen(Now, Local)
          /\ \A x \in Slots \ {w} : IsWrap(Now', x) <=> IsWrap(Now, x)
      BY <2>2 DEF Relocated
    <3>2. IsWrap(Now', Local) BY <1>1, <1>5, <3>1, RelocatingGood
    <3>3. todo' = Leave /\ todo' # <<>> /\ running' = running BY <2>2, LeaveIs DEF Moves
    <3>4. Removing(Now', todo', Local, "end") BY <3>1, <3>2, <3>3 DEF Removing, Leave
    <3>5. UnderWay(Now', todo', running', goal') BY <1>4, <1>5, <2>2, <3>1, <3>3, <3>4
    <3> QED BY <1>1, <2>2, <3>1, <3>3, <3>5, GoesFurther
  <2> QED BY <1>2, <1>5, <2>1, <2>2, LocalRelocates
<1>6. CASE Removing(Now, todo, Local, "end") /\ Owes(goal, w, Seen(Now, w))
  <2>1. CASE StepsOn /\ Removing(Now', todo', Local, "end") /\ Keeps(Now', Now, But(Local))
    <3>1. Seen(Now', w) = Seen(Now, w) BY <1>3, <2>1 DEF Keeps, SameSeen
    <3>2. UnderWay(Now', todo', running, goal) BY <1>4, <1>6, <2>1, <3>1 DEF StepsOn
    <3> QED BY <2>1, <3>2, CarriesOn
  <2>2. CASE Moves(Now', <<>>) /\ Leaves(Now', Now, Local, NoWrap)
    <3>1. \A n : SameSeen(n, Now, But(Local)) => \A x \in Wraps : goal[x] \in {Anything, Seen(n, x)}
      BY <1>3, <1>6 DEF SameSeen, Owes
    <3> QED BY <2>2, <3>1, LocalGone
  <2> QED BY <1>1, <1>6, <2>1, <2>2, Removed DEF Last
<1>7. CASE /\ Good(Now, All) /\ ~ IsWrap(Now, Local) /\ IsWrap(Now, w) /\ Valid(Now, o) /\ Silent(goal)
           /\ todo = Then(Step("clone", Local, o), Then(Step("move", w, Local), Leave))
  BY <1>2, <1>7, CopyingOverClones
<1> QED BY <1>5, <1>6, <1>7 DEF CopyingOver

LEMMA RotatingStep ==
  ASSUME TempGone(Now), goal \in [Wraps -> Contents], NEW w \in Callers, NEW o \in Callers,
         Rotating(Now, todo, running, goal, w, o), Doer
  PROVE  Advances
<1>1. /\ w \in Wraps /\ o \in Wraps /\ w \in All /\ o \in All /\ Local \in All /\ w # Local /\ o # Local
      /\ w # Temp /\ o # Temp /\ w \in Slots /\ o \in Slots /\ Local \in Slots
  BY CallersAre, AllIs
<1>2. Movable /\ w # o /\ running = Record("swap", w, o) BY DEF Rotating
<1>3. /\ o \in But(w) /\ Local \in But(w) /\ w \in But(o) /\ Local \in But(o)
      /\ w \in But(Local) /\ o \in But(Local)
  BY <1>1, <1>2, AllIs
<1>4. ASSUME NEW q, q = todo', UNCHANGED <<running, goal>>,
             \/ /\ Relocating(Now', q, w, o, Back(o)) /\ Valid(Now', Local)
                /\ OwesBoth(goal, w, Seen(Now', o), o, Seen(Now', Local))
             \/ Relocating(Now', q, o, Local, Leave)
                /\ OwesBoth(goal, w, Seen(Now', w), o, Seen(Now', Local))
             \/ Removing(Now', q, Local, "end")
                /\ OwesBoth(goal, w, Seen(Now', w), o, Seen(Now', o))
      PROVE  UnderWay(Now', todo', running', goal')
  <2>1. Rotating(Now', todo', running', goal', w, o) BY <1>2, <1>4 DEF Rotating
  <2> QED BY <2>1 DEF UnderWay
<1>5. CASE /\ Good(Now, But(Local)) /\ Valid(Now, w) /\ Valid(Now, o)
           /\ todo = Then(Step("init", Local, w), Then(Step("move", w, o), Back(o)))
           /\ OwesBoth(goal, w, Seen(Now, o), o, Seen(Now, w))
  <2>1. PICK t : t = Then(Step("move", w, o), Back(o)) OBVIOUS
  <2>2. IsList(t) /\ t # <<>> BY <2>1, BackIs, ThenIs
  <2>3. IsWrap(Now, w) /\ IsWrap(Now, o) BY <1>5, KindsIs
  <2>4. Moves(Now', t) /\ goal' = goal /\ Relocated(Now', Now, Local, w)
    BY <1>1, <1>2, <1>5, <2>1, <2>2, <2>3, InitLeads
  <2>5. /\ Good(Now', All) /\ Now'.ub = Now.ub
        /\ Seen(Now', Local) = Seen(Now, w) /\ Seen(Now', o) = Seen(Now, o)
        /\ \A x \in Slots \ {Local} : IsWrap(Now', x) <=> IsWrap(Now, x)
    BY <1>1, <1>2, <2>4 DEF Relocated
  <2>6. Seen(Now, w) \in Holder /\ Seen(Now, o) \in Holder BY <1>1, <1>5, OwnerKinds
  <2>7. Valid(Now', Local) /\ Valid(Now', o) BY <1>1, <2>5, <2>6, AllIs, SeenKinds
  <2>8. IsWrap(Now', w) /\ IsWrap(Now', o) BY <1>1, <2>3, <2>5
  <2>9. todo' = t /\ running' = running BY <2>2, <2>4 DEF Moves
  <2>10. Relocating(Now', todo', w, o, Back(o)) BY <2>1, <2>5, <2>7, <2>8, <2>9 DEF Relocating
  <2>11. UnderWay(Now', todo', running', goal')
    BY <1>4, <1>5, <2>4, <2>5, <2>7, <2>9, <2>10
  <2> QED BY <2>2, <2>4, <2>5, <2>9, <2>11, GoesFurther
<1>6. CASE /\ Relocating(Now, todo, w, o, Back(o)) /\ Valid(Now, Local)
           /\ OwesBoth(goal, w, Seen(Now, o), o, Seen(Now, Local))
  <2>0. Seen(Now, Local) \in Holder BY <1>1, <1>6, RelocatingGood, OwnerKinds
  <2>1. CASE StepsOn /\ Relocating(Now', todo', w, o, Back(o)) /\ Keeps(Now', Now, But(w))
    <3>1. Seen(Now', Local) = Seen(Now, Local) /\ Seen(Now', o) = Seen(Now, o)
      BY <1>3, <2>1 DEF Keeps, SameSeen
    <3>2. Valid(Now', Local) BY <1>1, <2>0, <2>1, <3>1, RelocatingGood, OwnerKinds
    <3>3. UnderWay(Now', todo', running, goal) BY <1>4, <1>6, <2>1, <3>1, <3>2 DEF StepsOn
    <3> QED BY <2>1, <3>3, CarriesOn
  <2>2. CASE Moves(Now', Back(o)) /\ goal' = goal /\ Relocated(Now', Now, w, o)
    <3>1. /\ Good(Now', All) /\ Now'.ub = Now.ub /\ Seen(Now', w) = Seen(Now, o)
          /\ Seen(Now', Local) = Seen(Now, Local)
          /\ \A x \in Slots \ {w} : IsWrap(Now', x) <=> IsWrap(Now, x)
      BY <1>1, <2>2 DEF Relocated
    <3>2. IsWrap(Now', o) BY <1>1, <1>2, <1>6, <3>1, RelocatingGood
    <3>3. Valid(Now', Local) /\ IsWrap(Now', Local) BY <2>0, <3>1, AllIs, SeenKinds, KindsIs
    <3>4. todo' = Back(o) /\ todo' # <<>> /\ running' = running BY <2>2, BackIs DEF Moves
    <3>5. Relocating(Now', todo', o, Local, Leave) BY <3>1, <3>2, <3>3, <3>4 DEF Relocating, Back
    <3>6. UnderWay(Now', todo', running', goal') BY <1>4, <1>6, <2>2, <3>1, <3>4, <3>5
    <3> QED BY <1>1, <2>2, <3>1, <3>4, <3>6, GoesFurther
  <2>3. IsList(Back(o)) /\ Back(o) # <<>> BY BackIs
  <2>4. \/ StepsOn /\ Relocating(Now', todo', w, o, Back(o)) /\ Keeps(Now', Now, But(w))
        \/ Moves(Now', Back(o)) /\ goal' = goal /\ Relocated(Now', Now, w, o)
    BY <1>1, <1>2, <1>6, <2>3, Relocates
  <2> QED BY <2>1, <2>2, <2>4
<1>7. CASE Relocating(Now, todo, o, Local, Leave) /\ OwesBoth(goal, w, Seen(Now, w), o, Seen(Now, Local))
  <2>1. CASE StepsOn /\ Relocating(Now', todo', o, Local, Leave) /\ Keeps(Now', Now, But(o))
    <3>1. Seen(Now', Local) = Seen(Now, Local) /\ Seen(Now', w) = Seen(Now, w)
      BY <1>3, <2>1 DEF Keeps, SameSeen
    <3>2. UnderWay(Now', todo', running, goal) BY <1>4, <1>7, <2>1, <3>1 DEF StepsOn
    <3> QED BY <2>1, <3>2, CarriesOn
  <2>2. CASE Moves(Now', Leave) /\ goal' = goal /\ Relocated(Now', Now, o, Local)
    <3>1. /\ Good(Now', All) /\ Now'.ub = Now.ub /\ Seen(Now', o) = Seen(Now, Local)
          /\ Seen(Now', w) = Seen(Now, w)
          /\ \A x \in Slots \ {o} : IsWrap(Now', x) <=> IsWrap(Now, x)
      BY <1>1, <1>2, <2>2 DEF Relocated
    <3>2. IsWrap(Now', Local) BY <1>1, <1>7, <3>1, RelocatingGood
    <3>3. todo' = Leave /\ todo' # <<>> /\ running' = running BY <2>2, LeaveIs DEF Moves
    <3>4. Removing(Now', todo', Local, "end") BY <3>1, <3>2, <3>3 DEF Removing, Leave
    <3>5. UnderWay(Now', todo', running', goal') BY <1>4, <1>7, <2>2, <3>1, <3>3, <3>4
    <3> QED BY <1>1, <2>2, <3>1, <3>3, <3>5, GoesFurther
  <2> QED BY <1>2, <1>7, <2>1, <2>2, LocalRelocates
<1>8. CASE Removing(Now, todo, Local, "end") /\ OwesBoth(goal, w, Seen(Now, w), o, Seen(Now, o))
  <2>1. CASE StepsOn /\ Removing(Now', todo', Local, "end") /\ Keeps(Now', Now, But(Local))
    <3>1. Seen(Now', w) = Seen(Now, w) /\ Seen(Now', o) = Seen(Now, o)
      BY <1>3, <2>1 DEF Keeps, SameSeen
    <3>2. UnderWay(Now', todo', running, goal) BY <1>4, <1>8, <2>1, <3>1 DEF StepsOn
    <3> QED BY <2>1, <3>2, CarriesOn
  <2>2. CASE Moves(Now', <<>>) /\ Leaves(Now', Now, Local, NoWrap)
    <3>1. \A n : SameSeen(n, Now, But(Local)) => \A x \in Wraps : goal[x] \in {Anything, Seen(n, x)}
      BY <1>3, <1>8 DEF SameSeen, OwesBoth
    <3> QED BY <2>2, <3>1, LocalGone
  <2> QED BY <1>1, <1>8, <2>1, <2>2, Removed DEF Last
<1> QED BY <1>5, <1>6, <1>7, <1>8 DEF Rotating

(* Whatever the call, its next step advances it.                           *)
LEMMA DoerAdvances ==
  ASSUME TempGone(Now), goal \in [Wraps -> Contents], UnderWay(Now, todo, running, goal), Doer
  PROVE  Advances
<1>1. PICK w \in Callers :
        \/ Closing(Now, todo, running, goal, w)
        \/ \E t \in Types, v \in Vals, how \in {"args", "copy", "move"} :
             \/ Creating(Now, todo, running, goal, w, t, v, how)
             \/ Recreating(Now, todo, running, goal, w, t, v, how)
             \/ Overwriting(Now, todo, running, goal, w, t, v, how)
        \/ \E o \in Callers :
             \/ Cloning(Now, todo, running, goal, w, o) \/ Taking(Now, todo, running, goal, w, o)
             \/ Transferring(Now, todo, running, goal, w, o)
             \/ CopyingValue(Now, todo, running, goal, w, o)
             \/ CopyingOver(Now, todo, running, goal, w, o)
             \/ Trading(Now, todo, running, goal, w, o) \/ Rotating(Now, todo, running, goal, w, o)
  BY DEF UnderWay
<1> QED
  BY <1>1, ClosingStep, CreatingStep, RecreatingStep, OverwritingStep, CloningStep, TakingStep,
     TransferringStep, CopyingValueStep, CopyingOverStep, TradingStep, RotatingStep

----------------------------------------------------------------------------
(* A nested call leaves the running one where it was.                      *)
LEMMA UserCodeRuns ==
  ASSUME NestedCall, NEW what, NEW w, NEW o, NEW t, IsList(t), todo = Then(Step(what, w, o), t)
  PROVE  what \notin {"clear", "end", "move"}
<1>1. RunsUserCode(Now, todo[1]) BY DEF NestedCall
<1>2. todo[1].do = what BY HeadIs
<1> QED BY <1>1, <1>2 DEF RunsUserCode

LEMMA NestedAll ==
  ASSUME NestedCall, TempGone(Now), goal \in [Wraps -> Contents], Good(Now, All)
  PROVE  Undisturbed(All) /\ (Regular => ub' = ub)
<1>1. PICK V : V = All OBVIOUS
<1>2. V \in SUBSET All /\ \A x \in Wraps : x \in V BY <1>1, AllIs
<1>3. Undisturbed(V) /\ (Regular => ub' = ub) BY <1>1, <1>2, NestedIs
<1> QED BY <1>1, <1>3

LEMMA NestedBut ==
  ASSUME NestedCall, TempGone(Now), goal \in [Wraps -> Contents],
         NEW u \in All, Good(Now, But(u)), u \in Engaged
  PROVE  Undisturbed(But(u)) /\ (Regular => ub' = ub)
<1>1. PICK V : V = But(u) OBVIOUS
<1>2. V \in SUBSET All /\ \A x \in Wraps : x \notin V => x \in Engaged BY <1>1, AllIs
<1>3. Undisturbed(V) /\ (Regular => ub' = ub) BY <1>1, <1>2, NestedIs
<1> QED BY <1>1, <1>3

LEMMA HeadEngaged ==
  ASSUME NEW what, NEW w \in All, NEW o \in All, NEW t, IsList(t), todo = Then(Step(what, w, o), t)
  PROVE  w \in Engaged /\ o \in Engaged
<1>1. Local \in Engaged /\ (w \in Wraps => w \in Engaged) /\ (o \in Wraps => o \in Engaged)
  BY EngagedHead
<1> QED BY <1>1 DEF All

LEMMA FirstEngaged ==
  ASSUME NEW what, NEW w \in All, NEW o, NEW t, IsList(t), todo = Then(Step(what, w, o), t)
  PROVE  w \in Engaged
<1>1. Local \in Engaged /\ (w \in Wraps => w \in Engaged)
  BY EngagedHead
<1> QED BY <1>1 DEF All

LEMMA LocalStays ==
  ASSUME NEW V, Undisturbed(V), Local \in V PROVE Same(Local)
<1>1. Local \in Engaged BY DEF Engaged
<1> QED BY <1>1 DEF Undisturbed

LEMMA CallStays ==
  ASSUME NestedCall, NEW V, Undisturbed(V), Regular => ub' = ub,
         UnderWay(Now', todo, running, goal')
  PROVE  Advances
<1>1. todo' = todo /\ running' = running /\ TempGone(Now') /\ goal' \in [Wraps -> Contents]
  BY DEF Undisturbed
<1>2. todo # <<>> BY DEF NestedCall
<1> QED BY <1>1, <1>2 DEF Advances, Continued

(* What was promised still is, or user code has taken it back.             *)
LEMMA SilentStays ==
  ASSUME NEW V, Undisturbed(V), Silent(goal) PROVE Silent(goal')
BY DEF Undisturbed, Silent

LEMMA OwesStays ==
  ASSUME NEW V, Undisturbed(V), NEW w \in Wraps, NEW c, Owes(goal, w, c) PROVE Owes(goal', w, c)
BY DEF Undisturbed, Owes

LEMMA OwesOwn ==
  ASSUME NEW V, Undisturbed(V), NEW w \in Wraps, w \in V, Owes(goal, w, Seen(Now, w))
  PROVE  Owes(goal', w, Seen(Now', w))
BY DEF Undisturbed, Owes

LEMMA OwesBothStays ==
  ASSUME NEW V, Undisturbed(V), NEW w \in Wraps, NEW o \in Wraps, NEW c, NEW d, NEW e, NEW f,
         OwesBoth(goal, w, c, o, d),
         e = c \/ (w \in V /\ c = Seen(Now, w) /\ e = Seen(Now', w)),
         f = d \/ (o \in V /\ d = Seen(Now, o) /\ f = Seen(Now', o))
  PROVE  OwesBoth(goal', w, e, o, f)
<1>1. \A x \in Wraps : \/ goal'[x] = Anything
                       \/ goal'[x] = goal[x] /\ (x \in V => Seen(Now', x) = Seen(Now, x))
  BY DEF Undisturbed
<1>2. goal'[w] \in {Anything, e} BY <1>1 DEF OwesBoth
<1>3. goal'[o] \in {Anything, f} BY <1>1 DEF OwesBoth
<1>4. \A x \in Wraps \ {w, o} : goal'[x] = Anything BY <1>1 DEF OwesBoth
<1> QED BY <1>2, <1>3, <1>4 DEF OwesBoth

(* User code in the destructor of u, and in what operator=(wrap &&) runs.  *)
LEMMA RemovingStays ==
  ASSUME NestedCall, TempGone(Now), goal \in [Wraps -> Contents],
         NEW u \in All, NEW what \in {"clear", "end"}, Removing(Now, todo, u, what)
  PROVE  Removing(Now', todo, u, what) /\ Undisturbed(All) /\ (Regular => ub' = ub)
<1>1. CASE Good(Now, All) /\ IsWrap(Now, u) /\ todo = Finish(u, what)
  <2>1. PICK t : t = Only(Step(what, u, u)) OBVIOUS
  <2>2. IsList(t) /\ todo = Then(Step("destroy", u, u), t) BY <1>1, <2>1, OnlyIs DEF Finish
  <2>3. u \in Engaged BY <2>2, FirstEngaged
  <2>4. Undisturbed(All) /\ (Regular => ub' = ub) BY <1>1, NestedAll
  <2>5. Good(Now', All) /\ IsWrap(Now', u) BY <1>1, <2>3, <2>4 DEF Undisturbed, Same
  <2> QED BY <1>1, <2>4, <2>5 DEF Removing
<1>2. CASE Good(Now, But(u)) /\ todo = Only(Step(what, u, u))
  <2>1. todo = Then(Step(what, u, u), <<>>) BY <1>2 DEF Only
  <2> QED BY <2>1, ThenNothing, UserCodeRuns
<1> QED BY <1>1, <1>2 DEF Removing

LEMMA RelocatingStays ==
  ASSUME NestedCall, TempGone(Now), goal \in [Wraps -> Contents],
         NEW u \in All, NEW v \in All, u # v, v \in Needed, NEW t, IsList(t),
         Relocating(Now, todo, u, v, t)
  PROVE  /\ Relocating(Now', todo, u, v, t) /\ (Regular => ub' = ub)
         /\ running.op = "swap" => Same(v)
         /\ Undisturbed(All) \/ Undisturbed(But(u))
<1>0. v \in But(u) /\ IsWrap(Now, v) BY AllIs DEF Relocating
<1>1. CASE /\ Good(Now, All) /\ IsWrap(Now, u) /\ (Valid(Now, u) => Valid(Now, v))
           /\ todo = Then(Step("move", u, v), t)
  BY <1>1, UserCodeRuns
<1>2. CASE /\ Good(Now, All) /\ Valid(Now, u)
           /\ todo = Then(Step("destroy", u, u), Then(Step("init", u, v), t))
  <2>1. PICK i : i = Then(Step("init", u, v), t) OBVIOUS
  <2>2. IsList(i) /\ todo = Then(Step("destroy", u, u), i) BY <1>2, <2>1, ThenIs
  <2>3. u \in Engaged BY <2>2, FirstEngaged
  <2>4. Undisturbed(All) /\ (Regular => ub' = ub) BY <1>2, NestedAll
  <2>5. Good(Now', All) /\ Valid(Now', u) BY <1>2, <2>3, <2>4 DEF Undisturbed, Same
  <2>6. IsWrap(Now', v) BY <1>0, <2>4 DEF Undisturbed
  <2>7. ASSUME running.op = "swap" PROVE Same(v)
    <3>1. v \in Wraps => v \in Engaged BY <1>2, <2>7, EngagedNext
    <3>2. v \in Engaged BY <3>1 DEF All, Engaged
    <3> QED BY <2>4, <3>2 DEF Undisturbed
  <2>8. Relocating(Now', todo, u, v, t) BY <1>2, <2>5, <2>6 DEF Relocating
  <2> QED BY <2>4, <2>7, <2>8
<1>3. CASE Good(Now, But(u)) /\ todo = Then(Step("init", u, v), t)
  <2>1. u \in Engaged /\ v \in Engaged BY <1>3, HeadEngaged
  <2>2. Undisturbed(But(u)) /\ (Regular => ub' = ub) BY <1>3, <2>1, NestedBut
  <2>3. Same(v) /\ Good(Now', But(u)) BY <1>0, <2>1, <2>2 DEF Undisturbed
  <2>4. IsWrap(Now', v) BY <1>0, <2>3 DEF Same
  <2>5. Relocating(Now', todo, u, v, t) BY <1>3, <2>3, <2>4 DEF Relocating
  <2> QED BY <2>2, <2>3, <2>5
<1>4. CASE /\ Good(Now, All) /\ Valid(Now, u) /\ Valid(Now, v) /\ TypeOf(Now, u) = TypeOf(Now, v)
           /\ todo = Then(Step("transfer", u, v), t)
  <2>1. u \in Engaged /\ v \in Engaged BY <1>4, HeadEngaged
  <2>2. Undisturbed(All) /\ (Regular => ub' = ub) BY <1>4, NestedAll
  <2>3. Same(u) /\ Same(v) /\ Good(Now', All) BY <2>1, <2>2 DEF Undisturbed
  <2>4. /\ Valid(Now', u) /\ Valid(Now', v) /\ TypeOf(Now', u) = TypeOf(Now', v)
        /\ IsWrap(Now', v)
    BY <1>0, <1>4, <2>3 DEF Same
  <2>5. Relocating(Now', todo, u, v, t) BY <1>4, <2>3, <2>4 DEF Relocating
  <2> QED BY <2>2, <2>3, <2>5
<1> QED BY <1>1, <1>2, <1>3, <1>4 DEF Relocating

(* User code in each call.                                                 *)
LEMMA ClosingStays ==
  ASSUME NestedCall, TempGone(Now), goal \in [Wraps -> Contents], NEW w \in Callers,
         Closing(Now, todo, running, goal, w)
  PROVE  Advances
<1>1. w \in All /\ w \in Wraps /\ Local \in All BY CallersAre, AllIs
<1>2. PICK what \in {"clear", "end"} :
        /\ Removing(Now, todo, w, what) /\ Owes(goal, w, Last(what))
        /\ \/ running = Record("reset", w, Outside) /\ what = "clear"
           \/ running = Record("destroy", w, Outside) /\ what = "end"
  BY DEF Closing, Last
<1>3. Removing(Now', todo, w, what) /\ Undisturbed(All) /\ (Regular => ub' = ub)
  BY <1>1, <1>2, RemovingStays
<1>4. ~ IsWrap(Now', Local) BY <1>1, <1>3, LocalStays DEF Closing, Same
<1>5. Owes(goal', w, Last(what)) BY <1>1, <1>2, <1>3, OwesStays
<1>6. Closing(Now', todo, running, goal', w) BY <1>2, <1>3, <1>4, <1>5 DEF Closing, Last
<1>7. UnderWay(Now', todo, running, goal') BY <1>6 DEF UnderWay
<1> QED BY <1>3, <1>7, CallStays

LEMMA CreatingStays ==
  ASSUME NestedCall, TempGone(Now), goal \in [Wraps -> Contents], NEW w \in Callers,
         NEW t \in Types, NEW v \in Vals, NEW how \in {"args", "copy", "move"},
         Creating(Now, todo, running, goal, w, t, v, how)
  PROVE  Advances
<1>1. w \in All /\ w \in Wraps /\ Local \in All BY CallersAre, AllIs
<1>2. PICK a, c : a = Argument(t, v, how) /\ c = [type |-> t, val |-> v] OBVIOUS
<1>3. todo = Then(Step("build", w, a), <<>>) BY <1>2 DEF Creating, Only
<1>4. w \in Engaged BY <1>1, <1>3, ThenNothing, FirstEngaged
<1>5. Undisturbed(All) /\ (Regular => ub' = ub) BY NestedAll DEF Creating
<1>6. Good(Now', All) /\ ~ IsWrap(Now', Local) /\ ~ IsWrap(Now', w)
  BY <1>1, <1>4, <1>5, LocalStays DEF Creating, Same, Undisturbed
<1>7. Owes(goal', w, c) BY <1>1, <1>2, <1>5, OwesStays DEF Creating
<1>8. Creating(Now', todo, running, goal', w, t, v, how) BY <1>2, <1>6, <1>7 DEF Creating
<1>9. UnderWay(Now', todo, running, goal') BY <1>8 DEF UnderWay
<1> QED BY <1>5, <1>9, CallStays

LEMMA RecreatingStays ==
  ASSUME NestedCall, TempGone(Now), goal \in [Wraps -> Contents], NEW w \in Callers,
         NEW t \in Types, NEW v \in Vals, NEW how \in {"args", "copy", "move"},
         Recreating(Now, todo, running, goal, w, t, v, how)
  PROVE  Advances
<1>1. w \in All /\ w \in Wraps /\ Local \in All /\ Local \in But(w) BY CallersAre, AllIs
<1>2. PICK a, c : a = Argument(t, v, how) /\ c = [type |-> t, val |-> v] OBVIOUS
<1>3. CASE /\ Good(Now, All) /\ IsWrap(Now, w)
           /\ todo = Then(Step("destroy", w, w), Only(Step("build", w, a)))
  <2>1. IsList(Only(Step("build", w, a))) BY OnlyIs
  <2>2. w \in Engaged BY <1>1, <1>3, <2>1, FirstEngaged
  <2>3. Undisturbed(All) /\ (Regular => ub' = ub) BY <1>3, NestedAll
  <2>4. Good(Now', All) /\ ~ IsWrap(Now', Local) /\ IsWrap(Now', w)
    BY <1>1, <1>3, <2>2, <2>3, LocalStays DEF Recreating, Same, Undisturbed
  <2>5. Owes(goal', w, c) BY <1>1, <1>2, <2>3, OwesStays DEF Recreating
  <2>6. Recreating(Now', todo, running, goal', w, t, v, how)
    BY <1>2, <1>3, <2>4, <2>5 DEF Recreating
  <2>7. UnderWay(Now', todo, running, goal') BY <2>6 DEF UnderWay
  <2> QED BY <2>3, <2>7, CallStays
<1>4. CASE Good(Now, But(w)) /\ todo = Only(Step("build", w, a))
  <2>1. todo = Then(Step("build", w, a), <<>>) BY <1>4 DEF Only
  <2>2. w \in Engaged BY <1>1, <2>1, ThenNothing, FirstEngaged
  <2>3. Undisturbed(But(w)) /\ (Regular => ub' = ub) BY <1>1, <1>4, <2>2, NestedBut
  <2>4. Good(Now', But(w)) /\ ~ IsWrap(Now', Local)
    BY <1>1, <2>3, LocalStays DEF Recreating, Same, Undisturbed
  <2>5. Owes(goal', w, c) BY <1>1, <1>2, <2>3, OwesStays DEF Recreating
  <2>6. Recreating(Now', todo, running, goal', w, t, v, how)
    BY <1>2, <1>4, <2>4, <2>5 DEF Recreating
  <2>7. UnderWay(Now', todo, running, goal') BY <2>6 DEF UnderWay
  <2> QED BY <2>3, <2>7, CallStays
<1> QED BY <1>2, <1>3, <1>4 DEF Recreating

LEMMA OverwritingStays ==
  ASSUME NestedCall, TempGone(Now), goal \in [Wraps -> Contents], NEW w \in Callers,
         NEW t \in Types, NEW v \in Vals, NEW how \in {"args", "copy", "move"},
         Overwriting(Now, todo, running, goal, w, t, v, how)
  PROVE  Advances
<1>1. w \in All /\ w \in Wraps /\ Local \in All BY CallersAre, AllIs
<1>2. PICK a, c : a = Argument(t, v, how) /\ c = [type |-> t, val |-> v] OBVIOUS
<1>3. todo = Then(Step("set", w, a), <<>>) BY <1>2 DEF Overwriting, Only
<1>4. w \in Engaged BY <1>1, <1>3, ThenNothing, FirstEngaged
<1>5. Undisturbed(All) /\ (Regular => ub' = ub) BY NestedAll DEF Overwriting
<1>6. Good(Now', All) /\ ~ IsWrap(Now', Local) /\ Valid(Now', w) /\ TypeOf(Now', w) = t
  BY <1>1, <1>4, <1>5, LocalStays DEF Overwriting, Same, Undisturbed
<1>7. Owes(goal', w, c) BY <1>1, <1>2, <1>5, OwesStays DEF Overwriting
<1>8. Overwriting(Now', todo, running, goal', w, t, v, how) BY <1>2, <1>6, <1>7 DEF Overwriting
<1>9. UnderWay(Now', todo, running, goal') BY <1>8 DEF UnderWay
<1> QED BY <1>5, <1>9, CallStays

LEMMA CloningStays ==
  ASSUME NestedCall, TempGone(Now), goal \in [Wraps -> Contents], NEW w \in Callers, NEW o \in Callers,
         Cloning(Now, todo, running, goal, w, o)
  PROVE  Advances
<1>1. w \in All /\ w \in Wraps /\ o \in All /\ Local \in All BY CallersAre, AllIs
<1>2. todo = Then(Step("clone", w, o), <<>>) BY DEF Cloning, Only
<1>3. w \in Engaged /\ o \in Engaged BY <1>1, <1>2, ThenNothing, HeadEngaged
<1>4. Undisturbed(All) /\ (Regular => ub' = ub) BY NestedAll DEF Cloning
<1>5. /\ Good(Now', All) /\ ~ IsWrap(Now', Local) /\ ~ IsWrap(Now', w)
      /\ Valid(Now', o) /\ Seen(Now', o) = Seen(Now, o)
  BY <1>1, <1>3, <1>4, LocalStays DEF Cloning, Same, Undisturbed
<1>6. Owes(goal', w, Seen(Now, o)) BY <1>1, <1>4, OwesStays DEF Cloning
<1>7. Cloning(Now', todo, running, goal', w, o) BY <1>5, <1>6 DEF Cloning
<1>8. UnderWay(Now', todo, running, goal') BY <1>7 DEF UnderWay
<1> QED BY <1>4, <1>8, CallStays

LEMMA TakingStays ==
  ASSUME NestedCall, TempGone(Now), goal \in [Wraps -> Contents], NEW w \in Callers, NEW o \in Callers,
         Taking(Now, todo, running, goal, w, o)
  PROVE  Advances
<1>1. /\ w \in All /\ w \in Wraps /\ o \in All /\ Local \in But(w) /\ o \in But(w)
  BY CallersAre, AllIs DEF Taking
<1>2. todo = Then(Step("init", w, o), <<>>) BY DEF Taking, Only
<1>3. w \in Engaged /\ o \in Engaged BY <1>1, <1>2, ThenNothing, HeadEngaged
<1>4. Undisturbed(But(w)) /\ (Regular => ub' = ub) BY <1>1, <1>3, NestedBut DEF Taking
<1>5. /\ Good(Now', But(w)) /\ ~ IsWrap(Now', Local) /\ IsWrap(Now', o)
      /\ Seen(Now', o) = Seen(Now, o)
  BY <1>1, <1>3, <1>4, LocalStays DEF Taking, Same, Undisturbed
<1>6. Owes(goal', w, Seen(Now, o)) BY <1>1, <1>4, OwesStays DEF Taking
<1>7. Taking(Now', todo, running, goal', w, o) BY <1>5, <1>6 DEF Taking
<1>8. UnderWay(Now', todo, running, goal') BY <1>7 DEF UnderWay
<1> QED BY <1>4, <1>8, CallStays

LEMMA TransferringStays ==
  ASSUME NestedCall, TempGone(Now), goal \in [Wraps -> Contents], NEW w \in Callers, NEW o \in Callers,
         Transferring(Now, todo, running, goal, w, o)
  PROVE  Advances
<1>1. w \in All /\ o \in All /\ Local \in But(w) /\ Local \in All BY CallersAre, AllIs
<1>2. w # o /\ Relocating(Now, todo, w, o, <<>>) BY DEF Transferring
<1>3. o \in Needed
  <2>1. \/ running = Record("move assign", w, o) \/ running = Record("swap", w, o)
        \/ running = Record("swap", o, w)
    BY DEF Transferring
  <2>2. CASE running = Record("move assign", w, o)
    <3>1. running.src = o BY <2>2 DEF Record
    <3> QED BY <3>1 DEF Needed
  <2>3. CASE running = Record("swap", w, o)
    <3>1. running.src = o BY <2>3 DEF Record
    <3> QED BY <3>1 DEF Needed
  <2>4. CASE running = Record("swap", o, w)
    <3>1. running.dst = o BY <2>4 DEF Record
    <3> QED BY <3>1 DEF Needed
  <2> QED BY <2>1, <2>2, <2>3, <2>4
<1>4. /\ Relocating(Now', todo, w, o, <<>>) /\ (Regular => ub' = ub)
      /\ Undisturbed(All) \/ Undisturbed(But(w))
  BY <1>1, <1>2, <1>3, ThenNothing, RelocatingStays
<1>5. PICK V : Undisturbed(V) /\ Local \in V BY <1>1, <1>4
<1>6. ~ IsWrap(Now', Local) BY <1>5, LocalStays DEF Transferring, Same
<1>7. Silent(goal') BY <1>5, SilentStays DEF Transferring
<1>8. Transferring(Now', todo, running, goal', w, o) BY <1>4, <1>6, <1>7 DEF Transferring
<1>9. UnderWay(Now', todo, running, goal') BY <1>8 DEF UnderWay
<1> QED BY <1>4, <1>5, <1>9, CallStays

LEMMA CopyingValueStays ==
  ASSUME NestedCall, TempGone(Now), goal \in [Wraps -> Contents], NEW w \in Callers, NEW o \in Callers,
         CopyingValue(Now, todo, running, goal, w, o)
  PROVE  Advances
<1>1. w \in All /\ o \in All /\ Local \in All BY CallersAre, AllIs
<1>2. todo = Then(Step("copy value", w, o), <<>>) BY DEF CopyingValue, Only
<1>3. w \in Engaged /\ o \in Engaged BY <1>1, <1>2, ThenNothing, HeadEngaged
<1>4. Undisturbed(All) /\ (Regular => ub' = ub) BY NestedAll DEF CopyingValue
<1>5. Good(Now', All) /\ Same(w) /\ Same(o) /\ Same(Local)
  BY <1>1, <1>3, <1>4, LocalStays DEF Undisturbed
<1>6. /\ ~ IsWrap(Now', Local) /\ Valid(Now', w) /\ Valid(Now', o)
      /\ TypeOf(Now', w) = TypeOf(Now', o)
  BY <1>5 DEF CopyingValue, Same
<1>7. Silent(goal') BY <1>4, SilentStays DEF CopyingValue
<1>8. CopyingValue(Now', todo, running, goal', w, o) BY <1>5, <1>6, <1>7 DEF CopyingValue
<1>9. UnderWay(Now', todo, running, goal') BY <1>8 DEF UnderWay
<1> QED BY <1>4, <1>9, CallStays

LEMMA TradingStays ==
  ASSUME NestedCall, TempGone(Now), goal \in [Wraps -> Contents], NEW w \in Callers, NEW o \in Callers,
         Trading(Now, todo, running, goal, w, o)
  PROVE  Advances
<1>1. w \in All /\ o \in All /\ Local \in All /\ w \in Wraps /\ o \in Wraps BY CallersAre, AllIs
<1>2. todo = Then(Step("exchange", w, o), <<>>) BY DEF Trading, Only
<1>3. w \in Engaged /\ o \in Engaged BY <1>1, <1>2, ThenNothing, HeadEngaged
<1>4. Undisturbed(All) /\ (Regular => ub' = ub) BY NestedAll DEF Trading
<1>5. Good(Now', All) /\ Same(w) /\ Same(o) /\ Same(Local)
  BY <1>1, <1>3, <1>4, LocalStays DEF Undisturbed
<1>6. /\ ~ IsWrap(Now', Local) /\ Valid(Now', w) /\ Valid(Now', o)
      /\ TypeOf(Now', w) = TypeOf(Now', o)
  BY <1>5 DEF Trading, Same
<1>7. OwesBoth(goal', w, Seen(Now', o), o, Seen(Now', w))
  <2>1. Seen(Now', o) = Seen(Now, o) /\ Seen(Now', w) = Seen(Now, w) BY <1>5 DEF Same
  <2> QED BY <1>1, <1>4, <2>1, OwesBothStays DEF Trading
<1>8. Trading(Now', todo, running, goal', w, o) BY <1>5, <1>6, <1>7 DEF Trading
<1>9. UnderWay(Now', todo, running, goal') BY <1>8 DEF UnderWay
<1> QED BY <1>4, <1>9, CallStays

LEMMA CopyingOverStays ==
  ASSUME NestedCall, TempGone(Now), goal \in [Wraps -> Contents], NEW w \in Callers, NEW o \in Callers,
         CopyingOver(Now, todo, running, goal, w, o)
  PROVE  Advances
<1>1. /\ w \in All /\ o \in All /\ Local \in All /\ Local \in But(w) /\ w \in Wraps /\ w # Local
  BY CallersAre, AllIs
<1>2. Copyable /\ w # o /\ running = Record("copy assign", w, o) BY DEF CopyingOver
<1>3. w \in Needed /\ Local \in Needed BY <1>2 DEF Record, Needed
<1>4. ASSUME NEW q, q = todo, NEW V, Undisturbed(V), Regular => ub' = ub,
             \/ /\ Good(Now', All) /\ ~ IsWrap(Now', Local) /\ IsWrap(Now', w) /\ Valid(Now', o)
                /\ Silent(goal')
                /\ q = Then(Step("clone", Local, o), Then(Step("move", w, Local), Leave))
             \/ Relocating(Now', q, w, Local, Leave) /\ Owes(goal', w, Seen(Now', Local))
             \/ Removing(Now', q, Local, "end") /\ Owes(goal', w, Seen(Now', w))
      PROVE  Advances
  <2>1. CopyingOver(Now', todo, running, goal', w, o) BY <1>2, <1>4 DEF CopyingOver
  <2>2. UnderWay(Now', todo, running, goal') BY <2>1 DEF UnderWay
  <2> QED BY <1>4, <2>2, CallStays
<1>5. CASE /\ Good(Now, All) /\ ~ IsWrap(Now, Local) /\ IsWrap(Now, w) /\ Valid(Now, o) /\ Silent(goal)
           /\ todo = Then(Step("clone", Local, o), Then(Step("move", w, Local), Leave))
  <2>1. PICK t : t = Then(Step("move", w, Local), Leave) OBVIOUS
  <2>2. IsList(t) BY <2>1, LeaveIs, ThenIs
  <2>3. o \in Engaged BY <1>1, <1>5, <2>1, <2>2, HeadEngaged
  <2>4. Undisturbed(All) /\ (Regular => ub' = ub) BY <1>5, NestedAll
  <2>5. Good(Now', All) /\ Same(o) /\ Same(Local) /\ IsWrap(Now', w)
    BY <1>1, <1>3, <1>5, <2>3, <2>4, LocalStays DEF Undisturbed
  <2>6. ~ IsWrap(Now', Local) /\ Valid(Now', o) BY <1>5, <2>5 DEF Same
  <2>7. Silent(goal') BY <1>5, <2>4, SilentStays
  <2> QED BY <1>4, <1>5, <2>4, <2>5, <2>6, <2>7
<1>6. CASE Relocating(Now, todo, w, Local, Leave) /\ Owes(goal, w, Seen(Now, Local))
  <2>1. PICK t : t = Leave /\ IsList(t) BY LeaveIs
  <2>2. Relocating(Now, todo, w, Local, t) BY <1>6, <2>1
  <2>3. /\ Relocating(Now', todo, w, Local, t) /\ (Regular => ub' = ub)
        /\ Undisturbed(All) \/ Undisturbed(But(w))
    BY <1>1, <1>3, <2>1, <2>2, RelocatingStays
  <2>4. PICK V : Undisturbed(V) /\ Local \in V BY <1>1, <2>3
  <2>5. Seen(Now', Local) = Seen(Now, Local) BY <2>4, LocalStays DEF Same
  <2>6. Owes(goal', w, Seen(Now', Local)) BY <1>1, <1>6, <2>4, <2>5, OwesStays
  <2> QED BY <1>4, <2>1, <2>3, <2>4, <2>6
<1>7. CASE Removing(Now, todo, Local, "end") /\ Owes(goal, w, Seen(Now, w))
  <2>1. Removing(Now', todo, Local, "end") /\ Undisturbed(All) /\ (Regular => ub' = ub)
    BY <1>1, <1>7, RemovingStays
  <2>2. Owes(goal', w, Seen(Now', w)) BY <1>1, <1>7, <2>1, OwesOwn
  <2> QED BY <1>4, <2>1, <2>2
<1> QED BY <1>5, <1>6, <1>7 DEF CopyingOver

LEMMA RotatingStays ==
  ASSUME NestedCall, TempGone(Now), goal \in [Wraps -> Contents], NEW w \in Callers, NEW o \in Callers,
         Rotating(Now, todo, running, goal, w, o)
  PROVE  Advances
<1>1. /\ w \in All /\ o \in All /\ Local \in All /\ w \in Wraps /\ o \in Wraps
      /\ w # Local /\ o # Local
  BY CallersAre, AllIs
<1>2. Movable /\ w # o /\ running = Record("swap", w, o) BY DEF Rotating
<1>3. /\ Local \in But(w) /\ Local \in But(o) /\ w \in But(o) /\ w \in But(Local) /\ o \in But(Local)
      /\ o \in But(w)
  BY <1>1, <1>2, AllIs
<1>4. o \in Needed /\ Local \in Needed /\ running.op = "swap" BY <1>2 DEF Record, Needed
<1>5. ASSUME NEW q, q = todo, NEW V, Undisturbed(V), Regular => ub' = ub,
             \/ /\ Good(Now', But(Local)) /\ Valid(Now', w) /\ Valid(Now', o)
                /\ q = Then(Step("init", Local, w), Then(Step("move", w, o), Back(o)))
                /\ OwesBoth(goal', w, Seen(Now', o), o, Seen(Now', w))
             \/ /\ Relocating(Now', q, w, o, Back(o)) /\ Valid(Now', Local)
                /\ OwesBoth(goal', w, Seen(Now', o), o, Seen(Now', Local))
             \/ Relocating(Now', q, o, Local, Leave)
                /\ OwesBoth(goal', w, Seen(Now', w), o, Seen(Now', Local))
             \/ Removing(Now', q, Local, "end")
                /\ OwesBoth(goal', w, Seen(Now', w), o, Seen(Now', o))
      PROVE  Advances
  <2>1. Rotating(Now', todo, running, goal', w, o) BY <1>2, <1>5 DEF Rotating
  <2>2. UnderWay(Now', todo, running, goal') BY <2>1 DEF UnderWay
  <2> QED BY <1>5, <2>2, CallStays
<1>6. CASE /\ Good(Now, But(Local)) /\ Valid(Now, w) /\ Valid(Now, o)
           /\ todo = Then(Step("init", Local, w), Then(Step("move", w, o), Back(o)))
           /\ OwesBoth(goal, w, Seen(Now, o), o, Seen(Now, w))
  <2>1. PICK t : t = Then(Step("move", w, o), Back(o)) OBVIOUS
  <2>2. IsList(t) /\ IsList(Back(o)) BY <2>1, BackIs, ThenIs
  <2>3. Local \in Engaged /\ w \in Engaged BY <1>1, <1>6, <2>1, <2>2, HeadEngaged
  <2>4. PICK x, b : x = Step("init", Local, w) /\ b = Back(o) OBVIOUS
  <2>5. o \in Engaged BY <1>1, <1>4, <1>6, <2>2, <2>4, EngagedNext
  <2>6. Undisturbed(But(Local)) /\ (Regular => ub' = ub) BY <1>1, <1>6, <2>3, NestedBut
  <2>7. Good(Now', But(Local)) /\ Same(w) /\ Same(o)
    BY <1>3, <2>3, <2>5, <2>6 DEF Undisturbed
  <2>8. /\ Valid(Now', w) /\ Valid(Now', o)
        /\ Seen(Now', w) = Seen(Now, w) /\ Seen(Now', o) = Seen(Now, o)
    BY <1>6, <2>7 DEF Same
  <2>9. OwesBoth(goal', w, Seen(Now', o), o, Seen(Now', w))
    BY <1>1, <1>6, <2>6, <2>8, OwesBothStays
  <2> QED BY <1>5, <1>6, <2>6, <2>7, <2>8, <2>9
<1>7. CASE /\ Relocating(Now, todo, w, o, Back(o)) /\ Valid(Now, Local)
           /\ OwesBoth(goal, w, Seen(Now, o), o, Seen(Now, Local))
  <2>1. PICK t : t = Back(o) /\ IsList(t) BY BackIs
  <2>2. Relocating(Now, todo, w, o, t) BY <1>7, <2>1
  <2>3. /\ Relocating(Now', todo, w, o, t) /\ (Regular => ub' = ub) /\ Same(o)
        /\ Undisturbed(All) \/ Undisturbed(But(w))
    BY <1>1, <1>2, <1>4, <2>1, <2>2, RelocatingStays
  <2>4. PICK V : Undisturbed(V) /\ Local \in V BY <1>1, <1>3, <2>3
  <2>5. /\ Seen(Now', Local) = Seen(Now, Local) /\ Seen(Now', o) = Seen(Now, o)
        /\ Valid(Now', Local)
    BY <1>7, <2>3, <2>4, LocalStays DEF Same
  <2>6. OwesBoth(goal', w, Seen(Now', o), o, Seen(Now', Local))
    BY <1>1, <1>7, <2>4, <2>5, OwesBothStays
  <2> QED BY <1>5, <2>1, <2>3, <2>4, <2>5, <2>6
<1>8. CASE Relocating(Now, todo, o, Local, Leave) /\ OwesBoth(goal, w, Seen(Now, w), o, Seen(Now, Local))
  <2>1. PICK t : t = Leave /\ IsList(t) BY LeaveIs
  <2>2. Relocating(Now, todo, o, Local, t) BY <1>8, <2>1
  <2>3. /\ Relocating(Now', todo, o, Local, t) /\ (Regular => ub' = ub)
        /\ Undisturbed(All) \/ Undisturbed(But(o))
    BY <1>1, <1>4, <2>1, <2>2, RelocatingStays
  <2>4. PICK V : Undisturbed(V) /\ Local \in V /\ w \in V BY <1>1, <1>3, <2>3
  <2>5. Seen(Now', Local) = Seen(Now, Local) BY <2>4, LocalStays DEF Same
  <2>6. OwesBoth(goal', w, Seen(Now', w), o, Seen(Now', Local))
    BY <1>1, <1>8, <2>4, <2>5, OwesBothStays
  <2> QED BY <1>5, <2>1, <2>3, <2>4, <2>6
<1>9. CASE Removing(Now, todo, Local, "end") /\ OwesBoth(goal, w, Seen(Now, w), o, Seen(Now, o))
  <2>1. Removing(Now', todo, Local, "end") /\ Undisturbed(All) /\ (Regular => ub' = ub)
    BY <1>1, <1>9, RemovingStays
  <2>2. OwesBoth(goal', w, Seen(Now', w), o, Seen(Now', o)) BY <1>1, <1>9, <2>1, OwesBothStays
  <2> QED BY <1>5, <2>1, <2>2
<1> QED BY <1>6, <1>7, <1>8, <1>9 DEF Rotating

(* Whatever the call, user code does not harm it.                          *)
LEMMA NestedAdvances ==
  ASSUME TempGone(Now), goal \in [Wraps -> Contents], UnderWay(Now, todo, running, goal), NestedCall
  PROVE  Advances
<1>1. PICK w \in Callers :
        \/ Closing(Now, todo, running, goal, w)
        \/ \E t \in Types, v \in Vals, how \in {"args", "copy", "move"} :
             \/ Creating(Now, todo, running, goal, w, t, v, how)
             \/ Recreating(Now, todo, running, goal, w, t, v, how)
             \/ Overwriting(Now, todo, running, goal, w, t, v, how)
        \/ \E o \in Callers :
             \/ Cloning(Now, todo, running, goal, w, o) \/ Taking(Now, todo, running, goal, w, o)
             \/ Transferring(Now, todo, running, goal, w, o)
             \/ CopyingValue(Now, todo, running, goal, w, o)
             \/ CopyingOver(Now, todo, running, goal, w, o)
             \/ Trading(Now, todo, running, goal, w, o) \/ Rotating(Now, todo, running, goal, w, o)
  BY DEF UnderWay
<1> QED
  BY <1>1, ClosingStays, CreatingStays, RecreatingStays, OverwritingStays, CloningStays, TakingStays,
     TransferringStays, CopyingValueStays, CopyingOverStays, TradingStays, RotatingStays

----------------------------------------------------------------------------
(* A call from rest either is over at once or has its steps before it.     *)
Starts ==
  /\ TempGone(Now') /\ (Regular => ub' = ub)
  /\ \/ Continued
     \/ todo' = <<>> /\ running' = running /\ goal' = goal /\ Resting(Now')

LEMMA BeginsWith ==
  ASSUME TempGone(Now), todo = <<>>, Resting(Now), NEW op, NEW w, NEW o, NEW steps, NEW g,
         Begin(op, w, o, steps, g),
         steps # <<>> => UnderWay(Now, steps, Record(op, w, o), g) /\ g \in [Wraps -> Contents]
  PROVE  Starts
<1>1. Proper(Now) BY GoodIs DEF Resting
<1>2. /\ Now' = Now
      /\ steps = <<>> => todo' = <<>> /\ UNCHANGED stepVars
      /\ steps # <<>> => todo' = steps /\ running' = Record(op, w, o) /\ goal' = g
  BY <1>1, BeginIs
<1>3. ub' = ub BY <1>2, SeenNow
<1>4. CASE steps = <<>> BY <1>2, <1>3, <1>4 DEF Starts, stepVars
<1>5. CASE steps # <<>>
  <2>1. Continued BY <1>2, <1>5 DEF Continued
  <2> QED BY <1>2, <1>3, <2>1 DEF Starts
<1> QED BY <1>4, <1>5

LEMMA NoGoalIs == Silent(NoGoal) /\ NoGoal \in [Wraps -> Contents]
BY DEF Silent, NoGoal, Contents

LEMMA ExpectIs ==
  ASSUME NEW w \in Wraps, NEW c \in Contents
  PROVE  Owes(Expect(w, c), w, c) /\ Expect(w, c) \in [Wraps -> Contents]
<1>1. NoGoal \in [Wraps -> Contents] /\ \A x \in Wraps : NoGoal[x] = Anything BY DEF NoGoal, Contents
<1> QED BY <1>1 DEF Expect, Owes

LEMMA ExpectBoth ==
  ASSUME NEW w \in Wraps, NEW o \in Wraps, w # o, NEW c \in Contents, NEW d \in Contents
  PROVE  /\ OwesBoth([NoGoal EXCEPT ![w] = c, ![o] = d], w, c, o, d)
         /\ [NoGoal EXCEPT ![w] = c, ![o] = d] \in [Wraps -> Contents]
<1>1. NoGoal \in [Wraps -> Contents] /\ \A x \in Wraps : NoGoal[x] = Anything BY DEF NoGoal, Contents
<1> QED BY <1>1 DEF OwesBoth

LEMMA SeenContents ==
  ASSUME NEW s, Good(s, All), NEW x \in All PROVE Seen(s, x) \in Contents
<1>1. /\ Valid(s, x) => HolderOf(s, x) \in Holder /\ Seen(s, x) = HolderOf(s, x)
      /\ ~ Valid(s, x) => s.ptr[x] \in {Null, NoWrap} /\ Seen(s, x) = s.ptr[x]
  BY AllIs, SeenKinds DEF Valid, Seen
<1> QED BY <1>1 DEF Contents

LEMMA ClosingStarts ==
  ASSUME TempGone(Now), todo = <<>>, Resting(Now), NEW w \in Callers, BeginReset(w) \/ BeginDestruct(w)
  PROVE  Starts
<1>1. w \in Wraps /\ w \in All BY CallersAre
<1>2. Null \in Contents /\ NoWrap \in Contents BY DEF Contents
<1>3. ASSUME NEW what \in {"clear", "end"}, IsWrap(Now, w), NEW steps, steps = Finish(w, what)
      PROVE  Removing(Now, steps, w, what)
  BY <1>3 DEF Removing, Resting
<1>4. CASE BeginReset(w)
  <2>1. PICK steps, g : /\ steps = IF Invalid(Now, w) THEN <<>> ELSE Finish(w, "clear")
                        /\ g = Expect(w, Null)
    OBVIOUS
  <2>2. Finish(w, "clear") = <<Step("destroy", w, w), Step("clear", w, w)>>
    BY PairIs DEF Finish
  <2>3. IsWrap(Now, w) /\ Begin("reset", w, Outside, steps, g)
    BY <1>4, <2>1, <2>2 DEF BeginReset
  <2>4. Owes(g, w, Null) /\ g \in [Wraps -> Contents] BY <1>1, <1>2, <2>1, ExpectIs
  <2>5. ASSUME steps # <<>> PROVE UnderWay(Now, steps, Record("reset", w, Outside), g)
    <3>1. Closing(Now, steps, Record("reset", w, Outside), g, w)
      BY <1>3, <2>1, <2>3, <2>4, <2>5 DEF Closing, Resting
    <3> QED BY <3>1 DEF UnderWay
  <2> QED BY <2>3, <2>4, <2>5, BeginsWith
<1>5. CASE BeginDestruct(w)
  <2>1. PICK steps, g : steps = Finish(w, "end") /\ g = Expect(w, NoWrap) OBVIOUS
  <2>2. Finish(w, "end") = <<Step("destroy", w, w), Step("end", w, w)>>
    BY PairIs DEF Finish
  <2>3. IsWrap(Now, w) /\ Begin("destroy", w, Outside, steps, g)
    BY <1>5, <2>1, <2>2 DEF BeginDestruct
  <2>4. Owes(g, w, NoWrap) /\ g \in [Wraps -> Contents] BY <1>1, <1>2, <2>1, ExpectIs
  <2>5. UnderWay(Now, steps, Record("destroy", w, Outside), g)
    <3>1. Closing(Now, steps, Record("destroy", w, Outside), g, w)
      BY <1>3, <2>1, <2>3, <2>4 DEF Closing, Resting
    <3> QED BY <3>1 DEF UnderWay
  <2> QED BY <2>3, <2>4, <2>5, BeginsWith
<1> QED BY <1>4, <1>5

LEMMA MakingStarts ==
  ASSUME TempGone(Now), todo = <<>>, Resting(Now), NEW w \in Callers, NEW t \in Types, NEW v \in Vals,
         NEW how \in {"args", "copy", "move"},
         \/ BeginConstruct(w, t, v, how)
         \/ how # "args" /\ BeginAssign(w, t, v, how)
         \/ how = "args" /\ BeginEmplace(w, t, v)
  PROVE  Starts
<1>1. w \in Wraps /\ w \in All BY CallersAre
<1>2. PICK a, c, b, g : /\ a = Argument(t, v, how) /\ c = [type |-> t, val |-> v]
                        /\ b = Step("build", w, a) /\ g = Expect(w, c)
  OBVIOUS
<1>3. c \in Contents BY <1>2 DEF Contents, Holder
<1>4. Owes(g, w, c) /\ g \in [Wraps -> Contents] BY <1>1, <1>2, <1>3, ExpectIs
<1>5. <<b>> = Only(b) BY ThenNothing DEF Only
<1>6. CASE BeginConstruct(w, t, v, how)
  <2>1. PICK steps : steps = Only(b) OBVIOUS
  <2>2. ~ IsWrap(Now, w) /\ Wrappable(t) /\ Begin("construct", w, Outside, steps, g)
    BY <1>2, <1>5, <1>6, <2>1 DEF BeginConstruct
  <2>3. Creating(Now, steps, Record("construct", w, Outside), g, w, t, v, how)
    BY <1>2, <1>4, <2>1, <2>2 DEF Creating, Resting
  <2>4. UnderWay(Now, steps, Record("construct", w, Outside), g) BY <2>3 DEF UnderWay
  <2> QED BY <1>4, <2>2, <2>4, BeginsWith
<1>7. ASSUME NEW op \in {"assign", "emplace"}, IsWrap(Now, w), Wrappable(t),
             NEW steps, steps = <<Step("destroy", w, w), b>>, Begin(op, w, Outside, steps, g)
      PROVE  Starts
  <2>1. steps = Then(Step("destroy", w, w), Only(b)) BY <1>7, PairIs
  <2>2. Recreating(Now, steps, Record(op, w, Outside), g, w, t, v, how)
    BY <1>2, <1>4, <1>7, <2>1 DEF Recreating, Resting
  <2>3. UnderWay(Now, steps, Record(op, w, Outside), g) BY <2>2 DEF UnderWay
  <2> QED BY <1>4, <1>7, <2>3, BeginsWith
<1>8. CASE how # "args" /\ BeginAssign(w, t, v, how)
  <2>1. PICK steps : steps = AssignSteps(Now, w, a) OBVIOUS
  <2>2. /\ IsWrap(Now, w) /\ Wrappable(t) /\ Constructible(t, how)
        /\ Begin("assign", w, Outside, steps, g)
    BY <1>2, <1>8, <2>1 DEF BeginAssign
  <2>3. a.holder.type = t BY <1>2, ArgumentIs
  <2>4. CASE Valid(Now, w) /\ TypeOf(Now, w) = t
    <3>1. steps = <<Step("set", w, a)>> BY <2>1, <2>3, <2>4 DEF AssignSteps
    <3>2. steps = Only(Step("set", w, a)) BY <3>1, ThenNothing DEF Only
    <3>3. Overwriting(Now, steps, Record("assign", w, Outside), g, w, t, v, how)
      BY <1>2, <1>4, <1>8, <2>2, <2>4, <3>2 DEF Overwriting, Resting
    <3>4. UnderWay(Now, steps, Record("assign", w, Outside), g) BY <3>3 DEF UnderWay
    <3> QED BY <1>4, <2>2, <3>4, BeginsWith
  <2>5. CASE ~ (Valid(Now, w) /\ TypeOf(Now, w) = t)
    <3>1. steps = <<Step("destroy", w, w), b>> BY <1>2, <2>1, <2>3, <2>5 DEF AssignSteps
    <3> QED BY <1>7, <2>2, <3>1
  <2> QED BY <2>4, <2>5
<1>9. CASE how = "args" /\ BeginEmplace(w, t, v)
  <2>1. PICK steps : steps = <<Step("destroy", w, w), b>> OBVIOUS
  <2>2. IsWrap(Now, w) /\ Wrappable(t) /\ Begin("emplace", w, Outside, steps, g)
    BY <1>2, <1>9, <2>1 DEF BeginEmplace
  <2> QED BY <1>7, <2>1, <2>2
<1> QED BY <1>6, <1>8, <1>9

LEMMA ConstructingStarts ==
  ASSUME TempGone(Now), todo = <<>>, Resting(Now), NEW w \in Callers, NEW o \in Callers,
         BeginCopyConstruct(w, o) \/ BeginMoveConstruct(w, o)
  PROVE  Starts
<1>1. w \in Wraps /\ w \in All /\ o \in All BY CallersAre
<1>2. PICK c, g : c = Seen(Now, o) /\ g = Expect(w, c) OBVIOUS
<1>3. Good(Now, All) /\ ~ IsWrap(Now, Local) BY DEF Resting
<1>4. c \in Contents BY <1>1, <1>2, <1>3, SeenContents
<1>5. Owes(g, w, c) /\ g \in [Wraps -> Contents] BY <1>1, <1>2, <1>4, ExpectIs
<1>6. CASE BeginCopyConstruct(w, o)
  <2>1. PICK x, steps : x = Step("clone", w, o) /\ steps = Only(x) OBVIOUS
  <2>2. <<x>> = steps BY <2>1, ThenNothing DEF Only
  <2>3. HolderOf(Now, o) = c BY <1>2, <1>6 DEF BeginCopyConstruct, Seen
  <2>4. /\ Copyable /\ ~ IsWrap(Now, w) /\ Valid(Now, o)
        /\ Begin("copy construct", w, o, steps, g)
    BY <1>2, <1>6, <2>1, <2>2, <2>3 DEF BeginCopyConstruct
  <2>5. Cloning(Now, steps, Record("copy construct", w, o), g, w, o)
    BY <1>2, <1>3, <1>5, <2>1, <2>4 DEF Cloning
  <2>6. UnderWay(Now, steps, Record("copy construct", w, o), g) BY <2>5 DEF UnderWay
  <2> QED BY <1>5, <2>4, <2>6, BeginsWith
<1>7. CASE BeginMoveConstruct(w, o)
  <2>1. PICK x, steps : x = Step("init", w, o) /\ steps = Only(x) OBVIOUS
  <2>2. <<x>> = steps BY <2>1, ThenNothing DEF Only
  <2>3. /\ Movable /\ ~ IsWrap(Now, w) /\ IsWrap(Now, o) /\ w # o
        /\ Begin("move construct", w, o, steps, g)
    BY <1>2, <1>7, <2>1, <2>2 DEF BeginMoveConstruct
  <2>4. ~ Valid(Now, w) BY <2>3, KindsIs
  <2>5. Good(Now, But(w)) BY <1>1, <1>3, <2>4, AllIs, DropIdle DEF But
  <2>6. Taking(Now, steps, Record("move construct", w, o), g, w, o)
    BY <1>2, <1>3, <1>5, <2>1, <2>3, <2>5 DEF Taking
  <2>7. UnderWay(Now, steps, Record("move construct", w, o), g) BY <2>6 DEF UnderWay
  <2> QED BY <1>5, <2>3, <2>7, BeginsWith
<1> QED BY <1>6, <1>7

(* operator=(wrap &&) from v to u is about to be called.                   *)
LEMMA MoveToStarts ==
  ASSUME TempGone(Now), todo = <<>>, Resting(Now), Movable, NEW u \in Callers, NEW v \in Callers,
         u # v, IsWrap(Now, u), IsWrap(Now, v), Valid(Now, u) => Valid(Now, v),
         NEW op, NEW w, NEW o, NEW steps, steps = <<Step("move", u, v)>>,
         Record(op, w, o) \in {Record("move assign", u, v), Record("swap", u, v), Record("swap", v, u)},
         Begin(op, w, o, steps, NoGoal)
  PROVE  Starts
<1>1. PICK x, t : x = Step("move", u, v) /\ t = <<>> OBVIOUS
<1>2. steps = Then(x, t) BY <1>1, ThenNothing
<1>3. Good(Now, All) /\ ~ IsWrap(Now, Local) BY DEF Resting
<1>4. Relocating(Now, steps, u, v, t) BY <1>1, <1>2, <1>3 DEF Relocating
<1>5. Transferring(Now, steps, Record(op, w, o), NoGoal, u, v)
  BY <1>1, <1>3, <1>4, NoGoalIs DEF Transferring
<1>6. UnderWay(Now, steps, Record(op, w, o), NoGoal) BY <1>5 DEF UnderWay
<1> QED BY <1>6, NoGoalIs, BeginsWith

LEMMA NothingStarts ==
  ASSUME TempGone(Now), todo = <<>>, Resting(Now), NEW op, NEW w, NEW o, NEW g, Begin(op, w, o, <<>>, g)
  PROVE  Starts
<1>1. PICK steps : steps = <<>> OBVIOUS
<1> QED BY <1>1, BeginsWith

LEMMA MoveAssignStarts ==
  ASSUME TempGone(Now), todo = <<>>, Resting(Now), NEW w \in Callers, NEW o \in Callers,
         BeginMoveAssign(w, o)
  PROVE  Starts
<1>1. CASE w = o
  <2>1. Begin("move assign", w, o, <<>>, NoGoal) BY <1>1 DEF BeginMoveAssign
  <2> QED BY <2>1, NothingStarts
<1>2. CASE w # o
  <2>1. PICK steps : steps = <<Step("move", w, o)>> OBVIOUS
  <2>2. /\ Movable /\ IsWrap(Now, w) /\ IsWrap(Now, o) /\ (Invalid(Now, o) => Invalid(Now, w))
        /\ Begin("move assign", w, o, steps, NoGoal)
    BY <1>2, <2>1 DEF BeginMoveAssign
  <2>3. Valid(Now, w) => Valid(Now, o) BY <2>2, KindsIs
  <2> QED BY <1>2, <2>1, <2>2, <2>3, MoveToStarts
<1> QED BY <1>1, <1>2

LEMMA CopyAssignStarts ==
  ASSUME TempGone(Now), todo = <<>>, Resting(Now), NEW w \in Callers, NEW o \in Callers,
         BeginCopyAssign(w, o)
  PROVE  Starts
<1>1. Good(Now, All) /\ ~ IsWrap(Now, Local) BY DEF Resting
<1>2. CASE w = o
  <2>1. Begin("copy assign", w, o, <<>>, NoGoal) BY <1>2 DEF BeginCopyAssign
  <2> QED BY <2>1, NothingStarts
<1>3. CASE w # o /\ InPlace(Now, w, o)
  <2>1. PICK x, steps : x = Step("copy value", w, o) /\ steps = Only(x) OBVIOUS
  <2>2. <<x>> = steps BY <2>1, ThenNothing DEF Only
  <2>3. Copyable /\ IsWrap(Now, w) /\ Valid(Now, o) /\ Begin("copy assign", w, o, steps, NoGoal)
    BY <1>3, <2>1, <2>2 DEF BeginCopyAssign
  <2>4. Valid(Now, w) /\ TypeOf(Now, w) = TypeOf(Now, o) BY <1>3, <2>3, KindsIs DEF InPlace
  <2>5. CopyingValue(Now, steps, Record("copy assign", w, o), NoGoal, w, o)
    BY <1>1, <1>3, <2>1, <2>3, <2>4, NoGoalIs DEF CopyingValue
  <2>6. UnderWay(Now, steps, Record("copy assign", w, o), NoGoal) BY <2>5 DEF UnderWay
  <2> QED BY <2>3, <2>6, NoGoalIs, BeginsWith
<1>4. CASE w # o /\ ~ InPlace(Now, w, o)
  <2>1. PICK steps : steps = CopySteps(Now, w, o) OBVIOUS
  <2>2. Copyable /\ IsWrap(Now, w) /\ Valid(Now, o) /\ Begin("copy assign", w, o, steps, NoGoal)
    BY <1>4, <2>1 DEF BeginCopyAssign
  <2>3. steps = Then(Step("clone", Local, o), Then(Step("move", w, Local), Leave))
    BY <2>1, CopyStepsIs
  <2>4. CopyingOver(Now, steps, Record("copy assign", w, o), NoGoal, w, o)
    BY <1>1, <1>4, <2>2, <2>3, NoGoalIs DEF CopyingOver
  <2>5. UnderWay(Now, steps, Record("copy assign", w, o), NoGoal) BY <2>4 DEF UnderWay
  <2> QED BY <2>2, <2>5, NoGoalIs, BeginsWith
<1> QED BY <1>2, <1>3, <1>4

LEMMA SwapStarts ==
  ASSUME TempGone(Now), todo = <<>>, Resting(Now), NEW w \in Callers, NEW o \in Callers,
         BeginSwap(w, o)
  PROVE  Starts
<1>1. Good(Now, All) /\ ~ IsWrap(Now, Local) BY DEF Resting
<1>2. /\ w \in Wraps /\ o \in Wraps /\ w \in All /\ o \in All /\ Local \in All
  BY CallersAre, AllIs
<1>3. Swappable /\ Movable /\ IsWrap(Now, w) /\ IsWrap(Now, o) BY DEF BeginSwap
<1>4. \A x : Valid(Now, x) => ~ Invalid(Now, x) BY KindsIs
<1>5. CASE w = o \/ (Invalid(Now, w) /\ Invalid(Now, o))
  <2>1. PICK steps, g :
          /\ steps = CASE w = o \/ (Invalid(Now, w) /\ Invalid(Now, o)) -> <<>>
                       [] Invalid(Now, w) /\ Valid(Now, o) -> <<Step("move", w, o)>>
                       [] Valid(Now, w) /\ Invalid(Now, o) -> <<Step("move", o, w)>>
                       [] w # o /\ (Valid(Now, w) /\ Valid(Now, o)) /\ TypeOf(Now, w) = TypeOf(Now, o) ->
                            <<Step("exchange", w, o)>>
                       [] w # o /\ (Valid(Now, w) /\ Valid(Now, o)) /\ TypeOf(Now, w) # TypeOf(Now, o) ->
                            SwapByLocal(w, o)
          /\ g = IF Valid(Now, w) /\ Valid(Now, o)
                 THEN [NoGoal EXCEPT ![w] = HolderOf(Now, o), ![o] = HolderOf(Now, w)] ELSE NoGoal
    OBVIOUS
  <2>2. Begin("swap", w, o, steps, g) BY <2>1, Zenon DEF BeginSwap
  <2>3. steps = <<>> BY <1>4, <1>5, <2>1
  <2> QED BY <2>2, <2>3, NothingStarts
<1>6. CASE w # o /\ Invalid(Now, w) /\ Valid(Now, o)
  <2>1. PICK steps : steps = <<Step("move", w, o)>> OBVIOUS
  <2>2. Begin("swap", w, o, steps, NoGoal) BY <1>4, <1>6, <2>1 DEF BeginSwap
  <2> QED BY <1>3, <1>4, <1>6, <2>1, <2>2, MoveToStarts
<1>7. CASE w # o /\ Valid(Now, w) /\ Invalid(Now, o)
  <2>1. PICK steps : steps = <<Step("move", o, w)>> OBVIOUS
  <2>2. Begin("swap", w, o, steps, NoGoal) BY <1>4, <1>7, <2>1 DEF BeginSwap
  <2> QED BY <1>3, <1>4, <1>7, <2>1, <2>2, MoveToStarts
<1>8. ASSUME w # o, Valid(Now, w), Valid(Now, o) PROVE Starts
  <2>1. PICK c, d, g : /\ c = HolderOf(Now, o) /\ d = HolderOf(Now, w)
                       /\ g = [NoGoal EXCEPT ![w] = c, ![o] = d]
    OBVIOUS
  <2>2. c = Seen(Now, o) /\ d = Seen(Now, w) BY <1>8, <2>1 DEF Seen
  <2>3. c \in Contents /\ d \in Contents BY <1>1, <1>2, <2>2, SeenContents
  <2>4. OwesBoth(g, w, c, o, d) /\ g \in [Wraps -> Contents] BY <1>2, <1>8, <2>1, <2>3, ExpectBoth
  <2>5. CASE TypeOf(Now, w) = TypeOf(Now, o)
    <3>1. PICK x, steps : x = Step("exchange", w, o) /\ steps = Only(x) OBVIOUS
    <3>2. <<x>> = steps BY <3>1, ThenNothing DEF Only
    <3>3. Begin("swap", w, o, steps, g) BY <1>4, <1>8, <2>1, <2>5, <3>1, <3>2 DEF BeginSwap
    <3>4. Trading(Now, steps, Record("swap", w, o), g, w, o)
      BY <1>1, <1>3, <1>8, <2>2, <2>4, <2>5, <3>1 DEF Trading
    <3>5. UnderWay(Now, steps, Record("swap", w, o), g) BY <3>4 DEF UnderWay
    <3> QED BY <2>4, <3>3, <3>5, BeginsWith
  <2>6. CASE TypeOf(Now, w) # TypeOf(Now, o)
    <3>1. PICK steps : steps = SwapByLocal(w, o) OBVIOUS
    <3>2. Begin("swap", w, o, steps, g) BY <1>4, <1>8, <2>1, <2>6, <3>1 DEF BeginSwap
    <3>3. steps = Then(Step("init", Local, w), Then(Step("move", w, o), Back(o)))
      BY <3>1, SwapByLocalIs
    <3>4. ~ Valid(Now, Local) BY <1>1, KindsIs
    <3>5. Good(Now, But(Local)) BY <1>1, <1>2, <3>4, AllIs, DropIdle DEF But
    <3>6. Rotating(Now, steps, Record("swap", w, o), g, w, o)
      BY <1>3, <1>8, <2>2, <2>4, <3>3, <3>5 DEF Rotating
    <3>7. UnderWay(Now, steps, Record("swap", w, o), g) BY <3>6 DEF UnderWay
    <3> QED BY <2>4, <3>2, <3>7, BeginsWith
  <2> QED BY <2>5, <2>6
<1> QED BY <1>3, <1>5, <1>6, <1>7, <1>8, KindsIs

LEMMA AtOnceStarts ==
  ASSUME TempGone(Now), todo = <<>>, Resting(Now), NEW w \in Callers, CallAtOnce(w)
  PROVE  Starts
<1>1. w \in Wraps /\ w \in All /\ w # Local /\ w # Temp /\ Local \in Slots /\ w \in Slots
  BY CallersAre, AllIs
<1>2. todo' = <<>> /\ running' = running /\ goal' = goal BY DEF CallAtOnce, stepVars
<1>3. Good(Now, All) /\ ~ IsWrap(Now, Local) /\ Now \in State /\ All \in SUBSET Slots
  BY AllIs, GoodIs DEF Resting
<1>4. ASSUME NEW n, Good(n, All), n.ub = Now.ub, Commit(n),
             \A y \in Slots \ {w} : IsWrap(n, y) <=> IsWrap(Now, y)
      PROVE  Starts
  <2>1. Now' = n BY <1>4, GoodIs, CommitsTo
  <2>2. TempGone(Now') BY <1>1, <1>4, <2>1, TempStays
  <2>3. Resting(Now') BY <1>1, <1>3, <1>4, <2>1 DEF Resting
  <2>4. ub' = ub BY <1>4, <2>1, SeenNow
  <2> QED BY <1>2, <2>2, <2>3, <2>4 DEF Starts
<1>5. CASE InvalidConstruct(w)
  <2>1. PICK n : n = SetPtr(Now, w, Null) OBVIOUS
  <2>2. ~ IsWrap(Now, w) /\ Commit(n) BY <1>5, <2>1 DEF InvalidConstruct
  <2>3. Good(Now, But(w)) BY <1>1, <1>3, <2>2, KindsIs, AllIs, DropIdle DEF But
  <2>4. w \in Slots \ But(w) /\ But(w) \in SUBSET Slots /\ But(w) \cup {w} = All BY <1>1, AllIs
  <2>5. Idled(n, Now, But(w), w, Null) BY <2>1, <2>3, <2>4, IdleGood
  <2>6. Good(n, All) /\ n.ub = Now.ub /\ n.ptr = [Now.ptr EXCEPT ![w] = Null]
    BY <2>4, <2>5 DEF Idled
  <2>7. \A y \in Slots \ {w} : IsWrap(n, y) <=> IsWrap(Now, y) BY <1>1, <1>3, <2>6, PutsPointer
  <2> QED BY <1>4, <2>2, <2>6, <2>7
<1>6. ASSUME NEW v \in Vals, Write(w, v) PROVE Starts
  <2>1. PICK n : n = SetValue(Now, Now.ptr[w], v) OBVIOUS
  <2>2. Valid(Now, w) /\ Commit(n) BY <1>6, <2>1 DEF Write, Now
  <2>3. ValueSet(n, Now, All, w, v) BY <1>1, <1>3, <2>1, <2>2, SetValueGood
  <2>4. Good(n, All) /\ n.ub = Now.ub /\ n.ptr = Now.ptr BY <2>3 DEF ValueSet
  <2>5. \A y \in Slots \ {w} : IsWrap(n, y) <=> IsWrap(Now, y) BY <2>4 DEF IsWrap
  <2> QED BY <1>4, <2>2, <2>4, <2>5
<1> QED BY <1>5, <1>6 DEF CallAtOnce

(* Whatever is called.                                                     *)
LEMMA CallStarts ==
  ASSUME TempGone(Now), todo = <<>>, Resting(Now), Call
  PROVE  Starts
<1>1. PICK w \in Callers :
        \/ CallAtOnce(w) \/ BeginReset(w) \/ BeginDestruct(w)
        \/ \E t \in Types, v \in Vals :
             \/ \E how \in {"args", "copy", "move"} : BeginConstruct(w, t, v, how)
             \/ \E how \in {"copy", "move"} : BeginAssign(w, t, v, how)
             \/ BeginEmplace(w, t, v)
        \/ \E o \in Callers :
             \/ BeginCopyConstruct(w, o) \/ BeginMoveConstruct(w, o)
             \/ BeginCopyAssign(w, o) \/ BeginMoveAssign(w, o) \/ BeginSwap(w, o)
  BY DEF Call
<1>2. ASSUME NEW t \in Types, NEW v \in Vals, NEW how \in {"args", "copy", "move"},
             BeginConstruct(w, t, v, how)
      PROVE  Starts
  BY <1>2, MakingStarts
<1>3. ASSUME NEW t \in Types, NEW v \in Vals, NEW how \in {"copy", "move"}, BeginAssign(w, t, v, how)
      PROVE  Starts
  BY <1>3, MakingStarts
<1>4. ASSUME NEW t \in Types, NEW v \in Vals, BeginEmplace(w, t, v) PROVE Starts
  <2>1. PICK how : how = "args" OBVIOUS
  <2> QED BY <1>4, <2>1, MakingStarts
<1>5. ASSUME NEW o \in Callers,
             \/ BeginCopyConstruct(w, o) \/ BeginMoveConstruct(w, o)
             \/ BeginCopyAssign(w, o) \/ BeginMoveAssign(w, o) \/ BeginSwap(w, o)
      PROVE  Starts
  BY <1>5, ConstructingStarts, CopyAssignStarts, MoveAssignStarts, SwapStarts
<1> QED BY <1>1, <1>2, <1>3, <1>4, <1>5, AtOnceStarts, ClosingStarts

----------------------------------------------------------------------------
(* The invariant is one.                                                   *)
LEMMA StepsInitGood == StepsInit => StepsInv /\ ub = {}
<1> SUFFICES ASSUME StepsInit PROVE StepsInv /\ ub = {} OBVIOUS
<1>1. Init /\ todo = <<>> /\ running = Idle /\ goal = NoGoal BY DEF StepsInit
<1>2. Good(Now, Wraps) /\ ub = {} BY <1>1, InitGood DEF IInv, Owning
<1>3. \A u \in Slots : ptr[u] = NoWrap BY <1>1 DEF Init
<1>4. TempGone(Now) BY <1>3 DEF TempGone, Now, Slots
<1>5. ~ IsWrap(Now, Local) /\ ~ Valid(Now, Local) BY <1>3, AllIs DEF IsWrap, Valid, Now
<1>6. Good(Now, All)
  <2>1. CASE Local \in Wraps
    <3>1. All = Wraps BY <2>1 DEF All
    <3> QED BY <1>2, <3>1
  <2>2. CASE Local \notin Wraps
    <3>1. \A u \in Wraps : ptr[u] = NoWrap BY <1>3 DEF Slots
    <3>2. ptr[Local] = NoWrap BY <1>3, AllIs
    <3>3. \A u \in All : Now.ptr[u] = NoWrap BY <3>1, <3>2 DEF All, Now
    <3>4. /\ Now \in State /\ Now.held[Null] = Raw
          /\ \A p \in Places : Now.held[p] # Raw =>
               Wrappable(Now.held[p].type) /\ \E u \in Wraps : Now.ptr[u] = p
      BY <1>2 DEF Good
    <3>5. Wraps \subseteq All BY AllIs
    <3>6. \A u \in All : ~ Valid(Now, u) BY <3>3 DEF Valid
    <3>7. NoWrap \notin Blocks BY Apart DEF Places
    <3> QED BY <3>3, <3>4, <3>5, <3>6, <3>7 DEF Good
  <2> QED BY <2>1, <2>2
<1>7. goal \in [Wraps -> Contents] BY <1>1, NoGoalIs
<1> QED BY <1>1, <1>2, <1>4, <1>5, <1>6, <1>7 DEF StepsInv, Resting

LEMMA AdvancesKeeps ==
  ASSUME Advances PROVE StepsInv' /\ (Regular => ub' = ub)
<1>1. TempGone(Now') /\ (Regular => ub' = ub) BY DEF Advances
<1>2. CASE Continued BY <1>1, <1>2 DEF Continued, StepsInv
<1>3. CASE Over
  <2>1. goal' \in [Wraps -> Contents] BY <1>3, NoGoalIs DEF Over
  <2> QED BY <1>1, <1>3, <2>1 DEF Over, StepsInv
<1> QED BY <1>1, <1>2, <1>3 DEF Advances

LEMMA StartsKeeps ==
  ASSUME StepsInv, todo = <<>>, Starts PROVE StepsInv' /\ (Regular => ub' = ub)
<1>1. TempGone(Now') /\ (Regular => ub' = ub) BY DEF Starts
<1>2. CASE Continued BY <1>1, <1>2 DEF Continued, StepsInv
<1>3. CASE todo' = <<>> /\ running' = running /\ goal' = goal /\ Resting(Now')
  BY <1>1, <1>3 DEF StepsInv
<1> QED BY <1>1, <1>2, <1>3 DEF Starts

LEMMA CallIsFromRest ==
  ASSUME Call PROVE todo = <<>>
<1>1. \A op, w, o, steps, g : Begin(op, w, o, steps, g) => todo = <<>> BY DEF Begin
<1>2. ASSUME NEW w, BeginReset(w) \/ BeginDestruct(w) PROVE todo = <<>>
  BY <1>1, <1>2 DEF BeginReset, BeginDestruct
<1>3. ASSUME NEW w, NEW t, NEW v, NEW how,
             BeginConstruct(w, t, v, how) \/ BeginAssign(w, t, v, how) \/ BeginEmplace(w, t, v)
      PROVE  todo = <<>>
  BY <1>1, <1>3 DEF BeginConstruct, BeginAssign, BeginEmplace
<1>4. ASSUME NEW w, NEW o, BeginCopyConstruct(w, o) \/ BeginMoveConstruct(w, o) PROVE todo = <<>>
  BY <1>1, <1>4 DEF BeginCopyConstruct, BeginMoveConstruct
<1>5. ASSUME NEW w, NEW o, BeginCopyAssign(w, o) \/ BeginMoveAssign(w, o) PROVE todo = <<>>
  BY <1>1, <1>5 DEF BeginCopyAssign, BeginMoveAssign
<1>6. ASSUME NEW w, NEW o, BeginSwap(w, o) PROVE todo = <<>>
  BY <1>1, <1>6 DEF BeginSwap
<1>7. ASSUME NEW w, CallAtOnce(w) PROVE todo = <<>>
  BY <1>7 DEF CallAtOnce
<1> QED BY <1>2, <1>3, <1>4, <1>5, <1>6, <1>7 DEF Call

LEMMA OthersAreCalled == Doer \/ NestedCall => todo # <<>>
BY DEF Doer, Perform, Decide, Clone, Build, CopyValue, Set, Doing, NestedCall

LEMMA StepsNextGood ==
  ASSUME StepsInv, StepsNext
  PROVE  /\ StepsInv' /\ (Regular => ub' = ub)
         /\ todo # <<>> => Advances
<1>1. CASE Call
  <2>1. todo = <<>> BY <1>1, CallIsFromRest
  <2>2. Starts BY <1>1, <2>1, CallStarts DEF StepsInv
  <2> QED BY <2>1, <2>2, StartsKeeps
<1>2. CASE Doer \/ NestedCall
  <2>1. todo # <<>> BY <1>2, OthersAreCalled
  <2>2. Advances BY <1>2, <2>1, DoerAdvances, NestedAdvances DEF StepsInv
  <2> QED BY <2>2, AdvancesKeeps
<1> QED BY <1>1, <1>2 DEF StepsNext, Doer

LEMMA StepsStepGood ==
  ASSUME StepsInv, [StepsNext]_<<vars, stepVars>>
  PROVE  StepsInv' /\ (Regular => ub' = ub)
<1>1. CASE StepsNext BY <1>1, StepsNextGood
<1>2. CASE UNCHANGED <<vars, stepVars>>
  <2>1. Now' = Now /\ todo' = todo /\ running' = running /\ goal' = goal /\ ub' = ub
    BY <1>2 DEF vars, stepVars, Now
  <2> QED BY <2>1 DEF StepsInv
<1> QED BY <1>1, <1>2

(* In every state the wraps and the step ahead are as StepsInv says.       *)
THEOREM StepsInvariance == StepsSpec => []StepsInv
<1>1. StepsInit => StepsInv BY StepsInitGood
<1>2. StepsInv /\ [StepsNext]_<<vars, stepVars>> => StepsInv' BY StepsStepGood
<1> QED BY <1>1, <1>2, PTL DEF StepsSpec

----------------------------------------------------------------------------
(* What the invariant says of the properties the runs check.               *)

(* While a call runs, every wrap owns its content but perhaps one that the *)
(* step ahead works on.                                                    *)
LEMMA RemovingOwners ==
  ASSUME NEW u \in All, NEW what, Removing(Now, todo, u, what)
  PROVE  Good(Now, All) \/ (Good(Now, But(u)) /\ u \in Engaged)
<1>1. CASE Good(Now, But(u)) /\ todo = Only(Step(what, u, u))
  <2>1. todo = Then(Step(what, u, u), <<>>) BY <1>1 DEF Only
  <2> QED BY <1>1, <2>1, ThenNothing, FirstEngaged
<1> QED BY <1>1 DEF Removing

LEMMA RelocatingOwners ==
  ASSUME NEW u \in All, NEW v \in All, NEW t, IsList(t), Relocating(Now, todo, u, v, t)
  PROVE  Good(Now, All) \/ (Good(Now, But(u)) /\ u \in Engaged)
<1>1. CASE Good(Now, But(u)) /\ todo = Then(Step("init", u, v), t)
  BY <1>1, FirstEngaged
<1> QED BY <1>1 DEF Relocating

LEMMA Owners ==
  ASSUME UnderWay(Now, todo, running, goal)
  PROVE  Good(Now, All) \/ \E u \in All : Good(Now, But(u)) /\ u \in Engaged
<1>1. PICK w \in Callers :
        \/ Closing(Now, todo, running, goal, w)
        \/ \E t \in Types, v \in Vals, how \in {"args", "copy", "move"} :
             \/ Creating(Now, todo, running, goal, w, t, v, how)
             \/ Recreating(Now, todo, running, goal, w, t, v, how)
             \/ Overwriting(Now, todo, running, goal, w, t, v, how)
        \/ \E o \in Callers :
             \/ Cloning(Now, todo, running, goal, w, o) \/ Taking(Now, todo, running, goal, w, o)
             \/ Transferring(Now, todo, running, goal, w, o)
             \/ CopyingValue(Now, todo, running, goal, w, o)
             \/ CopyingOver(Now, todo, running, goal, w, o)
             \/ Trading(Now, todo, running, goal, w, o) \/ Rotating(Now, todo, running, goal, w, o)
  BY DEF UnderWay
<1>2. w \in All /\ Local \in All /\ Local \in Engaged /\ \A o \in Callers : o \in All
  BY CallersAre, AllIs DEF Engaged
<1>3. CASE Closing(Now, todo, running, goal, w) BY <1>2, <1>3, RemovingOwners DEF Closing
<1>4. ASSUME NEW t, NEW v, NEW how, Recreating(Now, todo, running, goal, w, t, v, how)
      PROVE  Good(Now, All) \/ (Good(Now, But(w)) /\ w \in Engaged)
  <2>1. CASE Good(Now, But(w)) /\ todo = Only(Step("build", w, Argument(t, v, how)))
    <3>1. PICK a : a = Argument(t, v, how) OBVIOUS
    <3>2. todo = Then(Step("build", w, a), <<>>) BY <2>1, <3>1 DEF Only
    <3> QED BY <1>2, <2>1, <3>2, ThenNothing, FirstEngaged
  <2> QED BY <1>4, <2>1 DEF Recreating
<1>5. ASSUME NEW t, NEW v, NEW how,
             \/ Creating(Now, todo, running, goal, w, t, v, how)
             \/ Overwriting(Now, todo, running, goal, w, t, v, how)
      PROVE  Good(Now, All)
  BY <1>5 DEF Creating, Overwriting
<1>6. ASSUME NEW o \in Callers,
             \/ Cloning(Now, todo, running, goal, w, o) \/ CopyingValue(Now, todo, running, goal, w, o)
             \/ Trading(Now, todo, running, goal, w, o)
      PROVE  Good(Now, All)
  BY <1>6 DEF Cloning, CopyingValue, Trading
<1>7. ASSUME NEW o \in Callers, Taking(Now, todo, running, goal, w, o)
      PROVE  Good(Now, But(w)) /\ w \in Engaged
  <2>1. Good(Now, But(w)) /\ todo = Then(Step("init", w, o), <<>>) BY <1>7 DEF Taking, Only
  <2> QED BY <1>2, <2>1, ThenNothing, FirstEngaged
<1>8. ASSUME NEW o \in Callers, Transferring(Now, todo, running, goal, w, o)
      PROVE  Good(Now, All) \/ (Good(Now, But(w)) /\ w \in Engaged)
  BY <1>2, <1>8, ThenNothing, RelocatingOwners DEF Transferring
<1>9. ASSUME NEW u \in Callers, Relocating(Now, todo, u, Local, Leave)
      PROVE  Good(Now, All) \/ (Good(Now, But(u)) /\ u \in Engaged)
  <2>1. PICK t : t = Leave /\ IsList(t) BY LeaveIs
  <2>2. Relocating(Now, todo, u, Local, t) BY <1>9, <2>1
  <2> QED BY <1>2, <2>1, <2>2, RelocatingOwners
<1>10. ASSUME NEW o \in Callers, CopyingOver(Now, todo, running, goal, w, o)
       PROVE  Good(Now, All) \/ \E u \in All : Good(Now, But(u)) /\ u \in Engaged
  BY <1>2, <1>9, <1>10, RemovingOwners DEF CopyingOver
<1>11. ASSUME NEW o \in Callers, Rotating(Now, todo, running, goal, w, o)
       PROVE  Good(Now, All) \/ \E u \in All : Good(Now, But(u)) /\ u \in Engaged
  <2>1. CASE Relocating(Now, todo, w, o, Back(o))
    <3>1. PICK t : t = Back(o) /\ IsList(t) BY BackIs
    <3>2. Relocating(Now, todo, w, o, t) BY <2>1, <3>1
    <3> QED BY <1>2, <3>1, <3>2, RelocatingOwners
  <2> QED BY <1>2, <1>9, <1>11, <2>1, RemovingOwners DEF Rotating
<1> QED BY <1>1, <1>2, <1>3, <1>4, <1>5, <1>6, <1>7, <1>8, <1>10, <1>11

LEMMA OwnersAreWhole ==
  ASSUME NEW V \in SUBSET Slots, Good(Now, V), NEW W, W \subseteq V, NEW w \in W
  PROVE  Whole(w, W)
<1>1. ptr = Now.ptr /\ held = Now.held BY DEF Now
<1>2. ptr[w] \in Blocks \cup {w, Null, NoWrap} BY <1>1 DEF Good
<1>3. ASSUME Valid(Now, w) PROVE held[ptr[w]] # Raw /\ \A u \in W \ {w} : ptr[u] # ptr[w]
  <2>1. held[ptr[w]] # Raw BY <1>1, <1>3 DEF Good, HolderOf
  <2>2. ASSUME NEW u \in W \ {w}, ptr[u] = ptr[w] PROVE FALSE
    <3>1. ptr[u] \in Blocks \cup {u, Null, NoWrap} BY <1>1 DEF Good
    <3>2. ptr[w] \notin {Null, NoWrap} BY <1>1, <1>3 DEF Valid
    <3>3. w \in Slots /\ u \in Slots /\ w # u OBVIOUS
    <3>4. ptr[w] \in Blocks BY <1>2, <2>2, <3>1, <3>2, <3>3, Apart
    <3> QED BY <1>1, <2>2, <3>3, <3>4 DEF Good
  <2> QED BY <2>1, <2>2
<1> QED BY <1>2, <1>3 DEF Whole

LEMMA RestingOwns ==
  ASSUME TempGone(Now), Resting(Now) PROVE Owning /\ ptr[Local] = NoWrap
<1>1. Good(Now, All) /\ ~ IsWrap(Now, Local) BY DEF Resting
<1>2. ptr[Local] = NoWrap BY <1>1 DEF IsWrap, Now
<1>3. CASE Local = Temp
  <2>1. ~ Valid(Now, Local) BY <1>1, KindsIs
  <2>2. Good(Now, All \ {Local}) BY <1>1, <2>1, AllIs, DropIdle
  <2>3. All \ {Local} = Wraps BY <1>3, Apart DEF All
  <2> QED BY <1>2, <1>3, <2>2, <2>3 DEF Owning
<1>4. CASE Local # Temp
  <2>1. All = Wraps BY <1>4, StepConstantsOK DEF StepConstantsOK, All, Slots
  <2>2. ptr[Temp] = NoWrap BY <1>4 DEF TempGone, Now
  <2> QED BY <1>1, <1>2, <2>1, <2>2 DEF Owning
<1> QED BY <1>3, <1>4

LEMMA VisibleWhole == StepsInv => VisibleWrapsAreWhole
<1> SUFFICES ASSUME StepsInv PROVE VisibleWrapsAreWhole OBVIOUS
<1>1. CASE todo = <<>>
  <2>1. Owning /\ ptr[Local] = NoWrap BY <1>1, RestingOwns DEF StepsInv
  <2>2. Owned(Now) BY <2>1, OwningSuffices DEF OneOwnerPerHolder
  <2> QED BY <1>1, <2>1, <2>2 DEF VisibleWrapsAreWhole
<1>2. CASE todo # <<>>
  <2>1. Good(Now, All) \/ \E u \in All : Good(Now, But(u)) /\ u \in Engaged
    BY <1>2, Owners DEF StepsInv
  <2>2. PICK V : V \in SUBSET Slots /\ Good(Now, V) /\ \A x \in Wraps : x \notin V => x \in Engaged
    <3>1. CASE Good(Now, All) BY <3>1, AllIs
    <3>2. ASSUME NEW u \in All, Good(Now, But(u)), u \in Engaged
          PROVE  \E V \in SUBSET Slots : Good(Now, V) /\ \A x \in Wraps : x \notin V => x \in Engaged
      <4>1. But(u) \in SUBSET Slots /\ \A x \in Wraps : x \notin But(u) => x \in Engaged
        BY <3>2, AllIs
      <4> QED BY <3>2, <4>1
    <3> QED BY <2>1, <3>1, <3>2
  <2>3. PICK W : W = Wraps \ Engaged OBVIOUS
  <2>4. W \subseteq V BY <2>2, <2>3
  <2>5. \A w \in W : Whole(w, W) BY <2>2, <2>4, OwnersAreWhole
  <2> QED BY <1>2, <2>3, <2>5 DEF VisibleWrapsAreWhole
<1> QED BY <1>1, <1>2

(* The lists of steps and the records of calls are of the type.            *)
Deeds ==
  {"destroy", "clear", "end", "move", "init", "transfer", "exchange", "clone", "copy value",
   "build", "set"}

LEMMA StepTyped ==
  ASSUME NEW what \in Deeds, NEW w \in All, NEW o \in All PROVE Step(what, w, o) \in Steps
<1>1. w \in Slots /\ o \in Slots BY AllIs
<1> QED BY <1>1 DEF Step, Steps, Deeds

LEMMA ArgumentTyped ==
  ASSUME NEW what \in Deeds, NEW w \in All, NEW t \in Types, NEW v \in Vals,
         NEW how \in {"args", "copy", "move"}
  PROVE  Step(what, w, Argument(t, v, how)) \in Steps
<1>1. PICK h : h = [type |-> t, val |-> v] OBVIOUS
<1>2. h \in Holder BY <1>1 DEF Holder
<1>3. PICK a : a = Argument(t, v, how) OBVIOUS
<1>4. a \in [holder : Holder, how : {"args", "copy", "move"}] BY <1>1, <1>2, <1>3 DEF Argument
<1>5. w \in Slots BY AllIs
<1>6. Step(what, w, a) \in Steps BY <1>4, <1>5 DEF Step, Steps, Deeds
<1> QED BY <1>3, <1>6

LEMMA ThenTyped ==
  ASSUME NEW x \in Steps, NEW t \in Seq(Steps) PROVE Then(x, t) \in Seq(Steps)
<1>1. PICK R : R = Steps OBVIOUS
<1>2. <<x>> \in Seq(R) /\ t \in Seq(R) BY <1>1
<1>3. <<x>> \o t \in Seq(R) BY <1>2
<1> QED BY <1>1, <1>3 DEF Then

LEMMA NothingTyped == <<>> \in Seq(Steps)
<1>1. PICK R : R = Steps OBVIOUS
<1>2. <<>> \in Seq(R) OBVIOUS
<1> QED BY <1>1, <1>2

LEMMA OnlyTyped ==
  ASSUME NEW x \in Steps PROVE Only(x) \in Seq(Steps)
<1>1. PICK t : t = <<>> OBVIOUS
<1>2. t \in Seq(Steps) BY <1>1, NothingTyped
<1>3. Then(x, t) \in Seq(Steps) BY <1>2, ThenTyped
<1> QED BY <1>1, <1>3 DEF Only

LEMMA FinishTyped ==
  ASSUME NEW u \in All, NEW what \in {"clear", "end"} PROVE Finish(u, what) \in Seq(Steps)
<1>1. PICK x, y : x = Step("destroy", u, u) /\ y = Step(what, u, u) OBVIOUS
<1>2. x \in Steps /\ y \in Steps BY <1>1, StepTyped DEF Deeds
<1>3. Then(x, Only(y)) \in Seq(Steps) BY <1>2, OnlyTyped, ThenTyped
<1> QED BY <1>1, <1>3 DEF Finish

LEMMA LeaveTyped == Leave \in Seq(Steps)
BY AllIs, FinishTyped DEF Leave

LEMMA BackTyped == ASSUME NEW o \in All PROVE Back(o) \in Seq(Steps)
<1>1. PICK x : x = Step("move", o, Local) OBVIOUS
<1>2. x \in Steps BY <1>1, AllIs, StepTyped DEF Deeds
<1>3. Then(x, Leave) \in Seq(Steps) BY <1>2, LeaveTyped, ThenTyped
<1> QED BY <1>1, <1>3 DEF Back

LEMMA RemovingTyped ==
  ASSUME NEW n, NEW q, NEW u \in All, NEW what \in {"clear", "end"}, Removing(n, q, u, what)
  PROVE  q \in Seq(Steps) /\ n \in State
<1>1. Step(what, u, u) \in Steps BY StepTyped DEF Deeds
<1>2. Only(Step(what, u, u)) \in Seq(Steps) BY <1>1, OnlyTyped
<1> QED BY <1>2, FinishTyped, GoodIs DEF Removing

LEMMA RelocatingTyped ==
  ASSUME NEW n, NEW q, NEW u \in All, NEW v \in All, NEW t \in Seq(Steps), Relocating(n, q, u, v, t)
  PROVE  q \in Seq(Steps) /\ n \in State
<1>1. PICK m, d, i, x : /\ m = Step("move", u, v) /\ d = Step("destroy", u, u)
                        /\ i = Step("init", u, v) /\ x = Step("transfer", u, v)
  OBVIOUS
<1>2. m \in Steps /\ d \in Steps /\ i \in Steps /\ x \in Steps BY <1>1, StepTyped DEF Deeds
<1>3. Then(m, t) \in Seq(Steps) /\ Then(i, t) \in Seq(Steps) /\ Then(x, t) \in Seq(Steps)
  BY <1>2, ThenTyped
<1>4. Then(d, Then(i, t)) \in Seq(Steps) BY <1>2, <1>3, ThenTyped
<1>5. n \in State BY GoodIs DEF Relocating
<1> QED BY <1>1, <1>3, <1>4, <1>5 DEF Relocating

Typed(n, q, r) ==
  /\ n \in State /\ q \in Seq(Steps)
  /\ r \in [op : Ops, dst : Wraps \cup {Outside}, src : Wraps \cup {Outside}]
  /\ r.op # "none"

LEMMA RecordTyped ==
  ASSUME NEW op \in Ops, op # "none", NEW w \in Wraps, NEW o \in Wraps \cup {Outside}
  PROVE  /\ Record(op, w, o) \in [op : Ops, dst : Wraps \cup {Outside}, src : Wraps \cup {Outside}]
         /\ Record(op, w, o).op # "none"
BY DEF Record

LEMMA OneWrapTyped ==
  ASSUME NEW w \in Callers,
         \/ Closing(Now, todo, running, goal, w)
         \/ \E t \in Types, v \in Vals, how \in {"args", "copy", "move"} :
              \/ Creating(Now, todo, running, goal, w, t, v, how)
              \/ Recreating(Now, todo, running, goal, w, t, v, how)
              \/ Overwriting(Now, todo, running, goal, w, t, v, how)
  PROVE  Typed(Now, todo, running)
<1>1. w \in Wraps /\ w \in All BY CallersAre
<1>2. ASSUME NEW op \in {"reset", "destroy", "construct", "assign", "emplace"},
             running = Record(op, w, Outside)
      PROVE  /\ running \in [op : Ops, dst : Wraps \cup {Outside}, src : Wraps \cup {Outside}]
             /\ running.op # "none"
  <2>1. op \in Ops /\ op # "none" BY DEF Ops
  <2> QED BY <1>1, <1>2, <2>1, RecordTyped
<1>3. CASE Closing(Now, todo, running, goal, w)
  <2>1. todo \in Seq(Steps) /\ Now \in State BY <1>1, <1>3, RemovingTyped DEF Closing
  <2>2. running = Record("reset", w, Outside) \/ running = Record("destroy", w, Outside)
    BY <1>3 DEF Closing
  <2> QED BY <1>2, <2>1, <2>2 DEF Typed
<1>4. ASSUME NEW t \in Types, NEW v \in Vals, NEW how \in {"args", "copy", "move"},
             \/ Creating(Now, todo, running, goal, w, t, v, how)
             \/ Recreating(Now, todo, running, goal, w, t, v, how)
             \/ Overwriting(Now, todo, running, goal, w, t, v, how)
      PROVE  Typed(Now, todo, running)
  <2>1. PICK a, b, s, d : /\ a = Argument(t, v, how) /\ b = Step("build", w, a)
                          /\ s = Step("set", w, a) /\ d = Step("destroy", w, w)
    OBVIOUS
  <2>2. b \in Steps /\ s \in Steps /\ d \in Steps
    BY <1>1, <2>1, ArgumentTyped, StepTyped DEF Deeds
  <2>3. Only(b) \in Seq(Steps) /\ Only(s) \in Seq(Steps) BY <2>2, OnlyTyped
  <2>4. Then(d, Only(b)) \in Seq(Steps) BY <2>2, <2>3, ThenTyped
  <2>5. CASE Creating(Now, todo, running, goal, w, t, v, how)
    <3>1. Now \in State /\ todo = Only(b) /\ running = Record("construct", w, Outside)
      BY <2>1, <2>5, GoodIs DEF Creating
    <3> QED BY <1>2, <2>3, <3>1 DEF Typed
  <2>6. CASE Recreating(Now, todo, running, goal, w, t, v, how)
    <3>1. Now \in State /\ (todo = Only(b) \/ todo = Then(d, Only(b)))
      BY <2>1, <2>6, GoodIs DEF Recreating
    <3>2. running = Record("assign", w, Outside) \/ running = Record("emplace", w, Outside)
      BY <2>6 DEF Recreating
    <3> QED BY <1>2, <2>3, <2>4, <3>1, <3>2 DEF Typed
  <2>7. CASE Overwriting(Now, todo, running, goal, w, t, v, how)
    <3>1. Now \in State /\ todo = Only(s) /\ running = Record("assign", w, Outside)
      BY <2>1, <2>7, GoodIs DEF Overwriting
    <3> QED BY <1>2, <2>3, <3>1 DEF Typed
  <2> QED BY <1>4, <2>5, <2>6, <2>7
<1> QED BY <1>3, <1>4

LEMMA TwoWrapsTyped ==
  ASSUME NEW w \in Callers, NEW o \in Callers,
         \/ Cloning(Now, todo, running, goal, w, o) \/ Taking(Now, todo, running, goal, w, o)
         \/ Transferring(Now, todo, running, goal, w, o)
         \/ CopyingValue(Now, todo, running, goal, w, o)
         \/ CopyingOver(Now, todo, running, goal, w, o)
         \/ Trading(Now, todo, running, goal, w, o) \/ Rotating(Now, todo, running, goal, w, o)
  PROVE  Typed(Now, todo, running)
<1>1. w \in Wraps /\ w \in All /\ o \in Wraps /\ o \in All /\ Local \in All BY CallersAre, AllIs
<1>2. ASSUME NEW op \in {"copy construct", "move construct", "copy assign", "move assign", "swap"},
             NEW x \in Wraps, NEW y \in Wraps, running = Record(op, x, y)
      PROVE  /\ running \in [op : Ops, dst : Wraps \cup {Outside}, src : Wraps \cup {Outside}]
             /\ running.op # "none"
  <2>1. op \in Ops /\ op # "none" BY DEF Ops
  <2>2. y \in Wraps \cup {Outside} OBVIOUS
  <2> QED BY <1>2, <2>1, <2>2, RecordTyped
<1>3. ASSUME NEW what \in Deeds, todo = Only(Step(what, w, o)) PROVE todo \in Seq(Steps)
  <2>1. PICK x : x = Step(what, w, o) OBVIOUS
  <2>2. x \in Steps BY <1>1, <2>1, StepTyped
  <2> QED BY <1>3, <2>1, <2>2, OnlyTyped
<1>4. CASE Cloning(Now, todo, running, goal, w, o)
  <2>1. Now \in State /\ running = Record("copy construct", w, o) /\ todo = Only(Step("clone", w, o))
    BY <1>4, GoodIs DEF Cloning
  <2>2. todo \in Seq(Steps) BY <1>3, <2>1 DEF Deeds
  <2> QED BY <1>1, <1>2, <2>1, <2>2 DEF Typed
<1>5. CASE Taking(Now, todo, running, goal, w, o)
  <2>1. Now \in State /\ running = Record("move construct", w, o) /\ todo = Only(Step("init", w, o))
    BY <1>5, GoodIs DEF Taking
  <2>2. todo \in Seq(Steps) BY <1>3, <2>1 DEF Deeds
  <2> QED BY <1>1, <1>2, <2>1, <2>2 DEF Typed
<1>6. CASE Transferring(Now, todo, running, goal, w, o)
  <2>1. PICK t : t = <<>> OBVIOUS
  <2>2. Relocating(Now, todo, w, o, t) BY <1>6, <2>1 DEF Transferring
  <2>5. t \in Seq(Steps) BY <2>1, NothingTyped
  <2>3. todo \in Seq(Steps) /\ Now \in State BY <1>1, <2>2, <2>5, RelocatingTyped
  <2>4. \/ running = Record("move assign", w, o) \/ running = Record("swap", w, o)
        \/ running = Record("swap", o, w)
    BY <1>6 DEF Transferring
  <2> QED BY <1>1, <1>2, <2>3, <2>4 DEF Typed
<1>7. CASE CopyingValue(Now, todo, running, goal, w, o)
  <2>1. Now \in State /\ running = Record("copy assign", w, o) /\ todo = Only(Step("copy value", w, o))
    BY <1>7, GoodIs DEF CopyingValue
  <2>2. todo \in Seq(Steps) BY <1>3, <2>1 DEF Deeds
  <2> QED BY <1>1, <1>2, <2>1, <2>2 DEF Typed
<1>8. CASE Trading(Now, todo, running, goal, w, o)
  <2>1. Now \in State /\ running = Record("swap", w, o) /\ todo = Only(Step("exchange", w, o))
    BY <1>8, GoodIs DEF Trading
  <2>2. todo \in Seq(Steps) BY <1>3, <2>1 DEF Deeds
  <2> QED BY <1>1, <1>2, <2>1, <2>2 DEF Typed
<1>9. CASE CopyingOver(Now, todo, running, goal, w, o)
  <2>1. PICK c, m : c = Step("clone", Local, o) /\ m = Step("move", w, Local) OBVIOUS
  <2>2. c \in Steps /\ m \in Steps BY <1>1, <2>1, StepTyped DEF Deeds
  <2>3. Then(m, Leave) \in Seq(Steps) BY <2>2, LeaveTyped, ThenTyped
  <2>4. Then(c, Then(m, Leave)) \in Seq(Steps) BY <2>2, <2>3, ThenTyped
  <2>5. \/ Good(Now, All) /\ todo = Then(c, Then(m, Leave))
        \/ Relocating(Now, todo, w, Local, Leave) \/ Removing(Now, todo, Local, "end")
    BY <1>9, <2>1 DEF CopyingOver
  <2>6. todo \in Seq(Steps) /\ Now \in State
    BY <1>1, <2>4, <2>5, LeaveTyped, GoodIs, RelocatingTyped, RemovingTyped
  <2>7. running = Record("copy assign", w, o) BY <1>9 DEF CopyingOver
  <2> QED BY <1>1, <1>2, <2>6, <2>7 DEF Typed
<1>10. CASE Rotating(Now, todo, running, goal, w, o)
  <2>1. PICK i, m : i = Step("init", Local, w) /\ m = Step("move", w, o) OBVIOUS
  <2>2. i \in Steps /\ m \in Steps BY <1>1, <2>1, StepTyped DEF Deeds
  <2>3. Then(m, Back(o)) \in Seq(Steps) BY <1>1, <2>2, BackTyped, ThenTyped
  <2>4. Then(i, Then(m, Back(o))) \in Seq(Steps) BY <2>2, <2>3, ThenTyped
  <2>5. \/ Good(Now, But(Local)) /\ todo = Then(i, Then(m, Back(o)))
        \/ Relocating(Now, todo, w, o, Back(o))
        \/ Relocating(Now, todo, o, Local, Leave) \/ Removing(Now, todo, Local, "end")
    BY <1>10, <2>1 DEF Rotating
  <2>6. todo \in Seq(Steps) /\ Now \in State
    BY <1>1, <2>4, <2>5, LeaveTyped, BackTyped, GoodIs, RelocatingTyped, RemovingTyped
  <2>7. running = Record("swap", w, o) BY <1>10 DEF Rotating
  <2> QED BY <1>1, <1>2, <2>6, <2>7 DEF Typed
<1> QED BY <1>4, <1>5, <1>6, <1>7, <1>8, <1>9, <1>10

LEMMA StepsTyped == StepsInv => StepsTypeOK
<1> SUFFICES ASSUME StepsInv PROVE StepsTypeOK OBVIOUS
<1>1. CASE todo = <<>>
  <2>1. Now \in State /\ running = Idle /\ goal \in [Wraps -> Contents]
    BY <1>1, GoodIs DEF StepsInv, Resting
  <2>2. Idle \in [op : Ops, dst : Wraps \cup {Outside}, src : Wraps \cup {Outside}]
    BY DEF Idle, Ops
  <2>3. todo \in Seq(Steps) BY <1>1
  <2> QED BY <1>1, <2>1, <2>2, <2>3 DEF StepsTypeOK
<1>2. CASE todo # <<>>
  <2>1. UnderWay(Now, todo, running, goal) BY <1>2 DEF StepsInv
  <2>2. Typed(Now, todo, running) BY <2>1, OneWrapTyped, TwoWrapsTyped DEF UnderWay
  <2>3. running # Idle BY <2>2 DEF Typed, Idle
  <2> QED BY <1>2, <2>2, <2>3 DEF Typed, StepsTypeOK, StepsInv
<1> QED BY <1>1, <1>2

(* The state of a call in progress keeps its type (StepsTypeOK).           *)
THEOREM StepsTypeCorrect == StepsSpec => []StepsTypeOK
<1>1. StepsInv => StepsTypeOK BY StepsTyped
<1> QED BY <1>1, StepsInvariance, PTL

(* Between the steps of a call of the wrap class, with user code making    *)
(* calls of its own, every wrap that this code may use is in order, and    *)
(* nothing is left over when the call is done (VisibleWrapsAreWhole).      *)
THEOREM StepsVisible == StepsSpec => []VisibleWrapsAreWhole
<1>1. StepsInv => VisibleWrapsAreWhole BY VisibleWhole
<1> QED BY <1>1, StepsInvariance, PTL

(* Nor does any of these calls meet undefined behaviour or a failed        *)
(* assertion, when every type that can be wrapped is assignable in each    *)
(* way it is constructible (NoUndefinedBehaviour).                         *)
THEOREM StepsSafety ==
  ASSUME Regular PROVE StepsSpec => []NoUndefinedBehaviour
<1>1. StepsInit => NoUndefinedBehaviour BY StepsInitGood DEF NoUndefinedBehaviour
<1>2. StepsInv /\ NoUndefinedBehaviour /\ [StepsNext]_<<vars, stepVars>> => NoUndefinedBehaviour'
  BY StepsStepGood DEF NoUndefinedBehaviour
<1> QED BY <1>1, <1>2, StepsInvariance, PTL DEF StepsSpec

(* A call that does not throw leaves what it promised when it began,       *)
(* unless user code has changed that very wrap since (GoalsAreMet).        *)
THEOREM StepsKeepPromises == StepsSpec => GoalsAreMet
<1> DEFINE Promise == todo # <<>> /\ todo' = <<>> /\ ~ call'.threw =>
                      \A w \in Wraps : goal[w] \in {Anything, Seen(Now', w)}
<1>1. StepsInv /\ [StepsNext]_<<vars, stepVars>> => [Promise]_<<vars, stepVars>>
  <2> SUFFICES ASSUME StepsInv, StepsNext PROVE Promise OBVIOUS
  <2> SUFFICES ASSUME todo # <<>>, todo' = <<>>, ~ call'.threw
               PROVE  \A w \in Wraps : goal[w] \in {Anything, Seen(Now', w)}
    OBVIOUS
  <2>1. Advances BY StepsNextGood
  <2>2. Over BY <2>1 DEF Advances, Continued
  <2> QED BY <2>2 DEF Over, Met
<1> QED BY <1>1, StepsInvariance, PTL DEF StepsSpec, GoalsAreMet
=============================================================================
