-------------------------- MODULE WrapAtomicProofs --------------------------
(***************************************************************************)
(* WrapAtomic implements ValueWrap: whichever list of steps a call works   *)
(* through, what it leaves is what one action of ValueWrap leaves.         *)
(*                                                                         *)
(* The invariant says where a call is.  For each kind of call there is an  *)
(* operator (Ending, Constructing, ..., SwappingByTemp) that lists the     *)
(* pairs of a state and the steps still to make, the state written as an   *)
(* expression of `before`, the one in which the call began.  A step of the *)
(* call leads from one of these pairs to the next, or it is the last one,  *)
(* and then `before` and the state it leaves are related by an action of   *)
(* ValueWrap.  Nothing is assumed about who owns which holder: the steps   *)
(* and the actions agree in every state, undefined behaviour included.     *)
(***************************************************************************)
EXTENDS WrapAtomic, WrapStepsProofs

----------------------------------------------------------------------------
(* The operators of ValueWrap and those of its instance are the same: no   *)
(* operator on state records looks at the variables.                       *)
LEMMA ReadersSame ==
  /\ \A s, w : Atomic!IsWrap(s, w) = IsWrap(s, w)
  /\ \A s, w : Atomic!Invalid(s, w) = Invalid(s, w)
  /\ \A s, w : Atomic!Valid(s, w) = Valid(s, w)
  /\ \A s, w : Atomic!Stype(s, w) = Stype(s, w)
  /\ \A s, w : Atomic!HolderOf(s, w) = HolderOf(s, w)
  /\ \A s, w : Atomic!TypeOf(s, w) = TypeOf(s, w)
BY DEF Atomic!IsWrap, IsWrap, Atomic!Invalid, Invalid, Atomic!Valid, Valid, Atomic!Stype, Stype,
       Atomic!HolderOf, HolderOf, Atomic!TypeOf, TypeOf

LEMMA ChoicesSame ==
  /\ \A t : Atomic!Wrappable(t) = Wrappable(t)
  /\ \A t, how : Atomic!Constructible(t, how) = Constructible(t, how)
  /\ \A s, w, t : Atomic!CtorPlaces(s, w, t) = CtorPlaces(s, w, t)
  /\ \A t : Atomic!CtorThrows(t) = CtorThrows(t)
  /\ \A s, w, o : Atomic!CopyPlaces(s, w, o) = CopyPlaces(s, w, o)
  /\ \A s, o : Atomic!CopyThrows(s, o) = CopyThrows(s, o)
BY ReadersSame
   DEF Atomic!Wrappable, Wrappable, Atomic!CopyableType, CopyableType, Atomic!MovableType, MovableType,
       Atomic!SwappableType, SwappableType, Atomic!Members, Members,
       Atomic!Constructible, Constructible, Atomic!CtorPlaces, CtorPlaces, Atomic!CtorThrows, CtorThrows,
       Atomic!CopyPlaces, CopyPlaces, Atomic!CopyThrows, CopyThrows,
       Atomic!FreeBlocks, FreeBlocks, Atomic!Raw, Raw

LEMMA WritersSame ==
  /\ \A s, w, x : Atomic!SetPtr(s, w, x) = SetPtr(s, w, x)
  /\ \A s, p, v : Atomic!SetValue(s, p, v) = SetValue(s, p, v)
  /\ \A s, w, p, h : Atomic!NewHolder(s, w, p, h) = NewHolder(s, w, p, h)
  /\ \A s, what : Atomic!Accuse(s, what) = Accuse(s, what)
  /\ \A s, p, m : Atomic!Run(s, p, m) = Run(s, p, m)
  /\ \A s, w, o : Atomic!AssertSameStorage(s, w, o) = AssertSameStorage(s, w, o)
  /\ \A s, w : Atomic!Destroy(s, w) = Destroy(s, w)
  /\ \A b, x : Atomic!Blame(b, x) = Blame(b, x)
BY ReadersSame
   DEF Atomic!SetPtr, SetPtr, Atomic!SetValue, SetValue, Atomic!NewHolder, NewHolder,
       Atomic!Accuse, Accuse, Atomic!Run, Run, Atomic!AssertSameStorage, AssertSameStorage,
       Atomic!Destroy, Destroy, Atomic!Blame, Blame, Atomic!Raw, Raw, Atomic!Slots, Slots

LEMMA BodiesSame ==
  /\ \A s, w, o, p : Atomic!CopyInit(s, w, o, p) = CopyInit(s, w, o, p)
  /\ \A s, w, o : Atomic!MoveInitFrom(s, w, o) = MoveInitFrom(s, w, o)
  /\ \A s, w : Atomic!Dtor(s, w) = Dtor(s, w)
  /\ \A s, w, o : Atomic!SwapPointers(s, w, o) = SwapPointers(s, w, o)
BY ReadersSame, WritersSame
   DEF Atomic!CopyInit, CopyInit, Atomic!MoveInitFrom, MoveInitFrom, Atomic!Dtor, Dtor,
       Atomic!SwapPointers, SwapPointers

LEMMA MoveAssignSame == \A s, w, o : Atomic!MoveAssign(s, w, o) = MoveAssign(s, w, o)
<1> TAKE s, w, o
<1> USE ReadersSame, WritersSame, BodiesSame DEF Atomic!MoveAssign, MoveAssign
<1>1. CASE Invalid(s, w) BY <1>1
<1>2. CASE ~ Invalid(s, w) /\ TypeOf(s, w) # TypeOf(s, o) BY <1>2
<1>3. CASE ~ Invalid(s, w) /\ TypeOf(s, w) = TypeOf(s, o) /\ Stype(s, w) BY <1>3
<1>4. CASE ~ Invalid(s, w) /\ TypeOf(s, w) = TypeOf(s, o) /\ ~ Stype(s, w) BY <1>4
<1> QED BY <1>1, <1>2, <1>3, <1>4

LEMMA SwapsSame ==
  /\ \A s, w, o : Atomic!SwapSameType(s, w, o) = SwapSameType(s, w, o)
  /\ \A s, w, o : Atomic!SwapByTemp(s, w, o) = SwapByTemp(s, w, o)
BY ReadersSame, WritersSame, BodiesSame, MoveAssignSame
   DEF Atomic!SwapSameType, SwapSameType, Atomic!SwapByTemp, SwapByTemp

----------------------------------------------------------------------------
(* Whole calls: what before, before' and the call record have to be.       *)

LEMMA NowSame == Proper(before) => Atomic!Now = before
BY DEF Proper, Atomic!Now

LEMMA CommitSame == \A n : before' = n => Atomic!Commit(n)
BY DEF Atomic!Commit

LEMMA WholeNullary ==
  ASSUME Proper(before), NEW w \in Wraps,
         \/ /\ ~ IsWrap(before, w) /\ before' = SetPtr(before, w, Null)
            /\ Returned("construct", w, Outside, FALSE)
         \/ /\ IsWrap(before, w) /\ before' = Dtor(before, w)
            /\ Returned("destroy", w, Outside, FALSE)
         \/ /\ IsWrap(before, w) /\ before' = SetPtr(Destroy(before, w), w, Null)
            /\ Returned("reset", w, Outside, FALSE)
         \/ /\ Copyable /\ IsWrap(before, w) /\ before' = before
            /\ Returned("copy assign", w, w, FALSE)
  PROVE  Atomic!Next
<1> USE NowSame, CommitSame, ReadersSame, WritersSame, BodiesSame DEF Returned, Atomic!Returned
<1>1. \/ Atomic!InvalidConstruct(w) \/ Atomic!Destruct(w) \/ Atomic!Reset(w) \/ Atomic!CopySelf(w)
  BY DEF Atomic!InvalidConstruct, Atomic!Destruct, Atomic!Reset, Atomic!CopySelf
<1> QED BY <1>1 DEF Atomic!Next

LEMMA WholeWrite ==
  ASSUME Proper(before), NEW w \in Wraps, NEW v \in Vals, Valid(before, w),
         before' = SetValue(before, before.ptr[w], v), Returned("write", w, Outside, FALSE)
  PROVE  Atomic!Next
<1>1. Atomic!Write(w, v)
  BY NowSame, CommitSame, ReadersSame, WritersSame DEF Returned, Atomic!Returned, Atomic!Write
<1> QED BY <1>1 DEF Atomic!Next

(* The generic operations, with the holder h that the argument makes.      *)
LEMMA WholeConstruct ==
  ASSUME Proper(before), NEW w \in Wraps, NEW t \in Types, NEW v \in Vals,
         NEW how \in {"args", "copy", "move"},
         ~ IsWrap(before, w), Wrappable(t), Constructible(t, how),
         \/ /\ \E p \in CtorPlaces(before, w, t) :
                 before' = NewHolder(before, w, p, [type |-> t, val |-> v])
            /\ Returned("construct", w, Outside, FALSE)
         \/ CtorThrows(t) /\ before' = before /\ Returned("construct", w, Outside, TRUE)
  PROVE  Atomic!Next
<1>1. Atomic!Construct(w, t, v, how)
  BY NowSame, CommitSame, ReadersSame, ChoicesSame, WritersSame
     DEF Returned, Atomic!Returned, Atomic!Construct
<1> QED BY <1>1 DEF Atomic!Next

LEMMA WholeRemake ==
  ASSUME Proper(before), NEW w \in Wraps, NEW t \in Types, NEW v \in Vals,
         NEW how \in {"args", "copy", "move"}, NEW op \in {"assign", "emplace"},
         IsWrap(before, w), Wrappable(t),
         op = "assign" => /\ how # "args" /\ Constructible(t, how)
                          /\ Invalid(before, w) \/ TypeOf(before, w) # t,
         op = "emplace" => how = "args",
         \/ /\ \E p \in CtorPlaces(Destroy(before, w), w, t) :
                 before' = NewHolder(Destroy(before, w), w, p, [type |-> t, val |-> v])
            /\ Returned(op, w, Outside, FALSE)
         \/ /\ CtorThrows(t) /\ before' = SetPtr(Destroy(before, w), w, Null)
            /\ Returned(op, w, Outside, TRUE)
  PROVE  Atomic!Next
<1> USE NowSame, CommitSame, ReadersSame, ChoicesSame, WritersSame DEF Returned, Atomic!Returned
<1>1. CASE op = "assign"
  <2>1. Atomic!AssignFresh(w, t, v, how) BY <1>1 DEF Atomic!AssignFresh
  <2> QED BY <1>1, <2>1 DEF Atomic!Next
<1>2. CASE op = "emplace"
  <2>1. Atomic!Emplace(w, t, v) BY <1>2 DEF Atomic!Emplace
  <2> QED BY <2>1 DEF Atomic!Next
<1> QED BY <1>1, <1>2

LEMMA WholeAssignValue ==
  ASSUME Proper(before), NEW w \in Wraps, NEW t \in Types, NEW v \in Vals,
         NEW how \in {"copy", "move"}, NEW threw \in BOOLEAN,
         Valid(before, w), Wrappable(t), Constructible(t, how), TypeOf(before, w) = t,
         threw => how = "copy" /\ t \in FragileTypes,
         before' = SetValue(Accuse(before, Run(before, before.ptr[w],
                                               IF how = "copy" THEN "copy assign" ELSE "move assign")),
                            before.ptr[w], IF threw THEN Hollow ELSE v),
         Returned("assign", w, Outside, threw)
  PROVE  Atomic!Next
<1>1. threw \in {FALSE} \cup Atomic!Blame(how = "copy" /\ t \in FragileTypes, TRUE)
  BY DEF Atomic!Blame
<1>2. Atomic!AssignValue(w, t, v, how)
  BY <1>1, NowSame, CommitSame, ReadersSame, ChoicesSame, WritersSame
     DEF Returned, Atomic!Returned, Atomic!AssignValue
<1> QED BY <1>2 DEF Atomic!Next

LEMMA WholeCopyConstruct ==
  ASSUME Proper(before), NEW w \in Wraps, NEW o \in Wraps,
         Copyable, ~ IsWrap(before, w), Valid(before, o),
         \/ /\ \E p \in CopyPlaces(before, w, o) : before' = CopyInit(before, w, o, p)
            /\ Returned("copy construct", w, o, FALSE)
         \/ CopyThrows(before, o) /\ before' = before /\ Returned("copy construct", w, o, TRUE)
  PROVE  Atomic!Next
<1>1. Atomic!CopyConstruct(w, o)
  BY NowSame, CommitSame, ReadersSame, ChoicesSame, WritersSame, BodiesSame
     DEF Returned, Atomic!Returned, Atomic!CopyConstruct
<1> QED BY <1>1 DEF Atomic!Next

LEMMA WholeMoves ==
  ASSUME Proper(before), NEW w \in Wraps, NEW o \in Wraps, Movable, IsWrap(before, o),
         \/ /\ ~ IsWrap(before, w) /\ before' = MoveInitFrom(before, w, o)
            /\ Returned("move construct", w, o, FALSE)
         \/ /\ IsWrap(before, w) /\ Returned("move assign", w, o, FALSE)
            /\ \/ w = o /\ before' = before
               \/ /\ w # o /\ (Invalid(before, o) => Invalid(before, w))
                  /\ before' = MoveAssign(before, w, o)
  PROVE  Atomic!Next
<1>1. Atomic!MoveConstruct(w, o) \/ Atomic!MoveAssignment(w, o)
  BY NowSame, CommitSame, ReadersSame, BodiesSame, MoveAssignSame
     DEF Returned, Atomic!Returned, Atomic!MoveConstruct, Atomic!MoveAssignment
<1> QED BY <1>1 DEF Atomic!Next

LEMMA WholeCopyByTemp ==
  ASSUME Proper(before), NEW w \in Wraps, NEW o \in Wraps, Copyable, w # o, IsWrap(before, w),
         Valid(before, o), ~ InPlace(before, w, o),
         \/ /\ \E p \in CopyPlaces(before, Temp, o) :
                 before' = Dtor(MoveAssign(CopyInit(before, Temp, o, p), w, Temp), Temp)
            /\ Returned("copy assign", w, o, FALSE)
         \/ CopyThrows(before, o) /\ before' = before /\ Returned("copy assign", w, o, TRUE)
  PROVE  Atomic!Next
<1>1. Atomic!CopyByTemp(w, o)
  BY NowSame, CommitSame, ReadersSame, ChoicesSame, BodiesSame, MoveAssignSame
     DEF Returned, Atomic!Returned, Atomic!CopyByTemp, Atomic!InPlace, InPlace
<1> QED BY <1>1 DEF Atomic!Next

LEMMA WholeCopyInPlace ==
  ASSUME Proper(before), NEW w \in Wraps, NEW o \in Wraps, Copyable, w # o, IsWrap(before, w),
         Valid(before, o), InPlace(before, w, o), NEW threw \in BOOLEAN,
         threw => TypeOf(before, o) \in FragileTypes,
         before' = SetValue(Accuse(Accuse(before, AssertSameStorage(before, w, o)),
                                   Run(before, before.ptr[o], "copy assign")),
                            before.ptr[w], IF threw THEN Hollow ELSE HolderOf(before, o).val),
         Returned("copy assign", w, o, threw)
  PROVE  Atomic!Next
<1>1. threw \in {FALSE} \cup Atomic!Blame(TypeOf(before, o) \in FragileTypes, TRUE)
  BY DEF Atomic!Blame
<1>2. Atomic!CopyInPlace(w, o)
  BY <1>1, NowSame, CommitSame, ReadersSame, WritersSame
     DEF Returned, Atomic!Returned, Atomic!CopyInPlace, Atomic!InPlace, InPlace
<1> QED BY <1>2 DEF Atomic!Next

LEMMA WholeSwap ==
  ASSUME Proper(before), NEW w \in Wraps, NEW o \in Wraps, Swappable, Movable,
         IsWrap(before, w), IsWrap(before, o), Returned("swap", w, o, FALSE),
         \/ w = o /\ before' = before
         \/ Invalid(before, w) /\ Invalid(before, o) /\ before' = before
         \/ Invalid(before, w) /\ Valid(before, o) /\ before' = MoveAssign(before, w, o)
         \/ Valid(before, w) /\ Invalid(before, o) /\ before' = MoveAssign(before, o, w)
         \/ /\ w # o /\ Valid(before, w) /\ Valid(before, o)
            /\ TypeOf(before, w) # TypeOf(before, o) /\ before' = SwapByTemp(before, w, o)
         \/ /\ w # o /\ Valid(before, w) /\ Valid(before, o)
            /\ TypeOf(before, w) = TypeOf(before, o) /\ before' = SwapSameType(before, w, o)
  PROVE  Atomic!Next
<1>1. Atomic!Swap(w, o)
  BY NowSame, CommitSame, ReadersSame, MoveAssignSame, SwapsSame
     DEF Returned, Atomic!Returned, Atomic!Swap
<1> QED BY <1>1 DEF Atomic!Next

----------------------------------------------------------------------------
Moving(n, q, s, u, v, t) ==
  \/ n = s /\ q = Then(Step("move", u, v), t)
  \/ n = s /\ Differ(s, u, v) /\ q = Then(Step("destroy", u, u), Then(Step("init", u, v), t))
  \/ /\ n = IF Invalid(s, u) THEN s ELSE Destroy(s, u)
     /\ Invalid(s, u) \/ Differ(s, u, v)
     /\ q = Then(Step("init", u, v), t)
  \/ n = s /\ q = Then(Step("transfer", u, v), t)

(* The next step of a move leads to another one of its states, or it       *)
(* leaves what MoveAssign leaves.                                          *)
LEMMA MovingOn ==
  ASSUME NEW s, Proper(s), NEW u \in Slots, NEW v \in Slots, NEW t, IsList(t),
         Moving(Now, todo, s, u, v, t), Doer, Valid(s, u) => Valid(s, v)
  PROVE  \/ /\ Proper(Now') /\ Moving(Now', todo', s, u, v, t)
            /\ todo' # <<>> /\ UNCHANGED <<call, running>>
         \/ Moves(MoveAssign(s, u, v), t)
<1>1. CASE Now = s /\ todo = Then(Step("move", u, v), t)
  <2>1. Now' = Now /\ Decided(Now, todo', u, v, t) /\ todo' # <<>> /\ UNCHANGED <<call, running>>
    BY <1>1, DecideStep
  <2>2. Moving(Now, todo', Now, u, v, t) BY <2>1 DEF Decided, Moving
  <2> QED BY <1>1, <2>1, <2>2
<1>2. CASE /\ Now = s /\ Differ(s, u, v)
           /\ todo = Then(Step("destroy", u, u), Then(Step("init", u, v), t))
  <2> DEFINE i == Then(Step("init", u, v), t)
  <2>1. IsList(i) /\ i # <<>> BY ThenIs
  <2>2. Moves(Destroy(s, u), i)
    <3> HIDE DEF i
    <3>1. Proper(Destroy(s, u)) BY DestroyProper
    <3>2. Effect(Now, Step("destroy", u, u)) = Destroy(s, u) BY <1>2, EffectIs
    <3>3. todo = Then(Step("destroy", u, u), i) BY <1>2 DEF i
    <3> QED BY <2>1, <3>1, <3>2, <3>3, EffectStep DEF Effects
  <2>3. ~ Invalid(s, u) BY <1>2 DEF Differ, Valid, Invalid
  <2> QED BY <1>2, <2>1, <2>2, <2>3 DEF Moves, Moving
<1>3. CASE /\ Now = IF Invalid(s, u) THEN s ELSE Destroy(s, u)
           /\ Invalid(s, u) \/ Differ(s, u, v)
           /\ todo = Then(Step("init", u, v), t)
  <2>1. Proper(Now) BY <1>3, DestroyProper
  <2>2. MoveAssign(s, u, v) = MoveInitFrom(Now, u, v)
    BY <1>3 DEF MoveAssign, Differ
  <2>3. Proper(MoveInitFrom(Now, u, v)) BY <2>1, MoveInitProper DEF Touches
  <2>4. Effect(Now, Step("init", u, v)) = MoveInitFrom(Now, u, v) BY EffectIs
  <2>5. Moves(MoveInitFrom(Now, u, v), t) BY <1>3, <2>3, <2>4, EffectStep DEF Effects
  <2> QED BY <2>2, <2>5
<1>4. CASE Now = s /\ todo = Then(Step("transfer", u, v), t)
  <2>1. Proper(MoveAssign(s, u, v)) BY MoveAssignProper DEF Touches
  <2>2. Effect(Now, Step("transfer", u, v)) = MoveAssign(s, u, v) BY <1>4, EffectIs
  <2> QED BY <1>4, <2>1, <2>2, EffectStep DEF Effects
<1> QED BY <1>1, <1>2, <1>3, <1>4 DEF Moving

----------------------------------------------------------------------------
Finishing(n, q, s, u, what) ==
  \/ n = s /\ q = Finish(u, what)
  \/ n = Destroy(s, u) /\ q = Only(Step(what, u, u))

Ending(n, q, r, b, w) ==
  /\ IsWrap(b, w)
  /\ \/ r = Record("reset", w, Outside) /\ Finishing(n, q, b, w, "clear")
     \/ r = Record("destroy", w, Outside) /\ Finishing(n, q, b, w, "end")

Constructing(n, q, r, b, w, t, v, how) ==
  /\ ~ IsWrap(b, w) /\ Wrappable(t) /\ Constructible(t, how)
  /\ r = Record("construct", w, Outside)
  /\ n = b /\ q = Only(Step("build", w, Argument(t, v, how)))

Remaking(n, q, r, b, w, t, v, how) ==
  /\ IsWrap(b, w) /\ Wrappable(t)
  /\ \/ /\ r = Record("assign", w, Outside)
        /\ how # "args" /\ Constructible(t, how) /\ (Invalid(b, w) \/ TypeOf(b, w) # t)
     \/ r = Record("emplace", w, Outside) /\ how = "args"
  /\ \/ n = b /\ q = Then(Step("destroy", w, w), Only(Step("build", w, Argument(t, v, how))))
     \/ n = Destroy(b, w) /\ q = Only(Step("build", w, Argument(t, v, how)))

Setting(n, q, r, b, w, t, v, how) ==
  /\ Valid(b, w) /\ Wrappable(t) /\ how # "args" /\ Constructible(t, how) /\ TypeOf(b, w) = t
  /\ r = Record("assign", w, Outside)
  /\ n = b /\ q = Only(Step("set", w, Argument(t, v, how)))

CopyConstructing(n, q, r, b, w, o) ==
  /\ Copyable /\ ~ IsWrap(b, w) /\ Valid(b, o)
  /\ r = Record("copy construct", w, o)
  /\ n = b /\ q = Only(Step("clone", w, o))

MoveConstructing(n, q, r, b, w, o) ==
  /\ Movable /\ ~ IsWrap(b, w) /\ IsWrap(b, o)
  /\ r = Record("move construct", w, o)
  /\ n = b /\ q = Only(Step("init", w, o))

MoveAssigning(n, q, r, b, w, o) ==
  /\ Movable /\ IsWrap(b, w) /\ IsWrap(b, o) /\ w # o /\ (Invalid(b, o) => Invalid(b, w))
  /\ r = Record("move assign", w, o)
  /\ Moving(n, q, b, w, o, <<>>)

CopyingInPlace(n, q, r, b, w, o) ==
  /\ Copyable /\ w # o /\ IsWrap(b, w) /\ Valid(b, o) /\ InPlace(b, w, o)
  /\ r = Record("copy assign", w, o)
  /\ n = b /\ q = Only(Step("copy value", w, o))

Drop == Finish(Temp, "end")
CopyingByTemp(n, q, r, b, w, o) ==
  /\ Copyable /\ w # o /\ IsWrap(b, w) /\ Valid(b, o) /\ ~ InPlace(b, w, o)
  /\ r = Record("copy assign", w, o)
  /\ \/ n = b /\ q = Then(Step("clone", Temp, o), Then(Step("move", w, Temp), Drop))
     \/ \E p \in CopyPlaces(b, Temp, o) :
          \/ Moving(n, q, CopyInit(b, Temp, o, p), w, Temp, Drop)
          \/ Finishing(n, q, MoveAssign(CopyInit(b, Temp, o, p), w, Temp), Temp, "end")

Swapping(n, q, r, b, w, o) ==
  /\ Swappable /\ Movable /\ IsWrap(b, w) /\ IsWrap(b, o) /\ w # o
  /\ r = Record("swap", w, o)
  /\ \/ Invalid(b, w) /\ Valid(b, o) /\ Moving(n, q, b, w, o, <<>>)
     \/ Valid(b, w) /\ Invalid(b, o) /\ Moving(n, q, b, o, w, <<>>)
     \/ /\ Valid(b, w) /\ Valid(b, o) /\ TypeOf(b, w) = TypeOf(b, o)
        /\ n = b /\ q = Only(Step("exchange", w, o))

SwappingByTemp(n, q, r, b, w, o) ==
  /\ Swappable /\ Movable /\ w # o /\ Valid(b, w) /\ Valid(b, o) /\ TypeOf(b, w) # TypeOf(b, o)
  /\ r = Record("swap", w, o)
  /\ LET moved1 == MoveInitFrom(b, Temp, w)
         moved2 == MoveAssign(moved1, w, o)
         moved3 == MoveAssign(moved2, o, Temp)
         back == Then(Step("move", o, Temp), Drop)
     IN  \/ n = b /\ q = Then(Step("init", Temp, w), Then(Step("move", w, o), back))
         \/ Moving(n, q, moved1, w, o, back)
         \/ Moving(n, q, moved2, o, Temp, Drop)
         \/ Finishing(n, q, moved3, Temp, "end")

InCall(n, q, r, b) ==
  \E w \in Wraps :
    \/ Ending(n, q, r, b, w)
    \/ \E t \in Types, v \in Vals, how \in {"args", "copy", "move"} :
         \/ Constructing(n, q, r, b, w, t, v, how)
         \/ Remaking(n, q, r, b, w, t, v, how)
         \/ Setting(n, q, r, b, w, t, v, how)
    \/ \E o \in Wraps :
         \/ CopyConstructing(n, q, r, b, w, o) \/ MoveConstructing(n, q, r, b, w, o)
         \/ MoveAssigning(n, q, r, b, w, o)
         \/ CopyingInPlace(n, q, r, b, w, o) \/ CopyingByTemp(n, q, r, b, w, o)
         \/ Swapping(n, q, r, b, w, o) \/ SwappingByTemp(n, q, r, b, w, o)

(* A step goes on with the call or completes one of ValueWrap.             *)
GoesOn == todo' # <<>> /\ UNCHANGED <<call, running>> /\ InCall(Now', todo', running, before)
Completes == todo' = <<>> /\ (before' = Now' => Atomic!Next)
Onward == Proper(Now') /\ (GoesOn \/ Completes)

(* The same for a wrap that is destroyed and then cleared or ended.        *)
LEMMA FinishingOn ==
  ASSUME NEW s, Proper(s), NEW u \in Slots, NEW what \in {"clear", "end"},
         Finishing(Now, todo, s, u, what), Doer
  PROVE  \/ /\ Proper(Now') /\ Finishing(Now', todo', s, u, what)
            /\ todo' # <<>> /\ UNCHANGED <<call, running>>
         \/ Moves(SetPtr(Destroy(s, u), u, Last(what)), <<>>)
<1>1. CASE Now = s /\ todo = Finish(u, what)
  <2>1. PICK t : t = Only(Step(what, u, u)) OBVIOUS
  <2>2. IsList(t) /\ t # <<>> BY <2>1, OnlyIs
  <2>3. todo = Then(Step("destroy", u, u), t) BY <1>1, <2>1 DEF Finish
  <2>4. Effect(Now, Step("destroy", u, u)) = Destroy(s, u) BY <1>1, EffectIs
  <2>5. Moves(Destroy(s, u), t) BY <2>2, <2>3, <2>4, DestroyProper, EffectStep DEF Effects
  <2> QED BY <2>1, <2>2, <2>5 DEF Moves, Finishing
<1>2. CASE Now = Destroy(s, u) /\ todo = Only(Step(what, u, u))
  <2>1. Proper(Now) BY <1>2, DestroyProper
  <2>2. Effect(Now, Step(what, u, u)) = SetPtr(Now, u, Last(what)) BY EffectIs DEF Last
  <2>3. Last(what) \in Pointees BY DEF Last, Pointees
  <2>4. Proper(SetPtr(Now, u, Last(what))) BY <2>1, <2>3, SetPtrProper
  <2>5. Moves(SetPtr(Now, u, Last(what)), <<>>)
    BY <1>2, <2>2, <2>4, ThenNothing, EffectStep DEF Effects, Only
  <2> QED BY <1>2, <2>5
<1> QED BY <1>1, <1>2 DEF Finishing

----------------------------------------------------------------------------
(* One lemma per kind of call.                                             *)
LEMMA EndingOn ==
  ASSUME Proper(before), NEW w \in Wraps, Ending(Now, todo, running, before, w), Doer
  PROVE  Onward
<1>1. ASSUME NEW what \in {"clear", "end"}, Finishing(Now, todo, before, w, what),
             running = Record(IF what = "clear" THEN "reset" ELSE "destroy", w, Outside)
      PROVE  Onward
  <2>0. w \in Slots BY DEF Slots
  <2>1. CASE /\ Proper(Now') /\ Finishing(Now', todo', before, w, what)
             /\ todo' # <<>> /\ UNCHANGED <<call, running>>
    <3>1. Ending(Now', todo', running, before, w) BY <1>1, <2>1 DEF Ending
    <3> QED BY <2>1, <3>1 DEF Onward, GoesOn, InCall
  <2>2. CASE Moves(SetPtr(Destroy(before, w), w, Last(what)), <<>>)
    <3>1. ASSUME before' = Now' PROVE Atomic!Next
      <4>1. before' = SetPtr(Destroy(before, w), w, Last(what)) /\ Return(FALSE)
        BY <2>2, <3>1 DEF Moves
      <4>2. CASE what = "clear"
        <5>1. Returned("reset", w, Outside, FALSE) BY <1>1, <4>1, <4>2 DEF Return, Record
        <5> QED BY <4>1, <4>2, <5>1, WholeNullary DEF Last, Ending
      <4>3. CASE what = "end"
        <5>1. Returned("destroy", w, Outside, FALSE) BY <1>1, <4>1, <4>3 DEF Return, Record
        <5> QED BY <4>1, <4>3, <5>1, WholeNullary DEF Last, Ending, Dtor
      <4> QED BY <4>2, <4>3
    <3> QED BY <2>2, <3>1 DEF Onward, Completes, Moves
  <2> QED BY <1>1, <2>0, <2>1, <2>2, FinishingOn
<1> QED BY <1>1 DEF Ending

LEMMA ConstructingOn ==
  ASSUME Proper(before), NEW w \in Wraps, NEW t \in Types, NEW v \in Vals,
         NEW how \in {"args", "copy", "move"},
         Constructing(Now, todo, running, before, w, t, v, how), Doer
  PROVE  Onward
<1>1. Now = before /\ todo = Only(Step("build", w, Argument(t, v, how)))
      /\ running = Record("construct", w, Outside)
  BY DEF Constructing
<1>2. running.op = "construct" /\ running.dst = w /\ running.src = Outside BY <1>1 DEF Record
<1>3. CASE \E p \in CtorPlaces(before, w, t) :
             Moves(NewHolder(before, w, p, [type |-> t, val |-> v]), <<>>)
  <2>1. ASSUME before' = Now' PROVE Atomic!Next
    <3>1. /\ \E p \in CtorPlaces(before, w, t) :
               before' = NewHolder(before, w, p, [type |-> t, val |-> v])
          /\ Returned("construct", w, Outside, FALSE)
      BY <1>2, <1>3, <2>1 DEF Moves, Return
    <3> QED BY <3>1, WholeConstruct DEF Constructing
  <2> QED BY <1>3, <2>1 DEF Onward, Completes, Moves
<1>4. CASE CtorThrows(t) /\ Fails(before)
  <2>1. ASSUME before' = Now' PROVE Atomic!Next
    <3>1. before' = before /\ Returned("construct", w, Outside, TRUE)
      BY <1>2, <1>4, <2>1 DEF Fails, Return
    <3> QED BY <1>4, <3>1, WholeConstruct DEF Constructing
  <2> QED BY <1>4, <2>1 DEF Onward, Completes, Fails
<1> QED BY <1>1, <1>2, <1>3, <1>4, BuildStep

LEMMA RemakingOn ==
  ASSUME Proper(before), NEW w \in Wraps, NEW t \in Types, NEW v \in Vals,
         NEW how \in {"args", "copy", "move"},
         Remaking(Now, todo, running, before, w, t, v, how), Doer
  PROVE  Onward
<1>0. PICK x : x = Step("build", w, Argument(t, v, how)) OBVIOUS
<1>1. CASE Now = before /\ todo = Then(Step("destroy", w, w), Only(x))
  <2>0. w \in Slots BY DEF Slots
  <2>1. IsList(Only(x)) /\ Only(x) # <<>> BY OnlyIs
  <2>2. Effect(Now, Step("destroy", w, w)) = Destroy(before, w) BY <1>1, EffectIs
  <2>3. Moves(Destroy(before, w), Only(x))
    BY <1>1, <2>0, <2>1, <2>2, DestroyProper, EffectStep DEF Effects
  <2>4. Remaking(Now', todo', running, before, w, t, v, how)
    BY <1>0, <2>3 DEF Remaking, Moves
  <2> QED BY <2>1, <2>3, <2>4 DEF Onward, GoesOn, Moves, InCall
<1>2. CASE Now = Destroy(before, w) /\ todo = Only(x)
  <2>1. PICK op \in {"assign", "emplace"} : running = Record(op, w, Outside) BY DEF Remaking
  <2>2. running.op = op /\ running.dst = w /\ running.src = Outside /\ op # "construct"
    BY <2>1 DEF Record
  <2>3. Proper(Now) BY <1>2, DestroyProper
  <2>4. \/ \E p \in CtorPlaces(Now, w, t) :
              Moves(NewHolder(Now, w, p, [type |-> t, val |-> v]), <<>>)
        \/ CtorThrows(t) /\ Fails(SetPtr(Now, w, Null))
    BY <1>0, <1>2, <2>2, <2>3, BuildStep
  <2>5. /\ op = "assign" => /\ how # "args" /\ Constructible(t, how)
                            /\ Invalid(before, w) \/ TypeOf(before, w) # t
        /\ op = "emplace" => how = "args"
    BY <2>1, <2>2 DEF Remaking, Record
  <2>6. ASSUME before' = Now' PROVE Atomic!Next
    <3>1. \/ /\ \E p \in CtorPlaces(Destroy(before, w), w, t) :
                  before' = NewHolder(Destroy(before, w), w, p, [type |-> t, val |-> v])
             /\ Returned(op, w, Outside, FALSE)
          \/ /\ CtorThrows(t) /\ before' = SetPtr(Destroy(before, w), w, Null)
             /\ Returned(op, w, Outside, TRUE)
      BY <1>2, <2>2, <2>4, <2>6 DEF Moves, Fails, Return
    <3> QED BY <2>5, <3>1, WholeRemake DEF Remaking
  <2> QED BY <2>4, <2>6 DEF Onward, Completes, Moves, Fails
<1> QED BY <1>0, <1>1, <1>2 DEF Remaking

LEMMA SettingOn ==
  ASSUME Proper(before), NEW w \in Wraps, NEW t \in Types, NEW v \in Vals,
         NEW how \in {"args", "copy", "move"},
         Setting(Now, todo, running, before, w, t, v, how), Doer
  PROVE  Onward
<1>1. Now = before /\ todo = Only(Step("set", w, Argument(t, v, how)))
      /\ running = Record("assign", w, Outside) /\ how \in {"copy", "move"}
  BY DEF Setting
<1>2. running.op = "assign" /\ running.dst = w /\ running.src = Outside BY <1>1 DEF Record
<1>3. ptr[w] = before.ptr[w] BY <1>1 DEF Now
<1> DEFINE r == Accuse(before, Run(before, before.ptr[w],
                                   IF how = "copy" THEN "copy assign" ELSE "move assign"))
           n(threw) == SetValue(r, before.ptr[w], IF threw THEN Hollow ELSE v)
<1>4. PICK threw \in BOOLEAN : /\ threw => how = "copy" /\ t \in FragileTypes
                               /\ IF threw THEN Fails(n(threw)) ELSE Moves(n(threw), <<>>)
  BY <1>1, <1>3, SetStep
<1>5. ASSUME before' = Now' PROVE Atomic!Next
  <2> HIDE DEF r
  <2>1. before' = n(threw) /\ Returned("assign", w, Outside, threw)
    BY <1>2, <1>4, <1>5 DEF Moves, Fails, Return
  <2> QED BY <1>1, <1>4, <2>1, WholeAssignValue DEF Setting, r
<1> HIDE DEF n
<1> QED BY <1>4, <1>5 DEF Onward, Completes, Moves, Fails

LEMMA CopyConstructingOn ==
  ASSUME Proper(before), NEW w \in Wraps, NEW o \in Wraps,
         CopyConstructing(Now, todo, running, before, w, o), Doer
  PROVE  Onward
<1>1. Now = before /\ todo = Only(Step("clone", w, o)) /\ running = Record("copy construct", w, o)
      /\ w \in Slots /\ o \in Slots
  BY DEF CopyConstructing, Slots
<1>2. running.op = "copy construct" /\ running.dst = w /\ running.src = o BY <1>1 DEF Record
<1>3. \/ \E p \in CopyPlaces(before, w, o) : Moves(CopyInit(before, w, o, p), <<>>)
      \/ CopyThrows(before, o) /\ Fails(before)
  BY <1>1, ThenNothing, CloneStep DEF Only
<1>4. ASSUME before' = Now' PROVE Atomic!Next
  <2>1. \/ /\ \E p \in CopyPlaces(before, w, o) : before' = CopyInit(before, w, o, p)
           /\ Returned("copy construct", w, o, FALSE)
        \/ CopyThrows(before, o) /\ before' = before /\ Returned("copy construct", w, o, TRUE)
    BY <1>2, <1>3, <1>4 DEF Moves, Fails, Return
  <2> QED BY <2>1, WholeCopyConstruct DEF CopyConstructing
<1> QED BY <1>3, <1>4 DEF Onward, Completes, Moves, Fails

LEMMA MoveConstructingOn ==
  ASSUME Proper(before), NEW w \in Wraps, NEW o \in Wraps,
         MoveConstructing(Now, todo, running, before, w, o), Doer
  PROVE  Onward
<1>1. Now = before /\ todo = Only(Step("init", w, o)) /\ running = Record("move construct", w, o)
      /\ w \in Slots /\ o \in Slots
  BY DEF MoveConstructing, Slots
<1>2. running.op = "move construct" /\ running.dst = w /\ running.src = o BY <1>1 DEF Record
<1>3. Effect(Now, Step("init", w, o)) = MoveInitFrom(before, w, o) BY <1>1, EffectIs
<1>4. Proper(MoveInitFrom(before, w, o)) BY <1>1, MoveInitProper DEF Touches
<1>5. Moves(MoveInitFrom(before, w, o), <<>>)
  BY <1>1, <1>3, <1>4, ThenNothing, EffectStep DEF Effects, Only
<1>6. ASSUME before' = Now' PROVE Atomic!Next
  <2>1. before' = MoveInitFrom(before, w, o) /\ Returned("move construct", w, o, FALSE)
    BY <1>2, <1>5, <1>6 DEF Moves, Return
  <2> QED BY <2>1, WholeMoves DEF MoveConstructing
<1> QED BY <1>5, <1>6 DEF Onward, Completes, Moves

LEMMA MoveAssigningOn ==
  ASSUME Proper(before), NEW w \in Wraps, NEW o \in Wraps,
         MoveAssigning(Now, todo, running, before, w, o), Doer
  PROVE  Onward
<1>1. /\ running = Record("move assign", w, o) /\ w \in Slots /\ o \in Slots
      /\ Moving(Now, todo, before, w, o, <<>>)
  BY DEF MoveAssigning, Slots
<1>2. running.op = "move assign" /\ running.dst = w /\ running.src = o BY <1>1 DEF Record
<1>3. Valid(before, w) => Valid(before, o) BY DEF MoveAssigning, Valid, Invalid, IsWrap
<1>4. CASE /\ Proper(Now') /\ Moving(Now', todo', before, w, o, <<>>)
           /\ todo' # <<>> /\ UNCHANGED <<call, running>>
  <2>1. MoveAssigning(Now', todo', running, before, w, o) BY <1>4 DEF MoveAssigning
  <2> QED BY <1>4, <2>1 DEF Onward, GoesOn, InCall
<1>5. CASE Moves(MoveAssign(before, w, o), <<>>)
  <2>1. ASSUME before' = Now' PROVE Atomic!Next
    <3>1. before' = MoveAssign(before, w, o) /\ Returned("move assign", w, o, FALSE)
      BY <1>2, <1>5, <2>1 DEF Moves, Return
    <3> QED BY <3>1, WholeMoves DEF MoveAssigning
  <2> QED BY <1>5, <2>1 DEF Onward, Completes, Moves
<1> QED BY <1>1, <1>3, <1>4, <1>5, ThenNothing, MovingOn

LEMMA CopyingInPlaceOn ==
  ASSUME Proper(before), NEW w \in Wraps, NEW o \in Wraps,
         CopyingInPlace(Now, todo, running, before, w, o), Doer
  PROVE  Onward
<1>1. Now = before /\ todo = Only(Step("copy value", w, o)) /\ running = Record("copy assign", w, o)
  BY DEF CopyingInPlace
<1>2. running.op = "copy assign" /\ running.dst = w /\ running.src = o BY <1>1 DEF Record
<1>3. ptr[w] = before.ptr[w] /\ ptr[o] = before.ptr[o] BY <1>1 DEF Now
<1> DEFINE r == Accuse(Accuse(before, AssertSameStorage(before, w, o)),
                       Run(before, before.ptr[o], "copy assign"))
           n(threw) == SetValue(r, before.ptr[w], IF threw THEN Hollow ELSE HolderOf(before, o).val)
<1>4. PICK threw \in BOOLEAN : /\ threw => TypeOf(before, o) \in FragileTypes
                               /\ IF threw THEN Fails(n(threw)) ELSE Moves(n(threw), <<>>)
  BY <1>1, <1>3, CopyValueStep
<1>5. ASSUME before' = Now' PROVE Atomic!Next
  <2> HIDE DEF r
  <2>1. before' = n(threw) /\ Returned("copy assign", w, o, threw)
    BY <1>2, <1>4, <1>5 DEF Moves, Fails, Return
  <2> QED BY <1>1, <1>4, <2>1, WholeCopyInPlace DEF CopyingInPlace, r
<1> HIDE DEF n
<1> QED BY <1>4, <1>5 DEF Onward, Completes, Moves, Fails

LEMMA CopyingByTempOn ==
  ASSUME Proper(before), NEW w \in Wraps, NEW o \in Wraps,
         CopyingByTemp(Now, todo, running, before, w, o), Doer
  PROVE  Onward
<1>1. /\ running = Record("copy assign", w, o) /\ w \in Slots /\ o \in Slots /\ Temp \in Slots
      /\ IsList(Drop) /\ Drop # <<>> /\ w # Temp
  BY FinishIs, ConstantsOK DEF CopyingByTemp, Slots, Drop, ConstantsOK
<1>2. running.op = "copy assign" /\ running.dst = w /\ running.src = o BY <1>1 DEF Record
<1>3. ASSUME NEW p \in CopyPlaces(before, Temp, o),
             \/ Moving(Now', todo', CopyInit(before, Temp, o, p), w, Temp, Drop)
             \/ Finishing(Now', todo', MoveAssign(CopyInit(before, Temp, o, p), w, Temp), Temp, "end"),
             Proper(Now'), todo' # <<>>, UNCHANGED <<call, running>>
      PROVE  Onward
  <2>1. CopyingByTemp(Now', todo', running, before, w, o) BY <1>3 DEF CopyingByTemp
  <2> QED BY <1>3, <2>1 DEF Onward, GoesOn, InCall
<1>4. CASE Now = before /\ todo = Then(Step("clone", Temp, o), Then(Step("move", w, Temp), Drop))
  <2>1. PICK t : t = Then(Step("move", w, Temp), Drop) OBVIOUS
  <2>2. IsList(t) /\ t # <<>> BY <1>1, <2>1, ThenIs
  <2>3. \/ \E p \in CopyPlaces(before, Temp, o) : Moves(CopyInit(before, Temp, o, p), t)
        \/ CopyThrows(before, o) /\ Fails(before)
    BY <1>1, <1>4, <2>1, <2>2, CloneStep
  <2>4. CASE CopyThrows(before, o) /\ Fails(before)
    <3>1. ASSUME before' = Now' PROVE Atomic!Next
      <4>1. before' = before /\ Returned("copy assign", w, o, TRUE)
        BY <1>2, <2>4, <3>1 DEF Fails, Return
      <4> QED BY <2>4, <4>1, WholeCopyByTemp DEF CopyingByTemp
    <3> QED BY <2>4, <3>1 DEF Onward, Completes, Fails
  <2>5. ASSUME NEW p \in CopyPlaces(before, Temp, o), Moves(CopyInit(before, Temp, o, p), t)
        PROVE  Onward
    <3>1. /\ Now' = CopyInit(before, Temp, o, p) /\ todo' = t /\ Proper(Now')
          /\ UNCHANGED <<call, running>>
      BY <2>2, <2>5 DEF Moves
    <3>2. Moving(Now', todo', CopyInit(before, Temp, o, p), w, Temp, Drop)
      BY <2>1, <3>1 DEF Moving
    <3> QED BY <1>3, <2>2, <3>1, <3>2
  <2> QED BY <2>3, <2>4, <2>5
<1>5. ASSUME NEW p \in CopyPlaces(before, Temp, o),
             Moving(Now, todo, CopyInit(before, Temp, o, p), w, Temp, Drop)
      PROVE  Onward
  <2>1. PICK s : s = CopyInit(before, Temp, o, p) OBVIOUS
  <2>2. Proper(s) /\ Valid(s, Temp)
    <3>1. Proper(s) /\ s.ptr[Temp] = p BY <1>1, <2>1, CopyInitProper
    <3>2. p \in Places BY DEF CopyPlaces, FreeBlocks, Places, Slots
    <3> QED BY <3>1, <3>2, ConstantsOK DEF ConstantsOK, Valid
  <2>3. \/ /\ Proper(Now') /\ Moving(Now', todo', s, w, Temp, Drop)
           /\ todo' # <<>> /\ UNCHANGED <<call, running>>
        \/ Moves(MoveAssign(s, w, Temp), Drop)
    BY <1>1, <1>5, <2>1, <2>2, MovingOn
  <2>4. CASE Moves(MoveAssign(s, w, Temp), Drop)
    <3>1. Finishing(Now', todo', MoveAssign(s, w, Temp), Temp, "end")
      BY <2>4 DEF Moves, Finishing, Drop
    <3> QED BY <1>1, <1>3, <2>1, <2>4, <3>1 DEF Moves
  <2> QED BY <1>3, <2>1, <2>3, <2>4
<1>6. ASSUME NEW p \in CopyPlaces(before, Temp, o),
             Finishing(Now, todo, MoveAssign(CopyInit(before, Temp, o, p), w, Temp), Temp, "end")
      PROVE  Onward
  <2>1. PICK s : s = MoveAssign(CopyInit(before, Temp, o, p), w, Temp) OBVIOUS
  <2>2. Proper(s) BY <1>1, <2>1, CopyInitProper, MoveAssignProper DEF Touches
  <2>3. \/ /\ Proper(Now') /\ Finishing(Now', todo', s, Temp, "end")
           /\ todo' # <<>> /\ UNCHANGED <<call, running>>
        \/ Moves(SetPtr(Destroy(s, Temp), Temp, NoWrap), <<>>)
    BY <1>1, <1>6, <2>1, <2>2, FinishingOn DEF Last
  <2>4. CASE Moves(SetPtr(Destroy(s, Temp), Temp, NoWrap), <<>>)
    <3>1. ASSUME before' = Now' PROVE Atomic!Next
      <4>1. before' = Dtor(s, Temp) /\ Returned("copy assign", w, o, FALSE)
        BY <1>2, <2>4, <3>1 DEF Moves, Return, Dtor
      <4> QED BY <2>1, <4>1, WholeCopyByTemp DEF CopyingByTemp
    <3> QED BY <2>4, <3>1 DEF Onward, Completes, Moves
  <2> QED BY <1>3, <2>1, <2>3, <2>4
<1> QED BY <1>4, <1>5, <1>6 DEF CopyingByTemp

LEMMA SwappingOn ==
  ASSUME Proper(before), NEW w \in Wraps, NEW o \in Wraps,
         Swapping(Now, todo, running, before, w, o), Doer
  PROVE  Onward
<1>1. running = Record("swap", w, o) /\ w \in Slots /\ o \in Slots
  BY DEF Swapping, Slots
<1>2. running.op = "swap" /\ running.dst = w /\ running.src = o BY <1>1 DEF Record
<1>3. ASSUME NEW n, Moves(n, <<>>),
             \/ Invalid(before, w) /\ Valid(before, o) /\ n = MoveAssign(before, w, o)
             \/ Valid(before, w) /\ Invalid(before, o) /\ n = MoveAssign(before, o, w)
             \/ /\ Valid(before, w) /\ Valid(before, o) /\ TypeOf(before, w) = TypeOf(before, o)
                /\ n = SwapSameType(before, w, o)
      PROVE  Onward
  <2>1. ASSUME before' = Now' PROVE Atomic!Next
    <3>1. before' = n /\ Returned("swap", w, o, FALSE)
      BY <1>2, <1>3, <2>1 DEF Moves, Return
    <3> QED BY <1>3, <3>1, WholeSwap DEF Swapping
  <2> QED BY <1>3, <2>1 DEF Onward, Completes, Moves
<1>4. CASE Invalid(before, w) /\ Valid(before, o) /\ Moving(Now, todo, before, w, o, <<>>)
  <2>1. CASE /\ Proper(Now') /\ Moving(Now', todo', before, w, o, <<>>)
             /\ todo' # <<>> /\ UNCHANGED <<call, running>>
    <3>1. Swapping(Now', todo', running, before, w, o) BY <1>4, <2>1 DEF Swapping
    <3> QED BY <2>1, <3>1 DEF Onward, GoesOn, InCall
  <2>2. CASE Moves(MoveAssign(before, w, o), <<>>) BY <1>3, <1>4, <2>2
  <2> QED BY <1>1, <1>4, <2>1, <2>2, ThenNothing, MovingOn
<1>5. CASE Valid(before, w) /\ Invalid(before, o) /\ Moving(Now, todo, before, o, w, <<>>)
  <2>1. CASE /\ Proper(Now') /\ Moving(Now', todo', before, o, w, <<>>)
             /\ todo' # <<>> /\ UNCHANGED <<call, running>>
    <3>1. Swapping(Now', todo', running, before, w, o) BY <1>5, <2>1 DEF Swapping
    <3> QED BY <2>1, <3>1 DEF Onward, GoesOn, InCall
  <2>2. CASE Moves(MoveAssign(before, o, w), <<>>) BY <1>3, <1>5, <2>2
  <2> QED BY <1>1, <1>5, <2>1, <2>2, ThenNothing, MovingOn
<1>6. CASE /\ Valid(before, w) /\ Valid(before, o) /\ TypeOf(before, w) = TypeOf(before, o)
           /\ Now = before /\ todo = Only(Step("exchange", w, o))
  <2>1. Effect(Now, Step("exchange", w, o)) = SwapSameType(before, w, o) BY <1>6, EffectIs
  <2>2. Proper(SwapSameType(before, w, o)) BY <1>1, SwapSameTypeProper
  <2>3. Moves(SwapSameType(before, w, o), <<>>)
    BY <1>6, <2>1, <2>2, ThenNothing, EffectStep DEF Effects, Only
  <2> QED BY <1>3, <1>6, <2>3
<1> QED BY <1>4, <1>5, <1>6 DEF Swapping

LEMMA SwappingByTempOn ==
  ASSUME Proper(before), NEW w \in Wraps, NEW o \in Wraps,
         SwappingByTemp(Now, todo, running, before, w, o), Doer
  PROVE  Onward
<1>1. /\ running = Record("swap", w, o) /\ w \in Slots /\ o \in Slots /\ Temp \in Slots
      /\ w # Temp /\ o # Temp /\ w # o
      /\ IsList(Drop) /\ Drop # <<>>
  BY FinishIs, ConstantsOK DEF SwappingByTemp, Slots, Drop, ConstantsOK
<1>2. running.op = "swap" /\ running.dst = w /\ running.src = o BY <1>1 DEF Record
<1>3. PICK moved1 : moved1 = MoveInitFrom(before, Temp, w) OBVIOUS
<1>4. PICK moved2 : moved2 = MoveAssign(moved1, w, o) OBVIOUS
<1>5. PICK moved3 : moved3 = MoveAssign(moved2, o, Temp) OBVIOUS
<1>6. PICK back : back = Then(Step("move", o, Temp), Drop) OBVIOUS
<1>7. IsList(back) /\ back # <<>> BY <1>1, <1>6, ThenIs
<1>8. /\ Proper(moved1) /\ Valid(moved1, o) /\ Valid(moved1, Temp)
      /\ Proper(moved2) /\ Valid(moved2, Temp) /\ Proper(moved3)
  <2>1. Valid(before, w) /\ Valid(before, o) BY DEF SwappingByTemp
  <2>2. Touches(moved1, before, Temp, w) BY <1>1, <1>3, MoveInitProper
  <2>3. Valid(moved1, Temp) BY <1>1, <1>3, <2>1, MoveInitFills
  <2>4. Proper(moved1) /\ moved1.ptr[o] = before.ptr[o] BY <1>1, <2>2 DEF Touches
  <2>5. Touches(moved2, moved1, w, o) BY <1>1, <1>4, <2>4, MoveAssignProper
  <2>6. Proper(moved2) /\ moved2.ptr[Temp] = moved1.ptr[Temp] BY <1>1, <2>5 DEF Touches
  <2>7. Touches(moved3, moved2, o, Temp) BY <1>1, <1>5, <2>6, MoveAssignProper
  <2> QED BY <2>1, <2>3, <2>4, <2>6, <2>7 DEF Valid, Touches
<1>9. SwapByTemp(before, w, o) = Dtor(moved3, Temp) BY <1>3, <1>4, <1>5 DEF SwapByTemp
<1>10. ASSUME \/ Moving(Now', todo', moved1, w, o, back)
              \/ Moving(Now', todo', moved2, o, Temp, Drop)
              \/ Finishing(Now', todo', moved3, Temp, "end"),
              Proper(Now'), todo' # <<>>, UNCHANGED <<call, running>>
       PROVE  Onward
  <2>1. SwappingByTemp(Now', todo', running, before, w, o)
    BY <1>3, <1>4, <1>5, <1>6, <1>10 DEF SwappingByTemp
  <2> QED BY <1>10, <2>1 DEF Onward, GoesOn, InCall
<1>11. CASE Now = before /\ todo = Then(Step("init", Temp, w), Then(Step("move", w, o), back))
  <2>1. PICK t : t = Then(Step("move", w, o), back) OBVIOUS
  <2>2. IsList(t) /\ t # <<>> BY <1>7, <2>1, ThenIs
  <2>3. Effect(Now, Step("init", Temp, w)) = moved1 BY <1>3, <1>11, EffectIs
  <2>4. Moves(moved1, t) BY <1>8, <1>11, <2>1, <2>2, <2>3, EffectStep DEF Effects
  <2>5. Moving(Now', todo', moved1, w, o, back) BY <2>1, <2>4 DEF Moves, Moving
  <2> QED BY <1>10, <2>2, <2>4, <2>5 DEF Moves
<1>12. CASE Moving(Now, todo, moved1, w, o, back)
  <2>1. \/ /\ Proper(Now') /\ Moving(Now', todo', moved1, w, o, back)
           /\ todo' # <<>> /\ UNCHANGED <<call, running>>
        \/ Moves(moved2, back)
    BY <1>1, <1>4, <1>7, <1>8, <1>12, MovingOn
  <2>2. CASE Moves(moved2, back)
    <3>1. Moving(Now', todo', moved2, o, Temp, Drop) BY <1>6, <2>2 DEF Moves, Moving
    <3> QED BY <1>7, <1>10, <2>2, <3>1 DEF Moves
  <2> QED BY <1>10, <2>1, <2>2
<1>13. CASE Moving(Now, todo, moved2, o, Temp, Drop)
  <2>1. \/ /\ Proper(Now') /\ Moving(Now', todo', moved2, o, Temp, Drop)
           /\ todo' # <<>> /\ UNCHANGED <<call, running>>
        \/ Moves(moved3, Drop)
    BY <1>1, <1>5, <1>8, <1>13, MovingOn
  <2>2. CASE Moves(moved3, Drop)
    <3>1. Finishing(Now', todo', moved3, Temp, "end") BY <2>2 DEF Moves, Finishing, Drop
    <3> QED BY <1>1, <1>10, <2>2, <3>1 DEF Moves
  <2> QED BY <1>10, <2>1, <2>2
<1>14. CASE Finishing(Now, todo, moved3, Temp, "end")
  <2>1. \/ /\ Proper(Now') /\ Finishing(Now', todo', moved3, Temp, "end")
           /\ todo' # <<>> /\ UNCHANGED <<call, running>>
        \/ Moves(SetPtr(Destroy(moved3, Temp), Temp, NoWrap), <<>>)
    BY <1>1, <1>8, <1>14, FinishingOn DEF Last
  <2>2. CASE Moves(SetPtr(Destroy(moved3, Temp), Temp, NoWrap), <<>>)
    <3>1. ASSUME before' = Now' PROVE Atomic!Next
      <4>1. before' = SwapByTemp(before, w, o) /\ Returned("swap", w, o, FALSE)
        BY <1>2, <1>9, <2>2, <3>1 DEF Moves, Return, Dtor
      <4>2. IsWrap(before, w) /\ IsWrap(before, o) BY DEF SwappingByTemp, Valid, IsWrap
      <4> QED BY <4>1, <4>2, WholeSwap DEF SwappingByTemp
    <3> QED BY <2>2, <3>1 DEF Onward, Completes, Moves
  <2> QED BY <1>10, <2>1, <2>2
<1> QED BY <1>3, <1>4, <1>5, <1>6, <1>11, <1>12, <1>13, <1>14 DEF SwappingByTemp

----------------------------------------------------------------------------
Begun == Now' = before /\ todo' # <<>> /\ UNCHANGED call /\ InCall(Now', todo', running', before)
Started == Proper(Now') /\ (Begun \/ Completes)

(* With nothing to do the call is complete at once.                        *)
LEMMA AtOnce ==
  ASSUME Proper(before), Now' = before, todo' = <<>>, before' = before => Atomic!Next
  PROVE  Started
BY DEF Started, Completes

LEMMA BeginEnding ==
  ASSUME Proper(before), Now = before, NEW w \in Wraps, BeginReset(w) \/ BeginDestruct(w)
  PROVE  Started
<1>1. CASE BeginReset(w) /\ Invalid(before, w)
  <2>1. Now' = before /\ todo' = <<>> /\ Returned("reset", w, Outside, FALSE) /\ IsWrap(before, w)
    BY <1>1, BeginIs DEF BeginReset
  <2>2. SetPtr(Destroy(before, w), w, Null) = before
    <3>1. before.ptr[w] = Null /\ w \in Slots BY <1>1 DEF Invalid, Slots
    <3>2. [before.ptr EXCEPT ![w] = Null] = before.ptr BY <3>1 DEF Proper, Pointers
    <3> QED BY <1>1, <3>2 DEF Destroy, SetPtr, Proper
  <2> QED BY <2>1, <2>2, AtOnce, WholeNullary
<1>2. CASE BeginReset(w) /\ ~ Invalid(before, w)
  <2>1. PICK s : s = <<Step("destroy", w, w), Step("clear", w, w)>> OBVIOUS
  <2>2. s = Finish(w, "clear") /\ s # <<>> BY <2>1, PairIs, FinishIs DEF Finish
  <2>3. Now' = before /\ todo' = s /\ running' = Record("reset", w, Outside) /\ UNCHANGED call
        /\ IsWrap(before, w)
    BY <1>2, <2>1, <2>2, BeginIs DEF BeginReset
  <2>4. Ending(Now', todo', running', before, w) BY <2>2, <2>3 DEF Ending, Finishing
  <2> QED BY <2>2, <2>3, <2>4 DEF Started, Begun, InCall
<1>3. CASE BeginDestruct(w)
  <2>1. PICK s : s = <<Step("destroy", w, w), Step("end", w, w)>> OBVIOUS
  <2>2. s = Finish(w, "end") /\ s # <<>> BY <2>1, PairIs, FinishIs DEF Finish
  <2>3. Now' = before /\ todo' = s /\ running' = Record("destroy", w, Outside) /\ UNCHANGED call
        /\ IsWrap(before, w)
    BY <1>3, <2>1, <2>2, BeginIs DEF BeginDestruct
  <2>4. Ending(Now', todo', running', before, w) BY <2>2, <2>3 DEF Ending, Finishing
  <2> QED BY <2>2, <2>3, <2>4 DEF Started, Begun, InCall
<1> QED BY <1>1, <1>2, <1>3

LEMMA BeginGeneric ==
  ASSUME Proper(before), Now = before, NEW w \in Wraps, NEW t \in Types, NEW v \in Vals,
         NEW how \in {"args", "copy", "move"},
         \/ BeginConstruct(w, t, v, how)
         \/ how # "args" /\ BeginAssign(w, t, v, how)
         \/ how = "args" /\ BeginEmplace(w, t, v)
  PROVE  Started
<1>0. PICK a, x : a = Argument(t, v, how) /\ x = Step("build", w, a) OBVIOUS
<1>1. <<x>> = Only(x) /\ <<Step("destroy", w, w), x>> = Then(Step("destroy", w, w), Only(x))
      /\ <<x>> # <<>> /\ <<Step("destroy", w, w), x>> # <<>>
  BY ThenNothing, PairIs DEF Only
<1>2. CASE BeginConstruct(w, t, v, how)
  <2>1. /\ Now' = before /\ todo' = <<x>> /\ running' = Record("construct", w, Outside)
        /\ UNCHANGED call /\ ~ IsWrap(before, w) /\ Wrappable(t) /\ Constructible(t, how)
    BY <1>0, <1>1, <1>2, BeginIs DEF BeginConstruct
  <2>2. Constructing(Now', todo', running', before, w, t, v, how)
    BY <1>0, <1>1, <2>1 DEF Constructing
  <2> QED BY <1>1, <2>1, <2>2 DEF Started, Begun, InCall
<1>3. CASE how # "args" /\ BeginAssign(w, t, v, how)
  <2>1. CASE Valid(before, w) /\ TypeOf(before, w) = t
    <3>0. PICK y : y = Step("set", w, a) OBVIOUS
    <3>1. AssignSteps(before, w, a) = <<y>> /\ <<y>> # <<>>
      BY <1>0, <2>1, <3>0, ArgumentIs DEF AssignSteps
    <3>2. /\ Now' = before /\ todo' = <<y>>
          /\ running' = Record("assign", w, Outside) /\ UNCHANGED call
          /\ Wrappable(t) /\ Constructible(t, how)
      BY <1>0, <1>3, <3>1, BeginIs DEF BeginAssign
    <3>3. todo' = Only(Step("set", w, a)) /\ todo' # <<>> BY <3>0, <3>2, ThenNothing DEF Only
    <3>4. Setting(Now', todo', running', before, w, t, v, how)
      BY <1>0, <1>3, <2>1, <3>2, <3>3 DEF Setting
    <3> QED BY <3>2, <3>3, <3>4 DEF Started, Begun, InCall
  <2>2. CASE ~ (Valid(before, w) /\ TypeOf(before, w) = t)
    <3>1. AssignSteps(before, w, a) = <<Step("destroy", w, w), x>>
      BY <1>0, <2>2, ArgumentIs DEF AssignSteps
    <3>2. /\ Now' = before /\ todo' = <<Step("destroy", w, w), x>>
          /\ running' = Record("assign", w, Outside) /\ UNCHANGED call
          /\ IsWrap(before, w) /\ Wrappable(t) /\ Constructible(t, how)
      BY <1>0, <1>1, <1>3, <3>1, BeginIs DEF BeginAssign
    <3>3. Invalid(before, w) \/ TypeOf(before, w) # t BY <2>2, <3>2 DEF Valid, Invalid, IsWrap
    <3>4. Remaking(Now', todo', running', before, w, t, v, how)
      BY <1>0, <1>1, <1>3, <3>2, <3>3 DEF Remaking
    <3> QED BY <1>1, <3>2, <3>4 DEF Started, Begun, InCall
  <2> QED BY <2>1, <2>2
<1>4. CASE how = "args" /\ BeginEmplace(w, t, v)
  <2>1. /\ Now' = before /\ todo' = <<Step("destroy", w, w), x>>
        /\ running' = Record("emplace", w, Outside) /\ UNCHANGED call
        /\ IsWrap(before, w) /\ Wrappable(t)
    BY <1>0, <1>1, <1>4, BeginIs DEF BeginEmplace
  <2>2. Remaking(Now', todo', running', before, w, t, v, how)
    BY <1>0, <1>1, <1>4, <2>1 DEF Remaking
  <2> QED BY <1>1, <2>1, <2>2 DEF Started, Begun, InCall
<1> QED BY <1>2, <1>3, <1>4

LEMMA BeginConstructs ==
  ASSUME Proper(before), Now = before, NEW w \in Wraps, NEW o \in Wraps,
         BeginCopyConstruct(w, o) \/ BeginMoveConstruct(w, o)
  PROVE  Started
<1>1. CASE BeginCopyConstruct(w, o)
  <2>1. PICK x : x = Step("clone", w, o) OBVIOUS
  <2>2. <<x>> = Only(x) /\ <<x>> # <<>> BY ThenNothing DEF Only
  <2>3. /\ Now' = before /\ todo' = <<x>> /\ running' = Record("copy construct", w, o)
        /\ UNCHANGED call /\ Copyable /\ ~ IsWrap(before, w) /\ Valid(before, o)
    BY <1>1, <2>1, <2>2, BeginIs DEF BeginCopyConstruct
  <2>4. CopyConstructing(Now', todo', running', before, w, o)
    BY <2>1, <2>2, <2>3 DEF CopyConstructing
  <2> QED BY <2>2, <2>3, <2>4 DEF Started, Begun, InCall
<1>2. CASE BeginMoveConstruct(w, o)
  <2>1. PICK x : x = Step("init", w, o) OBVIOUS
  <2>2. <<x>> = Only(x) /\ <<x>> # <<>> BY ThenNothing DEF Only
  <2>3. /\ Now' = before /\ todo' = <<x>> /\ running' = Record("move construct", w, o)
        /\ UNCHANGED call /\ Movable /\ ~ IsWrap(before, w) /\ IsWrap(before, o)
    BY <1>2, <2>1, <2>2, BeginIs DEF BeginMoveConstruct
  <2>4. MoveConstructing(Now', todo', running', before, w, o)
    BY <2>1, <2>2, <2>3 DEF MoveConstructing
  <2> QED BY <2>2, <2>3, <2>4 DEF Started, Begun, InCall
<1> QED BY <1>1, <1>2

(* operator=(wrap &&) is a list of its own, decided by its first step.     *)
LEMMA MovingFirst ==
  ASSUME NEW s, NEW u, NEW v, NEW q, q = <<Step("move", u, v)>>
  PROVE  q # <<>> /\ Moving(s, q, s, u, v, <<>>)
<1>1. PICK x : x = Step("move", u, v) OBVIOUS
<1>2. q = Then(x, <<>>) /\ q # <<>> BY <1>1, ThenNothing
<1> QED BY <1>1, <1>2 DEF Moving

LEMMA BeginMoves ==
  ASSUME Proper(before), Now = before, NEW w \in Wraps, NEW o \in Wraps, BeginMoveAssign(w, o)
  PROVE  Started
<1>1. Movable /\ IsWrap(before, w) /\ IsWrap(before, o)
      /\ (w # o /\ Invalid(before, o) => Invalid(before, w))
  BY DEF BeginMoveAssign
<1>2. CASE w = o
  <2>1. Now' = before /\ todo' = <<>> /\ Returned("move assign", w, o, FALSE)
    BY <1>2, BeginIs DEF BeginMoveAssign
  <2> QED BY <1>1, <1>2, <2>1, AtOnce, WholeMoves
<1>3. CASE w # o
  <2>1. PICK q : q = <<Step("move", w, o)>> OBVIOUS
  <2>2. q # <<>> /\ Moving(before, q, before, w, o, <<>>) BY <2>1, MovingFirst
  <2>0. PICK g : Begin("move assign", w, o, q, g) BY <1>3, <2>1 DEF BeginMoveAssign
  <2>3. Now' = before /\ todo' = q /\ running' = Record("move assign", w, o) /\ UNCHANGED call
    <3>1. q # <<>> BY <2>2
    <3> QED BY <2>0, <3>1, CommitsTo DEF Begin, Record
  <2>4. MoveAssigning(Now', todo', running', before, w, o)
    BY <1>1, <1>3, <2>2, <2>3 DEF MoveAssigning
  <2> QED BY <2>2, <2>3, <2>4 DEF Started, Begun, InCall
<1> QED BY <1>2, <1>3

LEMMA LeaveHere == Local = Temp => Leave = Drop
BY DEF Leave, Drop

LEMMA CopyStepsHere ==
  ASSUME Local = Temp, NEW s, NEW w, NEW o
  PROVE  /\ CopySteps(s, w, o) = Then(Step("clone", Temp, o), Then(Step("move", w, Temp), Drop))
         /\ CopySteps(s, w, o) # <<>>
BY CopyStepsIs, LeaveHere

LEMMA SwapByLocalHere ==
  ASSUME Local = Temp, NEW w, NEW o
  PROVE  /\ SwapByLocal(w, o) = Then(Step("init", Temp, w), Then(Step("move", w, o),
                                     Then(Step("move", o, Temp), Drop)))
         /\ SwapByLocal(w, o) # <<>>
BY SwapByLocalIs, LeaveHere DEF Back

LEMMA BeginCopies ==
  ASSUME Proper(before), Now = before, Local = Temp, NEW w \in Wraps, NEW o \in Wraps,
         BeginCopyAssign(w, o)
  PROVE  Started
<1>1. Copyable /\ IsWrap(before, w) /\ (w = o \/ Valid(before, o)) BY DEF BeginCopyAssign
<1>2. CASE w = o
  <2>1. Now' = before /\ todo' = <<>> /\ Returned("copy assign", w, o, FALSE)
    BY <1>2, BeginIs DEF BeginCopyAssign
  <2> QED BY <1>1, <1>2, <2>1, AtOnce, WholeNullary
<1>3. CASE w # o /\ InPlace(before, w, o)
  <2>1. PICK x : x = Step("copy value", w, o) OBVIOUS
  <2>2. <<x>> = Only(x) /\ <<x>> # <<>> BY ThenNothing DEF Only
  <2>3. Now' = before /\ todo' = <<x>> /\ running' = Record("copy assign", w, o) /\ UNCHANGED call
    BY <1>3, <2>1, <2>2, BeginIs DEF BeginCopyAssign
  <2>4. CopyingInPlace(Now', todo', running', before, w, o)
    BY <1>1, <1>3, <2>1, <2>2, <2>3 DEF CopyingInPlace
  <2> QED BY <2>2, <2>3, <2>4 DEF Started, Begun, InCall
<1>4. CASE w # o /\ ~ InPlace(before, w, o)
  <2>1. PICK q : q = CopySteps(before, w, o) OBVIOUS
  <2>2. q = Then(Step("clone", Temp, o), Then(Step("move", w, Temp), Drop)) /\ q # <<>>
    BY <2>1, CopyStepsHere
  <2>3. Now' = before /\ todo' = q /\ running' = Record("copy assign", w, o) /\ UNCHANGED call
    BY <1>4, <2>1, <2>2, BeginIs DEF BeginCopyAssign
  <2>4. CopyingByTemp(Now', todo', running', before, w, o)
    BY <1>1, <1>4, <2>2, <2>3 DEF CopyingByTemp
  <2> QED BY <2>2, <2>3, <2>4 DEF Started, Begun, InCall
<1> QED BY <1>2, <1>3, <1>4

LEMMA BeginSwaps ==
  ASSUME Proper(before), Now = before, Local = Temp, NEW w \in Wraps, NEW o \in Wraps,
         BeginSwap(w, o)
  PROVE  Started
<1>1. Swappable /\ Movable /\ IsWrap(before, w) /\ IsWrap(before, o) BY DEF BeginSwap
<1>2. CASE w = o \/ (Invalid(before, w) /\ Invalid(before, o))
  <2>1. Now' = before /\ todo' = <<>> /\ Returned("swap", w, o, FALSE)
    BY <1>2, BeginIs DEF BeginSwap, Valid, Invalid
  <2> QED BY <1>1, <1>2, <2>1, AtOnce, WholeSwap
<1>3. CASE Invalid(before, w) /\ Valid(before, o)
  <2>1. PICK q : q = <<Step("move", w, o)>> OBVIOUS
  <2>2. q # <<>> /\ Moving(before, q, before, w, o, <<>>) BY <2>1, MovingFirst
  <2>3. w # o BY <1>3 DEF Valid, Invalid
  <2>0. PICK g : Begin("swap", w, o, q, g)
    BY <1>3, <2>1, <2>3 DEF BeginSwap, Valid, Invalid
  <2>4. Now' = before /\ todo' = q /\ running' = Record("swap", w, o) /\ UNCHANGED call
    <3>1. q # <<>> BY <2>2
    <3> QED BY <2>0, <3>1, CommitsTo DEF Begin, Record
  <2>5. Swapping(Now', todo', running', before, w, o)
    BY <1>1, <1>3, <2>2, <2>3, <2>4 DEF Swapping
  <2> QED BY <2>2, <2>4, <2>5 DEF Started, Begun, InCall
<1>4. CASE Valid(before, w) /\ Invalid(before, o)
  <2>1. PICK q : q = <<Step("move", o, w)>> OBVIOUS
  <2>2. q # <<>> /\ Moving(before, q, before, o, w, <<>>) BY <2>1, MovingFirst
  <2>3. w # o BY <1>4 DEF Valid, Invalid
  <2>0. PICK g : Begin("swap", w, o, q, g)
    BY <1>4, <2>1, <2>3 DEF BeginSwap, Valid, Invalid
  <2>4. Now' = before /\ todo' = q /\ running' = Record("swap", w, o) /\ UNCHANGED call
    <3>1. q # <<>> BY <2>2
    <3> QED BY <2>0, <3>1, CommitsTo DEF Begin, Record
  <2>5. Swapping(Now', todo', running', before, w, o)
    BY <1>1, <1>4, <2>2, <2>3, <2>4 DEF Swapping
  <2> QED BY <2>2, <2>4, <2>5 DEF Started, Begun, InCall
<1>5. CASE w # o /\ Valid(before, w) /\ Valid(before, o) /\ TypeOf(before, w) = TypeOf(before, o)
  <2>1. PICK x : x = Step("exchange", w, o) OBVIOUS
  <2>2. <<x>> = Only(x) /\ <<x>> # <<>> BY ThenNothing DEF Only
  <2>3. Now' = before /\ todo' = <<x>> /\ running' = Record("swap", w, o) /\ UNCHANGED call
    BY <1>5, <2>1, <2>2, BeginIs DEF BeginSwap, Valid, Invalid
  <2>4. Swapping(Now', todo', running', before, w, o)
    BY <1>1, <1>5, <2>1, <2>2, <2>3 DEF Swapping
  <2> QED BY <2>2, <2>3, <2>4 DEF Started, Begun, InCall
<1>6. CASE w # o /\ Valid(before, w) /\ Valid(before, o) /\ TypeOf(before, w) # TypeOf(before, o)
  <2>1. PICK q : q = SwapByLocal(w, o) OBVIOUS
  <2>2. /\ q = Then(Step("init", Temp, w), Then(Step("move", w, o),
                    Then(Step("move", o, Temp), Drop)))
        /\ q # <<>>
    BY <2>1, SwapByLocalHere
  <2>3. Now' = before /\ todo' = q /\ running' = Record("swap", w, o) /\ UNCHANGED call
    BY <1>6, <2>1, <2>2, BeginIs DEF BeginSwap, Valid, Invalid
  <2>4. SwappingByTemp(Now', todo', running', before, w, o)
    BY <1>1, <1>6, <2>2, <2>3 DEF SwappingByTemp
  <2> QED BY <2>2, <2>3, <2>4 DEF Started, Begun, InCall
<1> QED BY <1>1, <1>2, <1>3, <1>4, <1>5, <1>6 DEF IsWrap, Valid, Invalid

LEMMA CallsAtOnce ==
  ASSUME Proper(before), Now = before, todo = <<>>, NEW w \in Wraps, CallAtOnce(w)
  PROVE  Proper(Now') /\ Completes
<1>1. todo' = <<>> BY DEF CallAtOnce, stepVars
<1>2. CASE InvalidConstruct(w)
  <2>1. w \in Slots /\ Null \in Pointees BY DEF Slots, Pointees
  <2>2. Proper(SetPtr(before, w, Null)) BY <2>1, SetPtrProper
  <2>3. Now' = SetPtr(before, w, Null) BY <1>2, <2>2, CommitsTo DEF InvalidConstruct
  <2>4. ~ IsWrap(before, w) /\ Returned("construct", w, Outside, FALSE)
    BY <1>2 DEF InvalidConstruct
  <2> QED BY <1>1, <2>2, <2>3, <2>4, WholeNullary DEF Completes
<1>3. ASSUME NEW v \in Vals, Write(w, v) PROVE Proper(Now') /\ Completes
  <2>1. Proper(SetValue(before, before.ptr[w], v)) BY SetValueProper
  <2>2. before.ptr = ptr BY DEF Now
  <2>3. Now' = SetValue(before, before.ptr[w], v) BY <1>3, <2>1, <2>2, CommitsTo DEF Write
  <2>4. Valid(before, w) /\ Returned("write", w, Outside, FALSE) BY <1>3 DEF Write
  <2> QED BY <1>1, <2>1, <2>3, <2>4, WholeWrite DEF Completes
<1> QED BY <1>2, <1>3 DEF CallAtOnce

----------------------------------------------------------------------------
(* The invariant, and every step of WrapAtomic as one of ValueWrap.        *)

(* Between calls the wraps are as before; during one they are what its     *)
(* list of steps says they are.                                            *)
AInv ==
  /\ Proper(before)
  /\ IF todo = <<>> THEN Now = before ELSE InCall(Now, todo, running, before)

(* A call that begins does so in one of the states InCall lists, or it is  *)
(* over and an action of ValueWrap.                                        *)
LEMMA CallBegins ==
  ASSUME Local = Temp, Proper(before), todo = <<>> => Now = before, Call
  PROVE  Started
<1>1. PICK w \in Wraps :
        \/ CallAtOnce(w) \/ BeginReset(w) \/ BeginDestruct(w)
        \/ \E t \in Types, v \in Vals :
             \/ \E how \in {"args", "copy", "move"} : BeginConstruct(w, t, v, how)
             \/ \E how \in {"copy", "move"} : BeginAssign(w, t, v, how)
             \/ BeginEmplace(w, t, v)
        \/ \E o \in Wraps :
             \/ BeginCopyConstruct(w, o) \/ BeginMoveConstruct(w, o)
             \/ BeginCopyAssign(w, o) \/ BeginMoveAssign(w, o) \/ BeginSwap(w, o)
  BY DEF Call, Callers
<1>2. todo = <<>> /\ Now = before
  BY <1>1 DEF CallAtOnce, BeginReset, BeginDestruct, BeginConstruct, BeginAssign, BeginEmplace,
              BeginCopyConstruct, BeginMoveConstruct, BeginCopyAssign, BeginMoveAssign, BeginSwap,
              Begin
<1>3. CASE CallAtOnce(w) BY <1>2, <1>3, CallsAtOnce DEF Started
<1>4. CASE BeginReset(w) \/ BeginDestruct(w) BY <1>2, <1>4, BeginEnding
<1>5. ASSUME NEW t \in Types, NEW v \in Vals, NEW how \in {"args", "copy", "move"},
             BeginConstruct(w, t, v, how)
      PROVE  Started
  BY <1>2, <1>5, BeginGeneric
<1>6. ASSUME NEW t \in Types, NEW v \in Vals, NEW how \in {"copy", "move"},
             BeginAssign(w, t, v, how)
      PROVE  Started
  BY <1>2, <1>6, BeginGeneric
<1>7. ASSUME NEW t \in Types, NEW v \in Vals, BeginEmplace(w, t, v) PROVE Started
  BY <1>2, <1>7, BeginGeneric
<1>8. ASSUME NEW o \in Wraps,
             \/ BeginCopyConstruct(w, o) \/ BeginMoveConstruct(w, o)
             \/ BeginCopyAssign(w, o) \/ BeginMoveAssign(w, o) \/ BeginSwap(w, o)
      PROVE  Started
  BY <1>2, <1>8, BeginConstructs, BeginCopies, BeginMoves, BeginSwaps
<1> QED BY <1>1, <1>3, <1>4, <1>5, <1>6, <1>7, <1>8

(* So does a call that makes its next step.                                *)
LEMMA CallGoesOn ==
  ASSUME Proper(before), InCall(Now, todo, running, before), Doer
  PROVE  Onward
<1>1. PICK w \in Wraps :
        \/ Ending(Now, todo, running, before, w)
        \/ \E t \in Types, v \in Vals, how \in {"args", "copy", "move"} :
             \/ Constructing(Now, todo, running, before, w, t, v, how)
             \/ Remaking(Now, todo, running, before, w, t, v, how)
             \/ Setting(Now, todo, running, before, w, t, v, how)
        \/ \E o \in Wraps :
             \/ CopyConstructing(Now, todo, running, before, w, o)
             \/ MoveConstructing(Now, todo, running, before, w, o)
             \/ MoveAssigning(Now, todo, running, before, w, o)
             \/ CopyingInPlace(Now, todo, running, before, w, o)
             \/ CopyingByTemp(Now, todo, running, before, w, o)
             \/ Swapping(Now, todo, running, before, w, o)
             \/ SwappingByTemp(Now, todo, running, before, w, o)
  BY DEF InCall
<1>2. CASE Ending(Now, todo, running, before, w) BY <1>2, EndingOn
<1>3. ASSUME NEW t \in Types, NEW v \in Vals, NEW how \in {"args", "copy", "move"},
             \/ Constructing(Now, todo, running, before, w, t, v, how)
             \/ Remaking(Now, todo, running, before, w, t, v, how)
             \/ Setting(Now, todo, running, before, w, t, v, how)
      PROVE  Onward
  BY <1>3, ConstructingOn, RemakingOn, SettingOn
<1>4. ASSUME NEW o \in Wraps,
             \/ CopyConstructing(Now, todo, running, before, w, o)
             \/ MoveConstructing(Now, todo, running, before, w, o)
             \/ MoveAssigning(Now, todo, running, before, w, o)
             \/ CopyingInPlace(Now, todo, running, before, w, o)
             \/ CopyingByTemp(Now, todo, running, before, w, o)
             \/ Swapping(Now, todo, running, before, w, o)
             \/ SwappingByTemp(Now, todo, running, before, w, o)
      PROVE  Onward
  <2>1. CASE \/ CopyConstructing(Now, todo, running, before, w, o)
             \/ MoveConstructing(Now, todo, running, before, w, o)
             \/ MoveAssigning(Now, todo, running, before, w, o)
    BY <2>1, CopyConstructingOn, MoveConstructingOn, MoveAssigningOn
  <2>2. CASE \/ CopyingInPlace(Now, todo, running, before, w, o)
             \/ CopyingByTemp(Now, todo, running, before, w, o)
    BY <2>2, CopyingInPlaceOn, CopyingByTempOn
  <2>3. CASE \/ Swapping(Now, todo, running, before, w, o)
             \/ SwappingByTemp(Now, todo, running, before, w, o)
    BY <2>3, SwappingOn, SwappingByTempOn
  <2> QED BY <1>4, <2>1, <2>2, <2>3
<1> QED BY <1>1, <1>2, <1>3, <1>4

LEMMA AtomicBegins == AtomicInit => AInv /\ Atomic!Init
<1> SUFFICES ASSUME AtomicInit PROVE AInv /\ Atomic!Init
  OBVIOUS
<1> USE DEF AtomicInit, StepsInit, Init
<1>1. before.ptr = ptr /\ before.held = held /\ before.ub = ub BY DEF Now
<1>2. Proper(before) BY DEF Now, Proper, Pointers, Pointees
<1>3. Atomic!Init BY <1>1 DEF Atomic!Init, Atomic!Slots, Slots, Atomic!Places, Places, Atomic!Raw, Raw
<1> QED BY <1>2, <1>3 DEF AInv

(* The refinement, step by step.                                           *)
LEMMA AtomicStep ==
  NobodyInterferes /\ AInv /\ [AtomicNext]_<<vars, stepVars, before>>
    => AInv' /\ [Atomic!Next]_(Atomic!vars)
<1> SUFFICES ASSUME NobodyInterferes, AInv, [AtomicNext]_<<vars, stepVars, before>>
             PROVE  AInv' /\ [Atomic!Next]_(Atomic!vars)
  OBVIOUS
<1>1. CASE UNCHANGED <<vars, stepVars, before>>
  <2>1. Now' = Now /\ todo' = todo /\ running' = running /\ before' = before
    BY <1>1 DEF vars, stepVars, Now
  <2>2. UNCHANGED Atomic!vars BY <1>1 DEF vars, Atomic!vars
  <2>3. AInv' BY <2>1 DEF AInv
  <2> QED BY <2>2, <2>3
<1>2. CASE AtomicNext
  <2>1. before' = IF todo' = <<>> THEN Now' ELSE before BY <1>2 DEF AtomicNext
  <2>2. Call \/ Doer BY <1>2 DEF AtomicNext, StepsNext, Doer, NestedCall, NobodyInterferes
  <2>3. CASE Call
    <3>1. Started BY <2>3, CallBegins DEF AInv, NobodyInterferes
    <3>2. CASE Begun
      <4>1. todo' # <<>> /\ before' = before /\ call' = call BY <2>1, <3>2 DEF Begun
      <4>2. InCall(Now', todo', running', before) BY <3>2 DEF Begun
      <4>3. AInv' BY <4>1, <4>2 DEF AInv
      <4>4. UNCHANGED Atomic!vars BY <4>1 DEF Atomic!vars
      <4> QED BY <4>3, <4>4
    <3>3. CASE Completes
      <4>1. todo' = <<>> /\ before' = Now' /\ Atomic!Next BY <2>1, <3>3 DEF Completes
      <4>2. AInv' BY <3>1, <4>1 DEF AInv, Started
      <4> QED BY <4>1, <4>2
    <3> QED BY <3>1, <3>2, <3>3 DEF Started
  <2>4. CASE Doer
    <3>0. todo # <<>>
      BY <2>4 DEF Doer, Perform, Decide, Clone, Build, CopyValue, Set, Doing
    <3>1. Onward BY <2>4, <3>0, CallGoesOn DEF AInv
    <3>2. CASE GoesOn
      <4>1. todo' # <<>> /\ before' = before /\ call' = call /\ running' = running
        BY <2>1, <3>2 DEF GoesOn
      <4>2. InCall(Now', todo', running', before) BY <3>2, <4>1 DEF GoesOn
      <4>3. AInv' BY <4>1, <4>2 DEF AInv
      <4>4. UNCHANGED Atomic!vars BY <4>1 DEF Atomic!vars
      <4> QED BY <4>3, <4>4
    <3>3. CASE Completes
      <4>1. todo' = <<>> /\ before' = Now' /\ Atomic!Next BY <2>1, <3>3 DEF Completes
      <4>2. AInv' BY <3>1, <4>1 DEF AInv, Onward
      <4> QED BY <4>1, <4>2
    <3> QED BY <3>1, <3>2, <3>3 DEF Onward
  <2> QED BY <2>2, <2>3, <2>4
<1> QED BY <1>1, <1>2

(* A call whose values make no calls of their own is one action of         *)
(* ValueWrap: from the state in which it began to the one in which it      *)
(* returns or throws, its destructions, constructions, moves and pointer   *)
(* assignments amount to what that action does at once.  Every theorem     *)
(* about ValueWrap is thereby one about the code step by step.             *)
THEOREM CallsAreAtomic == NobodyInterferes => (AtomicSpec => ImplementsValueWrap)
<1>1. AtomicInit => AInv /\ Atomic!Init BY AtomicBegins
<1>2. NobodyInterferes /\ AInv /\ [AtomicNext]_<<vars, stepVars, before>>
        => AInv' /\ [Atomic!Next]_(Atomic!vars)
  BY AtomicStep
<1>3. SUFFICES ASSUME NobodyInterferes PROVE AtomicSpec => ImplementsValueWrap
  OBVIOUS
<1>4. AInv /\ [AtomicNext]_<<vars, stepVars, before>> => AInv' /\ [Atomic!Next]_(Atomic!vars)
  BY <1>2, <1>3
<1> QED BY <1>1, <1>4, PTL DEF AtomicSpec, ImplementsValueWrap, Atomic!Spec
============================================================================
