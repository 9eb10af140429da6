-------------------------- MODULE WrapSerialProofs --------------------------
(***************************************************************************)
(* Theorems about WrapSerial: the operations of ValueWrap keep their       *)
(* invariant with archives around, loading builds an owner exactly as the  *)
(* constructors do, and what the archive believes about addresses stays    *)
(* true.  ValueWrapProofs supplies the operations; this module adds save,  *)
(* load and a frame lemma about the pointers a call leaves alone.          *)
(***************************************************************************)
EXTENDS WrapSerial, ValueWrapProofs

(* n comes from s by changing no other pointers than those of U.           *)
Leaves(n, s, U) ==
  /\ n = [ptr |-> n.ptr, held |-> n.held, ub |-> n.ub]
  /\ DOMAIN n.ptr = Slots
  /\ \A u \in Slots \ U : n.ptr[u] = s.ptr[u]

Shaped(s) == s = [ptr |-> s.ptr, held |-> s.held, ub |-> s.ub] /\ DOMAIN s.ptr = Slots

LEMMA NowShaped == ASSUME Owning PROVE Shaped(Now)
  BY DEF Owning, Good, State, Now, Shaped

LEMMA LeavesThen ==
  ASSUME NEW n, NEW m, NEW s, NEW U, Leaves(n, m, U), Leaves(m, s, U) PROVE Leaves(n, s, U)
  BY DEF Leaves

(* The helpers of wrap, and sets that hold every pointer they assign.      *)
LEMMA SetPtrLeaves ==
  ASSUME NEW s, Shaped(s), NEW w, NEW x, NEW U, w \in U
  PROVE  Leaves(SetPtr(s, w, x), s, U) /\ Shaped(SetPtr(s, w, x))
  BY DEF Shaped, Leaves, SetPtr

LEMMA SetValueLeaves ==
  ASSUME NEW s, Shaped(s), NEW p, NEW v, NEW U
  PROVE  Leaves(SetValue(s, p, v), s, U) /\ Shaped(SetValue(s, p, v))
  BY DEF Shaped, Leaves, SetValue

LEMMA AccuseLeaves ==
  ASSUME NEW s, Shaped(s), NEW b, NEW U
  PROVE  Leaves(Accuse(s, b), s, U) /\ Shaped(Accuse(s, b))
  BY DEF Shaped, Leaves, Accuse

LEMMA DestroyLeaves ==
  ASSUME NEW s, Shaped(s), NEW w, NEW U
  PROVE  Leaves(Destroy(s, w), s, U) /\ Shaped(Destroy(s, w))
  BY DEF Shaped, Leaves, Destroy

LEMMA NewHolderLeaves ==
  ASSUME NEW s, Shaped(s), NEW w, NEW p, NEW h, NEW U, w \in U
  PROVE  Leaves(NewHolder(s, w, p, h), s, U) /\ Shaped(NewHolder(s, w, p, h))
  BY DEF Shaped, Leaves, NewHolder

LEMMA DtorLeaves ==
  ASSUME NEW s, Shaped(s), NEW w, NEW U, w \in U
  PROVE  Leaves(Dtor(s, w), s, U) /\ Shaped(Dtor(s, w))
<1>1. Leaves(Destroy(s, w), s, U) /\ Shaped(Destroy(s, w))
  BY DestroyLeaves
<1>2. Leaves(Dtor(s, w), Destroy(s, w), U) /\ Shaped(Dtor(s, w))
  BY <1>1, SetPtrLeaves DEF Dtor
<1> QED BY <1>1, <1>2, LeavesThen

LEMMA CopyInitLeaves ==
  ASSUME NEW s, Shaped(s), NEW w, NEW o, NEW p, NEW U, w \in U
  PROVE  Leaves(CopyInit(s, w, o, p), s, U) /\ Shaped(CopyInit(s, w, o, p))
<1> DEFINE m == Accuse(s, Run(s, s.ptr[o], "copy ctor"))
<1>1. Leaves(m, s, U) /\ Shaped(m)
  BY AccuseLeaves
<1> HIDE DEF m
<1>2. Leaves(NewHolder(m, w, p, HolderOf(s, o)), m, U) /\ Shaped(NewHolder(m, w, p, HolderOf(s, o)))
  BY <1>1, NewHolderLeaves
<1>3. CopyInit(s, w, o, p) = NewHolder(m, w, p, HolderOf(s, o))
  BY DEF m, CopyInit
<1> QED BY <1>1, <1>2, <1>3, LeavesThen

LEMMA SwapPointersLeaves ==
  ASSUME NEW s, Shaped(s), NEW w, NEW o, NEW U, w \in U, o \in U
  PROVE  Leaves(SwapPointers(s, w, o), s, U) /\ Shaped(SwapPointers(s, w, o))
<1> DEFINE m == SetPtr(s, w, s.ptr[o])
<1>1. Leaves(m, s, U) /\ Shaped(m)
  BY SetPtrLeaves
<1> HIDE DEF m
<1>2. Leaves(SetPtr(m, o, s.ptr[w]), m, U) /\ Shaped(SetPtr(m, o, s.ptr[w]))
  BY <1>1, SetPtrLeaves
<1>3. SwapPointers(s, w, o) = SetPtr(m, o, s.ptr[w])
  BY DEF m, SwapPointers
<1> QED BY <1>1, <1>2, <1>3, LeavesThen

LEMMA MoveInitLeaves ==
  ASSUME NEW s, Shaped(s), NEW w, NEW o, NEW U, w \in U, o \in U
  PROVE  Leaves(MoveInitFrom(s, w, o), s, U) /\ Shaped(MoveInitFrom(s, w, o))
<1>1. CASE Stype(s, o)
  <2> DEFINE k == SetValue(s, o, Hollow)
             m == Accuse(k, Run(s, o, "move ctor"))
  <2>1. Leaves(k, s, U) /\ Shaped(k)
    BY SetValueLeaves
  <2> HIDE DEF k
  <2>2. Leaves(m, k, U) /\ Shaped(m)
    BY <2>1, AccuseLeaves
  <2> HIDE DEF m
  <2>3. Leaves(NewHolder(m, w, w, s.held[o]), m, U) /\ Shaped(NewHolder(m, w, w, s.held[o]))
    BY <2>2, NewHolderLeaves
  <2>4. MoveInitFrom(s, w, o) = NewHolder(m, w, w, s.held[o])
    BY <1>1 DEF k, m, MoveInitFrom
  <2> QED BY <2>1, <2>2, <2>3, <2>4, LeavesThen
<1>2. CASE ~ Stype(s, o)
  <2> DEFINE m == SetPtr(s, w, s.ptr[o])
  <2>1. Leaves(m, s, U) /\ Shaped(m)
    BY SetPtrLeaves
  <2> HIDE DEF m
  <2>2. Leaves(SetPtr(m, o, Null), m, U) /\ Shaped(SetPtr(m, o, Null))
    BY <2>1, SetPtrLeaves
  <2>3. MoveInitFrom(s, w, o) = SetPtr(m, o, Null)
    BY <1>2 DEF m, MoveInitFrom
  <2> QED BY <2>1, <2>2, <2>3, LeavesThen
<1> QED BY <1>1, <1>2

(* The two ways to treat wraps of one type, in assignment and in swap.     *)
LEMMA SameTypeLeaves ==
  ASSUME NEW s, Shaped(s), NEW b, NEW c, NEW w, NEW o, NEW U, w \in U, o \in U,
         NEW p, NEW v, NEW q, NEW x
  PROVE  LET a == Accuse(s, b)
             n == SetValue(SetValue(Accuse(a, c), p, v), q, x)
         IN  /\ Leaves(n, s, U) /\ Shaped(n)
             /\ Leaves(SwapPointers(a, w, o), s, U) /\ Shaped(SwapPointers(a, w, o))
<1> DEFINE a == Accuse(s, b)
           r == Accuse(a, c)
           k == SetValue(r, p, v)
           n == SetValue(k, q, x)
<1>1. Leaves(a, s, U) /\ Shaped(a)
  BY AccuseLeaves
<1> HIDE DEF a
<1>2. Leaves(r, a, U) /\ Shaped(r)
  BY <1>1, AccuseLeaves
<1> HIDE DEF r
<1>3. Leaves(k, r, U) /\ Shaped(k)
  BY <1>2, SetValueLeaves
<1> HIDE DEF k
<1>4. Leaves(n, k, U) /\ Shaped(n)
  BY <1>3, SetValueLeaves
<1>5. Leaves(SwapPointers(a, w, o), a, U) /\ Shaped(SwapPointers(a, w, o))
  BY <1>1, SwapPointersLeaves
<1> HIDE DEF n
<1>6. Leaves(n, s, U) /\ Leaves(SwapPointers(a, w, o), s, U)
  BY <1>1, <1>2, <1>3, <1>4, <1>5, LeavesThen
<1> QED BY <1>4, <1>5, <1>6 DEF a, r, k, n

LEMMA MoveAssignLeaves ==
  ASSUME NEW s, Shaped(s), NEW w, NEW o, NEW U, w \in U, o \in U
  PROVE  Leaves(MoveAssign(s, w, o), s, U) /\ Shaped(MoveAssign(s, w, o))
<1>1. CASE Invalid(s, w)
  <2>1. MoveAssign(s, w, o) = MoveInitFrom(s, w, o)
    BY <1>1 DEF MoveAssign
  <2> QED BY <2>1, MoveInitLeaves
<1>2. CASE ~ Invalid(s, w) /\ TypeOf(s, w) # TypeOf(s, o)
  <2>1. MoveAssign(s, w, o) = MoveInitFrom(Destroy(s, w), w, o)
    BY <1>2 DEF MoveAssign
  <2>2. Leaves(Destroy(s, w), s, U) /\ Shaped(Destroy(s, w))
    BY DestroyLeaves
  <2>3. Leaves(MoveAssign(s, w, o), Destroy(s, w), U) /\ Shaped(MoveAssign(s, w, o))
    BY <2>1, <2>2, MoveInitLeaves
  <2> QED BY <2>2, <2>3, LeavesThen
<1>3. CASE ~ Invalid(s, w) /\ TypeOf(s, w) = TypeOf(s, o)
  BY <1>3, SameTypeLeaves DEF MoveAssign
<1> QED BY <1>1, <1>2, <1>3

LEMMA SwapSameTypeLeaves ==
  ASSUME NEW s, Shaped(s), NEW w, NEW o, NEW U, w \in U, o \in U
  PROVE  Leaves(SwapSameType(s, w, o), s, U)
  BY SameTypeLeaves DEF SwapSameType

LEMMA SwapByTempLeaves ==
  ASSUME NEW s, Shaped(s), NEW w, NEW o, NEW U, w \in U, o \in U, Temp \in U
  PROVE  Leaves(SwapByTemp(s, w, o), s, U)
<1> DEFINE m1 == MoveInitFrom(s, Temp, w)
           m2 == MoveAssign(m1, w, o)
           m3 == MoveAssign(m2, o, Temp)
           n  == Dtor(m3, Temp)
<1>1. Leaves(m1, s, U) /\ Shaped(m1)
  BY MoveInitLeaves
<1> HIDE DEF m1
<1>2. Leaves(m2, m1, U) /\ Shaped(m2)
  BY <1>1, MoveAssignLeaves
<1> HIDE DEF m2
<1>3. Leaves(m3, m2, U) /\ Shaped(m3)
  BY <1>2, MoveAssignLeaves
<1> HIDE DEF m3
<1>4. Leaves(n, m3, U)
  BY <1>3, DtorLeaves
<1> HIDE DEF n
<1>5. Leaves(n, s, U)
  BY <1>1, <1>2, <1>3, <1>4, LeavesThen
<1>6. SwapByTemp(s, w, o) = n
  BY DEF m1, m2, m3, n, SwapByTemp
<1> QED BY <1>5, <1>6
----------------------------------------------------------------------------
(* A call leaves the pointers of all wraps alone that it does not involve. *)
Bystanders == \A u \in Wraps \ {call'.dst, call'.src} : ptr'[u] = ptr[u]

LEMMA LeavesBystanders ==
  ASSUME NEW n, NEW op, NEW w, NEW o, NEW threw, Leaves(n, Now, {w, o, Temp}), Commit(n),
         Returned(op, w, o, threw)
  PROVE  Bystanders
<1>1. \A u \in Slots \ {w, o, Temp} : ptr'[u] = ptr[u]
  BY DEF Leaves, Commit, Now
<1>2. call'.dst = w /\ call'.src = o
  BY DEF Returned
<1> QED BY <1>1, <1>2, Apart DEF Bystanders, Slots

LEMMA UnaryLeaves ==
  ASSUME Owning, NEW w \in Wraps,
         InvalidConstruct(w) \/ Destruct(w) \/ Reset(w) \/ CopySelf(w)
         \/ \E v \in Vals : Write(w, v)
  PROVE  Bystanders
<1> DEFINE d == Destroy(Now, w)
           U == {w, Outside, Temp}
           V == {w, w, Temp}
<1>1. Shaped(Now) /\ w \in U
  BY NowShaped
<1>2. Leaves(Now, Now, U) /\ Leaves(Now, Now, V)
  BY <1>1 DEF Shaped, Leaves
<1>3. Leaves(d, Now, U) /\ Shaped(d)
  BY <1>1, DestroyLeaves
<1>4. CASE InvalidConstruct(w)
  <2>1. Leaves(SetPtr(Now, w, Null), Now, U)
    BY <1>1, SetPtrLeaves
  <2> QED BY <1>4, <2>1, LeavesBystanders DEF InvalidConstruct
<1>5. CASE Destruct(w)
  <2>1. Leaves(Dtor(Now, w), Now, U)
    BY <1>1, DtorLeaves
  <2> QED BY <1>5, <2>1, LeavesBystanders DEF Destruct
<1>6. CASE Reset(w)
  <2>1. Leaves(SetPtr(d, w, Null), d, U)
    BY <1>1, <1>3, SetPtrLeaves
  <2>2. Leaves(SetPtr(d, w, Null), Now, U)
    BY <1>3, <2>1, LeavesThen
  <2> QED BY <1>6, <2>2, LeavesBystanders DEF Reset
<1>7. CASE CopySelf(w)
  BY <1>2, <1>7, LeavesBystanders DEF CopySelf
<1>8. ASSUME NEW v \in Vals, Write(w, v) PROVE Bystanders
  <2>1. Leaves(SetValue(Now, ptr[w], v), Now, U)
    BY <1>1, SetValueLeaves
  <2> QED BY <1>8, <2>1, LeavesBystanders DEF Write
<1> QED BY <1>4, <1>5, <1>6, <1>7, <1>8

LEMMA ValueLeaves ==
  ASSUME Owning, NEW w \in Wraps, NEW t \in Types, NEW v \in Vals, NEW how,
         Construct(w, t, v, how) \/ AssignFresh(w, t, v, how) \/ AssignValue(w, t, v, how)
         \/ Emplace(w, t, v)
  PROVE  Bystanders
<1> DEFINE d == Destroy(Now, w)
           h == [type |-> t, val |-> v]
           U == {w, Outside, Temp}
<1>1. Shaped(Now) /\ w \in U
  BY NowShaped
<1>2. Leaves(Now, Now, U)
  BY <1>1 DEF Shaped, Leaves
<1>3. Leaves(d, Now, U) /\ Shaped(d)
  BY <1>1, DestroyLeaves
<1>4. Leaves(SetPtr(d, w, Null), Now, U)
  BY <1>1, <1>3, SetPtrLeaves, LeavesThen
<1>5. \A p : Leaves(NewHolder(Now, w, p, h), Now, U) /\ Leaves(NewHolder(d, w, p, h), d, U)
  BY <1>1, <1>3, NewHolderLeaves
<1>6. \A p : Leaves(NewHolder(d, w, p, h), Now, U)
  BY <1>3, <1>5, LeavesThen
<1>7. CASE Construct(w, t, v, how)
  BY <1>2, <1>5, <1>7, LeavesBystanders DEF Construct
<1>8. CASE AssignFresh(w, t, v, how)
  BY <1>4, <1>6, <1>8, LeavesBystanders DEF AssignFresh
<1>9. CASE Emplace(w, t, v)
  BY <1>4, <1>6, <1>9, LeavesBystanders DEF Emplace
<1>10. CASE AssignValue(w, t, v, how)
  <2> DEFINE r == Accuse(Now, Run(Now, ptr[w], IF how = "copy" THEN "copy assign" ELSE "move assign"))
  <2>1. Leaves(r, Now, U) /\ Shaped(r)
    BY <1>1, AccuseLeaves
  <2>2. PICK x, threw : Commit(SetValue(r, ptr[w], x)) /\ Returned("assign", w, Outside, threw)
    BY <1>10 DEF AssignValue
  <2> HIDE DEF r
  <2>3. Leaves(SetValue(r, ptr[w], x), r, U)
    BY <2>1, SetValueLeaves
  <2>4. Leaves(SetValue(r, ptr[w], x), Now, U)
    BY <2>1, <2>3, LeavesThen
  <2> QED BY <2>2, <2>4, LeavesBystanders
<1> QED BY <1>7, <1>8, <1>9, <1>10
LEMMA BinaryLeaves ==
  ASSUME Owning, NEW w \in Wraps, NEW o \in Wraps,
         CopyConstruct(w, o) \/ MoveConstruct(w, o) \/ MoveAssignment(w, o)
         \/ CopyByTemp(w, o) \/ CopyInPlace(w, o) \/ Swap(w, o)
  PROVE  Bystanders
<1> DEFINE U == {w, o, Temp}
<1>1. Shaped(Now) /\ w \in U /\ o \in U /\ Temp \in U
  BY NowShaped
<1>2. Leaves(Now, Now, U)
  BY <1>1 DEF Shaped, Leaves
<1>3. /\ Leaves(MoveInitFrom(Now, w, o), Now, U)
      /\ Leaves(MoveAssign(Now, w, o), Now, U) /\ Leaves(MoveAssign(Now, o, w), Now, U)
      /\ Leaves(SwapByTemp(Now, w, o), Now, U) /\ Leaves(SwapSameType(Now, w, o), Now, U)
  BY <1>1, MoveInitLeaves, MoveAssignLeaves, SwapByTempLeaves, SwapSameTypeLeaves
<1>4. CASE CopyConstruct(w, o)
  <2>1. \A p : Leaves(CopyInit(Now, w, o, p), Now, U)
    BY <1>1, CopyInitLeaves
  <2> QED BY <1>2, <1>4, <2>1, LeavesBystanders DEF CopyConstruct
<1>5. CASE MoveConstruct(w, o)
  BY <1>3, <1>5, LeavesBystanders DEF MoveConstruct
<1>6. CASE MoveAssignment(w, o)
  BY <1>2, <1>3, <1>6, LeavesBystanders DEF MoveAssignment
<1>7. CASE CopyByTemp(w, o)
  <2> DEFINE c(p) == CopyInit(Now, Temp, o, p)
             m(p) == MoveAssign(c(p), w, Temp)
  <2>1. ASSUME NEW p PROVE Leaves(Dtor(m(p), Temp), Now, U)
    <3>1. Leaves(c(p), Now, U) /\ Shaped(c(p))
      BY <1>1, CopyInitLeaves
    <3> HIDE DEF c
    <3>2. Leaves(m(p), c(p), U) /\ Shaped(m(p))
      BY <1>1, <3>1, MoveAssignLeaves
    <3> HIDE DEF m
    <3>3. Leaves(Dtor(m(p), Temp), m(p), U)
      BY <1>1, <3>2, DtorLeaves
    <3> QED BY <3>1, <3>2, <3>3, LeavesThen
  <2> QED BY <1>2, <1>7, <2>1, LeavesBystanders DEF CopyByTemp
<1>8. CASE CopyInPlace(w, o)
  <2> DEFINE a == Accuse(Now, AssertSameStorage(Now, w, o))
             r == Accuse(a, Run(Now, ptr[o], "copy assign"))
  <2>1. Leaves(a, Now, U) /\ Shaped(a)
    BY <1>1, AccuseLeaves
  <2>2. PICK x, threw : Commit(SetValue(r, ptr[w], x)) /\ Returned("copy assign", w, o, threw)
    BY <1>8 DEF CopyInPlace
  <2> HIDE DEF a
  <2>3. Leaves(r, a, U) /\ Shaped(r)
    BY <2>1, AccuseLeaves
  <2> HIDE DEF r
  <2>4. Leaves(SetValue(r, ptr[w], x), r, U)
    BY <2>3, SetValueLeaves
  <2>5. Leaves(SetValue(r, ptr[w], x), Now, U)
    BY <2>1, <2>3, <2>4, LeavesThen
  <2> QED BY <2>2, <2>5, LeavesBystanders
<1>9. CASE Swap(w, o)
  BY <1>2, <1>3, <1>9, LeavesBystanders DEF Swap
<1> QED BY <1>4, <1>5, <1>6, <1>7, <1>8, <1>9

LEMMA NextLeaves == ASSUME Owning, Next PROVE Bystanders
  BY UnaryLeaves, ValueLeaves, BinaryLeaves DEF Next

----------------------------------------------------------------------------
(* The invariant.  A record that is not torn can be loaded: its value was  *)
(* storable and movable, and its flag is what its type asks for.           *)
Loadable(r) ==
  /\ r \in Record
  /\ r.pv = Null => ~ r.st
  /\ r.pv # Null => /\ Wrappable(r.pv.type) /\ "move ctor" \in Can[r.pv.type]
                    /\ r.st <=> r.pv.type \in StaticTypes

SerialCallOK ==
  call \in [op : Ops \cup {"save", "load"}, dst : Wraps, src : Wraps \cup {Outside},
            threw : BOOLEAN]

ArchiveOK ==
  /\ archive \in Seq(Record \cup {Torn}) /\ Len(archive) <= MaxRecords
  /\ \A i \in DOMAIN archive : archive[i] # Torn => Loadable(archive[i])

LogOK ==
  /\ pos \in 0 .. Len(archive) /\ reader \in {"open", "failed"}
  /\ tracked \in Seq(Places \cup {Null}) /\ Len(tracked) = pos
  /\ loadedBy \in Seq(Wraps \cup {Outside}) /\ Len(loadedBy) = pos

(* A wrap an entry names is one of the program's: Outside is none.         *)
SInv == Owning /\ SerialCallOK /\ ArchiveOK /\ LogOK /\ TrackingFindsValues

LEMMA SerialInitGood == SerialInit => SInv /\ ub = {}
<1> SUFFICES ASSUME SerialInit PROVE SInv /\ ub = {}
  OBVIOUS
<1>1. Owning /\ CallOK /\ ub = {}
  BY InitGood DEF SerialInit, IInv
<1>2. SerialCallOK
  BY <1>1 DEF CallOK, SerialCallOK
<1>3. ArchiveOK /\ LogOK /\ TrackingFindsValues
  BY SerialConstantsOK DEF SerialInit, SerialConstantsOK, ArchiveOK, LogOK, TrackingFindsValues
<1> QED BY <1>1, <1>2, <1>3 DEF SInv

(* Dropping the entries of the wraps a call involves.                      *)
LEMMA ForgetLog ==
  ASSUME loadedBy \in Seq(Wraps \cup {Outside}), NEW w, NEW o
  PROVE  /\ Forget(w, o) \in Seq(Wraps \cup {Outside}) /\ Len(Forget(w, o)) = Len(loadedBy)
         /\ DOMAIN Forget(w, o) = DOMAIN loadedBy
         /\ \A i \in DOMAIN loadedBy : Forget(w, o)[i] # Outside =>
               Forget(w, o)[i] = loadedBy[i] /\ loadedBy[i] \notin {w, o}
  BY DEF Forget

LEMMA NextKeeps ==
  ASSUME SInv, Next, UNCHANGED <<archive, pos, reader, tracked>>,
         loadedBy' = Forget(call'.dst, call'.src)
  PROVE  SInv'
<1>1. Owning' /\ CallOK' /\ Bystanders
  BY NextGood, NextLeaves DEF SInv, IInv
<1>2. SerialCallOK'
  BY <1>1 DEF CallOK, SerialCallOK
<1>3. ArchiveOK'
  BY DEF SInv, ArchiveOK
<1>4. /\ loadedBy \in Seq(Wraps \cup {Outside})
      /\ loadedBy' \in Seq(Wraps \cup {Outside}) /\ Len(loadedBy') = Len(loadedBy)
      /\ DOMAIN loadedBy' = DOMAIN loadedBy
      /\ \A i \in DOMAIN loadedBy : loadedBy'[i] # Outside =>
            loadedBy'[i] = loadedBy[i] /\ loadedBy[i] \notin {call'.dst, call'.src}
  BY ForgetLog DEF SInv, LogOK
<1>5. LogOK'
  BY <1>4 DEF SInv, LogOK
<1>6. ASSUME NEW i \in DOMAIN loadedBy', loadedBy'[i] # Outside
      PROVE  tracked'[i] = ptr'[loadedBy'[i]]
  <2>1. loadedBy'[i] = loadedBy[i] /\ loadedBy[i] \in Wraps \ {call'.dst, call'.src}
    BY <1>4, <1>6
  <2>2. ptr'[loadedBy[i]] = ptr[loadedBy[i]]
    BY <1>1, <2>1 DEF Bystanders
  <2> QED BY <1>4, <1>6, <2>1, <2>2 DEF SInv, TrackingFindsValues
<1>7. TrackingFindsValues'
  BY <1>6 DEF TrackingFindsValues
<1> QED BY <1>1, <1>2, <1>3, <1>5, <1>7 DEF SInv
----------------------------------------------------------------------------
(* Loading.  Destroying the old value and making the new holder commute,   *)
(* and the detour through the heap leaves what a constructor would build.  *)
Rec(p, h, u) == [ptr |-> p, held |-> h, ub |-> u]
Put(f, x, y) == [f EXCEPT ![x] = y]
Overwritten(f, x) == Blame(f[x] # Raw, "holder overwritten")

LEMMA RecFields ==
  ASSUME NEW p, NEW h, NEW u
  PROVE  Rec(p, h, u).ptr = p /\ Rec(p, h, u).held = h /\ Rec(p, h, u).ub = u
  BY DEF Rec

LEMMA DeserialiseRec ==
  ASSUME NEW p, NEW h, NEW u, NEW x, NEW y
  PROVE  Deserialise(Rec(p, h, u), x, y) = Rec(p, Put(h, x, y), u)
  BY DEF Rec, Put, Deserialise

LEMMA DeleteRec ==
  ASSUME NEW p, NEW h, NEW u, NEW x PROVE Delete(Rec(p, h, u), x) = Rec(p, Put(h, x, Raw), u)
  BY DEF Rec, Put, Delete

LEMMA SetPtrRec ==
  ASSUME NEW p, NEW h, NEW u, NEW w, NEW x
  PROVE  SetPtr(Rec(p, h, u), w, x) = Rec(Put(p, w, x), h, u)
  BY DEF Rec, Put, SetPtr

LEMMA NewHolderRec ==
  ASSUME NEW p, NEW h, NEW u, NEW w, NEW x, NEW y
  PROVE  NewHolder(Rec(p, h, u), w, x, y) =
           Rec(Put(p, w, x), Put(h, x, y), u \cup Overwritten(h, x))
  BY DEF Overwritten, Rec, Put, NewHolder

LEMMA AccuseRec ==
  ASSUME NEW p, NEW h, NEW u PROVE Accuse(Rec(p, h, u), {}) = Rec(p, h, u)
  BY DEF Rec, Accuse

LEMMA Puts ==
  ASSUME NEW D, NEW R, NEW f \in [D -> R], NEW x \in D, NEW y \in R
  PROVE  /\ Put(f, x, y) \in [D -> R] /\ Put(f, x, y)[x] = y
         /\ \A u \in D \ {x} : Put(f, x, y)[u] = f[u]
         /\ f[x] = y => Put(f, x, y) = f
  BY DEF Put

LEMMA PutsCommute ==
  ASSUME NEW D, NEW R, NEW f \in [D -> R], NEW x \in D, NEW y \in R, NEW u \in D, NEW v \in R,
         x # u
  PROVE  Put(Put(f, x, y), u, v) = Put(Put(f, u, v), x, y)
  BY DEF Put

LEMMA DestroyBeside ==
  ASSUME Owning, NEW w \in Wraps, IsWrap(Now, w), NEW b \in FreeBlocks(Now), NEW h \in Holder
  PROVE  LET d == Destroy(Now, w) IN
         /\ Destroy(Deserialise(Now, b, h), w) = Deserialise(d, b, h)
         /\ d \in State /\ b \in Blocks /\ d.held[b] = Raw
<1> DEFINE d == Destroy(Now, w)
           s == Deserialise(Now, b, h)
           H == Holder \cup {Raw}
           D == Places \cup {Null}
           p == ptr[w]
<1>1. b \in Blocks /\ held[b] = Raw /\ b \in D
  BY DEF FreeBlocks, Now, Places
<1>2. ptr \in [Slots -> Places \cup {Null, NoWrap}] /\ held \in [D -> H] /\ w \in Slots
  BY DEF Owning, Good, State, Now, Slots
<1>3. d \in State
  BY Cleared DEF Owning, Good
<1>4. Now = Rec(ptr, held, ub)
  BY DEF Now, Rec
<1> HIDE DEF H, D
<1>5. s = Rec(ptr, Put(held, b, h), ub) /\ s.ptr = ptr /\ s.ub = ub /\ s.held = Put(held, b, h)
  BY <1>4, DeserialiseRec, RecFields
<1>6. CASE Invalid(Now, w)
  <2>1. Invalid(s, w) /\ d = Now
    BY <1>5, <1>6 DEF Invalid, Now, Destroy
  <2>2. Destroy(s, w) = s
    BY <2>1 DEF Destroy
  <2>3. d.held[b] = Raw
    BY <1>1, <2>1 DEF Now
  <2> QED BY <1>1, <1>3, <2>1, <2>2, <2>3
<1>7. CASE ~ Invalid(Now, w)
  <2>1. Valid(Now, w) /\ held[p] # Raw /\ p \in D
    BY <1>2, <1>7, Apart DEF Owning, Good, Valid, Invalid, IsWrap, HolderOf, Now, D
  <2>2. p # b /\ Put(held, b, h)[p] = held[p] /\ h \in H /\ Raw \in H
    BY <1>1, <1>2, <2>1 DEF H, Put
  <2> DEFINE blamed == Blame(held[p] = Raw, "destroyed twice")
                       \cup Blame(p \in Slots \ {w}, "foreign storage deleted")
  <2>3. d = Rec(ptr, Put(held, p, Raw), ub \cup blamed)
    BY <1>7 DEF Destroy, Now, HolderOf, Rec, Put, Invalid
  <2>4. Destroy(s, w) = Rec(ptr, Put(Put(held, b, h), p, Raw), ub \cup blamed)
    <3> DEFINE k == Put(held, b, h)
    <3>1. k[p] = held[p] /\ ~ (ptr[w] = Null)
      BY <1>7, <2>2 DEF Invalid, Now
    <3> HIDE DEF k
    <3>2. Destroy(Rec(ptr, k, ub), w) = Rec(ptr, Put(k, p, Raw), ub \cup blamed)
      BY <3>1 DEF Destroy, Invalid, HolderOf, Rec, Put
    <3> HIDE DEF blamed, p, s
    <3> QED BY <1>5, <3>2 DEF k
  <2> HIDE DEF blamed, p, d, s
  <2>5. Put(Put(held, b, h), p, Raw) = Put(Put(held, p, Raw), b, h)
    BY <1>1, <1>2, <2>1, <2>2, PutsCommute
  <2>6. Deserialise(d, b, h) = Destroy(s, w)
    BY <2>3, <2>4, <2>5, DeserialiseRec
  <2>7. d.held = Put(held, p, Raw)
    BY <2>3, RecFields
  <2>8. d.held[b] = Raw
    BY <1>1, <1>2, <2>1, <2>2, <2>7 DEF Put
  <2> QED BY <1>1, <1>3, <2>6, <2>8 DEF d, s
<1> QED BY <1>6, <1>7

LEMMA DetourEnds ==
  ASSUME NEW d \in State, NEW w \in Wraps, NEW b \in Blocks, d.held[b] = Raw, NEW h \in Holder,
         NEW member \in Can[h.type]
  PROVE  LET s == Deserialise(d, b, h) IN
         /\ SetPtr(s, w, b) = NewHolder(d, w, b, h)
         /\ Delete(NewHolder(Accuse(s, Run(s, b, member)), w, w, s.held[b]), b)
              = NewHolder(d, w, w, h)
<1> DEFINE s == Deserialise(d, b, h)
           k == NewHolder(s, w, w, h)
           P == d.ptr
           F == d.held
           X == d.ub
           over(p) == X \cup Overwritten(F, p)
<1>1. F \in [Places \cup {Null} -> Holder \cup {Raw}] /\ F[b] = Raw
      /\ b \in Places /\ w \in Places /\ b # w /\ h # Raw
  BY Apart, RawIsNoHolder DEF State, Places, Slots
<1>2. d = Rec(P, F, X)
  BY DEF State, Rec
<1> HIDE DEF P, F, X
<1>3. s = Rec(P, Put(F, b, h), X)
  BY <1>2, DeserialiseRec
<1> HIDE DEF s
<1>4. s.held = Put(F, b, h)
  BY <1>3, RecFields
<1>5. Put(F, b, h)[b] = h /\ Put(F, b, h)[w] = F[w]
  BY <1>1 DEF Put
<1>6. \A p : NewHolder(d, w, p, h) = Rec(Put(P, w, p), Put(F, p, h), over(p))
  BY <1>2, NewHolderRec
<1>7. over(b) = X
  BY <1>1 DEF Overwritten, Blame
<1>8. Run(s, b, member) = {}
  BY <1>1, <1>4, <1>5 DEF Run, Blame
<1>9. Accuse(s, {}) = s
  BY <1>3, AccuseRec
<1>10. k = Rec(Put(P, w, w), Put(Put(F, b, h), w, h),
               X \cup Overwritten(Put(F, b, h), w))
  BY <1>3, NewHolderRec
<1>11. k = Rec(Put(P, w, w), Put(Put(F, b, h), w, h), over(w))
  BY <1>5, <1>10 DEF Overwritten
<1> HIDE DEF k, over
<1>12. SetPtr(s, w, b) = Rec(Put(P, w, b), Put(F, b, h), X)
  BY <1>3, SetPtrRec
<1>13. SetPtr(s, w, b) = NewHolder(d, w, b, h)
  BY <1>6, <1>7, <1>12
<1>14. Put(Put(Put(F, b, h), w, h), b, Raw) = Put(F, w, h)
  BY <1>1 DEF Put
<1>15. Delete(k, b) = Rec(Put(P, w, w), Put(Put(Put(F, b, h), w, h), b, Raw), over(w))
  BY <1>11, DeleteRec
<1>16. Delete(k, b) = NewHolder(d, w, w, h)
  BY <1>6, <1>14, <1>15
<1> QED BY <1>4, <1>5, <1>8, <1>9, <1>13, <1>16 DEF k, s

Loaded(w, b, r) ==
  LET s == Deserialise(Now, b, r.pv)
  IN  IF r.st THEN MoveIn(s, w, b) ELSE TakeOver(s, w, b)

LEMMA LoadBuilds ==
  ASSUME Owning, NEW w \in Wraps, IsWrap(Now, w), NEW b \in FreeBlocks(Now),
         NEW r, Loadable(r), r.pv # Null
  PROVE  /\ Replaced(Loaded(w, b, r), Wraps, w, r.pv)
         /\ Loaded(w, b, r).ptr = [ptr EXCEPT ![w] = Place(w, b, r)]
<1> DEFINE d == Destroy(Now, w)
           h == r.pv
           p == Place(w, b, r)
<1>1. h \in Holder /\ Wrappable(h.type) /\ "move ctor" \in Can[h.type]
      /\ (r.st <=> h.type \in StaticTypes)
  BY DEF Loadable, Record
<1>2. /\ Good(d, Wraps \ {w}) /\ d.ub = ub /\ d.ptr = ptr /\ ptr[Temp] = NoWrap
      /\ SameSeen(d, Now, Wraps \ {w})
  BY Cleared DEF Owning
<1>3. /\ Destroy(Deserialise(Now, b, h), w) = Deserialise(d, b, h)
      /\ d \in State /\ b \in Blocks /\ d.held[b] = Raw
  BY <1>1, DestroyBeside
<1> HIDE DEF d, h
<1>4. Loaded(w, b, r) = NewHolder(d, w, p, h)
  <2>1. PICK s : s = Deserialise(Now, b, h) OBVIOUS
  <2>2. PICK x : x = Deserialise(d, b, h) OBVIOUS
  <2>3. Destroy(s, w) = x
    BY <1>3, <2>1, <2>2
  <2>4. Loaded(w, b, r) = IF r.st THEN MoveIn(s, w, b) ELSE SetPtr(x, w, b)
    BY <2>1, <2>3 DEF Loaded, TakeOver, h
  <2>5. SetPtr(x, w, b) = NewHolder(d, w, b, h)
        /\ Delete(NewHolder(Accuse(x, Run(x, b, "move ctor")), w, w, x.held[b]), b) = NewHolder(d, w, w, h)
    BY <1>1, <1>3, <2>2, DetourEnds
  <2> QED
    BY <2>3, <2>4, <2>5 DEF MoveIn, Place
<1>5. p \in CtorPlaces(d, w, h.type)
  BY <1>1, <1>3 DEF Place, CtorPlaces, FreeBlocks
<1>6. Replaced(NewHolder(d, w, p, h), Wraps, w, h)
  BY <1>1, <1>2, <1>5, Built
<1>7. NewHolder(d, w, p, h).ptr = [ptr EXCEPT ![w] = p]
  BY <1>2 DEF NewHolder
<1> QED BY <1>4, <1>6, <1>7 DEF h
----------------------------------------------------------------------------
(* Steps that do not go through ValueWrap's call records.                  *)
LEMMA CommitsOwning ==
  ASSUME NEW n, Good(n, Wraps), n.ptr[Temp] = NoWrap, Commit(n)
  PROVE  Owning' /\ ub' = n.ub /\ ptr' = n.ptr /\ Shows' = [w \in Wraps |-> Seen(n, w)]
<1>1. n \in State
  BY DEF Good
<1>2. Now' = n
  BY <1>1, Committed
<1>3. Good(Now, Wraps)' /\ Shows' = [w \in Wraps |-> Seen(n, w)]
  BY <1>2 DEF Shows
<1>4. ub' = n.ub /\ ptr' = n.ptr
  BY DEF Commit
<1> QED BY <1>3, <1>4 DEF Owning

LEMMA CommitsNow ==
  ASSUME Owning, Commit(Now) PROVE Owning' /\ ub' = ub /\ ptr' = ptr /\ Shows' = Shows
<1>1. Good(Now, Wraps) /\ Now.ptr[Temp] = NoWrap /\ Now.ub = ub /\ Now.ptr = ptr
  BY DEF Owning, Now
<1> QED BY <1>1, CommitsOwning DEF Shows

LEMMA CommitsReplaced ==
  ASSUME NEW n, NEW w \in Wraps, NEW c, Replaced(n, Wraps, w, c), Commit(n)
  PROVE  Owning' /\ ub' = ub /\ ptr' = n.ptr /\ Shows' = [Shows EXCEPT ![w] = c]
<1>1. /\ Good(n, Wraps) /\ n.ptr[Temp] = NoWrap /\ n.ub = ub
      /\ Seen(n, w) = c /\ SameSeen(n, Now, Wraps \ {w})
  BY DEF Replaced, Settled, Now
<1>2. Owning' /\ ub' = n.ub /\ ptr' = n.ptr /\ Shows' = [u \in Wraps |-> Seen(n, u)]
  BY <1>1, CommitsOwning
<1> QED BY <1>1, <1>2 DEF Shows, SameSeen

(* What the archive of contents shows.                                     *)
Contents == [i \in DOMAIN archive |-> ArchivedContent(archive[i])]

(* Saving appends a record that can be loaded, a torn one, or nothing.     *)
LEMMA AppendKeeps ==
  ASSUME ArchiveOK, Len(archive) < MaxRecords, NEW r \in Record \cup {Torn},
         r # Torn => Loadable(r), archive' = Append(archive, r)
  PROVE  ArchiveOK' /\ Len(archive') = Len(archive) + 1
         /\ Contents' = Append(Contents, ArchivedContent(r))
<1>1. archive \in Seq(Record \cup {Torn}) /\ Len(archive) \in Nat /\ MaxRecords \in Nat
  BY SerialConstantsOK DEF ArchiveOK, SerialConstantsOK
<1>2. /\ archive' \in Seq(Record \cup {Torn}) /\ Len(archive') = Len(archive) + 1
      /\ DOMAIN archive' = 1 .. (Len(archive) + 1) /\ DOMAIN archive = 1 .. Len(archive)
      /\ \A i \in DOMAIN archive : archive'[i] = archive[i]
      /\ archive'[Len(archive) + 1] = r
  BY <1>1
<1>3. Len(archive') <= MaxRecords
  BY <1>1, <1>2
<1>4. \A i \in DOMAIN archive' : archive'[i] # Torn => Loadable(archive'[i])
  BY <1>1, <1>2 DEF ArchiveOK
<1>5. ArchiveOK'
  BY <1>2, <1>3, <1>4 DEF ArchiveOK
<1> DEFINE c(x) == ArchivedContent(x)
<1> HIDE DEF c
<1>6. Len([i \in DOMAIN archive |-> c(archive[i])]) = Len(archive)
  BY <1>1, <1>2
<1>7. [i \in DOMAIN archive' |-> c(archive'[i])] = Append([i \in DOMAIN archive |-> c(archive[i])], c(r))
  BY <1>1, <1>2, <1>6
<1>8. Contents' = Append(Contents, ArchivedContent(r))
  BY <1>7 DEF Contents, ArchivedContent, c
<1> QED BY <1>2, <1>5, <1>8

(* The record save() writes.                                               *)
LEMMA WrittenLoadable ==
  ASSUME Owning, NEW w \in Wraps, IsWrap(Now, w), Invalid(Now, w) \/ Savable(TypeOf(Now, w))
  PROVE  /\ Loadable(Written(Now, w)) /\ Written(Now, w) # Torn
         /\ ArchivedContent(Written(Now, w)) = Seen(Now, w)
<1> DEFINE r == Written(Now, w)
<1>1. r.st = Stype(Now, w) /\ r.pv = IF Invalid(Now, w) THEN Null ELSE HolderOf(Now, w)
  BY DEF Written
<1>2. Good(Now, Wraps) /\ Wraps \in SUBSET Slots
  BY DEF Owning, Slots
<1>3. Loadable(r) /\ r.pv = Seen(Now, w)
  <2>1. CASE Invalid(Now, w)
    <3>1. r.pv = Null /\ r.st = FALSE
      BY <1>1, <2>1, Apart DEF Stype, Invalid, Places, Slots
    <3>2. r \in Record
      BY <3>1 DEF Record, Written
    <3>3. Seen(Now, w) = Null
      BY <2>1 DEF Seen, Valid, Invalid
    <3> QED BY <3>1, <3>2, <3>3 DEF Loadable
  <2>2. CASE ~ Invalid(Now, w)
    <3>1. Valid(Now, w)
      BY <2>2 DEF Valid, Invalid, IsWrap
    <3>2. HolderOf(Now, w) \in Holder /\ Wrappable(TypeOf(Now, w)) /\ Seen(Now, w) = HolderOf(Now, w)
      BY <1>2, <3>1, SeenKinds
    <3>3. Stype(Now, w) <=> TypeOf(Now, w) \in StaticTypes
      BY <1>2, <3>1 DEF Good
    <3>4. "move ctor" \in Can[TypeOf(Now, w)]
      BY <2>2 DEF Savable
    <3>5. r.pv = HolderOf(Now, w) /\ r.pv.type = TypeOf(Now, w)
      BY <1>1, <2>2 DEF TypeOf
    <3>6. r \in Record
      BY <2>2, <3>2 DEF Record, Written, Stype
    <3>7. r.pv # Null
      BY <3>2, <3>5, ConstantsOK DEF ConstantsOK
    <3> QED BY <1>1, <3>2, <3>3, <3>4, <3>5, <3>6, <3>7 DEF Loadable
  <2> QED BY <2>1, <2>2
<1>4. r # Torn
  BY <1>3, TornIsNoRecord DEF Loadable
<1> QED BY <1>3, <1>4 DEF ArchivedContent
(* An intact archive shows intact contents.                                *)
LEMMA IntactContents ==
  ASSUME ArchiveOK
  PROVE  /\ DOMAIN Contents = DOMAIN archive /\ Len(Contents) = Len(archive)
         /\ \A i \in DOMAIN archive : Contents[i] # Torn <=> archive[i] # Torn
<1>1. archive \in Seq(Record \cup {Torn})
  BY DEF ArchiveOK
<1>2. DOMAIN Contents = DOMAIN archive /\ Len(Contents) = Len(archive)
  BY <1>1 DEF Contents
<1>3. \A r \in Record \cup {Torn} : ArchivedContent(r) # Torn <=> r # Torn
  BY TornIsNoRecord DEF ArchivedContent, Record
<1>4. \A i \in DOMAIN archive : archive[i] \in Record \cup {Torn}
  BY <1>1
<1> QED BY <1>2, <1>3, <1>4 DEF Contents

(* What is common to both: the invariant around the archive, and a step    *)
(* that blames nobody and is a step of the abstract archive.               *)
SKept == SInv' /\ ub' = ub /\ Archived!ArchiveNext

LEMMA SaveKeeps ==
  ASSUME SInv, NEW w \in Wraps, Save(w) PROVE SKept
<1>1. /\ IsWrap(Now, w) /\ Intact /\ Len(archive) < MaxRecords /\ Commit(Now)
      /\ UNCHANGED <<pos, reader, tracked, loadedBy>>
  BY DEF Save
<1>2. Owning' /\ ub' = ub /\ ptr' = ptr /\ Shows' = Shows
  BY <1>1, CommitsNow DEF SInv
<1>3. PICK threw \in BOOLEAN : Returned("save", w, Outside, threw)
  BY DEF Save
<1>4. SerialCallOK'
  BY <1>3 DEF Returned, SerialCallOK
<1>5. Archived!Exists(w)
  <2>1. Shows[w] # NoWrap
    BY <1>1, BoxReads DEF SInv, Box!Exists, Shows
  <2> QED BY <2>1 DEF Archived!Exists, Shows
<1>6. Archived!Intact
  BY <1>1, IntactContents DEF SInv, Intact, Archived!Intact, Contents
<1>7. CASE UNCHANGED archive /\ threw
  <2>1. ArchiveOK' /\ LogOK' /\ TrackingFindsValues'
    BY <1>1, <1>2, <1>7 DEF SInv, ArchiveOK, LogOK, TrackingFindsValues
  <2>2. Contents' = Contents
    BY <1>7 DEF Contents
  <2>3. Archived!Save(w)
    BY <1>1, <1>2, <1>3, <1>5, <1>6, <1>7, <2>2
       DEF Archived!Save, Archived!Done, Returned, Shows, Contents
  <2> QED BY <1>2, <1>4, <2>1, <2>3 DEF SKept, SInv, Archived!ArchiveNext
<1>8. ASSUME NEW r \in Record \cup {Torn}, archive' = Append(archive, r),
             \/ r = Torn /\ threw
             \/ ~ threw /\ r # Torn /\ Loadable(r) /\ ArchivedContent(r) = Seen(Now, w)
      PROVE  SKept
  <2>1. ArchiveOK' /\ Len(archive') = Len(archive) + 1
        /\ Contents' = Append(Contents, ArchivedContent(r))
    BY <1>1, <1>8, AppendKeeps DEF SInv
  <2>2. archive \in Seq(Record \cup {Torn}) /\ Len(archive) \in Nat
    BY DEF SInv, ArchiveOK
  <2>3. LogOK' /\ TrackingFindsValues'
    BY <1>1, <1>2, <2>1, <2>2 DEF SInv, LogOK, TrackingFindsValues
  <2>4. ArchivedContent(r) = IF threw THEN Torn ELSE Shows[w]
    BY <1>8 DEF ArchivedContent, Shows
  <2>5. Archived!Save(w)
    BY <1>1, <1>2, <1>3, <1>5, <1>6, <2>1, <2>4
       DEF Archived!Save, Archived!Done, Returned, Shows, Contents
  <2> QED BY <1>2, <1>4, <2>1, <2>3, <2>5 DEF SKept, SInv, Archived!ArchiveNext
<1>9. CASE /\ Invalid(Now, w) \/ Savable(TypeOf(Now, w))
           /\ \/ archive' = Append(archive, Written(Now, w)) /\ Returned("save", w, Outside, FALSE)
              \/ archive' = Append(archive, Torn) /\ Returned("save", w, Outside, TRUE)
  <2>1. /\ Loadable(Written(Now, w)) /\ Written(Now, w) # Torn
        /\ ArchivedContent(Written(Now, w)) = Seen(Now, w) /\ Written(Now, w) \in Record
    BY <1>1, <1>9, WrittenLoadable DEF SInv, Loadable
  <2> QED BY <1>3, <1>8, <1>9, <2>1 DEF Returned
<1>10. CASE UNCHANGED archive /\ Returned("save", w, Outside, TRUE)
  BY <1>3, <1>7, <1>10 DEF Returned
<1> QED BY <1>9, <1>10 DEF Save

LEMMA LoadThrows ==
  ASSUME SInv, NEW w \in Wraps, IsWrap(Now, w), reader = "open", pos < Len(archive),
         UNCHANGED archive, LoadFails(w)
  PROVE  SKept
<1>1. Commit(Now) /\ reader' = "failed" /\ UNCHANGED <<pos, tracked, loadedBy>>
      /\ Returned("load", w, Outside, TRUE)
  BY DEF LoadFails
<1>2. Owning' /\ ub' = ub /\ ptr' = ptr /\ Shows' = Shows
  BY <1>1, CommitsNow DEF SInv
<1>3. SerialCallOK'
  BY <1>1 DEF Returned, SerialCallOK
<1>4. ArchiveOK' /\ LogOK' /\ TrackingFindsValues'
  BY <1>1, <1>2 DEF SInv, ArchiveOK, LogOK, TrackingFindsValues
<1>5. Shows[w] # NoWrap
  BY BoxReads DEF SInv, Box!Exists, Shows
<1>6. Len(Contents) = Len(archive) /\ Contents' = Contents
  BY IntactContents DEF SInv, Contents
<1>7. Archived!Load(w)
  BY <1>1, <1>2, <1>5, <1>6
     DEF Archived!Load, Archived!Exists, Archived!Done, Returned, Shows, Contents
<1> QED BY <1>2, <1>3, <1>4, <1>7 DEF SKept, SInv, Archived!ArchiveNext
(* A record loaded into w: c is what w shows then, x where the archive     *)
(* finds the value, by the wrap it went into if there is a value.          *)
LEMMA LoadStores ==
  ASSUME SInv, NEW w \in Wraps, IsWrap(Now, w), reader = "open", pos < Len(archive),
         archive[pos + 1] # Torn, UNCHANGED <<archive, reader>>, pos' = pos + 1,
         Returned("load", w, Outside, FALSE),
         NEW n, Replaced(n, Wraps, w, archive[pos + 1].pv), Commit(n),
         NEW x \in Places \cup {Null}, n.ptr = [ptr EXCEPT ![w] = x],
         tracked' = Append(tracked, x),
         NEW u \in {w, Outside}, loadedBy' = Append(Forget(w, Outside), u)
  PROVE  SKept
<1> DEFINE c == archive[pos + 1].pv
           G == Forget(w, Outside)
<1>1. Owning' /\ ub' = ub /\ ptr' = [ptr EXCEPT ![w] = x] /\ Shows' = [Shows EXCEPT ![w] = c]
  BY CommitsReplaced
<1>2. SerialCallOK' /\ ArchiveOK'
  BY DEF SInv, ArchiveOK, Returned, SerialCallOK
<1>3. /\ tracked \in Seq(Places \cup {Null}) /\ Len(tracked) = pos
      /\ loadedBy \in Seq(Wraps \cup {Outside}) /\ Len(loadedBy) = pos
      /\ archive \in Seq(Record \cup {Torn}) /\ pos \in Nat /\ Len(archive) \in Nat
  BY DEF SInv, LogOK, ArchiveOK
<1>4. /\ G \in Seq(Wraps \cup {Outside}) /\ Len(G) = pos
      /\ \A i \in DOMAIN loadedBy : G[i] # Outside => G[i] = loadedBy[i] /\ loadedBy[i] # w
  BY <1>3, ForgetLog
<1> HIDE DEF G
<1>5. loadedBy' = Append(G, u)
  BY DEF G
<1>6. LogOK'
  BY <1>3, <1>4, <1>5 DEF SInv, LogOK
<1>7. ptr'[w] = x /\ \A z \in Wraps \ {w} : ptr'[z] = ptr[z]
  BY <1>1 DEF SInv, Owning, Good, State, Now, Slots
<1>8. ASSUME NEW i \in DOMAIN loadedBy', loadedBy'[i] # Outside
      PROVE  tracked'[i] = ptr'[loadedBy'[i]]
  <2>1. i \in 1 .. (pos + 1)
    BY <1>3, <1>4, <1>5
  <2>2. CASE i = pos + 1
    BY <1>3, <1>4, <1>5, <1>7, <1>8, <2>2
  <2>3. CASE i \in 1 .. pos
    <3>1. i \in DOMAIN loadedBy /\ loadedBy'[i] = G[i] /\ tracked'[i] = tracked[i]
      BY <1>3, <1>4, <1>5, <2>3
    <3>2. loadedBy'[i] = loadedBy[i] /\ loadedBy[i] \in Wraps \ {w}
      BY <1>3, <1>4, <1>8, <3>1
    <3>3. tracked[i] = ptr[loadedBy[i]]
      BY <1>8, <3>1, <3>2 DEF SInv, TrackingFindsValues
    <3> QED BY <1>7, <3>1, <3>2, <3>3
  <2> QED BY <1>3, <2>1, <2>2, <2>3
<1>9. TrackingFindsValues'
  BY <1>8 DEF TrackingFindsValues
<1>10. pos + 1 \in DOMAIN archive
  BY <1>3
<1>11. Contents[pos + 1] = c /\ Contents[pos + 1] # Torn /\ Len(Contents) = Len(archive)
  BY <1>10, IntactContents DEF SInv, Contents, ArchivedContent
<1>12. Shows[w] # NoWrap /\ Contents' = Contents
  BY BoxReads DEF SInv, Box!Exists, Shows, Contents
<1>13. Archived!Load(w)
  BY <1>1, <1>11, <1>12
     DEF Archived!Load, Archived!Exists, Archived!Done, Returned, Shows, Contents
<1> QED BY <1>1, <1>2, <1>6, <1>9, <1>13 DEF SKept, SInv, Archived!ArchiveNext

LEMMA LoadKeeps ==
  ASSUME SInv, NEW w \in Wraps, Load(w) PROVE SKept
<1> DEFINE r == archive[pos + 1]
<1>1. IsWrap(Now, w) /\ reader = "open" /\ pos < Len(archive) /\ UNCHANGED archive
  BY DEF Load
<1>2. CASE LoadFails(w)
  BY <1>1, <1>2, LoadThrows
<1>3. CASE /\ r # Torn
           /\ \/ r.pv = Null /\ LoadNull(w, r)
              \/ r.pv # Null /\ \E b \in FreeBlocks(Now) : LoadHolder(w, b, r)
           /\ pos' = pos + 1 /\ UNCHANGED reader /\ Returned("load", w, Outside, FALSE)
  <2>1. Loadable(r)
    BY <1>1, <1>3 DEF SInv, ArchiveOK, LogOK
  <2>2. CASE r.pv = Null /\ LoadNull(w, r)
    <3> DEFINE d == Destroy(Now, w)
               n == SetPtr(d, w, Null)
    <3>1. Accuse(Now, Blame(r.st, "storage assertion")) = Now
      <4>1. Blame(r.st, "storage assertion") = {}
        BY <2>1, <2>2 DEF Loadable, Blame
      <4>2. Now = Rec(ptr, held, ub)
        BY DEF Now, Rec
      <4>3. Accuse(Now, {}) = Now
        BY <4>2, AccuseRec
      <4> QED BY <4>1, <4>3
    <3>2. Commit(n) /\ tracked' = Append(tracked, Null)
          /\ loadedBy' = Append(Forget(w, Outside), Outside)
      BY <2>2, <3>1 DEF LoadNull
    <3>3. /\ Good(d, Wraps \ {w}) /\ d.ub = ub /\ d.ptr = ptr /\ ptr[Temp] = NoWrap
          /\ SameSeen(d, Now, Wraps \ {w})
      BY <1>1, Cleared DEF SInv, Owning
    <3> HIDE DEF d
    <3>4. Replaced(n, Wraps, w, Null) /\ n.ptr = [ptr EXCEPT ![w] = Null]
      BY <3>3, Emptied DEF SetPtr, Good, State
    <3> HIDE DEF n
    <3> QED BY <1>1, <1>3, <2>2, <3>2, <3>4, LoadStores
  <2>3. ASSUME r.pv # Null, NEW b \in FreeBlocks(Now), LoadHolder(w, b, r) PROVE SKept
    <3> DEFINE n == Loaded(w, b, r)
               x == Place(w, b, r)
    <3>1. Commit(n) /\ tracked' = Append(tracked, x) /\ loadedBy' = Append(Forget(w, Outside), w)
      BY <2>3 DEF LoadHolder, Loaded
    <3>2. Replaced(n, Wraps, w, r.pv) /\ n.ptr = [ptr EXCEPT ![w] = x]
      BY <1>1, <2>1, <2>3, LoadBuilds DEF SInv
    <3>3. x \in Places \cup {Null}
      BY DEF Place, Places, Slots, FreeBlocks
    <3> HIDE DEF n, x
    <3> QED BY <1>1, <1>3, <3>1, <3>2, <3>3, LoadStores
  <2> QED BY <1>3, <2>2, <2>3
<1> QED BY <1>1, <1>2, <1>3 DEF Load

(* The two abstract specifications agree on the calls they share.          *)
LEMMA SameBoxes == Box!Next => Archived!Next
  BY DEF Box!Next, Box!Create, Box!Destroy, Box!Reset, Box!Assign, Box!Emplace, Box!Write,
         Box!CopyCreate, Box!MoveCreate, Box!CopyAssign, Box!MoveAssign, Box!Swap,
         Box!Exists, Box!Full, Box!Done, Box!Content, Box!Hollowed, Box!Leftover,
         Archived!Next, Archived!Create, Archived!Destroy, Archived!Reset, Archived!Assign,
         Archived!Emplace, Archived!Write, Archived!CopyCreate, Archived!MoveCreate,
         Archived!CopyAssign, Archived!MoveAssign, Archived!Swap, Archived!Exists,
         Archived!Full, Archived!Done, Archived!Content, Archived!Hollowed, Archived!Leftover
----------------------------------------------------------------------------
(* Steps and theorems.                                                     *)
LEMMA SerialStepGood ==
  ASSUME SInv, [SerialNext]_<<vars, archiveVars>>
  PROVE  /\ SInv' /\ (ub' = ub \/ AssignsValue)
         /\ [Archived!ArchiveNext]_<<Archived!vars, Archived!archiveVars>>
<1>1. CASE UNCHANGED <<vars, archiveVars>>
  <2>1. Now' = Now /\ call' = call /\ ptr' = ptr /\ ub' = ub
        /\ archive' = archive /\ pos' = pos /\ reader' = reader /\ tracked' = tracked
        /\ loadedBy' = loadedBy
    BY <1>1 DEF vars, archiveVars, Now
  <2> QED
    BY <2>1 DEF SInv, Owning, SerialCallOK, ArchiveOK, LogOK, TrackingFindsValues,
                Archived!vars, Archived!archiveVars
<1>2. CASE Next /\ UNCHANGED <<archive, pos, reader, tracked>>
           /\ loadedBy' = Forget(call'.dst, call'.src)
  <2>1. SInv'
    BY <1>2, NextKeeps
  <2>2. Box!Next /\ (ub' = ub \/ AssignsValue)
    BY <1>2, NextGood DEF SInv
  <2>3. Archived!ArchiveNext
    BY <1>2, <2>2, SameBoxes DEF Archived!ArchiveNext, Archived!archiveVars
  <2> QED BY <2>1, <2>2, <2>3
<1>3. ASSUME NEW w \in Wraps, Save(w) \/ Load(w)
      PROVE  SInv' /\ ub' = ub /\ Archived!ArchiveNext
  BY <1>3, SaveKeeps, LoadKeeps DEF SKept
<1> QED BY <1>1, <1>2, <1>3 DEF SerialNext

LEMMA SInvSuffices == SInv => SerialTypeOK /\ OneOwnerPerHolder /\ StorageByType
  BY OwningSuffices DEF SInv, SerialCallOK, ArchiveOK, LogOK, SerialTypeOK

LEMMA SerialInvariance == SerialSpec => []SInv
<1>1. SerialInit => SInv
  BY SerialInitGood
<1>2. SInv /\ [SerialNext]_<<vars, archiveVars>> => SInv'
  BY SerialStepGood
<1> QED BY <1>1, <1>2, PTL DEF SerialSpec

(* The state of the wraps, the archive and the log of loads keep their     *)
(* types; the log grows with the read position.                            *)
THEOREM SerialTypeCorrect == SerialSpec => []SerialTypeOK
  BY SerialInvariance, SInvSuffices, PTL

(* Loading keeps the ownership discipline: the holder the archive makes on *)
(* the heap is taken over or emptied and deleted, never both, never        *)
(* neither, and the old value is destroyed once.                           *)
THEOREM SerialOwnership == SerialSpec => []OneOwnerPerHolder
  BY SerialInvariance, SInvSuffices, PTL

(* A loaded value lives where its type asks for, whatever it is read into. *)
THEOREM SerialStorage == SerialSpec => []StorageByType
  BY SerialInvariance, SInvSuffices, PTL

(* What load() reports with reset_object_address is where the value is, as *)
(* long as no other call has involved the wrap, whatever happens to other  *)
(* wraps and to the heap in between.                                       *)
THEOREM Tracking == SerialSpec => []TrackingFindsValues
<1>1. SInv => TrackingFindsValues
  BY DEF SInv
<1> QED BY <1>1, SerialInvariance, PTL

(* Saving and loading implement the archive of contents.                   *)
THEOREM ArchiveImplementation == SerialSpec => ImplementsArchive
<1>1. SerialInit => Archived!ArchiveInit
  <2> SUFFICES ASSUME SerialInit PROVE Archived!ArchiveInit
    OBVIOUS
  <2>1. Box!Init
    BY InitGood DEF SerialInit
  <2>2. Archived!Init
    BY <2>1 DEF Box!Init, Archived!Init
  <2> QED BY <2>2 DEF SerialInit, Archived!ArchiveInit
<1>2. SInv /\ [SerialNext]_<<vars, archiveVars>>
        => [Archived!ArchiveNext]_<<Archived!vars, Archived!archiveVars>>
  BY SerialStepGood
<1> QED BY <1>1, <1>2, SerialInvariance, PTL DEF SerialSpec, ImplementsArchive, Archived!ArchiveSpec

(* With archives around, too, no call meets undefined behaviour when every *)
(* type is assignable in each way it is constructible.                     *)
THEOREM SerialSafety ==
  ASSUME Regular PROVE SerialSpec => []NoUndefinedBehaviour
<1>1. SerialInit => NoUndefinedBehaviour
  BY SerialInitGood DEF NoUndefinedBehaviour
<1>2. SInv /\ NoUndefinedBehaviour /\ [SerialNext]_<<vars, archiveVars>> => NoUndefinedBehaviour'
  BY SerialStepGood, RegularAssignment DEF NoUndefinedBehaviour, SInv
<1> QED BY <1>1, <1>2, SerialInvariance, PTL DEF SerialSpec
============================================================================
