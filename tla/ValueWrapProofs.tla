-------------------------- MODULE ValueWrapProofs --------------------------
(***************************************************************************)
(* Theorems about ValueWrap: the invariants of its runs, and that it       *)
(* implements AnyBox, for every set of wraps, blocks and types and every   *)
(* valid configuration.                                                    *)
(*                                                                         *)
(* The first part is about the private helpers of wrap.  A call passes     *)
(* through states in which one wrap's pointer is stale (its holder was     *)
(* just destroyed) or the temporary is alive.  Good(s, W) says that the    *)
(* wraps of W, and only they, own the holders of s: destroying takes a     *)
(* wrap out of W, constructing and moving put one in.  Each helper gets a  *)
(* postcondition and a lemma that establishes it; an operation is their    *)
(* composition.                                                            *)
(*                                                                         *)
(* The second part has one lemma per operation of the class: the call      *)
(* keeps the inductive invariant, blames nobody and is a step of the       *)
(* abstract box.  The theorems put them together.  The last part follows   *)
(* moves and swaps through the heap.                                       *)
(***************************************************************************)
EXTENDS ValueWrap, TLAPS

Good(s, W) ==
  /\ s \in State
  /\ s.held[Null] = Raw
  /\ \A w \in W : s.ptr[w] \in Blocks \cup {w, Null, NoWrap}
  /\ \A w \in W : Valid(s, w) =>
       /\ HolderOf(s, w) # Raw
       /\ Stype(s, w) <=> TypeOf(s, w) \in StaticTypes
  /\ \A w, u \in W : s.ptr[w] = s.ptr[u] /\ s.ptr[w] \in Blocks => w = u
  /\ \A p \in Places : s.held[p] # Raw =>
       /\ Wrappable(s.held[p].type)
       /\ \E w \in W : s.ptr[w] = p

(* The wraps of U show in n what they showed in s.                         *)
SameSeen(n, s, U) == \A u \in U : Seen(n, u) = Seen(s, u)

----------------------------------------------------------------------------
(* The part of the assumption about names: addresses are told apart.       *)
LEMMA Apart ==
  /\ Temp \notin Wraps /\ Slots \cap Blocks = {}
  /\ Null \notin Places /\ NoWrap \notin Places /\ Null # NoWrap
  BY ConstantsOK DEF ConstantsOK

(* Raw memory is not a holder, and blame only adds names.                  *)
LEMMA RawIsNoHolder == \A h \in Holder : h # Raw /\ h.type \in Types
<1> TAKE h \in Holder
<1>1. h.type \in Types
  BY DEF Holder
<1>2. Raw.type = NoType
  BY DEF Raw
<1> QED
  BY <1>1, <1>2, ConstantsOK DEF ConstantsOK

LEMMA RunIsBlame ==
  ASSUME NEW s, NEW p, NEW m PROVE Run(s, p, m) \subseteq Blames
  BY DEF Run, Blame, Blames

(* What an owner shows: its pointer tells an object, an invalid wrap and a *)
(* content apart.                                                          *)
LEMMA SeenKinds ==
  ASSUME NEW s, NEW W \in SUBSET Slots, Good(s, W), NEW w \in W
  PROVE  /\ Valid(s, w) => /\ s.ptr[w] \in Blocks \cup {w} /\ s.ptr[w] \in Places
                           /\ HolderOf(s, w) \in Holder /\ Seen(s, w) = HolderOf(s, w)
                           /\ Wrappable(TypeOf(s, w)) /\ TypeOf(s, w) \in Types
         /\ Seen(s, w) \in Holder <=> Valid(s, w)
         /\ Seen(s, w) = Null <=> Invalid(s, w)
         /\ Seen(s, w) = NoWrap <=> ~ IsWrap(s, w)
<1> USE DEF Good
<1>1. CASE Valid(s, w)
  <2>1. s.ptr[w] \in Blocks \cup {w} /\ s.ptr[w] \in Places
    BY <1>1 DEF Valid, Places
  <2>2. HolderOf(s, w) \in Holder /\ Seen(s, w) = HolderOf(s, w)
    BY <1>1, <2>1 DEF Seen, HolderOf, State
  <2>3. HolderOf(s, w) # Raw /\ HolderOf(s, w) = s.held[s.ptr[w]]
    BY <1>1 DEF HolderOf
  <2>4. Wrappable(TypeOf(s, w))
    BY <2>1, <2>3 DEF TypeOf
  <2>5. TypeOf(s, w) \in Types
    BY <2>2, RawIsNoHolder DEF TypeOf
  <2>6. ~ Invalid(s, w) /\ IsWrap(s, w)
    BY <1>1 DEF Valid, Invalid, IsWrap
  <2>7. Seen(s, w) # Null /\ Seen(s, w) # NoWrap
    BY <2>2, ConstantsOK DEF ConstantsOK
  <2> HIDE DEF Good
  <2> QED
    BY <1>1, <2>1, <2>2, <2>4, <2>5, <2>6, <2>7
<1>2. CASE ~ Valid(s, w)
  BY <1>2, ConstantsOK DEF ConstantsOK, Seen, Valid, Invalid, IsWrap
<1> QED BY <1>1, <1>2

(* Assigning to the value of an owner changes what that owner shows, and   *)
(* nothing else.                                                           *)
ValueSet(n, s, W, w, v) ==
  /\ Good(n, W) /\ n.ub = s.ub /\ n.ptr = s.ptr
  /\ Seen(n, w) = [type |-> TypeOf(s, w), val |-> v]
  /\ SameSeen(n, s, W \ {w})

LEMMA SetValueGood ==
  ASSUME NEW s, NEW W \in SUBSET Slots, Good(s, W), NEW w \in W, Valid(s, w),
         NEW v \in Vals \cup {Hollow}
  PROVE  ValueSet(SetValue(s, s.ptr[w], v), s, W, w, v)
<1> DEFINE n == SetValue(s, s.ptr[w], v)
           h == [type |-> TypeOf(s, w), val |-> v]
<1> USE DEF Good
<1>1. s.ptr[w] \in Blocks \cup {w} /\ s.ptr[w] \in Places /\ HolderOf(s, w) \in Holder
      /\ Wrappable(TypeOf(s, w)) /\ TypeOf(s, w) \in Types
  BY SeenKinds
<1>2. h \in Holder /\ h.type = TypeOf(s, w) /\ h # Raw
  BY <1>1, RawIsNoHolder DEF Holder
<1>3. n.held = [s.held EXCEPT ![s.ptr[w]] = h]
  BY <1>1 DEF SetValue, Holder, HolderOf, TypeOf, State
<1>4. n.ub = s.ub /\ n.ptr = s.ptr
  BY DEF SetValue, State
<1>5. n.held[s.ptr[w]] = h /\ \A q \in (Places \cup {Null}) \ {s.ptr[w]} : n.held[q] = s.held[q]
  BY <1>1, <1>3 DEF State
<1>6. n \in State
  BY <1>1, <1>2, <1>3, <1>4 DEF SetValue, State
<1>7. \A u \in W \ {w} : s.ptr[u] # s.ptr[w]
  BY <1>1, Apart DEF Slots, Places
<1>8. \A q \in Places : n.held[q] # Raw => s.held[q] # Raw /\ n.held[q].type = s.held[q].type
  BY <1>1, <1>2, <1>5 DEF HolderOf, TypeOf
<1>9. ASSUME NEW u \in W, Valid(n, u)
      PROVE  HolderOf(n, u) # Raw /\ (Stype(n, u) <=> TypeOf(n, u) \in StaticTypes)
  BY <1>1, <1>2, <1>4, <1>5, <1>7, <1>9, Apart
     DEF Valid, HolderOf, Stype, TypeOf, State, Places
<1>10. Good(n, W)
  BY <1>1, <1>4, <1>5, <1>6, <1>8, <1>9, Apart
<1>11. Seen(n, w) = h
  BY <1>4, <1>5 DEF Seen, Valid, HolderOf
<1>12. SameSeen(n, s, W \ {w})
  BY <1>4, <1>5, <1>7 DEF Seen, Valid, HolderOf, State, Places, Slots, SameSeen
<1> QED
  BY <1>4, <1>10, <1>11, <1>12 DEF ValueSet

(* The place p suits a holder of type t owned by w.                        *)
Suits(w, p, t) == p \in IF t \in StaticTypes THEN {w} ELSE Blocks

(* Constructing a holder at a free place that suits its type makes w an    *)
(* owner and overwrites nothing.                                           *)
Constructed(n, s, W, w, p, h) ==
  /\ Good(n, W \cup {w}) /\ n.ub = s.ub /\ n.ptr = [s.ptr EXCEPT ![w] = p]
  /\ Seen(n, w) = h
  /\ SameSeen(n, s, W)

LEMMA NewHolderGood ==
  ASSUME NEW s, NEW W \in SUBSET Slots, Good(s, W),
         NEW w \in Slots \ W, NEW h \in Holder, Wrappable(h.type),
         NEW p \in Places, s.held[p] = Raw,
         Suits(w, p, h.type)
  PROVE  Constructed(NewHolder(s, w, p, h), s, W, w, p, h)
<1> DEFINE n == NewHolder(s, w, p, h)
<1> USE DEF Good, Suits
<1>1. n.ub = s.ub /\ n \in State
  BY Apart DEF NewHolder, State, Blame, Blames
<1>2. /\ n.ptr[w] = p /\ \A u \in Slots \ {w} : n.ptr[u] = s.ptr[u]
      /\ n.held[p] = h /\ \A q \in (Places \cup {Null}) \ {p} : n.held[q] = s.held[q]
  BY DEF NewHolder, State, Places
<1>3. p # Null /\ p # NoWrap /\ h # Raw
  BY Apart, RawIsNoHolder
<1>4. \A u \in W : s.ptr[u] # p
  BY Apart, <1>3 DEF Valid, HolderOf, Slots
<1>5. n.held[Null] = Raw
  BY <1>2, <1>3
<1>6. \A u \in W \cup {w} : n.ptr[u] \in Blocks \cup {u, Null, NoWrap}
  BY <1>2
<1>7. ASSUME NEW u \in W \cup {w}, Valid(n, u)
      PROVE  HolderOf(n, u) # Raw /\ (Stype(n, u) <=> TypeOf(n, u) \in StaticTypes)
  BY <1>2, <1>3, <1>4, <1>7, Apart DEF Valid, HolderOf, Stype, TypeOf, Slots, Places, State
<1>8. \A u, v \in W \cup {w} : n.ptr[u] = n.ptr[v] /\ n.ptr[u] \in Blocks => u = v
  BY <1>2, <1>4
<1>9. ASSUME NEW q \in Places, n.held[q] # Raw
      PROVE  Wrappable(n.held[q].type) /\ \E u \in W \cup {w} : n.ptr[u] = q
  BY <1>2, <1>9
<1>10. Seen(n, w) = h
  BY <1>2, <1>3 DEF Seen, Valid, HolderOf
<1>11. SameSeen(n, s, W)
  BY <1>2, <1>4 DEF Seen, Valid, HolderOf, State, Places, Slots, SameSeen
<1>12. n.ptr = [s.ptr EXCEPT ![w] = p]
  BY DEF NewHolder
<1> QED
  BY <1>1, <1>5, <1>6, <1>7, <1>8, <1>9, <1>10, <1>11, <1>12 DEF Constructed

(* destroy() on an owner ends its holder and leaves the rest owned.        *)
Destroyed(n, s, W, w) ==
  /\ Good(n, W \ {w}) /\ n.ub = s.ub /\ n.ptr = s.ptr
  /\ SameSeen(n, s, W \ {w})

LEMMA DestroyGood ==
  ASSUME NEW s, NEW W \in SUBSET Slots, Good(s, W), NEW w \in W, s.ptr[w] # NoWrap
  PROVE  Destroyed(Destroy(s, w), s, W, w)
<1> DEFINE n == Destroy(s, w)
<1> USE DEF Good
<1>1. CASE Invalid(s, w)
  BY <1>1, Apart DEF Destroy, Destroyed, Invalid, Places, SameSeen
<1>2. CASE ~ Invalid(s, w)
  <2>1. Valid(s, w) /\ s.ptr[w] \in Blocks \cup {w} /\ HolderOf(s, w) # Raw
    BY <1>2 DEF Invalid, Valid
  <2>2. n.ub = s.ub /\ n.ptr = s.ptr /\ n \in State
    BY <1>2, <2>1, Apart DEF Destroy, State, Blame, Blames, Places
  <2>3. n.held[s.ptr[w]] = Raw /\ \A q \in (Places \cup {Null}) \ {s.ptr[w]} : n.held[q] = s.held[q]
    BY <1>2, <2>1 DEF Destroy, State, Places, Slots
  <2>4. \A u \in W \ {w} : s.ptr[u] # s.ptr[w]
    BY <2>1, Apart DEF Slots, Places
  <2>5. Good(n, W \ {w})
    BY <2>1, <2>2, <2>3, <2>4, Apart DEF Valid, HolderOf, Stype, TypeOf, State, Places, Slots
  <2>6. SameSeen(n, s, W \ {w})
    BY <2>2, <2>3, <2>4 DEF Seen, Valid, HolderOf, State, Places, Slots, SameSeen
  <2> QED
    BY <2>2, <2>3, <2>5, <2>6 DEF Destroyed
<1> QED BY <1>1, <1>2

(* The static storage of a wrap that owns nothing is raw, and so is that   *)
(* of an owner whose pointer is elsewhere.                                 *)
LEMMA FreeStorage ==
  ASSUME NEW s, NEW W \in SUBSET Slots, Good(s, W), NEW w \in Slots,
         w \notin W \/ s.ptr[w] # w
  PROVE  w \in Places /\ s.held[w] = Raw
  BY Apart DEF Good, Places

(* Setting the pointer of a wrap that owns nothing to Null or NoWrap.      *)
Idled(n, s, W, w, x) ==
  /\ Good(n, W \cup {w}) /\ Good(n, W) /\ n.ub = s.ub
  /\ n.ptr = [s.ptr EXCEPT ![w] = x]
  /\ Seen(n, w) = x
  /\ SameSeen(n, s, W)

LEMMA IdleGood ==
  ASSUME NEW s, NEW W \in SUBSET Slots, Good(s, W), NEW w \in Slots \ W,
         NEW x \in {Null, NoWrap}
  PROVE  Idled(SetPtr(s, w, x), s, W, w, x)
<1> DEFINE n == SetPtr(s, w, x)
<1>1. n.ub = s.ub /\ n.held = s.held /\ n.ptr = [s.ptr EXCEPT ![w] = x] /\ n \in State
  BY DEF Good, State, SetPtr
<1>2. n.ptr[w] = x /\ \A u \in Slots \ {w} : n.ptr[u] = s.ptr[u]
  BY <1>1 DEF Good, State
<1>3. ~ Valid(n, w) /\ Seen(n, w) = x /\ x \notin Places
  BY <1>2, Apart DEF Valid, Seen
<1>4. \A u \in W : /\ Valid(n, u) <=> Valid(s, u)
                   /\ HolderOf(n, u) = HolderOf(s, u) /\ TypeOf(n, u) = TypeOf(s, u)
                   /\ Stype(n, u) <=> Stype(s, u)
                   /\ Seen(n, u) = Seen(s, u)
  BY <1>1, <1>2 DEF Valid, HolderOf, TypeOf, Stype, Seen
<1>5. Good(n, W)
  BY <1>1, <1>2, <1>4, Apart DEF Good, Places
<1>6. Good(n, W \cup {w})
  BY <1>1, <1>2, <1>3, <1>4, <1>5, Apart DEF Good, Places
<1> QED
  BY <1>1, <1>3, <1>4, <1>5, <1>6 DEF Idled, SameSeen

(* The destructor.                                                         *)
Ended(n, s, W, w) ==
  /\ Good(n, W) /\ Good(n, W \ {w}) /\ n.ub = s.ub
  /\ n.ptr = [s.ptr EXCEPT ![w] = NoWrap]
  /\ Seen(n, w) = NoWrap
  /\ SameSeen(n, s, W \ {w})

LEMMA DtorGood ==
  ASSUME NEW s, NEW W \in SUBSET Slots, Good(s, W), NEW w \in W, IsWrap(s, w)
  PROVE  Ended(Dtor(s, w), s, W, w)
<1> DEFINE d == Destroy(s, w)
           n == SetPtr(d, w, NoWrap)
           V == W \ {w}
<1>1. Destroyed(d, s, W, w)
  BY DestroyGood DEF IsWrap
<1>2. V \cup {w} = W /\ w \in Slots \ V /\ V \in SUBSET Slots
  OBVIOUS
<1>3. Good(d, V)
  BY <1>1 DEF Destroyed
<1> HIDE DEF d, V
<1>4. Idled(n, d, V, w, NoWrap)
  BY <1>2, <1>3, IdleGood
<1>5. Dtor(s, w) = n
  BY DEF Dtor, d
<1> HIDE DEF n
<1>6. SameSeen(n, s, V)
  BY <1>1, <1>4 DEF Idled, Destroyed, SameSeen, V
<1> QED
  BY <1>1, <1>2, <1>4, <1>5, <1>6 DEF Ended, Idled, Destroyed, V

(* Accusing nobody changes nothing.                                        *)
LEMMA NotAccused ==
  ASSUME NEW s \in State PROVE Accuse(s, {}) = s
  BY DEF Accuse, State

(* Running a member on an owner's holder is blameless when the type has it. *)
LEMMA RunBlameless ==
  ASSUME NEW s, NEW W \in SUBSET Slots, Good(s, W), NEW w \in W, Valid(s, w),
         NEW m, m \in Can[TypeOf(s, w)]
  PROVE  Run(s, s.ptr[w], m) = {}
  BY DEF Run, Blame, Good, HolderOf, TypeOf

(* What a source may show once its content was moved out.                  *)
Left(s, o) == IF Valid(s, o) THEN {Null, [type |-> TypeOf(s, o), val |-> Hollow]}
              ELSE {Seen(s, o)}

(* move_init_from gives the content of o to w, which owned nothing.        *)
MovedInit(n, s, W, w, o) ==
  /\ Good(n, W \cup {w}) /\ n.ub = s.ub
  /\ IsWrap(n, w) /\ \A u \in Slots \ {w} : IsWrap(n, u) <=> IsWrap(s, u)
  /\ Seen(n, w) = Seen(s, o)
  /\ Seen(n, o) \in Left(s, o)
  /\ SameSeen(n, s, W \ {o})

LEMMA MoveInitGood ==
  ASSUME NEW s, NEW W \in SUBSET Slots, Good(s, W), Movable,
         NEW w \in Slots \ W, NEW o \in W, IsWrap(s, o)
  PROVE  MovedInit(MoveInitFrom(s, w, o), s, W, w, o)
<1> DEFINE n == MoveInitFrom(s, w, o)
<1>0. w # o /\ w \in Places /\ s.held[w] = Raw /\ s \in State
  BY FreeStorage DEF Good
<1>1. CASE Stype(s, o)
  <2> DEFINE m == SetValue(s, o, Hollow)
             h == s.held[o]
  <2>0. Valid(s, o)
    BY <1>1, Apart DEF Stype, Valid, Places
  <2>1. Valid(s, o) /\ s.ptr[o] = o
    BY <1>1, <2>0 DEF Stype
  <2>2. /\ HolderOf(s, o) \in Holder /\ Seen(s, o) = HolderOf(s, o)
        /\ Wrappable(TypeOf(s, o)) /\ TypeOf(s, o) \in StaticTypes
        /\ HolderOf(s, o) = h /\ h \in Holder
        /\ h.type = TypeOf(s, o) /\ Wrappable(h.type)
    BY <1>1, <2>1, SeenKinds DEF Good, HolderOf, TypeOf
  <2>3. "move ctor" \in Can[TypeOf(s, o)]
    BY <2>2 DEF Wrappable, MovableType
  <2>4. Run(s, o, "move ctor") = {}
    BY <2>1, <2>3, RunBlameless
  <2>5. /\ Good(m, W) /\ m.ub = s.ub /\ m.ptr = s.ptr
        /\ Seen(m, o) = [type |-> TypeOf(s, o), val |-> Hollow]
        /\ SameSeen(m, s, W \ {o})
    <3>1. ValueSet(SetValue(s, s.ptr[o], Hollow), s, W, o, Hollow)
      BY <2>0, SetValueGood
    <3> QED
      BY <2>1, <3>1 DEF ValueSet
  <2>6. Accuse(m, Run(s, o, "move ctor")) = m /\ m.held[w] = Raw
    <3>1. m.held[w] = Raw
      BY <2>5, FreeStorage
    <3>2. m \in State
      BY <2>5 DEF Good
    <3> HIDE DEF m
    <3>3. Accuse(m, {}) = m
      BY <3>2, NotAccused
    <3> QED
      BY <2>4, <3>1, <3>3
  <2>7. n = NewHolder(m, w, w, h)
    BY <1>1, <2>6 DEF MoveInitFrom
  <2>8. /\ Good(n, W \cup {w}) /\ n.ub = m.ub /\ n.ptr = [m.ptr EXCEPT ![w] = w]
        /\ Seen(n, w) = h /\ SameSeen(n, m, W)
    <3> DEFINE k == NewHolder(m, w, w, h)
    <3>1. Good(m, W) /\ m.held[w] = Raw /\ w \in Places
      BY <1>0, <2>5, <2>6
    <3>2. h \in Holder /\ Wrappable(h.type) /\ Suits(w, w, h.type)
      BY <2>2 DEF Suits
    <3> HIDE DEF m, h
    <3>3. Constructed(k, m, W, w, w, h)
      BY <3>1, <3>2, NewHolderGood
    <3> QED
      BY <2>7, <3>3 DEF Constructed
  <2>9. /\ n.ptr[w] = w /\ \A u \in Slots \ {w} : n.ptr[u] = s.ptr[u]
    BY <2>5, <2>8, <1>0 DEF State
  <2>10. Seen(n, w) = Seen(s, o) /\ Seen(n, o) \in Left(s, o)
    BY <2>0, <2>2, <2>5, <2>8 DEF Left, SameSeen
  <2>11. SameSeen(n, s, W \ {o})
    BY <2>5, <2>8 DEF SameSeen
  <2>12. IsWrap(n, w) /\ \A u \in Slots \ {w} : IsWrap(n, u) <=> IsWrap(s, u)
    BY <2>9, <1>0, Apart DEF IsWrap
  <2> QED
    BY <2>5, <2>8, <2>10, <2>11, <2>12 DEF MovedInit
<1>2. CASE ~ Stype(s, o)
  <2>1. n = [s EXCEPT !.ptr = [[s.ptr EXCEPT ![w] = s.ptr[o]] EXCEPT ![o] = Null]]
    BY <1>0, <1>2 DEF MoveInitFrom, SetPtr, State
  <2>2. n.ub = s.ub /\ n.held = s.held /\ n \in State
    BY <1>0, <2>1 DEF State
  <2>3. n.ptr[w] = s.ptr[o] /\ n.ptr[o] = Null /\ \A u \in Slots \ {w, o} : n.ptr[u] = s.ptr[u]
    BY <1>0, <2>1 DEF State
  <2>4. s.ptr[o] \in Blocks \cup {Null} /\ s.ptr[o] # NoWrap
    BY <1>2 DEF Good, Stype, IsWrap
  <2>5. \A u \in W \ {o} : /\ Valid(n, u) <=> Valid(s, u)
                           /\ HolderOf(n, u) = HolderOf(s, u) /\ TypeOf(n, u) = TypeOf(s, u)
                           /\ Stype(n, u) <=> Stype(s, u)
                           /\ Seen(n, u) = Seen(s, u)
    BY <2>2, <2>3, <1>0 DEF Valid, HolderOf, TypeOf, Stype, Seen
  <2>6. /\ Valid(n, w) <=> Valid(s, o)
        /\ HolderOf(n, w) = HolderOf(s, o) /\ TypeOf(n, w) = TypeOf(s, o)
        /\ ~ Stype(n, w) /\ Seen(n, w) = Seen(s, o)
    BY <2>2, <2>3, <2>4, Apart DEF Valid, HolderOf, TypeOf, Stype, Seen, Places
  <2>7. ~ Valid(n, o) /\ Seen(n, o) = Null
    BY <2>3 DEF Valid, Seen
  <2>8. \A u \in W \cup {w} : n.ptr[u] \in Blocks \cup {u, Null, NoWrap}
    BY <2>3, <2>4 DEF Good
  <2>9. \A u \in W \cup {w} : Valid(n, u) =>
          HolderOf(n, u) # Raw /\ (Stype(n, u) <=> TypeOf(n, u) \in StaticTypes)
    BY <1>2, <2>5, <2>6, <2>7 DEF Good
  <2>10. \A u, v \in W \cup {w} : n.ptr[u] = n.ptr[v] /\ n.ptr[u] \in Blocks => u = v
    BY <2>3, <2>4, Apart DEF Good, Places
  <2>11. ASSUME NEW p \in Places, n.held[p] # Raw
         PROVE  Wrappable(n.held[p].type) /\ \E u \in W \cup {w} : n.ptr[u] = p
    <3>1. Wrappable(n.held[p].type)
      BY <2>2, <2>11 DEF Good
    <3>2. PICK u \in W : s.ptr[u] = p
      BY <2>2, <2>11 DEF Good
    <3>3. CASE u = o
      BY <2>3, <3>1, <3>2, <3>3
    <3>4. CASE u # o
      BY <1>0, <2>3, <3>1, <3>2, <3>4
    <3> QED BY <3>1, <3>3, <3>4
  <2>12. Good(n, W \cup {w})
    BY <2>2, <2>8, <2>9, <2>10, <2>11 DEF Good
  <2>13. Seen(n, o) \in Left(s, o)
    BY <2>4, <2>7, Apart DEF Left, Valid, Seen
  <2>14. IsWrap(n, w) /\ \A u \in Slots \ {w} : IsWrap(n, u) <=> IsWrap(s, u)
    BY <2>3, <2>4, <1>0, Apart DEF IsWrap, Places
  <2>15. SameSeen(n, s, W \ {o})
    BY <2>5 DEF SameSeen
  <2> QED
    BY <2>2, <2>6, <2>12, <2>13, <2>14, <2>15 DEF MovedInit
<1> QED BY <1>1, <1>2

(* A wrap that shows no content owns nothing.                              *)
LEMMA DropIdle ==
  ASSUME NEW s, NEW W \in SUBSET Slots, Good(s, W), NEW w \in W, ~ Valid(s, w)
  PROVE  Good(s, W \ {w})
  BY Apart DEF Good, Valid

(* Exchanging the pointers of two owners of heap holders exchanges what    *)
(* they show.                                                              *)
ContentsSwapped(n, s, W, w, o) ==
  /\ Good(n, W) /\ n.ub = s.ub
  /\ \A u \in Slots : IsWrap(n, u) <=> IsWrap(s, u)
  /\ Seen(n, w) = Seen(s, o)
  /\ Seen(n, o) = Seen(s, w)
  /\ SameSeen(n, s, W \ {w, o})

LEMMA SwapPointersGood ==
  ASSUME NEW s, NEW W \in SUBSET Slots, Good(s, W), NEW w \in W, NEW o \in W, w # o,
         Valid(s, w), Valid(s, o), ~ Stype(s, w), ~ Stype(s, o)
  PROVE  ContentsSwapped(SwapPointers(s, w, o), s, W, w, o)
<1> DEFINE n == SwapPointers(s, w, o)
<1>1. s \in State /\ s.ptr[w] \in Blocks /\ s.ptr[o] \in Blocks
  BY SeenKinds DEF Good, Stype
<1>2. n.ub = s.ub /\ n.held = s.held /\ n \in State
  BY <1>1 DEF SwapPointers, SetPtr, State
<1>3. n.ptr[w] = s.ptr[o] /\ n.ptr[o] = s.ptr[w] /\ \A u \in Slots \ {w, o} : n.ptr[u] = s.ptr[u]
  BY <1>1 DEF SwapPointers, SetPtr, State
<1>4. \A u \in W \ {w, o} : /\ Valid(n, u) <=> Valid(s, u)
                            /\ HolderOf(n, u) = HolderOf(s, u) /\ TypeOf(n, u) = TypeOf(s, u)
                            /\ Stype(n, u) <=> Stype(s, u)
                            /\ Seen(n, u) = Seen(s, u)
  BY <1>2, <1>3 DEF Valid, HolderOf, TypeOf, Stype, Seen
<1>5. /\ Valid(n, w) /\ HolderOf(n, w) = HolderOf(s, o) /\ TypeOf(n, w) = TypeOf(s, o)
      /\ ~ Stype(n, w) /\ Seen(n, w) = Seen(s, o)
      /\ Valid(n, o) /\ HolderOf(n, o) = HolderOf(s, w) /\ TypeOf(n, o) = TypeOf(s, w)
      /\ ~ Stype(n, o) /\ Seen(n, o) = Seen(s, w)
  BY <1>1, <1>2, <1>3, Apart DEF Valid, HolderOf, TypeOf, Stype, Seen, Places
<1>6. \A u \in W : n.ptr[u] \in Blocks \cup {u, Null, NoWrap}
  BY <1>1, <1>3 DEF Good
<1>7. \A u \in W : Valid(n, u) =>
        HolderOf(n, u) # Raw /\ (Stype(n, u) <=> TypeOf(n, u) \in StaticTypes)
  BY <1>4, <1>5 DEF Good
<1>8. \A u, v \in W : n.ptr[u] = n.ptr[v] /\ n.ptr[u] \in Blocks => u = v
  BY <1>1, <1>3 DEF Good
<1>9. ASSUME NEW p \in Places, n.held[p] # Raw
      PROVE  Wrappable(n.held[p].type) /\ \E u \in W : n.ptr[u] = p
  <2>1. Wrappable(n.held[p].type)
    BY <1>2, <1>9 DEF Good
  <2>2. PICK u \in W : s.ptr[u] = p
    BY <1>2, <1>9 DEF Good
  <2>3. CASE u = w
    BY <1>3, <2>1, <2>2, <2>3
  <2>4. CASE u = o
    BY <1>3, <2>1, <2>2, <2>4
  <2>5. CASE u \notin {w, o}
    BY <1>3, <2>1, <2>2, <2>5
  <2> QED BY <2>3, <2>4, <2>5
<1>10. Good(n, W)
  BY <1>2, <1>6, <1>7, <1>8, <1>9 DEF Good
<1>11. \A u \in Slots : IsWrap(n, u) <=> IsWrap(s, u)
  BY <1>1, <1>3, Apart DEF IsWrap, Places
<1>12. SameSeen(n, s, W \ {w, o})
  BY <1>4 DEF SameSeen
<1> QED
  BY <1>2, <1>5, <1>10, <1>11, <1>12 DEF ContentsSwapped

(* Two owners of the same type use the same storage: the assertion holds.  *)
LEMMA SameStorage ==
  ASSUME NEW s, NEW W \in SUBSET Slots, Good(s, W), NEW w \in W, NEW o \in W,
         Valid(s, w), Valid(s, o), TypeOf(s, w) = TypeOf(s, o)
  PROVE  AssertSameStorage(s, w, o) = {} /\ (Stype(s, w) <=> Stype(s, o))
<1>1. (Stype(s, w) <=> TypeOf(s, w) \in StaticTypes) /\ (Stype(s, o) <=> TypeOf(s, o) \in StaticTypes)
  BY DEF Good
<1> QED
  BY <1>1 DEF AssertSameStorage, Blame, Stype

(* Assigning to the values of two owners in turn.                          *)
TwoSet(n, s, W, w, v, o, x) ==
  /\ Good(n, W) /\ n.ub = s.ub /\ n.ptr = s.ptr
  /\ Seen(n, w) = [type |-> TypeOf(s, w), val |-> v]
  /\ Seen(n, o) = [type |-> TypeOf(s, o), val |-> x]
  /\ SameSeen(n, s, W \ {w, o})

LEMMA SetTwoGood ==
  ASSUME NEW s, NEW W \in SUBSET Slots, Good(s, W), NEW w \in W, NEW o \in W, w # o,
         Valid(s, w), Valid(s, o), NEW v \in Vals \cup {Hollow}, NEW x \in Vals \cup {Hollow}
  PROVE  TwoSet(SetValue(SetValue(s, s.ptr[w], v), s.ptr[o], x), s, W, w, v, o, x)
<1> DEFINE m == SetValue(s, s.ptr[w], v)
           n == SetValue(m, m.ptr[o], x)
<1>1. ValueSet(m, s, W, w, v)
  BY SetValueGood
<1>2. Good(m, W) /\ m.ptr = s.ptr /\ Seen(m, o) = Seen(s, o)
  BY <1>1 DEF ValueSet, SameSeen
<1>3. SetValue(SetValue(s, s.ptr[w], v), s.ptr[o], x) = n
  BY <1>2
<1> HIDE DEF m
<1>4. Valid(m, o)
  BY <1>2 DEF Valid
<1>5. HolderOf(m, o) = HolderOf(s, o)
  BY <1>2, <1>4 DEF Seen
<1>6. TypeOf(m, o) = TypeOf(s, o)
  BY <1>5 DEF TypeOf
<1>7. ValueSet(n, m, W, o, x)
  BY <1>2, <1>4, SetValueGood
<1> HIDE DEF n
<1>8. Seen(n, w) = Seen(m, w) /\ SameSeen(n, s, W \ {w, o})
  BY <1>1, <1>7 DEF ValueSet, SameSeen
<1>9. TwoSet(n, s, W, w, v, o, x)
  BY <1>1, <1>6, <1>7, <1>8 DEF ValueSet, TwoSet
<1> QED
  BY <1>3, <1>9

(* The copy constructor (through copy_init_holder or clone_holder).        *)
LEMMA CopyInitGood ==
  ASSUME NEW s, NEW W \in SUBSET Slots, Good(s, W), Copyable,
         NEW w \in Slots \ W, NEW o \in W, Valid(s, o), NEW p \in CopyPlaces(s, w, o)
  PROVE  Constructed(CopyInit(s, w, o, p), s, W, w, p, HolderOf(s, o))
<1> DEFINE h == HolderOf(s, o)
<1>1. h \in Holder /\ Wrappable(h.type) /\ h.type = TypeOf(s, o)
  BY SeenKinds DEF TypeOf
<1>2. "copy ctor" \in Can[TypeOf(s, o)]
  BY <1>1 DEF Wrappable, CopyableType, Members
<1>3. Run(s, s.ptr[o], "copy ctor") = {}
  BY <1>2, RunBlameless
<1>4. s \in State
  BY DEF Good
<1>5. CopyInit(s, w, o, p) = NewHolder(s, w, p, h)
  BY <1>3, <1>4, NotAccused DEF CopyInit
<1>6. Stype(s, o) <=> h.type \in StaticTypes
  BY <1>1 DEF Good
<1>7. w \in Places /\ s.held[w] = Raw
  BY FreeStorage
<1>8. Suits(w, p, h.type) /\ p \in Places /\ s.held[p] = Raw
  BY <1>6, <1>7 DEF CopyPlaces, FreeBlocks, Suits, Places
<1> HIDE DEF h
<1>9. Constructed(NewHolder(s, w, p, h), s, W, w, p, h)
  BY <1>1, <1>8, NewHolderGood
<1> QED
  BY <1>5, <1>9 DEF h

(* operator=(wrap &&) for distinct wraps: w receives what o showed, and    *)
(* what w held is gone or, for equal types, possibly in o.                 *)
MoveAssigned(n, s, W, w, o) ==
  /\ Good(n, W) /\ n.ub = s.ub
  /\ \A u \in Slots : IsWrap(n, u) <=> IsWrap(s, u)
  /\ Seen(n, w) = Seen(s, o)
  /\ \/ Seen(n, o) \in Left(s, o)
     \/ Valid(s, w) /\ Valid(s, o) /\ TypeOf(s, w) = TypeOf(s, o) /\ Seen(n, o) = Seen(s, w)
  /\ SameSeen(n, s, W \ {w, o})

(* The branches that make w afresh: it owns nothing in d.                  *)
LEMMA MoveIntoGood ==
  ASSUME NEW s, NEW d, NEW W \in SUBSET Slots, Good(s, W), Movable,
         NEW w \in W, NEW o \in W, w # o, IsWrap(s, w), IsWrap(s, o),
         Destroyed(d, s, W, w)
  PROVE  MoveAssigned(MoveInitFrom(d, w, o), s, W, w, o)
<1> DEFINE V == W \ {w}
           n == MoveInitFrom(d, w, o)
<1>1. Good(d, V) /\ d.ptr = s.ptr /\ d.ub = s.ub /\ SameSeen(d, s, V)
  BY DEF Destroyed
<1>2. V \in SUBSET Slots /\ w \in Slots \ V /\ o \in V /\ V \cup {w} = W /\ V \ {o} = W \ {w, o}
  OBVIOUS
<1> HIDE DEF V
<1>3. IsWrap(d, o) /\ \A u \in Slots : IsWrap(d, u) <=> IsWrap(s, u)
  BY <1>1 DEF IsWrap
<1>4. MovedInit(n, d, V, w, o)
  BY <1>1, <1>2, <1>3, MoveInitGood
<1> HIDE DEF n
<1>5. Seen(d, o) = Seen(s, o) /\ SameSeen(d, s, V \ {o})
  BY <1>1, <1>2 DEF SameSeen
<1>6. Valid(d, o) <=> Valid(s, o)
  BY <1>1 DEF Valid
<1>7. Valid(s, o) => TypeOf(d, o) = TypeOf(s, o)
  <2>1. Valid(s, o) => HolderOf(d, o) = HolderOf(s, o)
    BY <1>5, <1>6 DEF Seen
  <2> QED BY <2>1 DEF TypeOf
<1>8. Left(d, o) = Left(s, o)
  BY <1>5, <1>6, <1>7 DEF Left
<1>9. SameSeen(n, s, W \ {w, o})
  BY <1>2, <1>4, <1>5 DEF MovedInit, SameSeen
<1>10. \A u \in Slots : IsWrap(n, u) <=> IsWrap(s, u)
  BY <1>2, <1>3, <1>4 DEF MovedInit
<1> QED
  <2>1. MoveAssigned(n, s, W, w, o)
    BY <1>1, <1>2, <1>4, <1>5, <1>8, <1>9, <1>10 DEF MovedInit, MoveAssigned
  <2> QED BY <2>1 DEF n

(* Giving owners of static storage the other's value gives them what the   *)
(* other shows, when the types agree.                                      *)
LEMMA SameContent ==
  ASSUME NEW s, NEW W \in SUBSET Slots, Good(s, W), NEW w \in W, NEW o \in W,
         Valid(s, o), TypeOf(s, w) = TypeOf(s, o)
  PROVE  /\ [type |-> TypeOf(s, w), val |-> HolderOf(s, o).val] = Seen(s, o)
         /\ HolderOf(s, o).val \in Vals \cup {Hollow}
<1>1. HolderOf(s, o) \in Holder /\ Seen(s, o) = HolderOf(s, o)
  BY SeenKinds
<1> QED
  BY <1>1 DEF Holder, TypeOf

LEMMA MoveAssignGood ==
  ASSUME NEW s, NEW W \in SUBSET Slots, Good(s, W), Movable,
         NEW w \in W, NEW o \in W, w # o, IsWrap(s, w), IsWrap(s, o),
         Invalid(s, o) => Invalid(s, w)
  PROVE  MoveAssigned(MoveAssign(s, w, o), s, W, w, o)
<1> DEFINE n == MoveAssign(s, w, o)
<1>1. CASE Invalid(s, w)
  <2>1. Good(s, W \ {w})
    BY <1>1, DropIdle DEF Invalid, Valid
  <2>2. Destroyed(s, s, W, w)
    BY <2>1 DEF Destroyed, SameSeen
  <2>3. MoveAssigned(MoveInitFrom(s, w, o), s, W, w, o)
    BY <2>2, MoveIntoGood
  <2> QED
    BY <1>1, <2>3 DEF MoveAssign
<1>2. CASE ~ Invalid(s, w) /\ TypeOf(s, w) # TypeOf(s, o)
  <2>1. Destroyed(Destroy(s, w), s, W, w)
    BY DestroyGood DEF IsWrap
  <2>2. MoveAssigned(MoveInitFrom(Destroy(s, w), w, o), s, W, w, o)
    BY <2>1, MoveIntoGood
  <2> QED
    BY <1>2, <2>2 DEF MoveAssign
<1>3. CASE ~ Invalid(s, w) /\ TypeOf(s, w) = TypeOf(s, o)
  <2>1. Valid(s, w) /\ Valid(s, o)
    BY <1>3 DEF Invalid, Valid, IsWrap
  <2>2. AssertSameStorage(s, w, o) = {} /\ (Stype(s, w) <=> Stype(s, o))
    BY <1>3, <2>1, SameStorage
  <2>3. s \in State /\ Accuse(s, {}) = s
    BY NotAccused DEF Good
  <2>4. Accuse(s, AssertSameStorage(s, w, o)) = s
    BY <2>2, <2>3
  <2>5. Run(s, s.ptr[o], "move assign") = {}
    <3>1. Wrappable(TypeOf(s, o))
      BY <2>1, SeenKinds
    <3>2. "move assign" \in Can[TypeOf(s, o)]
      BY <3>1 DEF Wrappable, MovableType
    <3> QED
      BY <2>1, <3>2, RunBlameless
  <2>6. n = IF Stype(s, w)
            THEN SetValue(SetValue(s, w, HolderOf(s, o).val), s.ptr[o], Hollow)
            ELSE SwapPointers(s, w, o)
    BY <1>3, <2>3, <2>4, <2>5 DEF MoveAssign
  <2>7. CASE Stype(s, w)
    <3>1. [type |-> TypeOf(s, w), val |-> HolderOf(s, o).val] = Seen(s, o)
          /\ HolderOf(s, o).val \in Vals \cup {Hollow}
      BY <1>3, <2>1, SameContent
    <3>2. TwoSet(SetValue(SetValue(s, s.ptr[w], HolderOf(s, o).val), s.ptr[o], Hollow),
                 s, W, w, HolderOf(s, o).val, o, Hollow)
      BY <2>1, <3>1, SetTwoGood
    <3>3. n = SetValue(SetValue(s, s.ptr[w], HolderOf(s, o).val), s.ptr[o], Hollow)
      BY <2>6, <2>7 DEF Stype
    <3> HIDE DEF n
    <3>4. TwoSet(n, s, W, w, HolderOf(s, o).val, o, Hollow)
      BY <3>2, <3>3
    <3>5. MoveAssigned(n, s, W, w, o)
      BY <2>1, <3>1, <3>4 DEF TwoSet, MoveAssigned, Left, IsWrap
    <3> QED BY <3>5 DEF n
  <2>8. CASE ~ Stype(s, w)
    <3>1. ContentsSwapped(SwapPointers(s, w, o), s, W, w, o)
      BY <2>1, <2>2, <2>8, SwapPointersGood
    <3>2. n = SwapPointers(s, w, o)
      BY <2>6, <2>8
    <3> HIDE DEF n
    <3>3. ContentsSwapped(n, s, W, w, o)
      BY <3>1, <3>2
    <3>4. MoveAssigned(n, s, W, w, o)
      BY <1>3, <2>1, <3>3 DEF ContentsSwapped, MoveAssigned
    <3> QED BY <3>4 DEF n
  <2> QED BY <2>7, <2>8
<1> QED BY <1>1, <1>2, <1>3

(* The temporary joins the owners only while it lives.                     *)
LEMMA TempLeaves ==
  ASSUME NEW s, NEW V \in SUBSET Wraps, Good(s, V \cup {Temp}), IsWrap(s, Temp)
  PROVE  Ended(Dtor(s, Temp), s, V \cup {Temp}, Temp) /\ Good(Dtor(s, Temp), V)
<1>1. (V \cup {Temp}) \ {Temp} = V /\ V \cup {Temp} \in SUBSET Slots
  BY Apart DEF Slots
<1>2. Ended(Dtor(s, Temp), s, V \cup {Temp}, Temp)
  BY <1>1, DtorGood
<1> QED
  BY <1>1, <1>2 DEF Ended

(* What an operation of the class must establish from s: the program's     *)
(* wraps own, the temporary is gone and nothing undefined happened.        *)
Settled(n, s, V) == Good(n, V) /\ n.ptr[Temp] = NoWrap /\ n.ub = s.ub

(* A wrap that shows content is valid, and its content tells its type.     *)
LEMMA ShowsContent ==
  ASSUME NEW n, NEW W \in SUBSET Slots, Good(n, W), NEW w \in W,
         NEW h \in Holder, Seen(n, w) = h
  PROVE  Valid(n, w) /\ ~ Invalid(n, w) /\ IsWrap(n, w)
         /\ HolderOf(n, w) = h /\ TypeOf(n, w) = h.type
<1>1. Valid(n, w)
  BY SeenKinds
<1>2. HolderOf(n, w) = h
  BY <1>1 DEF Seen
<1> QED
  BY <1>1, <1>2 DEF Valid, Invalid, IsWrap, TypeOf

(* swap() of different types, through the temporary.                       *)
LEMMA SwapByTempGood ==
  ASSUME NEW s, NEW V \in SUBSET Wraps, Good(s, V), s.ptr[Temp] = NoWrap, Movable,
         NEW w \in V, NEW o \in V, w # o,
         Valid(s, w), Valid(s, o), TypeOf(s, w) # TypeOf(s, o)
  PROVE  Settled(SwapByTemp(s, w, o), s, V) /\ ContentsSwapped(SwapByTemp(s, w, o), s, V, w, o)
<1> DEFINE All == V \cup {Temp}
           m1 == MoveInitFrom(s, Temp, w)
           m2 == MoveAssign(m1, w, o)
           m3 == MoveAssign(m2, o, Temp)
           n == Dtor(m3, Temp)
           a == HolderOf(s, w)
           b == HolderOf(s, o)
<1>0. n = SwapByTemp(s, w, o)
  BY DEF SwapByTemp
<1>1. /\ All \in SUBSET Slots /\ V \in SUBSET Slots /\ Temp \in Slots \ V /\ Temp \in All
      /\ V \cup {Temp} = All /\ w \in All /\ o \in All /\ Temp # w /\ Temp # o
  BY Apart DEF Slots
<1>2. /\ a \in Holder /\ b \in Holder /\ Seen(s, w) = a /\ Seen(s, o) = b
      /\ TypeOf(s, w) = a.type /\ TypeOf(s, o) = b.type /\ a.type # b.type
  BY <1>1, SeenKinds DEF TypeOf
<1>3. IsWrap(s, w) /\ IsWrap(s, o)
  BY DEF Valid, IsWrap
<1>4. MovedInit(m1, s, V, Temp, w)
  BY <1>1, <1>3, MoveInitGood
<1> HIDE DEF m1, All, a, b
<1>5. /\ Good(m1, All) /\ m1.ub = s.ub /\ Seen(m1, Temp) = a /\ Seen(m1, o) = b
      /\ Seen(m1, w) \in {Null, [type |-> a.type, val |-> Hollow]}
      /\ SameSeen(m1, s, V \ {w})
  BY <1>1, <1>2, <1>4 DEF MovedInit, SameSeen, Left
<1>6. Valid(m1, o) /\ ~ Invalid(m1, o) /\ IsWrap(m1, o) /\ TypeOf(m1, o) = b.type
  BY <1>1, <1>2, <1>5, ShowsContent
<1>7. IsWrap(m1, w)
  BY <1>1, <1>3, <1>4 DEF MovedInit
<1>8. Valid(m1, w) => TypeOf(m1, w) = a.type
  <2> SUFFICES ASSUME Valid(m1, w) PROVE TypeOf(m1, w) = a.type
    OBVIOUS
  <2>1. Seen(m1, w) = HolderOf(m1, w) /\ HolderOf(m1, w) \in Holder
    BY <1>1, <1>5, SeenKinds
  <2>2. HolderOf(m1, w) = [type |-> a.type, val |-> Hollow]
    BY <1>5, <2>1, ConstantsOK DEF ConstantsOK
  <2> QED BY <2>2 DEF TypeOf
<1>9. MoveAssigned(m2, m1, All, w, o)
  BY <1>1, <1>5, <1>6, <1>7, MoveAssignGood
<1> HIDE DEF m2
<1>10. /\ Good(m2, All) /\ m2.ub = s.ub /\ Seen(m2, w) = b /\ Seen(m2, Temp) = a
       /\ SameSeen(m2, s, V \ {w, o})
  BY <1>1, <1>5, <1>9 DEF MoveAssigned, SameSeen
<1>11. IsWrap(m2, o) /\ \A u \in Slots : IsWrap(m2, u) <=> IsWrap(m1, u)
  BY <1>1, <1>6, <1>9 DEF MoveAssigned
<1>12. ~ Invalid(m2, Temp) /\ IsWrap(m2, Temp)
  BY <1>1, <1>2, <1>10, ShowsContent
<1>13. MoveAssigned(m3, m2, All, o, Temp)
  BY <1>1, <1>10, <1>11, <1>12, MoveAssignGood
<1> HIDE DEF m3
<1>14. /\ Good(m3, All) /\ m3.ub = s.ub /\ Seen(m3, o) = a /\ Seen(m3, w) = b
       /\ SameSeen(m3, s, V \ {w, o})
  BY <1>1, <1>10, <1>13 DEF MoveAssigned, SameSeen
<1>15. IsWrap(m3, Temp)
  BY <1>1, <1>12, <1>13 DEF MoveAssigned
<1>16. Ended(n, m3, All, Temp) /\ Good(n, V)
  BY <1>14, <1>15, TempLeaves DEF All
<1> HIDE DEF n
<1>17. /\ n.ub = s.ub /\ n.ptr[Temp] = NoWrap /\ m3 \in State
       /\ \A u \in V : Seen(n, u) = Seen(m3, u)
       /\ \A u \in Wraps : IsWrap(n, u) <=> IsWrap(m3, u)
  <2>1. \A u \in Wraps : u \in Slots /\ u # Temp
    BY Apart DEF Slots
  <2> QED
    BY <1>1, <1>14, <1>16, <2>1 DEF Ended, SameSeen, All, Good, State, IsWrap
<1>18. \A u \in Slots : IsWrap(n, u) <=> IsWrap(s, u)
  <2>0. \A u \in Wraps : u \in Slots /\ u # Temp
    BY Apart DEF Slots
  <2>1. \A u \in Wraps : IsWrap(m3, u) <=> IsWrap(s, u)
    BY <2>0, <1>1, <1>4, <1>11, <1>13 DEF MovedInit, MoveAssigned
  <2>2. IsWrap(n, Temp) <=> IsWrap(s, Temp)
    BY <1>17 DEF IsWrap
  <2> QED
    BY <1>17, <2>1, <2>2 DEF Slots
<1>19. Settled(n, s, V) /\ ContentsSwapped(n, s, V, w, o)
  BY <1>2, <1>14, <1>16, <1>17, <1>18 DEF Settled, ContentsSwapped, SameSeen
<1> QED
  BY <1>0, <1>19

(* swap() of equal types: the values or the pointers are exchanged.        *)
LEMMA SwapSameTypeGood ==
  ASSUME NEW s, NEW W \in SUBSET Slots, Good(s, W), Swappable,
         NEW w \in W, NEW o \in W, w # o,
         Valid(s, w), Valid(s, o), TypeOf(s, w) = TypeOf(s, o)
  PROVE  ContentsSwapped(SwapSameType(s, w, o), s, W, w, o)
<1> DEFINE n == SwapSameType(s, w, o)
<1>1. AssertSameStorage(s, w, o) = {} /\ (Stype(s, w) <=> Stype(s, o))
  BY SameStorage
<1>2. s \in State /\ Accuse(s, {}) = s
  BY NotAccused DEF Good
<1>3. Run(s, s.ptr[o], "swap") = {}
  <2>1. Wrappable(TypeOf(s, o))
    BY SeenKinds
  <2>2. "swap" \in Can[TypeOf(s, o)]
    BY <2>1 DEF Wrappable, SwappableType
  <2> QED BY <2>2, RunBlameless
<1>4. Accuse(s, AssertSameStorage(s, w, o)) = s
  BY <1>1, <1>2
<1>5. n = IF Stype(s, w)
          THEN SetValue(SetValue(s, w, HolderOf(s, o).val), s.ptr[o], HolderOf(s, w).val)
          ELSE SwapPointers(s, w, o)
  BY <1>2, <1>3, <1>4 DEF SwapSameType
<1>6. CASE Stype(s, w)
  <2> DEFINE v == HolderOf(s, o).val
             x == HolderOf(s, w).val
  <2>1. [type |-> TypeOf(s, w), val |-> v] = Seen(s, o) /\ v \in Vals \cup {Hollow}
    BY SameContent
  <2>2. [type |-> TypeOf(s, o), val |-> x] = Seen(s, w) /\ x \in Vals \cup {Hollow}
    BY SameContent
  <2>3. TwoSet(SetValue(SetValue(s, s.ptr[w], v), s.ptr[o], x), s, W, w, v, o, x)
    BY <2>1, <2>2, SetTwoGood
  <2>4. n = SetValue(SetValue(s, s.ptr[w], v), s.ptr[o], x)
    BY <1>5, <1>6 DEF Stype
  <2> HIDE DEF n
  <2>5. TwoSet(n, s, W, w, v, o, x)
    BY <2>3, <2>4
  <2>6. ContentsSwapped(n, s, W, w, o)
    BY <2>1, <2>2, <2>5 DEF TwoSet, ContentsSwapped, IsWrap
  <2> QED BY <2>6 DEF n
<1>7. CASE ~ Stype(s, w)
  <2>1. ContentsSwapped(SwapPointers(s, w, o), s, W, w, o)
    BY <1>1, <1>7, SwapPointersGood
  <2> QED
    BY <1>5, <1>7, <2>1
<1> QED BY <1>6, <1>7

(* operator=(const wrap &) when it goes through a temporary copy.          *)
CopiedInto(n, s, V, w, o) ==
  /\ Settled(n, s, V)
  /\ Seen(n, w) = Seen(s, o)
  /\ SameSeen(n, s, V \ {w})

LEMMA CopyByTempGood ==
  ASSUME NEW s, NEW V \in SUBSET Wraps, Good(s, V), s.ptr[Temp] = NoWrap, Copyable, Movable,
         NEW w \in V, NEW o \in V, w # o, IsWrap(s, w), Valid(s, o),
         ~ InPlace(s, w, o), NEW p \in CopyPlaces(s, Temp, o)
  PROVE  CopiedInto(Dtor(MoveAssign(CopyInit(s, Temp, o, p), w, Temp), Temp), s, V, w, o)
<1> DEFINE All == V \cup {Temp}
           h == HolderOf(s, o)
           m1 == CopyInit(s, Temp, o, p)
           m2 == MoveAssign(m1, w, Temp)
           n == Dtor(m2, Temp)
<1>1. /\ All \in SUBSET Slots /\ V \in SUBSET Slots /\ Temp \in Slots \ V /\ Temp \in All
      /\ V \cup {Temp} = All /\ w \in All /\ o \in All /\ Temp # w /\ Temp # o
      /\ All \ {w, Temp} = V \ {w}
  BY Apart DEF Slots
<1>2. h \in Holder /\ Seen(s, o) = h /\ TypeOf(s, o) = h.type
  BY <1>1, SeenKinds DEF TypeOf
<1>3. Constructed(m1, s, V, Temp, p, h)
  BY <1>1, CopyInitGood
<1>4. s \in State
  BY DEF Good
<1> HIDE DEF m1, All, h
<1>5. /\ Good(m1, All) /\ m1.ub = s.ub /\ Seen(m1, Temp) = h /\ SameSeen(m1, s, V)
      /\ \A u \in V : m1.ptr[u] = s.ptr[u]
  BY <1>1, <1>3, <1>4 DEF Constructed, State
<1>6. ~ Invalid(m1, Temp) /\ IsWrap(m1, Temp) /\ IsWrap(m1, w)
  BY <1>1, <1>2, <1>5, ShowsContent DEF IsWrap
<1>7. MoveAssigned(m2, m1, All, w, Temp)
  BY <1>1, <1>5, <1>6, MoveAssignGood
<1> HIDE DEF m2
<1>8. Good(m2, All) /\ m2.ub = s.ub /\ Seen(m2, w) = h /\ SameSeen(m2, s, V \ {w})
      /\ IsWrap(m2, Temp) /\ m2 \in State
  BY <1>1, <1>5, <1>6, <1>7 DEF MoveAssigned, SameSeen, Good
<1>9. Ended(n, m2, All, Temp) /\ Good(n, V)
  BY <1>8, TempLeaves DEF All
<1> HIDE DEF n
<1>10. n.ub = s.ub /\ n.ptr[Temp] = NoWrap /\ \A u \in V : Seen(n, u) = Seen(m2, u)
  BY <1>1, <1>8, <1>9 DEF Ended, SameSeen, All, State
<1>11. CopiedInto(n, s, V, w, o)
  BY <1>2, <1>8, <1>9, <1>10 DEF CopiedInto, Settled, SameSeen
<1> QED
  BY <1>11 DEF n, m2, m1

----------------------------------------------------------------------------
(* Operations.                                                             *)

(* The inductive invariant: between calls exactly the program's wraps own. *)
(* What the last call was does not matter to the next one.                 *)
Owning == Good(Now, Wraps) /\ ptr[Temp] = NoWrap

CallOK == call \in [op : Ops, dst : Wraps, src : Wraps \cup {Outside}, threw : BOOLEAN]

IInv == Owning /\ CallOK

(* What the abstract boxes show.                                           *)
Shows == [w \in Wraps |-> Seen(Now, w)]

(* The shape of most lemmas below: the call keeps the invariant, blames    *)
(* nobody and is a step of the abstract box.                               *)
Kept == IInv' /\ ub' = ub /\ Box!Next

----------------------------------------------------------------------------
(* From the state an operation commits to its step.                        *)

LEMMA Committed ==
  ASSUME NEW n, n \in State, Commit(n) PROVE Now' = n
  BY DEF Commit, Now, State

LEMMA Returns ==
  ASSUME NEW op \in Ops, NEW w \in Wraps, NEW o \in Wraps \cup {Outside}, NEW threw \in BOOLEAN,
         Returned(op, w, o, threw)
  PROVE  CallOK'
  BY DEF Returned, CallOK

LEMMA Settles ==
  ASSUME NEW n, Good(n, Wraps), n.ptr[Temp] = NoWrap, Commit(n), CallOK'
  PROVE  IInv' /\ ub' = n.ub /\ Shows' = [w \in Wraps |-> Seen(n, w)]
<1>1. n \in State
  BY DEF Good
<1>2. Now' = n
  BY <1>1, Committed
<1>3. Good(Now, Wraps)' /\ Shows' = [w \in Wraps |-> Seen(n, w)]
  BY <1>2 DEF Shows
<1>4. ub' = n.ub /\ ptr'[Temp] = NoWrap
  BY DEF Commit
<1> QED
  BY <1>3, <1>4 DEF IInv, Owning, CallOK

(* The call changes what one wrap shows, or two, and nothing else.         *)
Replaced(n, V, w, c) ==
  /\ Settled(n, Now, V) /\ Seen(n, w) = c
  /\ SameSeen(n, Now, V \ {w})

Exchanged(n, w, c, o, d) ==
  /\ Settled(n, Now, Wraps) /\ Seen(n, w) = c /\ Seen(n, o) = d
  /\ SameSeen(n, Now, Wraps \ {w, o})

LEMMA Replaces ==
  ASSUME NEW n, NEW w \in Wraps, NEW c, Replaced(n, Wraps, w, c), Commit(n), CallOK'
  PROVE  IInv' /\ ub' = ub /\ Shows' = [Shows EXCEPT ![w] = c]
<1>1. /\ Good(n, Wraps) /\ n.ptr[Temp] = NoWrap /\ n.ub = ub
      /\ Seen(n, w) = c /\ SameSeen(n, Now, Wraps \ {w})
  BY DEF Replaced, Settled, Now
<1>2. IInv' /\ ub' = n.ub /\ Shows' = [u \in Wraps |-> Seen(n, u)]
  BY <1>1, Settles
<1> QED
  BY <1>1, <1>2 DEF Shows, SameSeen

LEMMA Exchanges ==
  ASSUME NEW n, NEW w \in Wraps, NEW o \in Wraps, w # o, NEW c, NEW d,
         Exchanged(n, w, c, o, d), Commit(n), CallOK'
  PROVE  IInv' /\ ub' = ub /\ Shows' = [Shows EXCEPT ![w] = c, ![o] = d]
<1>1. /\ Good(n, Wraps) /\ n.ptr[Temp] = NoWrap /\ n.ub = ub
      /\ Seen(n, w) = c /\ Seen(n, o) = d /\ SameSeen(n, Now, Wraps \ {w, o})
  BY DEF Exchanged, Settled, Now
<1>2. IInv' /\ ub' = n.ub /\ Shows' = [u \in Wraps |-> Seen(n, u)]
  BY <1>1, Settles
<1> QED
  BY <1>1, <1>2 DEF Shows, SameSeen

LEMMA Unchanged ==
  ASSUME Owning, Commit(Now), CallOK' PROVE IInv' /\ ub' = ub /\ Shows' = Shows
<1>1. Good(Now, Wraps) /\ Now.ptr[Temp] = NoWrap /\ Now.ub = ub
  BY DEF Owning, Now
<1>2. IInv' /\ ub' = ub /\ Shows' = [w \in Wraps |-> Seen(Now, w)]
  BY <1>1, Settles
<1> QED
  BY <1>2 DEF Shows

(* Reading the invariant: a wrap that does not exist owns nothing, and the *)
(* boxes show the states the guards ask for.                               *)
LEMMA NotBuilt ==
  ASSUME Owning, NEW w \in Wraps, ~ IsWrap(Now, w)
  PROVE  /\ Good(Now, Wraps \ {w}) /\ w \in Slots \ (Wraps \ {w})
         /\ Wraps \ {w} \in SUBSET Slots /\ (Wraps \ {w}) \cup {w} = Wraps /\ w # Temp
<1>1. Good(Now, Wraps) /\ Wraps \in SUBSET Slots /\ w # Temp
  BY Apart DEF Owning, Slots
<1>2. ~ Valid(Now, w)
  BY DEF IsWrap, Valid
<1>3. Good(Now, Wraps \ {w})
  BY <1>1, <1>2, DropIdle
<1> QED
  BY <1>1, <1>3 DEF Slots

LEMMA BoxReads ==
  ASSUME Owning, NEW w \in Wraps
  PROVE  /\ Shows[w] = Seen(Now, w)
         /\ Box!Exists(w) <=> IsWrap(Now, w)
         /\ Box!Full(w) <=> Valid(Now, w)
         /\ Valid(Now, w) => Shows[w] = HolderOf(Now, w) /\ HolderOf(Now, w) \in Holder
         /\ Invalid(Now, w) => Shows[w] = Null
<1>1. Good(Now, Wraps) /\ Wraps \in SUBSET Slots
  BY DEF Owning, Slots
<1>2. /\ Valid(Now, w) => Seen(Now, w) = HolderOf(Now, w) /\ HolderOf(Now, w) \in Holder
      /\ Seen(Now, w) = Null <=> Invalid(Now, w)
      /\ Seen(Now, w) = NoWrap <=> ~ IsWrap(Now, w)
  BY <1>1, SeenKinds
<1>3. Shows[w] = Seen(Now, w)
  BY DEF Shows
<1>4. Valid(Now, w) <=> ~ Invalid(Now, w) /\ IsWrap(Now, w)
  BY DEF Valid, Invalid, IsWrap
<1> QED
  BY <1>2, <1>3, <1>4 DEF Box!Exists, Box!Full, Shows

(* Making w anew when it does not exist, and remaking it after destroy().  *)
LEMMA Built ==
  ASSUME NEW V \in SUBSET Wraps, NEW d, NEW w \in V, Good(d, V \ {w}), d.ub = ub, d.ptr = ptr,
         ptr[Temp] = NoWrap, SameSeen(d, Now, V \ {w}), NEW h \in Holder, Wrappable(h.type),
         NEW p \in CtorPlaces(d, w, h.type)
  PROVE  Replaced(NewHolder(d, w, p, h), V, w, h)
<1> DEFINE U == V \ {w}
           n == NewHolder(d, w, p, h)
<1>1. w \in Slots \ U /\ U \in SUBSET Slots /\ U \cup {w} = V /\ w # Temp
  BY Apart DEF Slots
<1>2. Good(d, U) /\ SameSeen(d, Now, U)
  OBVIOUS
<1> HIDE DEF U
<1>3. w \in Places /\ d.held[w] = Raw
  BY <1>1, <1>2, FreeStorage
<1>4. p \in Places /\ d.held[p] = Raw /\ Suits(w, p, h.type)
  BY <1>3 DEF CtorPlaces, FreeBlocks, Places, Suits
<1>5. Constructed(n, d, U, w, p, h)
  BY <1>1, <1>2, <1>4, NewHolderGood
<1> HIDE DEF n
<1>6. Replaced(n, V, w, h)
  BY <1>1, <1>2, <1>5 DEF Replaced, Settled, Constructed, SameSeen, Good, State, Now, U
<1> QED
  BY <1>6 DEF n

LEMMA Emptied ==
  ASSUME NEW V \in SUBSET Wraps, NEW d, NEW w \in V, Good(d, V \ {w}), d.ub = ub, d.ptr = ptr,
         ptr[Temp] = NoWrap, SameSeen(d, Now, V \ {w})
  PROVE  Replaced(SetPtr(d, w, Null), V, w, Null)
<1> DEFINE U == V \ {w}
           n == SetPtr(d, w, Null)
<1>1. w \in Slots \ U /\ U \in SUBSET Slots /\ U \cup {w} = V /\ w # Temp
  BY Apart DEF Slots
<1>2. Good(d, U) /\ SameSeen(d, Now, U)
  OBVIOUS
<1> HIDE DEF U
<1>3. Idled(n, d, U, w, Null)
  BY <1>1, <1>2, IdleGood
<1> HIDE DEF n
<1>4. Replaced(n, V, w, Null)
  BY <1>1, <1>2, <1>3 DEF Replaced, Settled, Idled, SameSeen, Good, State, Now, U
<1> QED
  BY <1>4 DEF n

(* destroy() on an existing wrap prepares either.                          *)
LEMMA Cleared ==
  ASSUME NEW V \in SUBSET Wraps, Good(Now, V), ptr[Temp] = NoWrap, NEW w \in V, IsWrap(Now, w)
  PROVE  LET d == Destroy(Now, w) IN
         /\ Good(d, V \ {w}) /\ d.ub = ub /\ d.ptr = ptr /\ ptr[Temp] = NoWrap
         /\ SameSeen(d, Now, V \ {w})
<1>1. V \in SUBSET Slots
  BY DEF Slots
<1>2. Destroyed(Destroy(Now, w), Now, V, w)
  BY <1>1, DestroyGood DEF IsWrap
<1> QED
  BY <1>2 DEF Destroyed, Now

----------------------------------------------------------------------------
(* One lemma per operation.                                                *)

LEMMA InvalidConstructKeeps ==
  ASSUME Owning, NEW w \in Wraps, InvalidConstruct(w) PROVE Kept
<1>1. Commit(SetPtr(Now, w, Null)) /\ Returned("construct", w, Outside, FALSE) /\ ~ IsWrap(Now, w)
  BY DEF InvalidConstruct
<1>2. /\ Good(Now, Wraps \ {w}) /\ Now.ub = ub /\ Now.ptr = ptr /\ ptr[Temp] = NoWrap
      /\ SameSeen(Now, Now, Wraps \ {w})
  BY <1>1, NotBuilt DEF Owning, Now, SameSeen
<1>3. Replaced(SetPtr(Now, w, Null), Wraps, w, Null)
  BY <1>2, Emptied
<1>4. CallOK'
  BY <1>1, Returns DEF Ops
<1>5. IInv' /\ ub' = ub /\ Shows' = [Shows EXCEPT ![w] = Null]
  BY <1>1, <1>3, <1>4, Replaces
<1>6. Box!Create(w)
  BY <1>1, <1>5, BoxReads DEF Box!Create, Box!Done, Returned, Shows
<1> QED
  BY <1>5, <1>6 DEF Kept, Box!Next

LEMMA ConstructKeeps ==
  ASSUME Owning, NEW w \in Wraps, NEW t \in Types, NEW v \in Vals, NEW how, Construct(w, t, v, how)
  PROVE  Kept
<1> DEFINE h == [type |-> t, val |-> v]
<1>1. ~ IsWrap(Now, w) /\ Wrappable(t)
  BY DEF Construct
<1>2. h \in Holder /\ h.type = t
  BY DEF Holder
<1>3. CASE Returned("construct", w, Outside, FALSE)
           /\ \E p \in CtorPlaces(Now, w, t) : Commit(NewHolder(Now, w, p, h))
  <2>1. PICK p \in CtorPlaces(Now, w, t) : Commit(NewHolder(Now, w, p, h))
    BY <1>3
  <2>2. /\ Good(Now, Wraps \ {w}) /\ Now.ub = ub /\ Now.ptr = ptr /\ ptr[Temp] = NoWrap
        /\ SameSeen(Now, Now, Wraps \ {w})
    BY <1>1, NotBuilt DEF Owning, Now, SameSeen
  <2> HIDE DEF h
  <2>3. Replaced(NewHolder(Now, w, p, h), Wraps, w, h)
    BY <1>1, <1>2, <2>2, Built
  <2>4. CallOK'
    BY <1>3, Returns DEF Ops
  <2>5. IInv' /\ ub' = ub /\ Shows' = [Shows EXCEPT ![w] = h]
    BY <2>1, <2>3, <2>4, Replaces
  <2>6. Box!Create(w)
    BY <1>1, <1>2, <1>3, <2>5, BoxReads DEF Box!Create, Box!Done, Returned, Shows, Box!Content, Holder
  <2> QED
    BY <2>5, <2>6 DEF Kept, Box!Next
<1>4. CASE Commit(Now) /\ Returned("construct", w, Outside, TRUE)
  <2>1. CallOK'
    BY <1>4, Returns DEF Ops
  <2>2. IInv' /\ ub' = ub /\ Shows' = Shows
    BY <1>4, <2>1, Unchanged
  <2>3. Box!Create(w)
    BY <1>1, <1>4, <2>2, BoxReads DEF Box!Create, Box!Done, Returned, Shows
  <2> QED
    BY <2>2, <2>3 DEF Kept, Box!Next
<1> QED BY <1>3, <1>4 DEF Construct

LEMMA ResetKeeps ==
  ASSUME Owning, NEW w \in Wraps, Reset(w) PROVE Kept
<1> DEFINE d == Destroy(Now, w)
<1>1. IsWrap(Now, w) /\ Commit(SetPtr(d, w, Null)) /\ Returned("reset", w, Outside, FALSE)
  BY DEF Reset
<1>2. /\ Good(d, Wraps \ {w}) /\ d.ub = ub /\ d.ptr = ptr /\ ptr[Temp] = NoWrap
      /\ SameSeen(d, Now, Wraps \ {w})
  BY <1>1, Cleared DEF Owning
<1> HIDE DEF d
<1>3. Replaced(SetPtr(d, w, Null), Wraps, w, Null)
  BY <1>2, Emptied
<1>4. CallOK'
  BY <1>1, Returns DEF Ops
<1>5. IInv' /\ ub' = ub /\ Shows' = [Shows EXCEPT ![w] = Null]
  BY <1>1, <1>3, <1>4, Replaces
<1>6. Box!Reset(w)
  BY <1>1, <1>5, BoxReads DEF Box!Reset, Box!Done, Returned, Shows
<1> QED
  BY <1>5, <1>6 DEF Kept, Box!Next

LEMMA DestructKeeps ==
  ASSUME Owning, NEW w \in Wraps, Destruct(w) PROVE Kept
<1> DEFINE n == Dtor(Now, w)
<1>1. IsWrap(Now, w) /\ Commit(n) /\ Returned("destroy", w, Outside, FALSE)
  BY DEF Destruct
<1>2. Good(Now, Wraps) /\ Wraps \in SUBSET Slots /\ ptr[Temp] = NoWrap /\ w # Temp /\ Now \in State
  BY Apart DEF Owning, Slots, Good
<1>3. Ended(n, Now, Wraps, w)
  BY <1>1, <1>2, DtorGood
<1> HIDE DEF n
<1>4. Replaced(n, Wraps, w, NoWrap)
  BY <1>2, <1>3 DEF Ended, Replaced, Settled, State, Now
<1>5. CallOK'
  BY <1>1, Returns DEF Ops
<1>6. IInv' /\ ub' = ub /\ Shows' = [Shows EXCEPT ![w] = NoWrap]
  BY <1>1, <1>4, <1>5, Replaces
<1>7. Box!Destroy(w)
  BY <1>1, <1>6, BoxReads DEF Box!Destroy, Box!Done, Returned, Shows
<1> QED
  BY <1>6, <1>7 DEF Kept, Box!Next

LEMMA AssignFreshKeeps ==
  ASSUME Owning, NEW w \in Wraps, NEW t \in Types, NEW v \in Vals, NEW how, AssignFresh(w, t, v, how)
  PROVE  Kept
<1> DEFINE h == [type |-> t, val |-> v]
           d == Destroy(Now, w)
<1>1. IsWrap(Now, w) /\ Wrappable(t) /\ (Invalid(Now, w) \/ TypeOf(Now, w) # t)
  BY DEF AssignFresh
<1>2. h \in Holder /\ h.type = t /\ h \in Box!Content
  BY DEF Holder, Box!Content
<1>3. /\ Good(d, Wraps \ {w}) /\ d.ub = ub /\ d.ptr = ptr /\ ptr[Temp] = NoWrap
      /\ SameSeen(d, Now, Wraps \ {w})
  BY <1>1, Cleared DEF Owning
<1>4. CASE Returned("assign", w, Outside, FALSE)
           /\ \E p \in CtorPlaces(d, w, t) : Commit(NewHolder(d, w, p, h))
  <2>1. PICK p \in CtorPlaces(d, w, t) : Commit(NewHolder(d, w, p, h))
    BY <1>4
  <2> HIDE DEF h, d
  <2>2. Replaced(NewHolder(d, w, p, h), Wraps, w, h)
    BY <1>1, <1>2, <1>3, Built
  <2>3. CallOK'
    BY <1>4, Returns DEF Ops
  <2>4. IInv' /\ ub' = ub /\ Shows' = [Shows EXCEPT ![w] = h]
    BY <2>1, <2>2, <2>3, Replaces
  <2>5. Box!Assign(w, h)
    BY <1>1, <1>4, <2>4, BoxReads DEF Box!Assign, Box!Done, Returned, Shows
  <2> QED
    BY <1>2, <2>4, <2>5 DEF Kept, Box!Next
<1>5. CASE Commit(SetPtr(d, w, Null)) /\ Returned("assign", w, Outside, TRUE)
  <2> HIDE DEF h, d
  <2>1. Replaced(SetPtr(d, w, Null), Wraps, w, Null)
    BY <1>3, Emptied
  <2>2. CallOK'
    BY <1>5, Returns DEF Ops
  <2>3. IInv' /\ ub' = ub /\ Shows' = [Shows EXCEPT ![w] = Null]
    BY <1>5, <2>1, <2>2, Replaces
  <2>4. ~ (Box!Full(w) /\ Shows[w].type = h.type)
    <3>1. Box!Full(w) => Valid(Now, w) /\ Shows[w] = HolderOf(Now, w)
      BY BoxReads
    <3>2. Box!Full(w) => Shows[w].type = TypeOf(Now, w) /\ ~ Invalid(Now, w)
      BY <3>1 DEF TypeOf, Valid, Invalid
    <3> QED BY <1>1, <1>2, <3>2
  <2>5. Box!Assign(w, h)
    BY <1>1, <1>5, <2>3, <2>4, BoxReads DEF Box!Assign, Box!Done, Returned, Shows
  <2> QED
    BY <1>2, <2>3, <2>5 DEF Kept, Box!Next
<1> QED BY <1>4, <1>5 DEF AssignFresh

LEMMA EmplaceKeeps ==
  ASSUME Owning, NEW w \in Wraps, NEW t \in Types, NEW v \in Vals, Emplace(w, t, v)
  PROVE  Kept
<1> DEFINE h == [type |-> t, val |-> v]
           d == Destroy(Now, w)
<1>1. IsWrap(Now, w) /\ Wrappable(t)
  BY DEF Emplace
<1>2. h \in Holder /\ h.type = t /\ h \in Box!Content
  BY DEF Holder, Box!Content
<1>3. /\ Good(d, Wraps \ {w}) /\ d.ub = ub /\ d.ptr = ptr /\ ptr[Temp] = NoWrap
      /\ SameSeen(d, Now, Wraps \ {w})
  BY <1>1, Cleared DEF Owning
<1>4. CASE Returned("emplace", w, Outside, FALSE)
           /\ \E p \in CtorPlaces(d, w, t) : Commit(NewHolder(d, w, p, h))
  <2>1. PICK p \in CtorPlaces(d, w, t) : Commit(NewHolder(d, w, p, h))
    BY <1>4
  <2> HIDE DEF h, d
  <2>2. Replaced(NewHolder(d, w, p, h), Wraps, w, h)
    BY <1>1, <1>2, <1>3, Built
  <2>3. CallOK'
    BY <1>4, Returns DEF Ops
  <2>4. IInv' /\ ub' = ub /\ Shows' = [Shows EXCEPT ![w] = h]
    BY <2>1, <2>2, <2>3, Replaces
  <2>5. Box!Emplace(w, h)
    BY <1>1, <1>4, <2>4, BoxReads DEF Box!Emplace, Box!Done, Returned, Shows
  <2> QED
    BY <1>2, <2>4, <2>5 DEF Kept, Box!Next
<1>5. CASE Commit(SetPtr(d, w, Null)) /\ Returned("emplace", w, Outside, TRUE)
  <2> HIDE DEF h, d
  <2>1. Replaced(SetPtr(d, w, Null), Wraps, w, Null)
    BY <1>3, Emptied
  <2>2. CallOK'
    BY <1>5, Returns DEF Ops
  <2>3. IInv' /\ ub' = ub /\ Shows' = [Shows EXCEPT ![w] = Null]
    BY <1>5, <2>1, <2>2, Replaces
  <2>4. Box!Emplace(w, h)
    BY <1>1, <1>5, <2>3, BoxReads DEF Box!Emplace, Box!Done, Returned, Shows
  <2> QED
    BY <1>2, <2>3, <2>4 DEF Kept, Box!Next
<1> QED BY <1>4, <1>5 DEF Emplace

LEMMA WriteKeeps ==
  ASSUME Owning, NEW w \in Wraps, NEW v \in Vals, Write(w, v) PROVE Kept
<1> DEFINE n == SetValue(Now, Now.ptr[w], v)
           h == [type |-> TypeOf(Now, w), val |-> v]
<1>1. Valid(Now, w) /\ Commit(n) /\ Returned("write", w, Outside, FALSE)
  BY DEF Write, Now
<1>2. Good(Now, Wraps) /\ Wraps \in SUBSET Slots /\ ptr[Temp] = NoWrap
  BY DEF Owning, Slots
<1>3. ValueSet(n, Now, Wraps, w, v)
  BY <1>1, <1>2, SetValueGood
<1> HIDE DEF n
<1>4. Replaced(n, Wraps, w, h)
  BY <1>2, <1>3 DEF ValueSet, Replaced, Settled, Now
<1>5. CallOK'
  BY <1>1, Returns DEF Ops
<1>6. Shows[w].type = TypeOf(Now, w) /\ Box!Full(w)
  BY <1>1, BoxReads DEF TypeOf
<1> HIDE DEF h
<1>7. IInv' /\ ub' = ub /\ Shows' = [Shows EXCEPT ![w] = h]
  BY <1>1, <1>4, <1>5, Replaces
<1>8. Box!Write(w, v)
  BY <1>1, <1>6, <1>7 DEF Box!Write, Box!Done, Returned, Shows, h
<1> QED
  BY <1>7, <1>8 DEF Kept, Box!Next

LEMMA CopyConstructKeeps ==
  ASSUME Owning, NEW w \in Wraps, NEW o \in Wraps, CopyConstruct(w, o) PROVE Kept
<1> DEFINE V == Wraps \ {w}
           h == HolderOf(Now, o)
<1>1. Copyable /\ ~ IsWrap(Now, w) /\ Valid(Now, o)
  BY DEF CopyConstruct
<1>2. o \in V /\ Now \in State /\ Now.ub = ub /\ Now.ptr = ptr /\ ptr[Temp] = NoWrap
  BY <1>1 DEF Valid, IsWrap, Owning, Good, Now
<1>3. Good(Now, V) /\ w \in Slots \ V /\ V \in SUBSET Slots /\ V \cup {w} = Wraps /\ w # Temp
  BY <1>1, NotBuilt
<1>4. ~ Box!Exists(w) /\ Box!Full(o) /\ Shows[o] = h
  BY <1>1, BoxReads
<1>5. CASE Returned("copy construct", w, o, FALSE)
           /\ \E p \in CopyPlaces(Now, w, o) : Commit(CopyInit(Now, w, o, p))
  <2>1. PICK p \in CopyPlaces(Now, w, o) : Commit(CopyInit(Now, w, o, p))
    BY <1>5
  <2> DEFINE n == CopyInit(Now, w, o, p)
  <2>2. Commit(n)
    BY <2>1
  <2> HIDE DEF V, h
  <2>3. Constructed(n, Now, V, w, p, HolderOf(Now, o))
    BY <1>1, <1>2, <1>3, CopyInitGood
  <2> HIDE DEF n
  <2>4. Replaced(n, Wraps, w, h)
    BY <1>2, <1>3, <2>3 DEF Constructed, Replaced, Settled, State, V, h
  <2>5. CallOK'
    BY <1>5, Returns DEF Ops
  <2>6. IInv' /\ ub' = ub /\ Shows' = [Shows EXCEPT ![w] = h]
    BY <2>2, <2>4, <2>5, Replaces
  <2>7. Box!CopyCreate(w, o)
    BY <1>4, <1>5, <2>6 DEF Box!CopyCreate, Box!Done, Returned, Shows
  <2> QED
    BY <2>6, <2>7 DEF Kept, Box!Next
<1>6. CASE Commit(Now) /\ Returned("copy construct", w, o, TRUE)
  <2>1. CallOK'
    BY <1>6, Returns DEF Ops
  <2>2. IInv' /\ ub' = ub /\ Shows' = Shows
    BY <1>6, <2>1, Unchanged
  <2>3. Box!CopyCreate(w, o)
    BY <1>4, <1>6, <2>2 DEF Box!CopyCreate, Box!Done, Returned, Shows
  <2> QED
    BY <2>2, <2>3 DEF Kept, Box!Next
<1> QED BY <1>5, <1>6 DEF CopyConstruct

(* What the code leaves in a source is what the abstract box may leave.    *)
LEMMA LeftIsLeftover ==
  ASSUME Owning, NEW o \in Wraps
  PROVE  Left(Now, o) = Box!Leftover(Shows[o])
<1>1. Shows[o] \notin {Null, NoWrap} => Valid(Now, o)
  BY DEF Shows, Seen, Valid
<1>2. Valid(Now, o) => /\ Shows[o] \notin {Null, NoWrap}
                       /\ Shows[o].type = TypeOf(Now, o)
  BY BoxReads, ConstantsOK DEF ConstantsOK, TypeOf
<1>3. Shows[o] = Seen(Now, o)
  BY BoxReads
<1> QED
  BY <1>1, <1>2, <1>3 DEF Left, Box!Leftover, Box!Hollowed

LEMMA MoveConstructKeeps ==
  ASSUME Owning, NEW w \in Wraps, NEW o \in Wraps, MoveConstruct(w, o) PROVE Kept
<1> DEFINE V == Wraps \ {w}
           n == MoveInitFrom(Now, w, o)
<1>1. Movable /\ ~ IsWrap(Now, w) /\ IsWrap(Now, o) /\ Commit(n)
      /\ Returned("move construct", w, o, FALSE)
  BY DEF MoveConstruct
<1>2. o \in V /\ w # o /\ Now \in State /\ Now.ub = ub /\ Now.ptr = ptr /\ ptr[Temp] = NoWrap
  BY <1>1 DEF Owning, Good, Now
<1>3. /\ Good(Now, V) /\ w \in Slots \ V /\ V \in SUBSET Slots /\ V \cup {w} = Wraps
      /\ Temp \in Slots \ {w} /\ V \ {o} = Wraps \ {w, o}
  BY <1>1, NotBuilt DEF Slots
<1> HIDE DEF V
<1>4. MovedInit(n, Now, V, w, o)
  BY <1>1, <1>2, <1>3, MoveInitGood
<1> HIDE DEF n
<1>5. Exchanged(n, w, Seen(Now, o), o, Seen(n, o)) /\ Seen(n, o) \in Left(Now, o)
  BY <1>2, <1>3, <1>4 DEF MovedInit, Exchanged, Settled, IsWrap
<1>6. CallOK'
  BY <1>1, Returns DEF Ops
<1>7. IInv' /\ ub' = ub /\ Shows' = [Shows EXCEPT ![w] = Seen(Now, o), ![o] = Seen(n, o)]
  <2>1. Exchanged(n, w, Seen(Now, o), o, Seen(n, o)) /\ Commit(n) /\ w # o
    BY <1>1, <1>2, <1>5
  <2> QED
    BY <1>6, <2>1, Exchanges
<1>8. Seen(n, o) \in Box!Leftover(Shows[o]) /\ Shows[o] = Seen(Now, o)
      /\ ~ Box!Exists(w) /\ Box!Exists(o)
  BY <1>1, <1>5, LeftIsLeftover, BoxReads
<1>9. Box!MoveCreate(w, o)
  BY <1>1, <1>7, <1>8 DEF Box!MoveCreate, Box!Done, Returned, Shows
<1> QED
  BY <1>7, <1>9 DEF Kept, Box!Next

(* Two distinct wraps, one of them assigned to from the other by move.     *)
LEMMA MoveAssignExchanges ==
  ASSUME Owning, Movable, NEW w \in Wraps, NEW o \in Wraps, w # o, IsWrap(Now, w), IsWrap(Now, o),
         Invalid(Now, o) => Invalid(Now, w),
         Commit(MoveAssign(Now, w, o)), CallOK'
  PROVE  \E c : /\ IInv' /\ ub' = ub /\ Shows' = [Shows EXCEPT ![w] = Shows[o], ![o] = c]
                /\ \/ c \in Box!Leftover(Shows[o])
                   \/ Box!Full(w) /\ Shows[w].type = Shows[o].type /\ c = Shows[w]
<1> DEFINE n == MoveAssign(Now, w, o)
<1>1. Good(Now, Wraps) /\ Wraps \in SUBSET Slots /\ Temp \in Slots /\ ptr[Temp] = NoWrap
      /\ Now.ub = ub /\ Now.ptr = ptr
  BY DEF Owning, Slots, Now
<1>2. MoveAssigned(n, Now, Wraps, w, o)
  BY <1>1, MoveAssignGood
<1>3. Commit(n)
  OBVIOUS
<1> HIDE DEF n
<1>4. Exchanged(n, w, Seen(Now, o), o, Seen(n, o))
  BY <1>1, <1>2 DEF MoveAssigned, Exchanged, Settled, IsWrap
<1>5. IInv' /\ ub' = ub /\ Shows' = [Shows EXCEPT ![w] = Seen(Now, o), ![o] = Seen(n, o)]
  BY <1>3, <1>4, Exchanges
<1>6. Shows[o] = Seen(Now, o) /\ Shows[w] = Seen(Now, w)
  BY BoxReads
<1>7. CASE Seen(n, o) \in Left(Now, o)
  BY <1>5, <1>6, <1>7, LeftIsLeftover
<1>8. CASE Valid(Now, w) /\ Valid(Now, o) /\ TypeOf(Now, w) = TypeOf(Now, o)
           /\ Seen(n, o) = Seen(Now, w)
  <2>1. Box!Full(w) /\ Shows[w] = HolderOf(Now, w) /\ Shows[o] = HolderOf(Now, o)
    BY <1>8, BoxReads
  <2>2. Shows[w].type = Shows[o].type
    BY <1>8, <2>1 DEF TypeOf
  <2> QED
    BY <1>5, <1>6, <1>8, <2>1, <2>2
<1> QED BY <1>2, <1>7, <1>8 DEF MoveAssigned

LEMMA MoveAssignmentKeeps ==
  ASSUME Owning, NEW w \in Wraps, NEW o \in Wraps, MoveAssignment(w, o) PROVE Kept
<1>1. Movable /\ IsWrap(Now, w) /\ IsWrap(Now, o) /\ Returned("move assign", w, o, FALSE)
  BY DEF MoveAssignment
<1>2. CallOK'
  BY <1>1, Returns DEF Ops
<1>3. CASE w = o /\ Commit(Now)
  <2>1. IInv' /\ ub' = ub /\ Shows' = Shows
    BY <1>2, <1>3, Unchanged
  <2>2. Box!MoveAssign(w, o)
    BY <1>1, <1>3, <2>1, BoxReads DEF Box!MoveAssign, Box!Done, Returned, Shows
  <2> QED
    BY <2>1, <2>2 DEF Kept, Box!Next
<1>4. CASE w # o /\ (Invalid(Now, o) => Invalid(Now, w)) /\ Commit(MoveAssign(Now, w, o))
  <2>1. PICK c : /\ IInv' /\ ub' = ub /\ Shows' = [Shows EXCEPT ![w] = Shows[o], ![o] = c]
                 /\ \/ c \in Box!Leftover(Shows[o])
                    \/ Box!Full(w) /\ Shows[w].type = Shows[o].type /\ c = Shows[w]
    BY <1>1, <1>2, <1>4, MoveAssignExchanges
  <2>2. Box!Full(o) \/ ~ Box!Full(w)
    BY <1>1, <1>4, BoxReads DEF Invalid, Valid, IsWrap
  <2>3. Box!Exists(w) /\ Box!Exists(o)
    BY <1>1, BoxReads
  <2>4. Box!MoveAssign(w, o)
    BY <1>1, <1>4, <2>1, <2>2, <2>3 DEF Box!MoveAssign, Box!Done, Returned, Shows
  <2> QED
    BY <2>1, <2>4 DEF Kept, Box!Next
<1> QED BY <1>3, <1>4 DEF MoveAssignment

LEMMA CopySelfKeeps ==
  ASSUME Owning, NEW w \in Wraps, CopySelf(w) PROVE Kept
<1>1. IsWrap(Now, w) /\ Commit(Now) /\ Returned("copy assign", w, w, FALSE)
  BY DEF CopySelf
<1>2. CallOK'
  BY <1>1, Returns DEF Ops
<1>3. IInv' /\ ub' = ub /\ Shows' = Shows
  BY <1>1, <1>2, Unchanged
<1>4. Box!CopyAssign(w, w)
  BY <1>1, <1>3, BoxReads DEF Box!CopyAssign, Box!Done, Returned, Shows
<1> QED
  BY <1>3, <1>4 DEF Kept, Box!Next

LEMMA CopyByTempKeeps ==
  ASSUME Owning, NEW w \in Wraps, NEW o \in Wraps, CopyByTemp(w, o) PROVE Kept
<1>1. Copyable /\ Movable /\ w # o /\ IsWrap(Now, w) /\ Valid(Now, o) /\ ~ InPlace(Now, w, o)
  BY ConstantsOK DEF CopyByTemp, ConstantsOK, ValidConfig
<1>2. Good(Now, Wraps) /\ Now.ptr[Temp] = NoWrap
  BY DEF Owning, Now
<1>3. Box!Exists(w) /\ Box!Full(o) /\ Shows[o] = Seen(Now, o)
  BY <1>1, BoxReads
<1>4. CASE Returned("copy assign", w, o, FALSE)
           /\ \E p \in CopyPlaces(Now, Temp, o) :
                Commit(Dtor(MoveAssign(CopyInit(Now, Temp, o, p), w, Temp), Temp))
  <2>1. PICK p \in CopyPlaces(Now, Temp, o) :
               Commit(Dtor(MoveAssign(CopyInit(Now, Temp, o, p), w, Temp), Temp))
    BY <1>4
  <2> DEFINE n == Dtor(MoveAssign(CopyInit(Now, Temp, o, p), w, Temp), Temp)
  <2>2. CopiedInto(n, Now, Wraps, w, o)
    BY <1>1, <1>2, CopyByTempGood
  <2>3. Commit(n)
    BY <2>1
  <2> HIDE DEF n
  <2>4. Replaced(n, Wraps, w, Seen(Now, o))
    BY <2>2 DEF CopiedInto, Replaced
  <2>5. CallOK'
    BY <1>4, Returns DEF Ops
  <2>6. IInv' /\ ub' = ub /\ Shows' = [Shows EXCEPT ![w] = Seen(Now, o)]
    BY <2>3, <2>4, <2>5, Replaces
  <2>7. Box!CopyAssign(w, o)
    BY <1>3, <1>4, <2>6 DEF Box!CopyAssign, Box!Done, Returned, Shows
  <2> QED
    BY <2>6, <2>7 DEF Kept, Box!Next
<1>5. CASE Commit(Now) /\ Returned("copy assign", w, o, TRUE)
  <2>1. CallOK'
    BY <1>5, Returns DEF Ops
  <2>2. IInv' /\ ub' = ub /\ Shows' = Shows
    BY <1>5, <2>1, Unchanged
  <2>3. Box!CopyAssign(w, o)
    BY <1>1, <1>3, <1>5, <2>2 DEF Box!CopyAssign, Box!Done, Returned, Shows
  <2> QED
    BY <2>2, <2>3 DEF Kept, Box!Next
<1> QED BY <1>4, <1>5 DEF CopyByTemp

LEMMA CopyInPlaceKeeps ==
  ASSUME Owning, NEW w \in Wraps, NEW o \in Wraps, CopyInPlace(w, o) PROVE Kept
<1>1. /\ Copyable /\ w # o /\ Valid(Now, w) /\ Valid(Now, o) /\ TypeOf(Now, w) = TypeOf(Now, o)
      /\ IsWrap(Now, w)
  BY DEF CopyInPlace, InPlace, IsWrap, Invalid, Valid
<1>2. Good(Now, Wraps) /\ Wraps \in SUBSET Slots /\ ptr[Temp] = NoWrap /\ Now \in State
      /\ Now.ptr = ptr
  BY DEF Owning, Slots, Good, Now
<1>3. AssertSameStorage(Now, w, o) = {} /\ Accuse(Now, {}) = Now
  BY <1>1, <1>2, SameStorage, NotAccused
<1>4. Run(Now, ptr[o], "copy assign") = {}
  <2>1. Wrappable(TypeOf(Now, o))
    BY <1>1, <1>2, SeenKinds
  <2>2. "copy assign" \in Can[TypeOf(Now, o)]
    BY <1>1, <2>1 DEF Wrappable, CopyableType, Members
  <2>3. Run(Now, Now.ptr[o], "copy assign") = {}
    BY <1>1, <1>2, <2>2, RunBlameless
  <2> QED BY <1>2, <2>3
<1> DEFINE x(threw) == IF threw THEN Hollow ELSE HolderOf(Now, o).val
           n(threw) == SetValue(Now, Now.ptr[w], x(threw))
<1>5. PICK threw \in BOOLEAN : Commit(n(threw)) /\ Returned("copy assign", w, o, threw)
  BY <1>2, <1>3, <1>4 DEF CopyInPlace, Blame
<1>6. x(threw) \in Vals \cup {Hollow}
      /\ (~ threw => [type |-> TypeOf(Now, w), val |-> x(threw)] = Seen(Now, o))
  BY <1>1, <1>2, SameContent
<1> HIDE DEF x
<1>7. ValueSet(n(threw), Now, Wraps, w, x(threw))
  BY <1>1, <1>2, <1>6, SetValueGood
<1> DEFINE c == [type |-> TypeOf(Now, w), val |-> x(threw)]
           k == n(threw)
<1>8. Commit(k) /\ ValueSet(k, Now, Wraps, w, x(threw))
  BY <1>5, <1>7
<1> HIDE DEF n, k
<1>9. Replaced(k, Wraps, w, c)
  BY <1>2, <1>8 DEF ValueSet, Replaced, Settled
<1>10. CallOK'
  BY <1>5, Returns DEF Ops
<1>11. /\ Box!Exists(w) /\ Box!Full(w) /\ Box!Full(o) /\ Shows[o] = Seen(Now, o)
       /\ Shows[w] = HolderOf(Now, w) /\ Shows[o] = HolderOf(Now, o)
  BY <1>1, BoxReads
<1>12. Shows[w].type = TypeOf(Now, w) /\ Shows[w].type = Shows[o].type
  BY <1>1, <1>11 DEF TypeOf
<1>13. (~ threw => c = Shows[o]) /\ (threw => c = Box!Hollowed(Shows[w]))
  BY <1>6, <1>11, <1>12 DEF Box!Hollowed, x
<1> HIDE DEF c
<1>14. IInv' /\ ub' = ub /\ Shows' = [Shows EXCEPT ![w] = c]
  BY <1>8, <1>9, <1>10, Replaces
<1>15. Box!CopyAssign(w, o)
  BY <1>1, <1>5, <1>11, <1>12, <1>13, <1>14 DEF Box!CopyAssign, Box!Done, Returned, Shows
<1> QED
  BY <1>14, <1>15 DEF Kept, Box!Next

(* The one operation that can be blamed: assigning a value needs an        *)
(* assignment operator, which Wrappable does not always promise.           *)
Assigner(how) == IF how = "copy" THEN "copy assign" ELSE "move assign"

LEMMA AccuseGood ==
  ASSUME NEW s, NEW W, Good(s, W), NEW b \in SUBSET Blames
  PROVE  LET n == Accuse(s, b) IN
         Good(n, W) /\ n.ptr = s.ptr /\ n.held = s.held /\ n.ub = s.ub \cup b
<1> DEFINE n == Accuse(s, b)
<1>1. n.ptr = s.ptr /\ n.held = s.held /\ n.ub = s.ub \cup b /\ n \in State
  BY DEF Accuse, Good, State
<1>2. \A w \in W : /\ Valid(n, w) <=> Valid(s, w)
                   /\ HolderOf(n, w) = HolderOf(s, w) /\ TypeOf(n, w) = TypeOf(s, w)
                   /\ Stype(n, w) <=> Stype(s, w)
  BY <1>1 DEF Valid, HolderOf, TypeOf, Stype
<1>3. Good(n, W)
  BY <1>1, <1>2 DEF Good
<1> QED
  BY <1>1, <1>3

LEMMA AssignValueKeeps ==
  ASSUME Owning, NEW w \in Wraps, NEW t \in Types, NEW v \in Vals, NEW how, AssignValue(w, t, v, how)
  PROVE  /\ IInv' /\ Box!Next
         /\ ub' = ub \cup Run(Now, ptr[w], Assigner(how))
         /\ Valid(Now, w) /\ Wrappable(TypeOf(Now, w)) /\ Constructible(TypeOf(Now, w), how)
<1> DEFINE b == Run(Now, ptr[w], Assigner(how))
           r == Accuse(Now, b)
           x(threw) == IF threw THEN Hollow ELSE v
           n(threw) == SetValue(r, r.ptr[w], x(threw))
<1>1. Good(Now, Wraps) /\ Wraps \in SUBSET Slots /\ Now.ptr = ptr /\ Now.ub = ub
      /\ ptr[Temp] = NoWrap /\ b \in SUBSET Blames
  BY RunIsBlame DEF Owning, Slots, Now
<1>2. Valid(Now, w) /\ Wrappable(t) /\ Constructible(t, how) /\ TypeOf(Now, w) = t
  BY DEF AssignValue
<1>3. Good(r, Wraps) /\ r.ptr = Now.ptr /\ r.held = Now.held /\ r.ub = Now.ub \cup b
  BY <1>1, AccuseGood
<1>4. PICK threw \in BOOLEAN : Commit(n(threw)) /\ Returned("assign", w, Outside, threw)
  BY <1>1, <1>3 DEF AssignValue, Blame, Assigner
<1> HIDE DEF b, r
<1>5. Valid(r, w) /\ TypeOf(r, w) = t /\ SameSeen(r, Now, Wraps)
  BY <1>2, <1>3 DEF Valid, TypeOf, HolderOf, SameSeen, Seen
<1> DEFINE k == n(threw)
           c == [type |-> t, val |-> x(threw)]
<1>6. ValueSet(k, r, Wraps, w, x(threw))
  BY <1>1, <1>3, <1>5, SetValueGood
<1>7. Commit(k)
  BY <1>4
<1> HIDE DEF n, k
<1>8. Good(k, Wraps) /\ k.ptr[Temp] = NoWrap /\ k.ub = ub \cup b /\ Seen(k, w) = c
      /\ SameSeen(k, Now, Wraps \ {w})
  BY <1>1, <1>3, <1>5, <1>6 DEF ValueSet, SameSeen
<1>9. CallOK'
  BY <1>4, Returns DEF Ops
<1>10. IInv' /\ ub' = k.ub /\ Shows' = [u \in Wraps |-> Seen(k, u)]
  BY <1>7, <1>8, <1>9, Settles
<1>11. Shows' = [Shows EXCEPT ![w] = c]
  BY <1>8, <1>10 DEF Shows, SameSeen
<1>12. Box!Exists(w) /\ Box!Full(w) /\ Shows[w].type = t
  BY <1>2, BoxReads DEF TypeOf, IsWrap, Valid
<1> DEFINE h == [type |-> t, val |-> v]
<1>13. h \in Box!Content /\ h.type = t /\ (~ threw => c = h) /\ (threw => c = Box!Hollowed(h))
  BY DEF Box!Content, Box!Hollowed
<1> HIDE DEF c, h
<1>14. Box!Assign(w, h)
  BY <1>4, <1>11, <1>12, <1>13 DEF Box!Assign, Box!Done, Returned, Shows
<1>15. Box!Next
  BY <1>13, <1>14 DEF Box!Next
<1> QED
  BY <1>2, <1>8, <1>10, <1>15 DEF b

(* Two full wraps exchanged.                                               *)
LEMMA ContentsExchange ==
  ASSUME Owning, NEW n, NEW w \in Wraps, NEW o \in Wraps, w # o, Valid(Now, w), Valid(Now, o),
         ContentsSwapped(n, Now, Wraps, w, o), Commit(n), Returned("swap", w, o, FALSE)
  PROVE  Kept
<1>1. Exchanged(n, w, Seen(Now, o), o, Seen(Now, w))
  BY DEF ContentsSwapped, Exchanged, Settled, Owning, Slots, IsWrap, Now
<1>2. CallOK'
  BY Returns DEF Ops
<1>3. IInv' /\ ub' = ub /\ Shows' = [Shows EXCEPT ![w] = Seen(Now, o), ![o] = Seen(Now, w)]
  BY <1>1, <1>2, Exchanges
<1>4. /\ Box!Full(w) /\ Box!Full(o) /\ Box!Exists(w) /\ Box!Exists(o)
      /\ Shows[w] = Seen(Now, w) /\ Shows[o] = Seen(Now, o)
  BY BoxReads DEF Valid, IsWrap
<1>5. Box!Swap(w, o)
  BY <1>3, <1>4 DEF Box!Swap, Box!Done, Returned, Shows
<1> QED
  BY <1>3, <1>5 DEF Kept, Box!Next

LEMMA SwapKeeps ==
  ASSUME Owning, NEW w \in Wraps, NEW o \in Wraps, Swap(w, o) PROVE Kept
<1>1. /\ Swappable /\ Movable /\ IsWrap(Now, w) /\ IsWrap(Now, o)
      /\ Returned("swap", w, o, FALSE)
  BY DEF Swap
<1>2. CallOK'
  BY <1>1, Returns DEF Ops
<1>3. Good(Now, Wraps) /\ Now.ptr[Temp] = NoWrap /\ Wraps \in SUBSET Slots
  BY DEF Owning, Now, Slots
<1>4. Box!Exists(w) /\ Box!Exists(o)
  BY <1>1, BoxReads
<1>5. CASE (w = o \/ (Invalid(Now, w) /\ Invalid(Now, o))) /\ Commit(Now)
  <2>1. IInv' /\ ub' = ub /\ Shows' = Shows
    BY <1>2, <1>5, Unchanged
  <2>2. w = o \/ (~ Box!Full(w) /\ ~ Box!Full(o))
    BY <1>5, BoxReads DEF Invalid, Valid
  <2>3. Box!Swap(w, o)
    BY <1>1, <1>4, <2>1, <2>2 DEF Box!Swap, Box!Done, Returned, Shows
  <2> QED
    BY <2>1, <2>3 DEF Kept, Box!Next
<1>6. CASE Invalid(Now, w) /\ Valid(Now, o) /\ Commit(MoveAssign(Now, w, o))
  <2>1. w # o /\ ~ Invalid(Now, o) /\ ~ Box!Full(w) /\ Box!Full(o)
    BY <1>6, BoxReads DEF Invalid, Valid
  <2>2. PICK c : /\ IInv' /\ ub' = ub /\ Shows' = [Shows EXCEPT ![w] = Shows[o], ![o] = c]
                 /\ \/ c \in Box!Leftover(Shows[o])
                    \/ Box!Full(w) /\ Shows[w].type = Shows[o].type /\ c = Shows[w]
    BY <1>1, <1>2, <1>6, <2>1, MoveAssignExchanges
  <2>3. Box!Swap(w, o)
    BY <1>1, <1>4, <2>1, <2>2 DEF Box!Swap, Box!Done, Returned, Shows
  <2> QED
    BY <2>2, <2>3 DEF Kept, Box!Next
<1>7. CASE Valid(Now, w) /\ Invalid(Now, o) /\ Commit(MoveAssign(Now, o, w))
  <2>1. w # o /\ ~ Invalid(Now, w) /\ Box!Full(w) /\ ~ Box!Full(o)
    BY <1>7, BoxReads DEF Invalid, Valid
  <2>2. PICK c : /\ IInv' /\ ub' = ub /\ Shows' = [Shows EXCEPT ![o] = Shows[w], ![w] = c]
                 /\ \/ c \in Box!Leftover(Shows[w])
                    \/ Box!Full(o) /\ Shows[o].type = Shows[w].type /\ c = Shows[o]
    BY <1>1, <1>2, <1>7, <2>1, MoveAssignExchanges
  <2>3. Box!Swap(w, o)
    BY <1>1, <1>4, <2>1, <2>2 DEF Box!Swap, Box!Done, Returned, Shows
  <2> QED
    BY <2>2, <2>3 DEF Kept, Box!Next
<1>8. CASE w # o /\ Valid(Now, w) /\ Valid(Now, o) /\ TypeOf(Now, w) # TypeOf(Now, o)
           /\ Commit(SwapByTemp(Now, w, o))
  <2>1. ContentsSwapped(SwapByTemp(Now, w, o), Now, Wraps, w, o)
    BY <1>1, <1>3, <1>8, SwapByTempGood
  <2> QED
    BY <1>1, <1>8, <2>1, ContentsExchange
<1>9. CASE w # o /\ Valid(Now, w) /\ Valid(Now, o) /\ TypeOf(Now, w) = TypeOf(Now, o)
           /\ Commit(SwapSameType(Now, w, o))
  <2>1. ContentsSwapped(SwapSameType(Now, w, o), Now, Wraps, w, o)
    BY <1>1, <1>3, <1>9, SwapSameTypeGood
  <2> QED
    BY <1>1, <1>9, <2>1, ContentsExchange
<1> QED BY <1>5, <1>6, <1>7, <1>8, <1>9 DEF Swap

----------------------------------------------------------------------------
(* The invariant is inductive.                                             *)

LEMMA InitGood == Init => IInv /\ ub = {} /\ Box!Init
<1> SUFFICES ASSUME Init PROVE IInv /\ ub = {} /\ Box!Init
  OBVIOUS
<1>1. Now \in State /\ held[Null] = Raw /\ \A p \in Places : held[p] = Raw
  BY DEF Init, Now, State
<1>2. \A w \in Slots : ptr[w] = NoWrap /\ ~ Valid(Now, w)
  BY DEF Init, Now, Valid
<1>3. Wraps \in SUBSET Slots /\ Temp \in Slots
  BY DEF Slots
<1>4. Good(Now, Wraps)
  BY <1>1, <1>2, <1>3, Apart DEF Good, Now, Places
<1>5. CallOK
  BY DEF Init, CallOK, Ops
<1>6. Box!Init
  BY <1>2, <1>3 DEF Init, Box!Init, Seen, Now
<1>7. ub = {}
  BY DEF Init
<1> QED
  BY <1>2, <1>3, <1>4, <1>5, <1>6, <1>7 DEF IInv, Owning, CallOK

(* A step either keeps ub or is an assignment of a value.                  *)
AssignsValue ==
  \E w \in Wraps, t \in Types, v \in Vals, how \in {"copy", "move"} : AssignValue(w, t, v, how)

LEMMA NextGood ==
  ASSUME Owning, Next
  PROVE  IInv' /\ Box!Next /\ (ub' = ub \/ AssignsValue)
<1>1. CASE ~ AssignsValue
  <2>1. Kept
    BY <1>1, InvalidConstructKeeps, DestructKeeps, ResetKeeps, CopySelfKeeps, WriteKeeps,
       ConstructKeeps, AssignFreshKeeps, EmplaceKeeps, CopyConstructKeeps, MoveConstructKeeps,
       MoveAssignmentKeeps, CopyByTempKeeps, CopyInPlaceKeeps, SwapKeeps DEF Next, AssignsValue
  <2> QED
    BY <2>1 DEF Kept
<1>2. CASE AssignsValue
  <2>1. IInv' /\ Box!Next
    BY <1>2, AssignValueKeeps DEF AssignsValue
  <2> QED
    BY <1>2, <2>1
<1> QED BY <1>1, <1>2

LEMMA StepGood ==
  ASSUME IInv, [Next]_vars
  PROVE  IInv' /\ [Box!Next]_(Box!vars) /\ (ub' = ub \/ AssignsValue)
<1>1. CASE UNCHANGED vars
  <2>1. Now' = Now /\ call' = call /\ ptr' = ptr /\ ub' = ub
    BY <1>1 DEF vars, Now
  <2> QED
    BY <2>1 DEF IInv, Owning, CallOK, Box!vars
<1>2. CASE Next
  BY <1>2, NextGood DEF IInv
<1> QED BY <1>1, <1>2

(* Good(Now, Wraps) says more than the properties the runs check.          *)
LEMMA OwningSuffices ==
  ASSUME Owning PROVE Now \in State /\ OneOwnerPerHolder /\ StorageByType
<1>1. Now \in State
  BY DEF Owning, Good
<1>2. StorageByType
  BY DEF Owning, Good, StorageByType
<1>3. \A w \in Wraps : ptr[w] \in Blocks \cup {w, Null, NoWrap}
  BY DEF Owning, Good, Now
<1>4. ASSUME NEW p \in Places \cup {Null}
      PROVE  held[p] # Raw <=> p # Null /\ \E w \in Wraps : ptr[w] = p
  <2>1. CASE held[p] # Raw
    BY <2>1 DEF Owning, Good, Now
  <2>2. ASSUME p # Null, NEW w \in Wraps, ptr[w] = p PROVE held[p] # Raw
    <3>1. Valid(Now, w) /\ HolderOf(Now, w) = held[p]
      BY <2>2, Apart DEF Valid, HolderOf, Now
    <3> QED
      BY <3>1 DEF Owning, Good
  <2> QED BY <2>1, <2>2
<1>5. OneOwnerPerHolder
  BY <1>3, <1>4 DEF Owning, Good, OneOwnerPerHolder, Owned, Now
<1> QED BY <1>1, <1>2, <1>5

LEMMA IInvSuffices == IInv => TypeOK /\ OneOwnerPerHolder /\ StorageByType
  BY OwningSuffices DEF IInv, CallOK, TypeOK

THEOREM Invariance == Spec => []IInv
<1>1. Init => IInv
  BY InitGood
<1>2. IInv /\ [Next]_vars => IInv'
  BY StepGood
<1> QED BY <1>1, <1>2, PTL DEF Spec

(* Every pointer, holder and call record keeps its type: m_pv_iface is     *)
(* null, absent or an address, and memory is raw or holds a whole holder.  *)
THEOREM TypeCorrect == Spec => []TypeOK
  BY Invariance, IInvSuffices, PTL

(* Between calls every live holder has exactly one owner and every valid   *)
(* wrap a live holder: no operation leaks, double-deletes or leaves        *)
(* m_pv_iface dangling, on its normal or its throwing path.                *)
THEOREM Ownership == Spec => []OneOwnerPerHolder
  BY Invariance, IInvSuffices, PTL

(* stype() is a function of the value type: the assertions in assignment   *)
(* and swap can never fail.                                                *)
THEOREM StorageFollowsType == Spec => []StorageByType
  BY Invariance, IInvSuffices, PTL

(* The code implements the abstract box: whatever the storage, pointers    *)
(* and temporaries do, callers see whole contents created, copied, moved,  *)
(* exchanged and destroyed, with each throwing call's guarantee.           *)
THEOREM Implementation == Spec => ImplementsBox
<1>1. Init => Box!Init
  BY InitGood
<1>2. IInv /\ [Next]_vars => [Box!Next]_(Box!vars)
  BY StepGood
<1> QED BY <1>1, <1>2, Invariance, PTL DEF Spec, ImplementsBox, Box!Spec

(* The types for which being constructible implies being assignable in the *)
(* same way.  Wrappable promises it only of what the switches ask for.     *)
Regular ==
  \A t \in Types : Wrappable(t) =>
    /\ "copy ctor" \in Can[t] => "copy assign" \in Can[t]
    /\ "move ctor" \in Can[t] => "move assign" \in Can[t]

LEMMA RegularAssignment ==
  ASSUME Regular, Owning, AssignsValue PROVE ub' = ub
<1>1. PICK w \in Wraps, t \in Types, v \in Vals, how \in {"copy", "move"} :
             AssignValue(w, t, v, how)
  BY DEF AssignsValue
<1>2. /\ ub' = ub \cup Run(Now, ptr[w], Assigner(how))
      /\ Valid(Now, w) /\ Wrappable(TypeOf(Now, w)) /\ Constructible(TypeOf(Now, w), how)
  BY <1>1, AssignValueKeeps
<1>3. Good(Now, Wraps) /\ Wraps \in SUBSET Slots /\ Now.ptr = ptr
  BY DEF Owning, Slots, Now
<1>4. TypeOf(Now, w) \in Types
  BY <1>2, <1>3, SeenKinds
<1>5. Assigner(how) \in Can[TypeOf(Now, w)]
  BY <1>2, <1>4 DEF Regular, Constructible, Assigner
<1>6. Run(Now, Now.ptr[w], Assigner(how)) = {}
  BY <1>2, <1>3, <1>5, RunBlameless
<1> QED
  BY <1>2, <1>3, <1>6

(* When every type that can be wrapped is assignable in each way it is     *)
(* constructible, no call meets undefined behaviour or a failed assertion. *)
THEOREM Safety ==
  ASSUME Regular PROVE Spec => []NoUndefinedBehaviour
<1>1. Init => NoUndefinedBehaviour
  BY InitGood DEF NoUndefinedBehaviour
<1>2. IInv /\ NoUndefinedBehaviour /\ [Next]_vars => NoUndefinedBehaviour'
  BY StepGood, RegularAssignment DEF NoUndefinedBehaviour, IInv
<1> QED BY <1>1, <1>2, Invariance, PTL DEF Spec
----------------------------------------------------------------------------
(* Moves and swaps leave the heap alone: no helper they are made of        *)
(* constructs a holder in a heap block or assigns to the value of one.     *)
(* The steps that write to a holder write to one in static storage, which  *)
(* for the second of two wraps of equal type follows from the invariant.   *)

(* A state record whose memory includes the heap.                          *)
HasHeap(s) ==
  /\ s = [ptr |-> s.ptr, held |-> s.held, ub |-> s.ub]
  /\ Blocks \subseteq DOMAIN s.held
  /\ s.held = [p \in DOMAIN s.held |-> s.held[p]]

(* From s to n holders on the heap stay as they are or are destroyed.      *)
HeapKept(n, s) == HasHeap(n) /\ \A b \in Blocks : n.held[b] \in {s.held[b], Raw}

LEMMA StateHasHeap ==
  ASSUME NEW s \in State PROVE HasHeap(s)
  BY DEF State, HasHeap, Places

LEMMA HeapTransitive ==
  ASSUME NEW s, NEW m, NEW n, HeapKept(m, s), HeapKept(n, m)
  PROVE  HeapKept(n, s)
  BY DEF HeapKept

LEMMA NotOnHeap == \A w \in Slots : w \notin Blocks
  BY Apart

----------------------------------------------------------------------------
(* The helpers, one by one.                                                *)
LEMMA SetPtrHeap ==
  ASSUME NEW s, HasHeap(s), NEW w, NEW x
  PROVE  HeapKept(SetPtr(s, w, x), s)
  BY DEF HasHeap, HeapKept, SetPtr

LEMMA AccuseHeap ==
  ASSUME NEW s, HasHeap(s), NEW what
  PROVE  HeapKept(Accuse(s, what), s)
  BY DEF HasHeap, HeapKept, Accuse

LEMMA SetValueHeap ==
  ASSUME NEW s, HasHeap(s), NEW p \in Slots, NEW v
  PROVE  HeapKept(SetValue(s, p, v), s)
  BY NotOnHeap DEF HasHeap, HeapKept, SetValue

LEMMA NewHolderHeap ==
  ASSUME NEW s, HasHeap(s), NEW w, NEW p \in Slots, NEW h
  PROVE  HeapKept(NewHolder(s, w, p, h), s)
  BY NotOnHeap DEF HasHeap, HeapKept, NewHolder

LEMMA DestroyHeap ==
  ASSUME NEW s, HasHeap(s), NEW w
  PROVE  HeapKept(Destroy(s, w), s)
<1>1. CASE Invalid(s, w)
  BY <1>1 DEF Destroy, HeapKept
<1>2. CASE ~ Invalid(s, w)
  BY <1>2 DEF HasHeap, HeapKept, Destroy
<1> QED
  BY <1>1, <1>2

LEMMA DtorHeap ==
  ASSUME NEW s, HasHeap(s), NEW w
  PROVE  HeapKept(Dtor(s, w), s)
<1>1. HeapKept(Destroy(s, w), s)
  BY DestroyHeap
<1>2. HeapKept(SetPtr(Destroy(s, w), w, NoWrap), Destroy(s, w))
  BY <1>1, SetPtrHeap DEF HeapKept
<1> QED
  BY <1>1, <1>2, HeapTransitive DEF Dtor

LEMMA SwapPointersHeap ==
  ASSUME NEW s, HasHeap(s), NEW w, NEW o
  PROVE  HeapKept(SwapPointers(s, w, o), s)
<1>1. HeapKept(SetPtr(s, w, s.ptr[o]), s)
  BY SetPtrHeap
<1>2. HeapKept(SwapPointers(s, w, o), SetPtr(s, w, s.ptr[o]))
  BY <1>1, SetPtrHeap DEF HeapKept, SwapPointers
<1> QED
  BY <1>1, <1>2, HeapTransitive

LEMMA SetTwoHeap ==
  ASSUME NEW s, HasHeap(s), NEW p \in Slots, NEW q \in Slots, NEW v, NEW x
  PROVE  HeapKept(SetValue(SetValue(s, p, v), q, x), s)
<1>1. HeapKept(SetValue(s, p, v), s)
  BY SetValueHeap
<1>2. HeapKept(SetValue(SetValue(s, p, v), q, x), SetValue(s, p, v))
  BY <1>1, SetValueHeap DEF HeapKept
<1> QED
  BY <1>1, <1>2, HeapTransitive

LEMMA MoveInitHeap ==
  ASSUME NEW s, HasHeap(s), NEW w \in Slots, NEW o \in Slots
  PROVE  HeapKept(MoveInitFrom(s, w, o), s)
<1>1. CASE Stype(s, o)
  <2> DEFINE m == SetValue(s, o, Hollow)
             a == Accuse(m, Run(s, o, "move ctor"))
             n == NewHolder(a, w, w, s.held[o])
  <2>1. HeapKept(m, s)
    BY SetValueHeap
  <2> HIDE DEF m
  <2>2. HeapKept(a, m)
    BY <2>1, AccuseHeap DEF HeapKept
  <2> HIDE DEF a
  <2>3. HeapKept(n, a)
    BY <2>2, NewHolderHeap DEF HeapKept
  <2>4. MoveInitFrom(s, w, o) = n
    BY <1>1 DEF MoveInitFrom, n, a, m
  <2> HIDE DEF n
  <2>5. HeapKept(n, s)
    BY <2>1, <2>2, <2>3, HeapTransitive
  <2> QED
    BY <2>4, <2>5
<1>2. CASE ~ Stype(s, o)
  <2>1. HeapKept(SetPtr(s, w, s.ptr[o]), s)
    BY SetPtrHeap
  <2>2. HeapKept(SetPtr(SetPtr(s, w, s.ptr[o]), o, Null), SetPtr(s, w, s.ptr[o]))
    BY <2>1, SetPtrHeap DEF HeapKept
  <2> QED
    BY <1>2, <2>1, <2>2, HeapTransitive DEF MoveInitFrom
<1> QED
  BY <1>1, <1>2

----------------------------------------------------------------------------
(* The bodies, where the invariant tells that a value assigned to is in    *)
(* static storage.                                                         *)
LEMMA MoveAssignHeap ==
  ASSUME NEW s, NEW W \in SUBSET Slots, Good(s, W), NEW w \in W, NEW o \in W,
         IsWrap(s, w), IsWrap(s, o), Invalid(s, o) => Invalid(s, w)
  PROVE  HeapKept(MoveAssign(s, w, o), s)
<1>1. HasHeap(s) /\ w \in Slots /\ o \in Slots
  BY StateHasHeap DEF Good
<1>2. CASE Invalid(s, w)
  BY <1>1, <1>2, MoveInitHeap DEF MoveAssign
<1>3. CASE ~ Invalid(s, w) /\ TypeOf(s, w) # TypeOf(s, o)
  <2>1. HeapKept(Destroy(s, w), s)
    BY <1>1, DestroyHeap
  <2>2. HeapKept(MoveInitFrom(Destroy(s, w), w, o), Destroy(s, w))
    BY <1>1, <2>1, MoveInitHeap DEF HeapKept
  <2> QED
    BY <1>3, <2>1, <2>2, HeapTransitive DEF MoveAssign
<1>4. CASE ~ Invalid(s, w) /\ TypeOf(s, w) = TypeOf(s, o)
  <2> DEFINE a == Accuse(s, AssertSameStorage(s, w, o))
             r == Accuse(a, Run(s, s.ptr[o], "move assign"))
  <2>1. Valid(s, w) /\ Valid(s, o)
    BY <1>4 DEF Invalid, Valid, IsWrap
  <2>2. Stype(s, w) <=> Stype(s, o)
    BY <1>4, <2>1, SameStorage
  <2>3. HeapKept(a, s)
    BY <1>1, AccuseHeap
  <2>4. MoveAssign(s, w, o) = IF Stype(s, w)
                              THEN SetValue(SetValue(r, w, HolderOf(s, o).val), s.ptr[o], Hollow)
                              ELSE SwapPointers(a, w, o)
    BY <1>4 DEF MoveAssign
  <2> HIDE DEF a
  <2>5. HeapKept(r, a)
    BY <2>3, AccuseHeap DEF HeapKept
  <2> HIDE DEF r
  <2>6. CASE Stype(s, w)
    <3>1. s.ptr[o] \in Slots
      BY <1>1, <2>2, <2>6 DEF Stype
    <3>2. HeapKept(MoveAssign(s, w, o), r)
      BY <1>1, <2>4, <2>5, <2>6, <3>1, SetTwoHeap DEF HeapKept
    <3> QED
      BY <2>3, <2>5, <3>2, HeapTransitive
  <2>7. CASE ~ Stype(s, w)
    <3>1. HeapKept(MoveAssign(s, w, o), a)
      BY <2>3, <2>4, <2>7, SwapPointersHeap DEF HeapKept
    <3> QED
      BY <2>3, <3>1, HeapTransitive
  <2> QED
    BY <2>6, <2>7
<1> QED
  BY <1>2, <1>3, <1>4

LEMMA SwapSameTypeHeap ==
  ASSUME NEW s, NEW W \in SUBSET Slots, Good(s, W), NEW w \in W, NEW o \in W,
         Valid(s, w), Valid(s, o), TypeOf(s, w) = TypeOf(s, o)
  PROVE  HeapKept(SwapSameType(s, w, o), s)
<1> DEFINE a == Accuse(s, AssertSameStorage(s, w, o))
           r == Accuse(a, Run(s, s.ptr[o], "swap"))
<1>1. HasHeap(s) /\ w \in Slots /\ o \in Slots
  BY StateHasHeap DEF Good
<1>2. Stype(s, w) <=> Stype(s, o)
  BY SameStorage
<1>3. HeapKept(a, s)
  BY <1>1, AccuseHeap
<1>4. SwapSameType(s, w, o) =
        IF Stype(s, w)
        THEN SetValue(SetValue(r, w, HolderOf(s, o).val), s.ptr[o], HolderOf(s, w).val)
        ELSE SwapPointers(a, w, o)
  BY DEF SwapSameType
<1> HIDE DEF a
<1>5. HeapKept(r, a)
  BY <1>3, AccuseHeap DEF HeapKept
<1> HIDE DEF r
<1>6. CASE Stype(s, w)
  <2>1. s.ptr[o] \in Slots
    BY <1>1, <1>2, <1>6 DEF Stype
  <2>2. HeapKept(SwapSameType(s, w, o), r)
    BY <1>1, <1>4, <1>5, <1>6, <2>1, SetTwoHeap DEF HeapKept
  <2> QED
    BY <1>3, <1>5, <2>2, HeapTransitive
<1>7. CASE ~ Stype(s, w)
  <2>1. HeapKept(SwapSameType(s, w, o), a)
    BY <1>3, <1>4, <1>7, SwapPointersHeap DEF HeapKept
  <2> QED
    BY <1>3, <2>1, HeapTransitive
<1> QED
  BY <1>6, <1>7

LEMMA SwapByTempHeap ==
  ASSUME NEW s, Good(s, Wraps), Movable, NEW w \in Wraps, NEW o \in Wraps, w # o,
         Valid(s, w), Valid(s, o)
  PROVE  HeapKept(SwapByTemp(s, w, o), s)
<1> DEFINE All == Wraps \cup {Temp}
           m1 == MoveInitFrom(s, Temp, w)
           m2 == MoveAssign(m1, w, o)
           m3 == MoveAssign(m2, o, Temp)
<1>0. SwapByTemp(s, w, o) = Dtor(m3, Temp)
  BY DEF SwapByTemp
<1>1. /\ All \in SUBSET Slots /\ Wraps \in SUBSET Slots /\ Temp \in Slots \ Wraps /\ Temp \in All
      /\ Wraps \cup {Temp} = All /\ w \in All /\ o \in All /\ Temp # w /\ Temp # o /\ w \in Slots
  BY Apart DEF Slots
<1>2. /\ HolderOf(s, w) \in Holder /\ Seen(s, w) = HolderOf(s, w)
      /\ HolderOf(s, o) \in Holder /\ Seen(s, o) = HolderOf(s, o)
      /\ IsWrap(s, w) /\ IsWrap(s, o)
  BY <1>1, SeenKinds DEF Valid, IsWrap
<1>3. MovedInit(m1, s, Wraps, Temp, w) /\ HeapKept(m1, s)
  BY <1>1, <1>2, MoveInitGood, MoveInitHeap, StateHasHeap DEF Good
<1> HIDE DEF m1, All
<1>4. /\ Good(m1, All) /\ Seen(m1, Temp) = HolderOf(s, w) /\ Seen(m1, o) = HolderOf(s, o)
      /\ IsWrap(m1, w)
  BY <1>1, <1>2, <1>3 DEF MovedInit, SameSeen
<1>5. ~ Invalid(m1, o) /\ IsWrap(m1, o)
  BY <1>1, <1>2, <1>4, ShowsContent
<1>6. MoveAssigned(m2, m1, All, w, o) /\ HeapKept(m2, m1)
  BY <1>1, <1>4, <1>5, MoveAssignGood, MoveAssignHeap
<1> HIDE DEF m2
<1>7. Good(m2, All) /\ Seen(m2, Temp) = HolderOf(s, w) /\ IsWrap(m2, o)
  BY <1>1, <1>4, <1>5, <1>6 DEF MoveAssigned, SameSeen
<1>8. ~ Invalid(m2, Temp) /\ IsWrap(m2, Temp)
  BY <1>1, <1>2, <1>7, ShowsContent
<1>9. HeapKept(m3, m2)
  BY <1>1, <1>7, <1>8, MoveAssignHeap
<1> HIDE DEF m3
<1>10. HeapKept(Dtor(m3, Temp), m3)
  BY <1>9, DtorHeap DEF HeapKept
<1> QED
  BY <1>0, <1>3, <1>6, <1>9, <1>10, HeapTransitive

----------------------------------------------------------------------------
(* The operations.                                                         *)
Untouched == \A b \in Blocks : held'[b] \in {held[b], Raw}

LEMMA HeapCommitted ==
  ASSUME NEW n, HeapKept(n, Now), Commit(n) PROVE Untouched
  BY DEF HeapKept, Commit, Now, Untouched

LEMMA NothingCommitted ==
  ASSUME Commit(Now) PROVE Untouched
  BY DEF Commit, Now, Untouched

LEMMA MovesUntouched ==
  ASSUME IInv, NEW w \in Wraps, NEW o \in Wraps,
         MoveConstruct(w, o) \/ MoveAssignment(w, o) \/ Swap(w, o)
  PROVE  Untouched
<1>1. Good(Now, Wraps) /\ Wraps \in SUBSET Slots /\ HasHeap(Now) /\ w \in Slots /\ o \in Slots
  BY StateHasHeap DEF IInv, Owning, Good, Slots
<1>2. CASE MoveConstruct(w, o)
  BY <1>1, <1>2, MoveInitHeap, HeapCommitted DEF MoveConstruct
<1>3. CASE MoveAssignment(w, o)
  <2>1. CASE Commit(Now)
    BY <2>1, NothingCommitted
  <2>2. CASE Commit(MoveAssign(Now, w, o)) /\ (Invalid(Now, o) => Invalid(Now, w))
    BY <1>1, <1>3, <2>2, MoveAssignHeap, HeapCommitted DEF MoveAssignment
  <2> QED
    BY <1>3, <2>1, <2>2 DEF MoveAssignment
<1>4. CASE Swap(w, o)
  <2>1. Movable /\ IsWrap(Now, w) /\ IsWrap(Now, o)
    BY <1>4 DEF Swap
  <2>2. CASE Commit(Now)
    BY <2>2, NothingCommitted
  <2>3. CASE Invalid(Now, w) /\ Valid(Now, o) /\ Commit(MoveAssign(Now, w, o))
    BY <1>1, <2>1, <2>3, MoveAssignHeap, HeapCommitted
  <2>4. CASE Valid(Now, w) /\ Invalid(Now, o) /\ Commit(MoveAssign(Now, o, w))
    BY <1>1, <2>1, <2>4, MoveAssignHeap, HeapCommitted
  <2>5. CASE w # o /\ Valid(Now, w) /\ Valid(Now, o) /\ Commit(SwapByTemp(Now, w, o))
    BY <1>1, <2>1, <2>5, SwapByTempHeap, HeapCommitted
  <2>6. CASE Valid(Now, w) /\ Valid(Now, o) /\ TypeOf(Now, w) = TypeOf(Now, o)
             /\ Commit(SwapSameType(Now, w, o))
    BY <1>1, <2>6, SwapSameTypeHeap, HeapCommitted
  <2> QED
    BY <1>4, <2>2, <2>3, <2>4, <2>5, <2>6 DEF Swap
<1> QED
  BY <1>2, <1>3, <1>4

MoveOps == {"move construct", "move assign", "swap"}

LEMMA ReturnedOp ==
  ASSUME NEW op, NEW w, NEW o, NEW threw, Returned(op, w, o, threw)
  PROVE  call'.op = op
  BY DEF Returned

(* No other operation has one of these names.                              *)
LEMMA OtherOps ==
  ASSUME Next, call'.op \in MoveOps
  PROVE  \E w, o \in Wraps : MoveConstruct(w, o) \/ MoveAssignment(w, o) \/ Swap(w, o)
<1>1. call'.op \notin {"construct", "copy construct", "destroy", "copy assign", "reset", "assign",
                      "emplace", "write"}
  BY DEF MoveOps
<1>2. ASSUME NEW w \in Wraps
      PROVE  /\ ~ InvalidConstruct(w) /\ ~ Destruct(w) /\ ~ Reset(w) /\ ~ CopySelf(w)
             /\ \A v \in Vals : ~ Write(w, v)
  BY <1>1, ReturnedOp DEF InvalidConstruct, Destruct, Reset, CopySelf, Write
<1>3. ASSUME NEW w \in Wraps, NEW t \in Types, NEW v \in Vals, NEW how
      PROVE  ~ Construct(w, t, v, how) /\ ~ AssignFresh(w, t, v, how) /\ ~ AssignValue(w, t, v, how)
             /\ ~ Emplace(w, t, v)
  BY <1>1, ReturnedOp DEF Construct, AssignFresh, AssignValue, Emplace
<1>4. ASSUME NEW w \in Wraps, NEW o \in Wraps
      PROVE  ~ CopyConstruct(w, o) /\ ~ CopyByTemp(w, o) /\ ~ CopyInPlace(w, o)
  BY <1>1, ReturnedOp DEF CopyConstruct, CopyByTemp, CopyInPlace
<1> QED
  BY <1>2, <1>3, <1>4 DEF Next

(* Move construction, move assignment and swap neither construct a holder  *)
(* on the heap nor alter one, whatever the types and the storage of the    *)
(* wraps: they have no reason to throw, and pointers to heap values stay   *)
(* valid through them.                                                     *)
THEOREM HeapUntouched == Spec => MovesNeverAllocate
<1>1. ASSUME IInv, [Next]_vars
      PROVE  [call'.op \in {"move construct", "move assign", "swap"} =>
                \A b \in Blocks : held'[b] \in {held[b], Raw}]_vars
  <2>1. CASE UNCHANGED vars
    BY <2>1
  <2>2. CASE Next
    <3>1. ASSUME call'.op \in MoveOps PROVE Untouched
      BY <1>1, <2>2, <3>1, OtherOps, MovesUntouched
    <3> QED
      BY <3>1 DEF Untouched, MoveOps
  <2> QED
    BY <1>1, <2>1, <2>2
<1> QED
  BY <1>1, Invariance, PTL DEF Spec, MovesNeverAllocate
============================================================================
