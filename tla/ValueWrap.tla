----------------------------- MODULE ValueWrap -----------------------------
(***************************************************************************)
(* The wrap class of tanuki.hpp with value semantics: where each wrap's    *)
(* holder lives (the wrap's own static_storage or a heap block), what      *)
(* m_pv_iface points at, and what every constructor, assignment, emplace   *)
(* and swap does to both, step by step, including the throwing paths.      *)
(*                                                                         *)
(* An address is the name of a wrap (its static_storage), a heap block or  *)
(* Null.  Operators on a state record follow the source's helpers; an      *)
(* action composes them exactly as the operation's body does and commits   *)
(* the result, because nothing else runs during a call.                    *)
(***************************************************************************)
CONSTANTS
  Wraps,        (* The wrap objects of the program, all of one wrap class.    *)
  Temp,         (* The local wrap of copy assignment and of swap.             *)
  Blocks,       (* Heap blocks, each as large as any holder.                  *)
  Types,        (* The erased value types.                                    *)
  StaticTypes,  (* Types whose holder fits size and alignment of the storage. *)
  FragileTypes, (* Types whose copy, or construction from an argument, may     *)
                (* throw; a move between wraps never does: it is noexcept.     *)
  Can,          (* Can[t]: the special members value type t has.              *)
  Vals, Hollow, (* Values, and "valid but unspecified".                       *)
  Copyable, Movable, Swappable,  (* The switches of the configuration.        *)
  Null,         (* nullptr: m_pv_iface of the invalid state.                  *)
  NoWrap,       (* There is no wrap object here (not built, or destroyed).    *)
  NoType,       (* The "type" of raw memory.                                  *)
  Outside       (* A call's argument that is not a wrap.                      *)

Slots == Wraps \cup {Temp}
Places == Slots \cup Blocks
Members == {"copy ctor", "copy assign", "move ctor", "move assign", "swap"}

(* std::copyable, std::movable and std::swappable of the value type.       *)
CopyableType(t) == Members \subseteq Can[t]
MovableType(t) == {"move ctor", "move assign", "swap"} \subseteq Can[t]
SwappableType(t) == "swap" \in Can[t]

(* valid_config's constraints on the three switches.                       *)
ValidConfig == (Copyable => Movable) /\ (Movable => Swappable)

(* Mutant: the generic operations forget to ask for copyability.           *)
WrappableUncopyable(t) == (Movable => MovableType(t)) /\ (Swappable => SwappableType(t))

(* copy_move_swap_consistent: which types the generic operations accept.   *)
Wrappable(t) ==
  /\ Copyable => CopyableType(t)
  /\ Movable => MovableType(t)
  /\ Swappable => SwappableType(t)

(* A holder with its value, and what raw memory is represented by.         *)
Holder == [type : Types, val : Vals \cup {Hollow}]
Raw == [type |-> NoType, val |-> Hollow]

(* Names are told apart, the configuration is one valid_config accepts and *)
(* a type that can be copied can be moved (overload resolution falls back  *)
(* to the copy constructor).                                               *)
ASSUME ConstantsOK ==
  /\ Temp \notin Wraps /\ Slots \cap Blocks = {}
  /\ Null \notin Places /\ NoWrap \notin Places /\ Null # NoWrap
  /\ NoType \notin Types /\ Hollow \notin Vals
  /\ Null \notin Holder /\ NoWrap \notin Holder
  /\ StaticTypes \subseteq Types /\ FragileTypes \subseteq Types
  /\ Can \in [Types -> SUBSET Members]
  /\ \A t \in Types : "copy ctor" \in Can[t] => "move ctor" \in Can[t]
  /\ {Copyable, Movable, Swappable} \subseteq BOOLEAN
  /\ ValidConfig

VARIABLES
  ptr,    (* ptr[w]: m_pv_iface of wrap w, or NoWrap.                        *)
  held,   (* held[p]: the holder constructed at address p, or Raw.           *)
  ub,     (* The undefined behaviours and failed assertions met so far.      *)
  call    (* The last call: operation, destination, source, whether it threw. *)

vars == <<ptr, held, ub, call>>

Blames == {"no holder there", "unreachable() reached", "storage assertion",
           "holder overwritten", "destroyed twice", "foreign storage deleted"}
Ops == {"none", "construct", "copy construct", "move construct", "destroy", "copy assign",
        "move assign", "reset", "assign", "emplace", "swap", "write"}

State == [ptr : [Slots -> Places \cup {Null, NoWrap}],
          held : [Places \cup {Null} -> Holder \cup {Raw}],
          ub : SUBSET Blames]

Now == [ptr |-> ptr, held |-> held, ub |-> ub]
Commit(s) == ptr' = s.ptr /\ held' = s.held /\ ub' = s.ub
Returned(op, w, o, threw) ==
  call' = [op |-> op, dst |-> w, src |-> o, threw |-> threw]

Blame(cond, what) == IF cond THEN {what} ELSE {}
Accuse(s, what) == [s EXCEPT !.ub = @ \cup what]

----------------------------------------------------------------------------
(* What the code asks of a wrap.                                           *)

IsWrap(s, w) == s.ptr[w] # NoWrap
Invalid(s, w) == s.ptr[w] = Null
Valid(s, w) == s.ptr[w] \notin {Null, NoWrap}
Stype(s, w) == s.ptr[w] = w
HolderOf(s, w) == s.held[s.ptr[w]]
TypeOf(s, w) == HolderOf(s, w).type

(* Running a member of the holder at p that needs a special member of the  *)
(* value type: undefined on raw memory, and detail::unreachable() when the *)
(* type lacks the member.                                                  *)
Run(s, p, member) ==
  IF s.held[p] = Raw THEN {"no holder there"}
  ELSE Blame(member \notin Can[s.held[p].type], "unreachable() reached")

(* The assertion that wraps of one type use one kind of storage.           *)
AssertSameStorage(s, w, o) == Blame(Stype(s, w) # Stype(s, o), "storage assertion")

----------------------------------------------------------------------------
(* The private helpers of wrap and the primitives of holder.               *)

(* Assigning to m_pv_iface, and to the value in the holder at p.           *)
SetPtr(s, w, x) == [s EXCEPT !.ptr = [@ EXCEPT ![w] = x]]
SetValue(s, p, v) == [s EXCEPT !.held = [@ EXCEPT ![p].val = v]]

(* A new holder at p, pointed at by w.                                     *)
NewHolder(s, w, p, h) ==
  [ptr  |-> [s.ptr EXCEPT ![w] = p],
   held |-> [s.held EXCEPT ![p] = h],
   ub   |-> s.ub \cup Blame(s.held[p] # Raw, "holder overwritten")]

FreeBlocks(s) == {b \in Blocks : s.held[b] = Raw}

(* Mutant: the choice of storage does not follow from the type.            *)
CtorPlacesAnywhere(s, w, t) == IF t \in StaticTypes THEN {w} \cup FreeBlocks(s) ELSE FreeBlocks(s)

(* ctor_impl: in place if the holder fits, from the heap otherwise.  What  *)
(* the value's constructor throws propagates, also that of the constructor *)
(* moving the argument.                                                    *)
CtorPlaces(s, w, t) == IF t \in StaticTypes THEN {w} ELSE FreeBlocks(s)
CtorThrows(t) == t \notin StaticTypes \/ t \in FragileTypes

Constructible(t, how) ==
  /\ how = "copy" => "copy ctor" \in Can[t]
  /\ how = "move" => "move ctor" \in Can[t]

(* The copy constructor: copy_init_holder or clone_holder by other's       *)
(* storage.                                                                *)
CopyPlaces(s, w, o) == IF Stype(s, o) THEN {w} ELSE FreeBlocks(s)
CopyThrows(s, o) == ~ Stype(s, o) \/ TypeOf(s, o) \in FragileTypes
CopyInit(s, w, o, p) ==
  NewHolder(Accuse(s, Run(s, s.ptr[o], "copy ctor")), w, p, HolderOf(s, o))

(* Mutant: the source keeps its pointer to the heap holder it gave away.   *)
MoveInitFromKeeping(s, w, o) ==
  IF Stype(s, o)
  THEN NewHolder(SetValue(s, o, Hollow), w, w, s.held[o])
  ELSE SetPtr(s, w, s.ptr[o])

(* move_init_from: the value is moved out of static storage, a heap holder *)
(* changes hands.                                                          *)
MoveInitFrom(s, w, o) ==
  IF Stype(s, o)
  THEN NewHolder(Accuse(SetValue(s, o, Hollow), Run(s, o, "move ctor")), w, w, s.held[o])
  ELSE SetPtr(SetPtr(s, w, s.ptr[o]), o, Null)

(* destroy(): the destructor in static storage, delete otherwise; the      *)
(* pointer is left as it was.                                              *)
Destroy(s, w) ==
  IF Invalid(s, w) THEN s
  ELSE [s EXCEPT !.held = [@ EXCEPT ![s.ptr[w]] = Raw],
                 !.ub = @ \cup Blame(HolderOf(s, w) = Raw, "destroyed twice")
                          \cup Blame(s.ptr[w] \in Slots \ {w}, "foreign storage deleted")]

Dtor(s, w) == SetPtr(Destroy(s, w), w, NoWrap)

SwapPointers(s, w, o) == SetPtr(SetPtr(s, w, s.ptr[o]), o, s.ptr[w])

(* Mutant: equal types are destroyed first, like different ones.           *)
MoveAssignDestroyed(s, w, o) ==
  CASE Invalid(s, w) -> MoveInitFrom(s, w, o)
    [] ~ Invalid(s, w) /\ TypeOf(s, w) # TypeOf(s, o) -> MoveInitFrom(Destroy(s, w), w, o)
    [] OTHER ->
         IF Stype(s, w)
         THEN SetValue(SetValue(Destroy(s, w), w, HolderOf(s, o).val), s.ptr[o], Hollow)
         ELSE SwapPointers(s, w, o)

(* operator=(wrap &&), for distinct wraps.                                 *)
MoveAssign(s, w, o) ==
  CASE Invalid(s, w) -> MoveInitFrom(s, w, o)
    [] ~ Invalid(s, w) /\ TypeOf(s, w) # TypeOf(s, o) -> MoveInitFrom(Destroy(s, w), w, o)
    [] OTHER ->
         LET a == Accuse(s, AssertSameStorage(s, w, o))
             r == Accuse(a, Run(s, s.ptr[o], "move assign"))
         IN  IF Stype(s, w)
             THEN SetValue(SetValue(r, w, HolderOf(s, o).val), s.ptr[o], Hollow)
             ELSE SwapPointers(a, w, o)

(* Mutants of swap(): the second wrap never gets the first one's content;  *)
(* heap holders exchange their values instead of changing hands.           *)
SwapByTempHalf(s, w, o) ==
  Dtor(MoveAssign(MoveInitFrom(s, Temp, w), w, o), Temp)

SwapSameTypeByValue(s, w, o) ==
  SetValue(SetValue(s, s.ptr[w], HolderOf(s, o).val), s.ptr[o], HolderOf(s, w).val)

(* The two bodies of swap() for valid wraps.                               *)
SwapByTemp(s, w, o) ==
  LET moved1 == MoveInitFrom(s, Temp, w)
      moved2 == MoveAssign(moved1, w, o)
      moved3 == MoveAssign(moved2, o, Temp)
  IN  Dtor(moved3, Temp)

SwapSameType(s, w, o) ==
  LET a == Accuse(s, AssertSameStorage(s, w, o))
      r == Accuse(a, Run(s, s.ptr[o], "swap"))
  IN  IF Stype(s, w)
      THEN SetValue(SetValue(r, w, HolderOf(s, o).val), s.ptr[o], HolderOf(s, w).val)
      ELSE SwapPointers(a, w, o)

----------------------------------------------------------------------------
Init ==
  /\ ptr = [w \in Slots |-> NoWrap]
  /\ held = [p \in Places \cup {Null} |-> Raw]
  /\ ub = {}
  /\ \E w \in Wraps : call = [op |-> "none", dst |-> w, src |-> Outside, threw |-> FALSE]

(* wrap(invalid_wrap_t), and wrap() when it is configured to be the same.  *)
InvalidConstruct(w) ==
  /\ ~ IsWrap(Now, w)
  /\ Commit(SetPtr(Now, w, Null))
  /\ Returned("construct", w, Outside, FALSE)

(* The default, generic, reference and in-place constructors.              *)
Construct(w, t, v, how) ==
  /\ ~ IsWrap(Now, w)
  /\ Wrappable(t) /\ Constructible(t, how)
  /\ \/ /\ \E p \in CtorPlaces(Now, w, t) :
             Commit(NewHolder(Now, w, p, [type |-> t, val |-> v]))
        /\ Returned("construct", w, Outside, FALSE)
     \/ /\ CtorThrows(t)
        /\ Commit(Now)
        /\ Returned("construct", w, Outside, TRUE)

CopyConstruct(w, o) ==
  /\ Copyable
  /\ ~ IsWrap(Now, w) /\ Valid(Now, o)
  /\ \/ /\ \E p \in CopyPlaces(Now, w, o) : Commit(CopyInit(Now, w, o, p))
        /\ Returned("copy construct", w, o, FALSE)
     \/ /\ CopyThrows(Now, o)
        /\ Commit(Now)
        /\ Returned("copy construct", w, o, TRUE)

MoveConstruct(w, o) ==
  /\ Movable
  /\ ~ IsWrap(Now, w) /\ IsWrap(Now, o)
  /\ Commit(MoveInitFrom(Now, w, o))
  /\ Returned("move construct", w, o, FALSE)

Destruct(w) ==
  /\ IsWrap(Now, w)
  /\ Commit(Dtor(Now, w))
  /\ Returned("destroy", w, Outside, FALSE)

(* operator=(wrap &&).  The contract of the invalid state lets the source  *)
(* be invalid only if the destination is, too.                             *)
MoveAssignment(w, o) ==
  /\ Movable
  /\ IsWrap(Now, w) /\ IsWrap(Now, o)
  /\ \/ w = o /\ Commit(Now)
     \/ /\ w # o /\ (Invalid(Now, o) => Invalid(Now, w))
        /\ Commit(MoveAssign(Now, w, o))
  /\ Returned("move assign", w, o, FALSE)

(* operator=(const wrap &): a valid destination of the source's type is    *)
(* assigned in place; any other one receives a temporary copy by move.     *)
InPlace(s, w, o) == ~ Invalid(s, w) /\ TypeOf(s, w) = TypeOf(s, o)

CopySelf(w) ==
  /\ Copyable /\ IsWrap(Now, w)
  /\ Commit(Now)
  /\ Returned("copy assign", w, w, FALSE)

CopyByTemp(w, o) ==
  /\ Copyable
  /\ w # o /\ IsWrap(Now, w) /\ Valid(Now, o) /\ ~ InPlace(Now, w, o)
  /\ \/ /\ \E p \in CopyPlaces(Now, Temp, o) :
             LET copied == CopyInit(Now, Temp, o, p)
                 moved == MoveAssign(copied, w, Temp)
             IN  Commit(Dtor(moved, Temp))
        /\ Returned("copy assign", w, o, FALSE)
     \/ /\ CopyThrows(Now, o)
        /\ Commit(Now)
        /\ Returned("copy assign", w, o, TRUE)

CopyInPlace(w, o) ==
  /\ Copyable
  /\ w # o /\ IsWrap(Now, w) /\ Valid(Now, o) /\ InPlace(Now, w, o)
  /\ \E threw \in {FALSE} \cup Blame(TypeOf(Now, o) \in FragileTypes, TRUE) :
       /\ LET a == Accuse(Now, AssertSameStorage(Now, w, o))
              r == Accuse(a, Run(Now, ptr[o], "copy assign"))
          IN  Commit(SetValue(r, ptr[w], IF threw THEN Hollow ELSE HolderOf(Now, o).val))
       /\ Returned("copy assign", w, o, threw)

(* operator=(invalid_wrap_t).                                              *)
Reset(w) ==
  /\ IsWrap(Now, w)
  /\ Commit(SetPtr(Destroy(Now, w), w, Null))
  /\ Returned("reset", w, Outside, FALSE)

(* Generic assignment to an invalid wrap, or to one of another type: there *)
(* the old value is destroyed first and a throw leaves the invalid state.  *)
AssignFresh(w, t, v, how) ==
  /\ IsWrap(Now, w) /\ Wrappable(t) /\ Constructible(t, how)
  /\ Invalid(Now, w) \/ TypeOf(Now, w) # t
  /\ LET emptied == Destroy(Now, w) IN
     \/ /\ \E p \in CtorPlaces(emptied, w, t) :
             Commit(NewHolder(emptied, w, p, [type |-> t, val |-> v]))
        /\ Returned("assign", w, Outside, FALSE)
     \/ /\ CtorThrows(t)
        /\ Commit(SetPtr(emptied, w, Null))
        /\ Returned("assign", w, Outside, TRUE)

(* Generic assignment of a value of the type already held.                 *)
AssignValue(w, t, v, how) ==
  /\ Valid(Now, w) /\ Wrappable(t) /\ Constructible(t, how)
  /\ TypeOf(Now, w) = t
  /\ \E threw \in {FALSE} \cup Blame(how = "copy" /\ t \in FragileTypes, TRUE) :
       /\ LET member == IF how = "copy" THEN "copy assign" ELSE "move assign"
              r == Accuse(Now, Run(Now, ptr[w], member))
          IN  Commit(SetValue(r, ptr[w], IF threw THEN Hollow ELSE v))
       /\ Returned("assign", w, Outside, threw)

Emplace(w, t, v) ==
  /\ IsWrap(Now, w) /\ Wrappable(t)
  /\ LET emptied == Destroy(Now, w) IN
     \/ /\ \E p \in CtorPlaces(emptied, w, t) :
             Commit(NewHolder(emptied, w, p, [type |-> t, val |-> v]))
        /\ Returned("emplace", w, Outside, FALSE)
     \/ /\ CtorThrows(t)
        /\ Commit(SetPtr(emptied, w, Null))
        /\ Returned("emplace", w, Outside, TRUE)

(* swap(): its body moves wraps, so it compiles only if they are movable.  *)
Swap(w, o) ==
  /\ Swappable /\ Movable
  /\ IsWrap(Now, w) /\ IsWrap(Now, o)
  /\ \/ /\ w = o \/ (Invalid(Now, w) /\ Invalid(Now, o))
        /\ Commit(Now)
     \/ /\ Invalid(Now, w) /\ Valid(Now, o)
        /\ Commit(MoveAssign(Now, w, o))
     \/ /\ Valid(Now, w) /\ Invalid(Now, o)
        /\ Commit(MoveAssign(Now, o, w))
     \/ /\ w # o /\ Valid(Now, w) /\ Valid(Now, o) /\ TypeOf(Now, w) # TypeOf(Now, o)
        /\ Commit(SwapByTemp(Now, w, o))
     \/ /\ w # o /\ Valid(Now, w) /\ Valid(Now, o) /\ TypeOf(Now, w) = TypeOf(Now, o)
        /\ Commit(SwapSameType(Now, w, o))
  /\ Returned("swap", w, o, FALSE)

(* The caller changes the value through value_ptr, value_ref or the        *)
(* interface.                                                              *)
Write(w, v) ==
  /\ Valid(Now, w)
  /\ Commit(SetValue(Now, ptr[w], v))
  /\ Returned("write", w, Outside, FALSE)

Next ==
  \E w \in Wraps :
    \/ InvalidConstruct(w) \/ Destruct(w) \/ Reset(w) \/ CopySelf(w)
    \/ \E v \in Vals : Write(w, v)
    \/ \E t \in Types, v \in Vals :
         \/ \E how \in {"args", "copy", "move"} : Construct(w, t, v, how)
         \/ \E how \in {"copy", "move"} : AssignFresh(w, t, v, how) \/ AssignValue(w, t, v, how)
         \/ Emplace(w, t, v)
    \/ \E o \in Wraps :
         \/ CopyConstruct(w, o) \/ MoveConstruct(w, o)
         \/ MoveAssignment(w, o) \/ CopyByTemp(w, o) \/ CopyInPlace(w, o)
         \/ Swap(w, o)

Spec == Init /\ [][Next]_vars

----------------------------------------------------------------------------
TypeOK ==
  /\ Now \in State
  /\ call \in [op : Ops, dst : Wraps, src : Wraps \cup {Outside}, threw : BOOLEAN]

(* No call within the contract meets undefined behaviour: no holder is     *)
(* used or destroyed twice, overwritten, or freed from another wrap's      *)
(* storage; no unreachable() is reached; no storage assertion fails.       *)
NoUndefinedBehaviour == ub = {}

(* When no call is running, live holders and valid wraps correspond one to *)
(* one: nothing leaks, nothing dangles, nothing is shared, no temporary    *)
(* survives, and m_pv_iface never points into another wrap.                *)
Owned(s) ==
  /\ s.ptr[Temp] = NoWrap
  /\ \A w \in Wraps : s.ptr[w] \in Blocks \cup {w, Null, NoWrap}
  /\ \A w, u \in Wraps : s.ptr[w] = s.ptr[u] /\ s.ptr[w] \in Blocks => w = u
  /\ \A p \in Places \cup {Null} : s.held[p] # Raw <=> p # Null /\ \E w \in Wraps : s.ptr[w] = p

OneOwnerPerHolder == Owned(Now)

(* The storage kind follows from the value type alone, which is what the   *)
(* assertions in assignment and swap, and the choice of primitive by       *)
(* stype(), rely on.                                                       *)
StorageByType ==
  \A w \in Wraps : Valid(Now, w) => (Stype(Now, w) <=> TypeOf(Now, w) \in StaticTypes)

(* Moving and swapping never construct a holder on the heap nor alter one  *)
(* there: it keeps its address and its value or it is destroyed.  This is  *)
(* what lets these operations be noexcept and keeps pointers to heap       *)
(* values valid.                                                           *)
MovesNeverAllocate ==
  [][call'.op \in {"move construct", "move assign", "swap"} =>
       \A b \in Blocks : held'[b] \in {held[b], Raw}]_vars

(* What the caller of the class sees.                                      *)
Seen(s, w) == IF Valid(s, w) THEN HolderOf(s, w) ELSE s.ptr[w]

Box == INSTANCE AnyBox WITH
  Boxes <- Wraps, Empty <- Null, Absent <- NoWrap,
  box <- [w \in Wraps |-> Seen(Now, w)]

(* Storage, pointers and temporaries implement the abstract box: copies    *)
(* are independent, moves and swaps lose no value, bystanders are never    *)
(* touched, and each throwing call keeps the guarantee it promises.        *)
ImplementsBox == Box!Spec
============================================================================
