------------------------------ MODULE RefWrap ------------------------------
(***************************************************************************)
(* The wrap class of tanuki.hpp with reference semantics: m_pv_iface is a  *)
(* std::shared_ptr, so constructors, assignments and swap manipulate       *)
(* references and only copy() copies a value.                              *)
(*                                                                         *)
(* shared_ptr is modelled by what the code relies on: a use count per      *)
(* holder that every operation keeps up step by step, the holder being     *)
(* deleted when its count reaches zero.                                    *)
(***************************************************************************)
EXTENDS FiniteSets, Integers

CONSTANTS
  Wraps,      (* The wrap objects of the program, all of one wrap class.     *)
  Cells,      (* Heap blocks of std::make_shared: a holder and its count.    *)
  Types,      (* The erased value types.                                     *)
  Copyable,   (* The types that are copy constructible.                      *)
  Vals,
  Swappable,  (* The one switch of the configuration that still counts.      *)
  Null,       (* The empty shared_ptr: the invalid state.                    *)
  NoWrap,     (* There is no wrap object here (not built, or destroyed).     *)
  Raw,        (* No holder here.                                             *)
  Outside     (* A call's argument that is not a wrap.                       *)

Holder == [type : Types, val : Vals]

ASSUME ConstantsOK ==
  /\ IsFiniteSet(Wraps)
  /\ Null \notin Cells /\ NoWrap \notin Cells /\ Null # NoWrap
  /\ Raw \notin Holder
  /\ Copyable \subseteq Types
  /\ Swappable \in BOOLEAN

VARIABLES
  ptr,    (* ptr[w]: m_pv_iface.get() of wrap w, or NoWrap.                  *)
  held,   (* held[c]: the holder in cell c, or Raw.                          *)
  count,  (* count[c]: its use count.                                        *)
  call    (* The last call: operation, destination, source, what it threw.   *)

vars == <<ptr, held, count, call>>

Ops == {"none", "construct", "copy construct", "move construct", "destroy", "copy assign",
        "move assign", "reset", "assign", "emplace", "swap", "copy()", "write"}
Outcomes == {"ok", "threw", "invalid_argument"}

Now == [ptr |-> ptr, held |-> held, count |-> count]
Commit(s) == ptr' = s.ptr /\ held' = s.held /\ count' = s.count
Returned(op, w, o, out) == call' = [op |-> op, dst |-> w, src |-> o, out |-> out]

IsWrap(s, w) == s.ptr[w] # NoWrap
Valid(s, w) == s.ptr[w] \in Cells
HolderOf(s, w) == s.held[s.ptr[w]]

----------------------------------------------------------------------------
(* What shared_ptr does.                                                   *)

(* One reference more to x, and one less: the last one deletes the holder. *)
Retain(s, x) == IF x \in Cells THEN [s EXCEPT !.count = [@ EXCEPT ![x] = s.count[x] + 1]] ELSE s
Release(s, x) ==
  IF x \notin Cells THEN s
  ELSE [s EXCEPT !.count = [@ EXCEPT ![x] = s.count[x] - 1],
                 !.held = [@ EXCEPT ![x] = IF s.count[x] = 1 THEN Raw ELSE s.held[x]]]

(* m_pv_iface = x, with x already counted: the new pointer is in place     *)
(* before the old reference goes.                                          *)
Adopt(s, w, x) == Release([s EXCEPT !.ptr = [@ EXCEPT ![w] = x]], s.ptr[w])

FreeCells(s) == {c \in Cells : s.held[c] = Raw}

(* make_shared: a new holder with one reference, not yet in any wrap.      *)
MakeShared(s, c, h) ==
  [s EXCEPT !.held = [@ EXCEPT ![c] = h], !.count = [@ EXCEPT ![c] = 1]]

(* Mutant: the old reference goes first.                                   *)
AssignEagerly(s, w, o) == Retain([Release(s, s.ptr[w]) EXCEPT !.ptr[w] = s.ptr[o]], s.ptr[o])

(* Assigning from another shared_ptr, and from one that is moved from.     *)
AssignShared(s, w, o) == Adopt(Retain(s, s.ptr[o]), w, s.ptr[o])

(* Mutant: the moved-from pointer is not emptied.                          *)
AssignMovedKeeping(s, w, o) == Adopt(s, w, s.ptr[o])

AssignMoved(s, w, o) ==
  IF w = o THEN s ELSE Adopt([s EXCEPT !.ptr = [@ EXCEPT ![o] = Null]], w, s.ptr[o])

----------------------------------------------------------------------------
Init ==
  /\ ptr = [w \in Wraps |-> NoWrap]
  /\ held = [c \in Cells |-> Raw]
  /\ count = [c \in Cells |-> 0]
  /\ \E w \in Wraps : call = [op |-> "none", dst |-> w, src |-> Outside, out |-> "ok"]

(* wrap(invalid_wrap_t), and wrap() when it is configured to be the same.  *)
InvalidConstruct(w) ==
  /\ ~ IsWrap(Now, w)
  /\ Commit(Adopt(Now, w, Null))
  /\ Returned("construct", w, Outside, "ok")

(* ctor_impl with reference semantics: the new holder is made first, so    *)
(* that a throw leaves w as it was.                                        *)
Make(w, t, v, op) ==
  \/ /\ \E c \in FreeCells(Now) :
          Commit(Adopt(MakeShared(Now, c, [type |-> t, val |-> v]), w, c))
     /\ Returned(op, w, Outside, "ok")
  \/ Commit(Now) /\ Returned(op, w, Outside, "threw")

(* Mutant: a value of the type already held is assigned in place, as with  *)
(* value semantics.                                                        *)
AssignInPlace(w, t, v) ==
  /\ IsWrap(Now, w)
  /\ IF Valid(Now, w) /\ HolderOf(Now, w).type = t
     THEN /\ Commit([Now EXCEPT !.held = [@ EXCEPT ![ptr[w]].val = v]])
          /\ Returned("assign", w, Outside, "ok")
     ELSE Make(w, t, v, "assign")

(* The default, generic, reference and in-place constructors, generic      *)
(* assignment and emplace, for any type: copyable, movable and swappable   *)
(* are not asked for with reference semantics.                             *)
Construct(w, t, v) == ~ IsWrap(Now, w) /\ Make(w, t, v, "construct")
Assign(w, t, v) == IsWrap(Now, w) /\ Make(w, t, v, "assign")

(* Mutant: the old value is destroyed first, as with value semantics.      *)
EmplaceDestroying(w, t, v) ==
  /\ IsWrap(Now, w)
  /\ LET emptied == Adopt(Now, w, Null) IN
     \/ /\ \E c \in FreeCells(emptied) :
             Commit(Adopt(MakeShared(emptied, c, [type |-> t, val |-> v]), w, c))
        /\ Returned("emplace", w, Outside, "ok")
     \/ Commit(emptied) /\ Returned("emplace", w, Outside, "threw")

Emplace(w, t, v) == IsWrap(Now, w) /\ Make(w, t, v, "emplace")

CopyConstruct(w, o) ==
  /\ ~ IsWrap(Now, w) /\ IsWrap(Now, o)
  /\ Commit(AssignShared(Now, w, o))
  /\ Returned("copy construct", w, o, "ok")

MoveConstruct(w, o) ==
  /\ ~ IsWrap(Now, w) /\ IsWrap(Now, o)
  /\ Commit(AssignMoved(Now, w, o))
  /\ Returned("move construct", w, o, "ok")

Destruct(w) ==
  /\ IsWrap(Now, w)
  /\ Commit(Adopt(Now, w, NoWrap))
  /\ Returned("destroy", w, Outside, "ok")

(* operator=(const wrap &) and operator=(wrap &&), self included.          *)
CopyAssignment(w, o) ==
  /\ IsWrap(Now, w) /\ IsWrap(Now, o)
  /\ Commit(AssignShared(Now, w, o))
  /\ Returned("copy assign", w, o, "ok")

MoveAssignment(w, o) ==
  /\ IsWrap(Now, w) /\ IsWrap(Now, o)
  /\ Commit(AssignMoved(Now, w, o))
  /\ Returned("move assign", w, o, "ok")

(* operator=(invalid_wrap_t).                                              *)
Reset(w) ==
  /\ IsWrap(Now, w)
  /\ Commit(Adopt(Now, w, Null))
  /\ Returned("reset", w, Outside, "ok")

Swap(w, o) ==
  /\ Swappable /\ IsWrap(Now, w) /\ IsWrap(Now, o)
  /\ Commit([Now EXCEPT !.ptr = [@ EXCEPT ![w] = ptr[o], ![o] = ptr[w]]])
  /\ Returned("swap", w, o, "ok")

(* Mutant: copy() returns another reference to the same holder.            *)
CopyShallow(w, o) ==
  /\ ~ IsWrap(Now, w) /\ Valid(Now, o)
  /\ Commit(AssignShared(Now, w, o))
  /\ Returned("copy()", w, o, "ok")

(* wrap w = copy(o): a clone, or an exception when the type cannot be      *)
(* copied, or one thrown by the copy or the allocation.                    *)
Copy(w, o) ==
  /\ ~ IsWrap(Now, w) /\ Valid(Now, o)
  /\ \/ /\ HolderOf(Now, o).type \in Copyable
        /\ \/ /\ \E c \in FreeCells(Now) : Commit(Adopt(MakeShared(Now, c, HolderOf(Now, o)), w, c))
              /\ Returned("copy()", w, o, "ok")
           \/ Commit(Now) /\ Returned("copy()", w, o, "threw")
     \/ /\ HolderOf(Now, o).type \notin Copyable
        /\ Commit(Now) /\ Returned("copy()", w, o, "invalid_argument")

(* The caller changes the value through value_ptr, value_ref or the        *)
(* interface.                                                              *)
Write(w, v) ==
  /\ Valid(Now, w)
  /\ Commit([Now EXCEPT !.held = [@ EXCEPT ![ptr[w]].val = v]])
  /\ Returned("write", w, Outside, "ok")

Next ==
  \E w \in Wraps :
    \/ InvalidConstruct(w) \/ Destruct(w) \/ Reset(w)
    \/ \E v \in Vals :
         \/ Write(w, v)
         \/ \E t \in Types : Construct(w, t, v) \/ Assign(w, t, v) \/ Emplace(w, t, v)
    \/ \E o \in Wraps :
         \/ CopyConstruct(w, o) \/ MoveConstruct(w, o) \/ Copy(w, o)
         \/ CopyAssignment(w, o) \/ MoveAssignment(w, o) \/ Swap(w, o)

Spec == Init /\ [][Next]_vars

----------------------------------------------------------------------------
TypeOK ==
  /\ ptr \in [Wraps -> Cells \cup {Null, NoWrap}]
  /\ held \in [Cells -> Holder \cup {Raw}]
  /\ count \in [Cells -> Nat]
  /\ call \in [op : Ops, dst : Wraps, src : Wraps \cup {Outside}, out : Outcomes]

(* The use count of a holder is the number of wraps that refer to it, and  *)
(* the holder is alive exactly while that is not zero: no operation leaks  *)
(* a value, deletes one that is still shared, or loses count on the way.   *)
Sharers(c) == {w \in Wraps : ptr[w] = c}
CountsSharers ==
  \A c \in Cells : count[c] = Cardinality(Sharers(c)) /\ (held[c] # Raw <=> count[c] > 0)

(* Every call that throws changes nothing, emplace and generic assignment  *)
(* included: the strong guarantee value semantics cannot give.             *)
ThrowsChangeNothing ==
  [][call'.out # "ok" => UNCHANGED <<ptr, held, count>>]_vars

(* Only a write through a wrap changes a value, and it stays in its place: *)
(* assignment and emplace rebind one wrap and never touch what its former  *)
(* sharers see.                                                            *)
OnlyWritesChangeValues ==
  [][\A c \in Cells : held[c] # Raw /\ held'[c] \notin {held[c], Raw} =>
       call'.op = "write" /\ ptr[call'.dst] = c]_vars

Shared == INSTANCE SharedBox WITH
  Boxes <- Wraps, Objs <- Cells, Contents <- Holder, Nothing <- Raw,
  Empty <- Null, Absent <- NoWrap, ref <- ptr, content <- held

(* Counting references implements objects that live exactly while some box *)
(* refers to them; copies share, moves hand over, copy() makes a new one.  *)
ImplementsSharedBox == Shared!Spec
============================================================================
