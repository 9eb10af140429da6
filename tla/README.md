# Formal verification of tanuki

tanuki is a single-header C++20 library (`src/include/tanuki/tanuki.hpp`) for type erasure. Its
class template `wrap<IFace, Cfg>` is an object that can hold a value of any type that implements an
interface. It does by hand what the compiler does for ordinary objects: it owns storage (a small
buffer or the heap), constructs, copies, moves, swaps and destroys values of types it no longer
knows, has an invalid (empty) state, and promises which of these operations can throw and what is
left when they do. That manual life-cycle is what this project models, checks and proves.

All line numbers without a file are lines of `src/include/tanuki/tanuki.hpp`.

## 1. The system

### Components, their state and operations

| Component | State | Operations | Where | Status |
|---|---|---|---|---|
| `wrap`, value semantics | `m_pv_iface`, the bytes of `static_storage` | constructors 1429-1530, copy/move construction 1532-1591, destructor 1594-1616, assignments 1618-1781, `emplace` 1792-1821, `swap` 1885-1947 | `ValueWrap`, abstractly `AnyBox` | modelled, checked, proved |
| `wrap`, reference semantics | `m_pv_iface`, a `std::shared_ptr` | the same, and `copy` 1974-1981, `same_value` 1983-1988 | `RefWrap`, abstractly `SharedBox` | modelled, checked, proved |
| `holder` | the value | clone, copy-init, move-init, copy/move assignment, swap, shared clone 649-793 | inside `ValueWrap`, `RefWrap` | modelled |
| `wrap_storage` 857-881, `stype` 1237-1261 | none of its own | choice of storage by size and alignment | inside `ValueWrap` | modelled |
| `config`, `valid_config` 1009-1028 | compile time | consistency of the switches, `requires` and `noexcept` clauses, `copy_move_swap_consistent` 1203-1210 | `WrapConfig`, `Wrappable` in `ValueWrap` | modelled, checked |
| value access 1958-1972, 2034-2122 | none | `getval`, `iface_ptr`, members of the interface, `value_ptr`, `value_ref`; `reference_wrapper` | `RefAccess` | modelled, checked, proved |
| serialisation 1312-1419, 797-814 | the archive | `save`, `load` with both semantics | `WrapSerial`, abstractly `ArchiveBox`; `RefSerial` | modelled, checked, proved |
| `std_function` (`src/tutorial/std_function.cpp`) and `wrap_reference` | the callables | call, conversion to `bool`, moves | `StdFunc`, `RefAccess` | modelled, checked, proved |
| SQLite time series (`src/test/sqlite_ts.cpp`) | connections and statements | open, iterate, move, close | `SqliteTs` | modelled, checked, proved |
| interface templates, `ref_iface`, composite interfaces | none | static dispatch | | not modelled |
| utilities (type names, demangling, `unreachable`, export macros) | none | formatting | | not modelled |
| test facades: iterators, sentinel, ranges (`src/test/*.hpp`) | none beyond `wrap` | comparison, increment, dereference | | not modelled |
| the callable of `src/test/test_std_function.cpp` | the callables | call, conversion to `bool` | | not modelled |
| other tutorials | none beyond `wrap` | print | | not modelled |
| build files, docs, Catch2, SQLite | | | | not modelled |

### How they interact

The user calls an operation of `wrap`. `wrap` asks the type-erased value interface (`m_pv_iface`)
for the type (`value_type_index`) and for the storage kind (`stype`, which is whether the pointer
points into the wrap's own buffer), and then calls one of the primitives of `holder`, which run the
special members of the user's type. Only `wrap` writes `m_pv_iface`; only the primitives create and
destroy holders. Two wraps meet in copy, move and swap. With reference semantics the pointer is a
`std::shared_ptr`, wraps share holders and the count decides when a holder dies.

The library is sequential: it starts no thread, takes no lock, waits for nothing and has no loop.
What is hard is not interleaving of threads but

- *user code inside calls*: copying, moving and destroying a value runs code of the user, which may
  call other wraps, even the ones the running call will need next;
- *partial failure*: constructors and copies of user types and `new` may throw in the middle of an
  operation, after the old value was destroyed or after half of a swap;
- *ownership over long sequences of calls*: heap holders are handed over by pointer, values in
  static storage are moved one by one, and a moved-from wrap is invalid or not depending on that;
- *agreement of separate decisions*: the storage kind is decided at construction by type, read back
  from a pointer, assumed (and asserted) equal for two wraps of one type;
- *compile-time conditions against run-time branches*: the primitives end in
  `detail::unreachable()` when the value type lacks an operation, so the concepts that let a type in
  have to imply that the branch is never run.

What makes each component correct:

- value semantics: no holder leaks, is shared, overwritten, destroyed twice or used after
  destruction, on normal and throwing paths; the caller sees copies that are independent, moves and
  swaps that lose nothing, bystanders that never change, and the documented guarantee of each
  throwing call; moves and swaps do not allocate;
- reference semantics: a value lives exactly while some wrap refers to it; assignment and `emplace`
  rebind and never write through; `copy` does not share; every call gives the strong guarantee;
- serialisation: a load gives a wrap exactly what was saved, in order; with value semantics a load
  that throws leaves the wrap as it was; what cannot be loaded is refused when saving; the archive's
  tracked addresses follow the values; with reference semantics wraps that shared a value share it
  again and the archive's own references are counted;
- user code inside a call finds every wrap whole that the running step does not work on, and the call
  still does what it promised;
- access: no chain of wraps of references gives write access to a const object;
- configuration: what a class offers compiles, and only moves can end the program;
- `std_function`: a call of an empty callable throws, wherever in the chain it is empty, and the
  conversion to `bool` predicts it; calls end unless callables refer to each other in a circle;
- SQLite: statements are finalised once, connections closed once and not freed under an iterator;
- primitives: they are called only on live holders of a type that has the operation;
- storage: its kind is a function of the value type.

## 2. The modules

| Module | What it is |
|---|---|
| `AnyBox` | Abstract specification of a wrap with value semantics: boxes that are absent, empty or have a content, and what each call does to them, throwing or not. |
| `ValueWrap` | The wrap with value semantics as coded: pointers, static storage, heap blocks, temporaries. Refines `AnyBox`. |
| `MCValueWrap` | Types and special members for TLC. |
| `WrapSteps` | The operations of `ValueWrap` step by step, with calls of user code in between. |
| `MCWrapSteps` | Special members and symmetry for TLC. |
| `WrapStepsProofs` | Lists of steps and what each step does; the inductive invariant with nested calls, and the theorems. |
| `WrapAtomic` | `WrapSteps` without such calls implements `ValueWrap`: whole calls are a sound abstraction. |
| `MCWrapAtomic` | The same for TLC. |
| `WrapAtomicProofs` | The refinement proved, with the states a call goes through; on top of `WrapStepsProofs`. |
| `WrapConfig` | Configuration switches and traits of types against the operations a class offers, their bodies and their `noexcept`. |
| `RefAccess` | How a value is reached through wraps, const or not, of values and of references. |
| `RefAccessProofs` | Theorems about it. |
| `ValueWrapProofs` | What the helpers (`NewHolder`, `Destroy`, `MoveInitFrom`, `MoveAssign`, `SwapByTemp`, ...) do to ownership and to what the wraps show; one lemma per operation, the inductive invariant and the theorems; the last part shows that moves and swaps leave the heap alone. |
| `SharedBox` | Abstract specification of a wrap with reference semantics: boxes refer to objects that exist as long as they are referred to; no counts. |
| `RefWrap` | The wrap with reference semantics as coded, over a `shared_ptr` with an explicit use count. Refines `SharedBox`. |
| `MCRefWrap` | Symmetry for TLC. |
| `ArchiveBox` | Abstract specification of serialisation: `AnyBox` with a sequence of contents. |
| `WrapSerial` | `save` and `load` with value semantics on top of `ValueWrap`. Refines `ArchiveBox`. |
| `MCWrapSerial` | Special members for TLC. |
| `WrapSerialProofs` | Theorems about it, on top of `ValueWrapProofs`. |
| `RefSerial`, `MCRefSerial` | `save` and `load` with reference semantics on top of `RefWrap`. |
| `RefSerialProofs` | Lemmas about counting, the inductive invariants and the theorems, first of `RefWrap` and then of `RefSerial`. |
| `StdFunc` | The callable of the tutorial: calls and conversions that go down nested and referring callables. |
| `StdFuncProofs` | Theorems about it: walks down the chain, and when they do not end. |
| `SqliteTs`, `MCSqliteTs` | Who closes connections and finalises statements. |
| `SqliteTsProofs` | Theorems about it. |

### `ValueWrap` and the code

State: `ptr[w]` is `m_pv_iface` of wrap `w`. An address is the name of a wrap (its
`static_storage`), a heap block, or `Null`; `NoWrap` says that there is no wrap object, before its
construction and after its destruction. `held[p]` is the holder (type and value) constructed at
address `p`, or `Raw` memory. `stype()` is `ptr[w] = w`. `Temp` is the storage of the local wrap
that copy assignment (`*this = wrap(other)`, 1680) and swap (`auto temp(std::move(w1))`, 1920) make;
it exists only within a call. `ub` collects undefined behaviours and failed assertions: reading
memory without a holder, constructing over a live holder, destroying twice, deleting another wrap's
buffer, reaching `unreachable()`, wraps of one type with different storage.

Helpers of the code are operators on a state record under the code's names (`Destroy` does *not*
clear the pointer, as `destroy()` does not). An action is a whole public operation: its guard is the
`requires` clause and the documented contract, its body the composition of helpers in the code's
order, with one disjunct per outcome. A throw is a choice where the code can throw: allocation for a
type that goes to the heap, and for the types in `FragileTypes` a copy or a construction, also one
that moves the argument in (`ctor_impl`, 1268-1270). What a throw leaves behind is what the `catch` blocks (1749-1755, 1811-1817) or stack unwinding leave behind.

Types are described by what the code asks of them: whether the holder fits size *and* alignment of
the buffer (`StaticTypes`), which special members exist (`Can`), whether they may throw.
`static_size = 0` is the case that no type is static. `Wrappable` is `copy_move_swap_consistent`,
`ValidConfig` the part of `valid_config` that is about the switches.

Abstractions: the value of a type is a member of `Vals`, or `Hollow` ("valid but unspecified"):
what a value is after it was moved from, or after an assignment that threw half way. The arguments
of a generic operation are the value that results and *how* it is passed (arguments, const lvalue,
rvalue), which decides which special member runs. The reference interface and the explicitness of
constructors are compile-time matters.

Contract: the comment at 1829-1841 allows destruction, assignment, `emplace`, `swap` and a few
queries on an invalid wrap. Copying from an invalid wrap, and moving from one into a valid wrap,
dereference a null pointer (1638, 1679, 1539) and are excluded by guards.

Outside the model: a value type whose *move* throws while wraps are moved, assigned to or swapped
(the functions are `noexcept`, so the program terminates and there is no state left to describe; when
this can happen is the subject of `WrapConfig`); a value that contains a wrap of its own class, or an argument that refers into the
value being replaced, which the documentation leaves to the caller.

### `RefWrap` and the code

State: `ptr[w]` is `m_pv_iface.get()`, `held[c]` the holder of the control block `c`, `count[c]` its
use count. `shared_ptr` is external and modelled by what the code relies on: `Retain` and `Release`
change one count by one, `Release` deletes the holder when it takes the last, `Adopt` puts the new
reference in place before the old one goes. Everything the wrap does (1436, 1550, 1589, 1662, 1697,
1716, 1777, 1819, 1946) is a composition of these, so the count is kept up step by step and never
recomputed: that it equals the number of sharers is a theorem and not a definition. Generic
operations accept any type, since `copyable`, `movable` and `swappable` constrain nothing with
reference semantics, except that `swap` still requires the switch (1885-1886). `copy` clones the
holder and throws `std::invalid_argument` for a type that cannot be copied (671-677),
and only for such a type: `SharedBox` promises both.

### `WrapSerial` and the code

`WrapSerial` extends `ValueWrap`: every other operation may happen between two loads. One archive
is written by `Save` and read by `Load`. A record is what `save()` writes (1330-1335), the storage
flag and the holder behind `m_pv_iface`. Before that `save()` throws for a type that is not default
initialisable or not move constructible (1316-1328); the library may throw in the middle, which
leaves a torn record and no further saving.

`load()` reads the flag and the pointer, both of which may throw with the wrap untouched, then
destroys the old value; a null pointer makes the wrap invalid, a holder is either moved into the
static storage, reported to the archive and deleted, or taken over (1380-1404; `MoveIn`,
`TakeOver`). The configuration without static storage (1349-1361) is the case that no type is static.

Boost is external and modelled by what the comments at 1338-1346 and 1384-1391 and the code say of
it: reading a pointer makes a new holder on the heap, for every pointer read (tracking of
`value_iface` is switched off, 2166), and frees it again if it throws; the archive remembers the
address at which it read a value (`tracked`) and is told when the value moves. The history variable
`loadedBy` says which wrap a record went into, until another call involves that wrap; without the
latter no address could be expected to stay right.

### `RefSerial` and the code

`RefSerial` extends `RefWrap`. Boost writes a `shared_ptr` as the number of its object, the object
itself only the first time, and the reading archive keeps a reference to each object it made, until
it is destroyed (`Close`); both are external and modelled by what `save` and `load` rely on
(1330-1335, 1406-1418). An archive is written in one go, so no address is reused between two saves.
`load()` reads straight into `m_pv_iface`: a new number makes a holder, a known one adds a sharer,
and a read that throws leaves the wrap invalid and not as it was (`catch` at 1411-1415). `savedFrom` and
`loadedBy` are history.

### `WrapSteps`, `WrapAtomic` and the code

A call of `ValueWrap` is one action because nothing else runs during it, except the special members
of values. In `WrapSteps` a call is a list of steps (`todo`: destroy, build, clone, move, set the
pointer, ...) in the order of the body. `operator=(wrap &&)` decides by the state at the time of
the step (`Decide`), so that the move at the end of copy assignment and the three of `swap` look at
what user code left. While a step that runs a special member is next, `NestedCall` may make any call
on other wraps: not on those the current step works on (a wrap whose value is being destroyed has a
dangling pointer, 1639 and 1710), and in `swap` not on its two wraps until it is done. The local
wrap of the outer call is then one of `Wraps`, since nested calls need `Temp`. `goal` is what the
call is to leave.

With `Reentrant` unset, `WrapAtomic` shows that the steps of every call amount to exactly one action
of `ValueWrap`: it remembers the state in which the call began (`before`) and maps to that. This
links the step-wise reading of the code to the module the proofs are about.

### `WrapConfig` and the code

A state is a class (its switches, whether its type fits the buffer, which members of the value, the
interface implementation and the reference interface are declared `noexcept`) and a call on its way
through the places where something can throw (`Paths`). `Offered` are the `requires` clauses, `Uses`
the other operations a body needs (copy assignment constructs a copy and move-assigns it, `swap`
moves), `Noexcept` the `noexcept` clauses with the conditions of `ctor_impl` (1268-1270). An
exception at a place inside a function that is always `noexcept` (`Sealed`), or out of an operation
declared so, ends the program. All 2^8 sets of throwing members and all switches are initial states;
there are no constants to bound.

### `RefAccess` and the code

A content is a value, a `std::reference_wrapper<T>` or one to `const T`. `Getval` and `GetvalConst`
are the two overloads (2034, 2050): through a const wrap a referent is given out as const, and a
reference to const cannot be given out by the non-const overload, which throws. An access yields a
place and whether it may be written (`Use`), so that const is what the caller can do and not a
label. `ValueRef` retrieves by exact type, including the `reference_wrapper` itself, whose `get()`
gives write access also in a const wrap. Const wraps are members of `ConstWraps`: they can be
constructed, copied from, accessed and destroyed.

### `StdFunc` and the code

`holds[f]` is what a callable has: nothing (invalid), a null pointer, something simple, a reference to a
callable, or a callable by value. A call or a conversion to `bool` pushes a frame per wrapper
(`Enter`), until an empty one refuses (`Refuse`, 53-86) or a function is found (`Reach`). `stack` is
bounded by `MaxDepth`, as the program's is; running out of it is the state "overflow". While a function
runs, the user may change every callable that the call does not go through (`User`).

All of this is the tutorial's callable. `src/test/test_std_function.cpp` has one of its own, which is not
modelled and decides differently (section 7).

### `SqliteTs` and the code

`ts[s]` and `iter[i]` are the members of the series and the iterators, `conn` and `stmt` SQLite's
side: `sqlite3_close_v2` turns a connection into a zombie while it has statements and finalising the
last one frees it; closing again is an error or undefined. `lost` and `aliased` record the two
weaknesses of section 7, so that the properties can say that nothing else goes wrong.
The conversion of columns (`operator*`) keeps no state and is left out.

## 3. What the properties say

`ValueWrap`
- `NoUndefinedBehaviour`: no call within the contract meets an undefined behaviour or a failed
  assertion. Every primitive and helper checks its precondition in the model.
- `OneOwnerPerHolder`: between calls live holders and valid wraps correspond one to one. A leak, a
  double owner, a dangling pointer after a throw, a surviving temporary or a pointer into another
  wrap's buffer violates it.
- `StorageByType`: a valid wrap uses its own buffer exactly if the type fits.
- `MovesNeverAllocate` (action property): move construction, move assignment and swap never
  construct or alter a heap holder; pointers to heap values stay valid and the functions can be
  `noexcept`.
- `ImplementsBox` (refinement): pointers, storage and temporaries implement `AnyBox`. This carries
  the value-level promises: strong guarantee where the code copies first, basic guarantee where it
  destroys first, swap exchanges contents, third wraps are untouched.

`RefWrap`
- `CountsSharers`: the count is the number of wraps that refer to the holder, and the holder is
  alive exactly while that is positive.
- `ThrowsChangeNothing`: a call that throws leaves pointers, values and counts alone.
- `OnlyWritesChangeValues`: only a write through a wrap changes a live value.
- `ImplementsSharedBox` (refinement).

`WrapSerial`
- `TrackingFindsValues`: until another call involves the wrap, the address the archive has for a
  loaded value is where the value is, although the temporary it was read into is gone and its block
  may hold another wrap's value by now.
- `ImplementsArchive` (refinement): pointers, flags and temporaries implement `ArchiveBox`: what was
  saved is loaded, whatever the wrap held before, and a load that throws changes no wrap.
- `OneOwnerPerHolder`, `NoUndefinedBehaviour` and `StorageByType` again, now with loads: the
  temporary holder neither leaks nor survives, no type reaches the `unreachable()` of
  `_tanuki_move_init_holder`, the flag of a null pointer is unset (assertion at 1371), and a value
  loaded from an archive lives where its type says.

`RefSerial`
- `CountsReaders`: counts are wraps plus references of the reading archive; neither the wrap's old
  reference nor a loaded holder leaks, on failure or after the archive is gone.
- `SharingSurvives`: two loaded wraps share if and only if the saved ones did.

`WrapSteps`, `WrapAtomic`
- `VisibleWrapsAreWhole`: what user code may touch in the middle of a call is in order: owned once,
  not dangling; and nothing is left over when no call runs.
- `NoUndefinedBehaviour` with nested calls: nothing that was checked before a copy or a destruction
  is relied on after it.
- `GoalsAreMet`: a call that does not throw leaves what it promised although user code ran in it.
- `ImplementsValueWrap` (refinement).

`WrapConfig`
- `OnlyMovesTerminate`: the program ends only in what moves or swaps values or makes the parts of a
  holder that is moved into; exceptions of constructors, copies and allocation reach the caller.
- `OfferedCompile`: every offered constructor and assignment compiles.

`RefAccess`
- `ConstStaysConst`, `ConstIsDeep`, `OnlyUseWritesThrough` (action properties): const objects and const
  wraps keep their values, a const member changes nothing, and copying, assigning and swapping
  wraps of references rebind and never write.

`StdFunc`
- `BoolNeverThrows`, `BoolForetellsCalls`: the conversion always answers, and says whether a call would
  find something to invoke, down every chain and after every move.
- `OnlyCyclesOverflow`: with a stack of two frames per callable only a circle of references exhausts it.
- `CallsEnd` (liveness): every other call and conversion ends.

`SqliteTs`
- `OneIteratorPerStatement`, `IteratorsKeepConnections`: statements are finalised once, and their
  connections stay until then, whether or not the series still exists.
- `CloseSucceeds`, `OneSeriesPerConnection`: no assertion fails and no connection is closed twice unless
  a series was assigned to another; until then each open connection has one series to close it.

Each stateful module has one type invariant (`TypeOK`, `SerialTypeOK`, `StepsTypeOK`), except where
another property says as much.

Fairness. `StdFunc` assumes weak fairness of `Enter`, `Refuse` and `Reach`: the thread that makes a
call runs, and a function that is called returns or throws. The code adds no waiting of its own, and
only calls on the stack are concerned; that the user starts one is not assumed. In the other modules every call returns in
the step, or the finite list of steps, that it is made of, and which call comes next is the user's choice, for which no
fairness could be justified: they state none.

## 4. The runs

| Run | Instance | Distinct states | What it shows |
|---|---|---|---|
| `mixed` | 3 wraps, 4 blocks, 2 static and 2 dynamic types, one fragile of each, and 2 types the class refuses (move-only, pinned), all switches on | 3340 | All properties of `ValueWrap` for every operation on every pair of storage kinds, equal or different types, with every throw and a third wrap watching. |
| `const_member` | no switch on, types that can be copy or move constructed but not assigned | violation | Section 7. |
| `references` | 3 wraps, 4 cells, a copyable and a non-copyable type, 2 values | 873 | All properties of `RefWrap`. |
| `archive` | 2 immovable wraps, 3 blocks, 3 types (static; dynamic; static and pinned), 2 values, 2 records | 33281 | Saving and loading among the operations that need no switch (construction, destruction, assignment of values, `emplace`, reset, writes; copy, move and swap are switched off): typing, ownership, storage, tracked addresses, refinement of `ArchiveBox`; what `save()` lets through, `load()` can rebuild. |
| `archive_ref` | 2 wraps, 4 cells, 2 types, 3 records | 156677 | Sharing and counting through an archive. |
| `steps` | 3 wraps and a local one, 3 blocks, 2 types (static and fragile; dynamic), nested calls in every call | 69139 | What user code finds in the middle of a call, in the wraps of that call or in another one, and what the call does all the same. |
| `atomic` | 2 wraps, 3 types, 2 values, no nested calls | 41394 | The steps implement the whole calls of `ValueWrap`. |
| `config` | every configuration | 140288 | What compiles and what terminates. |
| `config_swap` | the same | violation | Section 7. |
| `access` | a const and two other wraps, a const and another object, 2 values | 28768 | The const rules. |
| `std_func` | 3 callables, 6 frames | 61904 | Calls and conversions; liveness. |
| `sqlite` | 2 series, 2 iterators, 3 connections, 2 statements, 2 rows | 22087 | Closing and finalising. |

Symmetry over wraps, blocks, cells, values, series and so on is used in the runs without liveness,
where no property or operator distinguishes members of these sets. Deadlock is not checked where a
state really is the end: a program that overflowed its stack (`std_func`), was terminated or not
compiled (`config`, `config_swap`), or failed an assertion (`sqlite`).

Bounds. Two wraps are enough for every branch of every operation, since no operation involves more;
the third one is there for bystanders and sharing. Blocks: each live wrap owns at most one and an
operation needs at most one more (the temporary's, or a new one before the old one is released), so
one more than the number of wraps is never exhausted and a successful allocation is always possible.
Two types of each storage kind separate "same type" from "same storage"; a throwing and a
non-throwing one of each cover the exception paths. A value and `Hollow` are enough to notice a
value that is lost. Archives have two or three records (`MaxRecords`), enough for an order, for a
block that is used by both loads and for an object that occurs twice among others. The class of
`archive` has no switch on because only such a class holds a type that cannot be moved, which `save()`
has to refuse; that copies, moves and swaps of wraps disturb no archive is what the theorems of
`WrapSerialProofs` add, as they add types that are not default initialisable (in this run the
pinned type is the one that is refused). Of the types that can be saved one lives in the wrap and one on
the heap, with two values each, so both branches of `load()` run over an old value of either kind, of
the same type or not, and a mix-up of records shows. In `steps` a third wrap is free for user code
while two are swapped; with three blocks an allocation can find none left, which is a throw like
any other. Different types in static storage are left to `mixed` and `atomic`. Nested calls are
whole calls, one after another, as often as the run likes; that they nest in turn only once is the
bound of `steps`. `MaxDepth` is two frames per callable, the least that `StackIsLargeEnough` allows:
a larger stack only makes the circles longer. Two series and two iterators are enough for every
operation; three connections allow one to be lost while both series have one. `ub` is a set,
counts are bounded by the wraps and the archive, and nothing else is counted.

Each property has at least one mutant in `PROJECT.json`: a definition of the module, changed the way
a plausible bug would change it (a pointer not cleared after a throw, a moved-from pointer kept, a
clone that shares, a swap that stops half way, a release before the retain), for which TLC finds the
property violated. The mutants are kept in the modules next to what they change and are used
nowhere else.

## 5. The proofs

TLC covers the instances above; TLAPS covers every finite or infinite set of wraps, blocks, types
and values, every assignment of special members and every configuration that satisfies the
assumptions of the modules: `ConstantsOK` (names are told apart, the switches are consistent, what
can be copied can be moved; for `RefWrap`, finitely many wraps, since counts are numbers),
`AccessConstantsOK`, `SqliteConstantsOK`, `SerialConstantsOK`, `TornIsNoRecord` and
`ContentsAreDistinct` (names are told apart, the numbers of rows and of records are naturals),
`StepConstantsOK` (a call that is nested does not share `Temp` with the outer one), and
`StackIsLargeEnough` (finitely many callables, and a stack with two frames for each: a wrapper and
the one nested in it).

`ValueWrapProofs`:
`TypeCorrect` (`TypeOK`), `Ownership` (`OneOwnerPerHolder`), `StorageFollowsType` (`StorageByType`),
`Implementation` (`ImplementsBox`) and `Safety` (`NoUndefinedBehaviour`).

- The invariant `IInv` is typing, ownership and storage-by-type together, over wraps *and* the
  temporary: none of the three is inductive alone. Ownership of a moved-to wrap needs the storage
  kind (a value in static storage is moved, a heap holder changes hands), and the storage kind of a
  swapped pair needs that no pointer points into another wrap.
- The first part states what each helper does under `Good(s, W)`: the set `W` of wraps that exist
  in the middle of the call, so that a state with a temporary, or with a destroyed value whose
  pointer is still set, can be described. Each operation is then a chain of helper lemmas, one lemma
  per operation, each showing that the invariant holds again, that the step is one of `AnyBox`, and
  that no blame is added.
- `Safety` has the hypothesis `Regular`: every type that may be wrapped and can be constructed by
  copy (move) can be assigned by copy (move). `Wrappable` implies it when the class is copyable; it
  does not in general, and the run `const_member` shows that it cannot be dropped.
- `HeapUntouched` (`MovesNeverAllocate`): each helper that moves and swaps are made of keeps every
  heap block or empties it (`HeapKept`, which is transitive); the invariant is needed where a value
  is assigned to, which has to be one in static storage.

`WrapStepsProofs`: `StepsTypeCorrect` (`StepsTypeOK`), `StepsVisible` (`VisibleWrapsAreWhole`),
`StepsKeepPromises` (`GoalsAreMet`) and `StepsSafety` (`NoUndefinedBehaviour`, under `Regular`), all with
the nested calls that `StepConstantsOK` admits (those in which the local wrap is one of `Wraps`): every
property the run `steps` checks.

- None of these is inductive: what a step may do depends on the steps before it, and what user code may
  do on the steps that follow. The invariant `StepsInv` (theorem `StepsInvariance`) lists for each kind
  of call the situations it can be in (`UnderWay`): which wraps own what they should, which steps are
  left, and what the goal has to do with the wraps. Calls share parts: a value being removed
  (`Removing`), and a move from one wrap to another (`Relocating`), which is the whole of move
  assignment, the second half of copy assignment and two thirds of `swap`.
- The wraps that own something are all of them (`All`: `Wraps` and the local one) or all but one that
  is being made, or whose value is gone while its pointer still dangles (`But(u)`). Nested calls keep
  off that one (`Engaged`), so the lemmas of `ValueWrapProofs`, which are stated for any set of owners
  (`Good(s, W)`), apply to them as they do to whole calls.
- A nested call changes only its own two wraps and ends none that the outer call still needs (`Spares`);
  what it changes is nobody's goal any more. So the outer call finds itself in the same situation
  (one lemma per kind of call), although wraps it has yet to look at may have other contents: this is
  where a decision of the code that was taken too early would fail, and why `operator=(wrap &&)`
  decides in a step of its own.
- A call that ends has an empty list of steps, and its last situation with the goal is what
  `GoalsAreMet` asks for (`Over`).

`WrapAtomicProofs`: `CallsAreAtomic` (`ImplementsValueWrap`), under the hypothesis `NobodyInterferes`: values
make no calls, and the local wrap of a call is `Temp`, as in `ValueWrap`.

- The invariant describes each call in progress by pairs of a state and the steps still to make, the
  state written as an expression of `before` (`InCall` and the operators it is made of, one for each
  kind of call). A step leads from a pair to the next one, or it is the last and `before` and the
  new state are related by an action of `ValueWrap` (`Onward`). A call that has nothing to do, such
  as a self-assignment, is complete when it begins (`Started`).
- Ownership is not needed: the steps and the actions agree in every state of the right shape
  (`Proper`: `ptr` has the wraps as its domain), also after undefined behaviour. All that is asked of a
  state is what the code decides by, such as that a wrap that is moved from by its temporary is valid.

`WrapSerialProofs`: `SerialTypeCorrect` (`SerialTypeOK`), `SerialOwnership` (`OneOwnerPerHolder`),
`SerialStorage` (`StorageByType`), `Tracking` (`TrackingFindsValues`), `ArchiveImplementation`
(`ImplementsArchive`) and `SerialSafety` (`NoUndefinedBehaviour`, under `Regular`): every property
the run checks.

- `SInv` is `Owning`, the part of `IInv` that does not speak of call records, with two facts more:
  every record that is not torn can be loaded (`Loadable`: its type is movable, and its storage flag
  is what the type asks for), and the tracked addresses are right. The steps of `ValueWrap` are not
  looked at again: `NextGood` says that they keep `Owning` and implement `AnyBox`.
- `TrackingFindsValues` needs to know what a call leaves alone. `Leaves(n, s, U)` says that a helper
  assigns no pointer outside `U`; one lemma per helper, then `NextLeaves` for all calls.
- A load is reduced to a constructor: destroying the old value and making the archive's holder
  commute (`DestroyBeside`), and moving out of that holder and deleting it leaves exactly what
  `NewHolder` builds in place (`DetourEnds`).

`RefSerialProofs`, about `RefWrap`:
`TypeCorrect` (`TypeOK`), `Counting` (`CountsSharers`), `StrongGuarantee` (`ThrowsChangeNothing`),
`Rebinding` (`OnlyWritesChangeValues`) and `Implementation` (`ImplementsSharedBox`): every property
the run checks.

- In the middle of a call one reference may be counted that no wrap holds. `Counted(s, x, R)` says that
  every count is the number of sharers, plus one for `x`, plus one if the cell is in `R`, the cells to
  which someone who is not a wrap keeps a reference. `Retain`, `make_shared` and emptying a
  moved-from pointer establish it for their cell, `Adopt` turns it into `Counted(s, Null, R)`, which
  is the inductive invariant, with `R` empty here. Cardinalities of the sharers before and after repointing one wrap come
  from `HoldersMove`.
- The refinement follows from the count: a holder is alive exactly while some wrap points at it,
  which is how `SharedBox` defines its objects (`CommitGood`).

`RefSerialProofs`, about `RefSerial`: `SerialTypeCorrect` (`SerialTypeOK`), `ReaderCounting` (`CountsReaders`) and
`SharingPreserved` (`SharingSurvives`): every property the run checks.

- The operations of `RefWrap` are used through the same lemmas, with the cells of the reading archive
  as `R`: that a count is right does not depend on who keeps the other references.
- `CountsReaders` needs that a cell the archive knows is not handed out again while the archive is
  open, that is, that it is alive because the archive counts it; `SharingSurvives` needs in addition
  that the numbers in the archive tell the saved objects apart (`Writing`), that two numbers never
  mean one loaded object, and that a number read refers to an object read before (`Reading`).
- `Close` gives up the archive's references one after another, a recursive function over their
  number. `DroppingCounts` shows that after each of them the counts fit the ones that remain. It is an
  induction over the numbers up to that length, taken as a set that would have a least member outside
  (`Induction`).

`StdFuncProofs`: `TypeCorrect` (`TypeOK`), `BoolForetells` (`BoolForetellsCalls`), `BoolIsNoexcept`
(`BoolNeverThrows`) and `OnlyCycles` (`OnlyCyclesOverflow`), for any number of callables.

- The stack is a path that the contents determine frame by frame (`Path`). `BoolForetellsCalls` speaks
  of two walks, the last conversion's and the call after it, so the invariant keeps the whole path of
  the conversion as a witness (`Remembered`): as long as no content that it went through changes, a
  call from the same callable stays on it and ends where it ended.
- `OnlyCycles` is a pigeonhole argument: an overflowed stack has as many frames as there are different
  ones, and one step more leads on; so some frame occurs again, and from there the walk is endless.

`RefAccessProofs`: `TypeCorrect` (`TypeOK`), `ConstKept` (`ConstStaysConst`), `RebindingOnly`
(`OnlyUseWritesThrough`) and `DeepConst` (`ConstIsDeep`). `TypeOK` is inductive: its content is that
no wrap has a plain reference to a const object, and the action properties follow from it, one lemma
per kind of access.

`SqliteTsProofs`: `FinalisedOnce` (`OneIteratorPerStatement`), `ConnectionsKept`
(`IteratorsKeepConnections`), `ClosedOnce` (`CloseSucceeds`) and `OneOwner`
(`OneSeriesPerConnection`), for any number of series, iterators and rows. The invariant has two
halves, one about iterators and statements, one about series and connections, which holds until a
series is assigned; a connection changes by a call on an iterator only from zombie to free and only
if no statement needs it, so that each half survives the other's calls.

Only model-checked: `WrapConfig`, whose only instance TLC covers completely, and `CallsEnd`, a liveness
property, which is out of the prover's reach, as is `ENABLED`.

## 6. What is left

Not modelled, and why:

- interface templates, composite interfaces, `ref_iface`: dispatch that the compiler does; there is
  no state and no branch at run time;
- utilities: formatting and compiler switches; `unreachable()` itself is what `NoUndefinedBehaviour`
  excludes;
- the callable of `src/test/test_std_function.cpp`: a variant of the tutorial's (section 7);
- the facades of the tests (iterators, sentinels, ranges): client code whose objects are wraps of
  values; copying, moving and destroying them is `ValueWrap`, reaching the value is `RefAccess`, and
  the comparison and dereference they add keep no state;
- tutorials other than the two modelled: programs of a few calls that print.

Worth adding next: nested calls that nest in turn (a stack of calls, each with its own steps), and values
that own wraps of their own class. Both need a model in which a wrap is reached through a value;
`StepsInv` would have to hold of each call on the stack.

## 7. Findings

Shown by a run:

`const_member`: with `copyable`, `movable` and `swappable` all off, `copy_move_swap_consistent`
(1208) accepts a type that is copy constructible but not copy assignable, for example one with a
const member. Generic assignment (1723-1775) asks that a holder can be *constructed* from the
argument; when the wrap already holds a value of the type it *assigns*, and the primitive's
`if constexpr` is false, so that `detail::unreachable()` at 763 (775 for rvalues) is run. The comment at
760 says that this point cannot be reached because a copyable wrap from a non-copyable value is
forbidden; the wrap here is not copyable, and the function is called all the same.

`config_swap`: `valid_config` (1014-1028) admits `swappable` without `movable`. `swap` is then offered
(1885-1886), but its body moves the wraps (1907, 1913, 1921-1923), which such a class does not
allow: no call compiles, although `src/doc/config.rst:66` says that the option selects whether the
class is swappable.

Met while modelling:

- `src/doc/config.rst:68` says that `swappable` is ignored with reference semantics; `swap` requires
  it for both (1885-1886), unlike the other members, whose clauses except reference semantics.
- `src/doc/wrap.rst:176-180` lists the conditions for `emplace` to be `noexcept`; the code (1801, by
  1268-1270) also asks that the default constructor of the interface implementation does not throw.
- `src/test/sqlite_ts.cpp:185`: the defaulted move assignment copies the raw handle, so that two
  series close one connection, against the assertion at 190, and loses the destination's own.
- `src/test/sqlite_ts.cpp:178-182`: when `sqlite3_open_v2` fails, the constructor throws and the handle
  is never closed, which `src/test/sqlite3.h:3482` asks for whether or not an error occurs.
- The callable of `src/test/test_std_function.cpp` is not the tutorial's. Its conversion to `bool` asks a
  callable that it holds or refers to only whether that one is valid (75-76), where the tutorial asks
  for its conversion (63-64): around a callable with a null pointer it answers true, and the call
  throws `std::bad_function_call` (49-52 of the inner one). The tests of that file do not ask it. In
  `StdFunc` this is the mutant `EnterShallow` (for the callable held), and `BoolForetellsCalls` is what
  it violates. Its call also looks for an invalid callable or an empty `std::function` (53-61) before
  invoking it, where the tutorial leaves that to the one it holds.
- `src/test/sqlite_ts.cpp:122` asks for the type of column 0 for every column it converts, where the
  column at hand must be meant.

## 8. Running it

In this directory, `tlc -config ValueWrapMixed.cfg MCValueWrap.tla` checks a run (module and
configuration of each are listed in `PROJECT.json`; the longest takes about two minutes) and
`tlapm` checks the proofs of a module: `ValueWrapProofs`, `WrapStepsProofs`, `WrapAtomicProofs`,
`WrapSerialProofs`, `RefSerialProofs`, `RefAccessProofs`, `StdFuncProofs`, `SqliteTsProofs`.
