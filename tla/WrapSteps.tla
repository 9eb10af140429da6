----------------------------- MODULE WrapSteps -----------------------------
(***************************************************************************)
(* The operations of ValueWrap one step at a time: a call is the list of   *)
(* destructions, constructions, moves and pointer assignments that its     *)
(* body makes, in order, with its decisions taken where the code takes     *)
(* them.  Where a step runs a special member of the user's type, that      *)
(* member may itself call operations on wraps: a value that resets,        *)
(* assigns or moves other wraps while it is copied or destroyed.  Such a   *)
(* nested call is an action of ValueWrap.  It keeps off the wraps that the *)
(* current step works on, and off both wraps of a swap until it is done.   *)
(***************************************************************************)
EXTENDS ValueWrap, Sequences

CONSTANTS
  Local,      (* Where copy assignment and swap make their local wrap: Temp, *)
              (* or a member of Wraps when nested calls need Temp.           *)
  Reentrant,  (* Whether special members of values make calls at all.        *)
  Anything    (* No particular content is expected of a wrap.                *)

ASSUME StepConstantsOK ==
  /\ Local \in Slots /\ Reentrant \in BOOLEAN /\ (Reentrant => Local # Temp)
  /\ Anything \notin Holder \cup {Null, NoWrap}

VARIABLES
  todo,     (* The steps the running call has still to make.                 *)
  running,  (* The running call: operation, destination and source.          *)
  goal      (* goal[w]: what the running call is to leave in w, or Anything. *)

stepVars == <<todo, running, goal>>

Callers == Wraps \ {Local}
Idle == [op |-> "none", dst |-> Outside, src |-> Outside]
NoGoal == [w \in Wraps |-> Anything]
Expect(w, c) == [NoGoal EXCEPT ![w] = c]

(* A step works on wrap w, from another wrap or from an argument.          *)
Step(what, w, o) == [do |-> what, on |-> w, from |-> o]
Argument(t, v, how) == [holder |-> [type |-> t, val |-> v], how |-> how]

----------------------------------------------------------------------------
(* A call begins: its steps follow from what the wraps hold at that time.  *)

Begin(op, w, o, steps, g) ==
  /\ todo = <<>> /\ Commit(Now)
  /\ IF steps = <<>>
     THEN Returned(op, w, o, FALSE) /\ UNCHANGED stepVars
     ELSE /\ todo' = steps /\ running' = [op |-> op, dst |-> w, src |-> o] /\ goal' = g
          /\ UNCHANGED call

BeginReset(w) ==
  /\ IsWrap(Now, w)
  /\ Begin("reset", w, Outside,
           IF Invalid(Now, w) THEN <<>> ELSE <<Step("destroy", w, w), Step("clear", w, w)>>,
           Expect(w, Null))

BeginDestruct(w) ==
  /\ IsWrap(Now, w)
  /\ Begin("destroy", w, Outside, <<Step("destroy", w, w), Step("end", w, w)>>, Expect(w, NoWrap))

BeginConstruct(w, t, v, how) ==
  /\ ~ IsWrap(Now, w) /\ Wrappable(t) /\ Constructible(t, how)
  /\ Begin("construct", w, Outside, <<Step("build", w, Argument(t, v, how))>>,
           Expect(w, [type |-> t, val |-> v]))

(* Mutant: the argument is assigned to the value that was destroyed.       *)
AssignStepsReusing(s, w, a) ==
  IF Valid(s, w) THEN <<Step("destroy", w, w), Step("set", w, a)>> ELSE <<Step("build", w, a)>>

AssignSteps(s, w, a) ==
  IF Valid(s, w) /\ TypeOf(s, w) = a.holder.type THEN <<Step("set", w, a)>>
  ELSE <<Step("destroy", w, w), Step("build", w, a)>>

BeginAssign(w, t, v, how) ==
  /\ IsWrap(Now, w) /\ Wrappable(t) /\ Constructible(t, how)
  /\ Begin("assign", w, Outside, AssignSteps(Now, w, Argument(t, v, how)),
           Expect(w, [type |-> t, val |-> v]))

BeginEmplace(w, t, v) ==
  /\ IsWrap(Now, w) /\ Wrappable(t)
  /\ Begin("emplace", w, Outside,
           <<Step("destroy", w, w), Step("build", w, Argument(t, v, "args"))>>,
           Expect(w, [type |-> t, val |-> v]))

BeginCopyConstruct(w, o) ==
  /\ Copyable /\ ~ IsWrap(Now, w) /\ Valid(Now, o)
  /\ Begin("copy construct", w, o, <<Step("clone", w, o)>>, Expect(w, HolderOf(Now, o)))

BeginMoveConstruct(w, o) ==
  /\ Movable /\ ~ IsWrap(Now, w) /\ IsWrap(Now, o)
  /\ Begin("move construct", w, o, <<Step("init", w, o)>>, Expect(w, Seen(Now, o)))

BeginMoveAssign(w, o) ==
  /\ Movable /\ IsWrap(Now, w) /\ IsWrap(Now, o)
  /\ w # o /\ Invalid(Now, o) => Invalid(Now, w)
  /\ Begin("move assign", w, o, IF w = o THEN <<>> ELSE <<Step("move", w, o)>>, NoGoal)

DropLocal == <<Step("destroy", Local, Local), Step("end", Local, Local)>>

(* Mutants: what becomes of the copy is decided before it is made; the     *)
(* copy is made in the destination itself.                                 *)
CopyStepsDecided(s, w, o) ==
  (<<Step("clone", Local, o)>> \o (IF Invalid(s, w) THEN <<>> ELSE <<Step("destroy", w, w)>>))
    \o (<<Step("init", w, Local)>> \o DropLocal)

CopyStepsDirect(s, w, o) == <<Step("destroy", w, w), Step("clone", w, o)>>

(* *this = wrap(other): the move assignment looks at *this afresh.         *)
CopySteps(s, w, o) == <<Step("clone", Local, o), Step("move", w, Local)>> \o DropLocal

BeginCopyAssign(w, o) ==
  /\ Copyable /\ IsWrap(Now, w) /\ (w = o \/ Valid(Now, o))
  /\ Begin("copy assign", w, o,
           CASE w = o -> <<>>
             [] w # o /\ InPlace(Now, w, o) -> <<Step("copy value", w, o)>>
             [] OTHER -> CopySteps(Now, w, o),
           NoGoal)

(* Mutant: the temporary is not moved back.                                *)
SwapStepsHalf(w, o) == <<Step("init", Local, w), Step("move", w, o)>> \o DropLocal

SwapByLocal(w, o) ==
  <<Step("init", Local, w), Step("move", w, o), Step("move", o, Local)>> \o DropLocal

BeginSwap(w, o) ==
  /\ Swappable /\ Movable /\ IsWrap(Now, w) /\ IsWrap(Now, o)
  /\ LET b == Valid(Now, w) /\ Valid(Now, o) IN
     Begin("swap", w, o,
           CASE w = o \/ (Invalid(Now, w) /\ Invalid(Now, o)) -> <<>>
             [] Invalid(Now, w) /\ Valid(Now, o) -> <<Step("move", w, o)>>
             [] Valid(Now, w) /\ Invalid(Now, o) -> <<Step("move", o, w)>>
             [] w # o /\ b /\ TypeOf(Now, w) = TypeOf(Now, o) -> <<Step("exchange", w, o)>>
             [] w # o /\ b /\ TypeOf(Now, w) # TypeOf(Now, o) -> SwapByLocal(w, o),
           IF b THEN [NoGoal EXCEPT ![w] = HolderOf(Now, o), ![o] = HolderOf(Now, w)] ELSE NoGoal)

(* These calls have no steps that could be told apart.                     *)
CallAtOnce(w) ==
  /\ todo = <<>> /\ UNCHANGED stepVars
  /\ InvalidConstruct(w) \/ \E v \in Vals : Write(w, v)

Call ==
  \E w \in Callers :
    \/ CallAtOnce(w) \/ BeginReset(w) \/ BeginDestruct(w)
    \/ \E t \in Types, v \in Vals :
         \/ \E how \in {"args", "copy", "move"} : BeginConstruct(w, t, v, how)
         \/ \E how \in {"copy", "move"} : BeginAssign(w, t, v, how)
         \/ BeginEmplace(w, t, v)
    \/ \E o \in Callers :
         \/ BeginCopyConstruct(w, o) \/ BeginMoveConstruct(w, o)
         \/ BeginCopyAssign(w, o) \/ BeginMoveAssign(w, o) \/ BeginSwap(w, o)

----------------------------------------------------------------------------
(* The next step of the running call.                                      *)

Doing(what) == todo # <<>> /\ todo[1].do = what
Return(threw) ==
  Returned(running.op, running.dst, running.src, threw) /\ running' = Idle /\ goal' = NoGoal

(* The step leaves state s, and more steps to make before the others.      *)
Proceed(s, more, g) ==
  /\ Commit(s) /\ todo' = more \o Tail(todo)
  /\ IF more = <<>> /\ Len(todo) = 1 THEN Return(FALSE)
     ELSE goal' = g /\ UNCHANGED <<call, running>>

Throw(s) == Commit(s) /\ todo' = <<>> /\ Return(TRUE)

(* The steps that can only succeed.                                        *)
Effect(s, st) ==
  CASE st.do = "destroy" -> Destroy(s, st.on)
    [] st.do = "clear" -> SetPtr(s, st.on, Null)
    [] st.do = "end" -> SetPtr(s, st.on, NoWrap)
    [] st.do = "init" -> MoveInitFrom(s, st.on, st.from)
    [] st.do = "transfer" -> MoveAssign(s, st.on, st.from)
    [] st.do = "exchange" -> SwapSameType(s, st.on, st.from)

Perform ==
  /\ todo # <<>> /\ todo[1].do \in {"destroy", "clear", "end", "init", "transfer", "exchange"}
  /\ Proceed(Effect(Now, todo[1]), <<>>, goal)

(* Mutant: the old value of another type is not destroyed.                 *)
MoveStepsLeaking(s, w, o) ==
  IF Valid(s, w) /\ TypeOf(s, w) = TypeOf(s, o) THEN <<Step("transfer", w, o)>>
  ELSE <<Step("init", w, o)>>

(* operator=(wrap &&) decides, by the types unless the wrap is invalid.    *)
MoveSteps(s, w, o) ==
  CASE Invalid(s, w) -> <<Step("init", w, o)>>
    [] Valid(s, w) /\ TypeOf(s, w) # TypeOf(s, o) -> <<Step("destroy", w, w), Step("init", w, o)>>
    [] OTHER -> <<Step("transfer", w, o)>>

Decide ==
  /\ Doing("move")
  /\ LET w == todo[1].on
         o == todo[1].from
         r == Accuse(Now, Blame(Valid(Now, w) /\ ~ Valid(Now, o), "no holder there"))
     IN  Proceed(r, MoveSteps(Now, w, o), goal)

Clone ==
  /\ Doing("clone")
  /\ LET w == todo[1].on
         o == todo[1].from
     IN  \/ \E p \in CopyPlaces(Now, w, o) :
              Proceed(CopyInit(Now, w, o, p), <<>>, [goal EXCEPT ![running.dst] = HolderOf(Now, o)])
         \/ CopyThrows(Now, o) /\ Throw(Now)

(* A throwing construction leaves the wrap invalid, or not there at all.   *)
Build ==
  /\ Doing("build")
  /\ LET w == todo[1].on
         a == todo[1].from
     IN  \/ \E p \in CtorPlaces(Now, w, a.holder.type) :
              Proceed(NewHolder(Now, w, p, a.holder), <<>>, goal)
         \/ /\ CtorThrows(a.holder.type)
            /\ Throw(IF running.op = "construct" THEN Now ELSE SetPtr(Now, w, Null))

CopyValue ==
  /\ Doing("copy value")
  /\ LET w == todo[1].on
         o == todo[1].from
         r == Accuse(Now, AssertSameStorage(Now, w, o) \cup Run(Now, ptr[o], "copy assign"))
     IN  \/ Proceed(SetValue(r, ptr[w], HolderOf(Now, o).val), <<>>, goal)
         \/ TypeOf(Now, o) \in FragileTypes /\ Throw(SetValue(r, ptr[w], Hollow))

Set ==
  /\ Doing("set")
  /\ LET w == todo[1].on
         a == todo[1].from
         r == Accuse(Now, Run(Now, ptr[w], IF a.how = "copy" THEN "copy assign" ELSE "move assign"))
     IN  \/ Proceed(SetValue(r, ptr[w], a.holder.val), <<>>, goal)
         \/ a.how = "copy" /\ a.holder.type \in FragileTypes /\ Throw(SetValue(r, ptr[w], Hollow))

----------------------------------------------------------------------------
(* User code inside a call.                                                *)

(* The steps that run a special member of a value.                         *)
RunsUserCode(s, st) ==
  CASE st.do = "destroy" -> Valid(s, st.on)
    [] st.do \in {"init", "transfer", "exchange"} -> Stype(s, st.from)
    [] OTHER -> st.do \in {"clone", "build", "copy value", "set"}

(* The wraps that user code has to leave alone, and to leave alive.        *)
WorksOn(steps) == UNION {{steps[i].on, steps[i].from} \cap Wraps : i \in DOMAIN steps}
Engaged == WorksOn(IF running.op = "swap" THEN todo ELSE <<todo[1]>>) \cup {Local}
Needed == {running.dst, running.src, Local}

NestedCall ==
  /\ Reentrant /\ todo # <<>> /\ RunsUserCode(Now, todo[1])
  /\ Next
  /\ {call'.dst, call'.src} \cap Engaged = {}
  /\ call'.op = "destroy" => call'.dst \notin Needed
  /\ goal' = [w \in Wraps |-> IF w \in {call'.dst, call'.src} THEN Anything ELSE goal[w]]
  /\ UNCHANGED <<todo, running>>

StepsInit == Init /\ todo = <<>> /\ running = Idle /\ goal = NoGoal

StepsNext == Call \/ Perform \/ Decide \/ Clone \/ Build \/ CopyValue \/ Set \/ NestedCall

StepsSpec == StepsInit /\ [][StepsNext]_<<vars, stepVars>>

----------------------------------------------------------------------------
Contents == Holder \cup {Null, NoWrap, Anything}
Steps ==
  [do : {"destroy", "clear", "end", "move", "init", "transfer", "exchange", "clone", "copy value",
         "build", "set"},
   on : Slots, from : Slots \cup [holder : Holder, how : {"args", "copy", "move"}]]

(* The state of a call in progress keeps its type.                         *)
StepsTypeOK ==
  /\ Now \in State
  /\ todo \in Seq(Steps)
  /\ running \in [op : Ops, dst : Wraps \cup {Outside}, src : Wraps \cup {Outside}]
  /\ running = Idle <=> todo = <<>>
  /\ goal \in [Wraps -> Contents]

(* Whatever user code may use while a call is in progress is in order:     *)
(* every wrap it is not told to leave alone exists or not, is invalid, or  *)
(* owns a live holder that no other wrap owns; and when no call is in      *)
(* progress, nothing is left over.                                         *)
Whole(w, W) ==
  /\ ptr[w] \in Blocks \cup {w, Null, NoWrap}
  /\ Valid(Now, w) => held[ptr[w]] # Raw /\ \A u \in W \ {w} : ptr[u] # ptr[w]

VisibleWrapsAreWhole ==
  IF todo = <<>> THEN Owned(Now) /\ ptr[Local] = NoWrap
  ELSE \A w \in Wraps \ Engaged : Whole(w, Wraps \ Engaged)

(* A call that does not throw leaves what it promised, although user code  *)
(* ran in the middle of it: in particular copy assignment and swap do not  *)
(* rely on what they knew before.                                          *)
GoalsAreMet ==
  [][todo # <<>> /\ todo' = <<>> /\ ~ call'.threw =>
       \A w \in Wraps : goal[w] \in {Anything, Seen(Now', w)}]_<<vars, stepVars>>
============================================================================
