--------------------------- MODULE StdFuncProofs ---------------------------
(***************************************************************************)
(* Theorems about StdFunc, for every finite set of callables and every     *)
(* stack that has room for two frames of each.                             *)
(*                                                                         *)
(* A task walks a path that the contents determine frame by frame.  Two    *)
(* things follow.  A path that outgrows the set of frames has met a frame  *)
(* twice, so that the frames in between lead to each other: only cycles    *)
(* overflow.  And as long as no content changes, a second walk from the    *)
(* same callable stays on the path of the first, which is kept as a        *)
(* witness of the last conversion to bool: it ends where that one did.     *)
(***************************************************************************)
EXTENDS StdFunc, FiniteSetTheorems, TLAPS

Deeper(fr) == ContentAt(fr) \in Refs \cup Nested
Beneath(fr) == Invoked(fr, ContentAt(fr))

(* A frame for a nested callable stands for one that is there.             *)
Sound(fr) == fr.inner => holds[fr.fn] \in Nested

(* A walk from one wrapper down to the next.                               *)
Path(p) ==
  /\ p \in Seq(Frame) /\ p # <<>> /\ ~ p[1].inner
  /\ \A i \in DOMAIN p : Sound(p[i])
  /\ \A i \in 1 .. Len(p) - 1 : Deeper(p[i]) /\ p[i + 1] = Beneath(p[i])

Typed ==
  /\ holds \in [Callables -> Content]
  /\ task \in {"idle", "call", "bool", "overflow"}
  /\ stack \in Seq(Frame) /\ Len(stack) <= MaxDepth
  /\ stack = <<>> <=> task = "idle"
  /\ asked \in {Unasked} \cup [fn : Callables, answer : BOOLEAN]
  /\ out \in {"none", "true", "false", "returned", "threw", "bad_function_call"}

Walking ==
  /\ task # "idle" => out = "none" /\ Path(stack)
  /\ task = "overflow" => Len(stack) = MaxDepth /\ Deeper(Top)

(* The last conversion walked p to its end, and the stack is on p.         *)
Witness(p) ==
  /\ Path(p) /\ p[1].fn = asked.fn /\ ~ Deeper(p[Len(p)])
  /\ asked.answer <=> ContentAt(p[Len(p)]) = Function
  /\ \A i \in DOMAIN stack : i \in DOMAIN p /\ stack[i] = p[i]

Remembered == asked # Unasked => \E p \in Seq(Frame) : Witness(p)

IInv == Typed /\ Walking /\ Remembered /\ BoolForetellsCalls

----------------------------------------------------------------------------
(* Contents and frames.                                                    *)

(* A reference is no nested callable.                                      *)
LEMMA FlatIsNotNested ==
  ASSUME NEW c \in Flat
  PROVE  c \notin Nested
<1>1. ASSUME c \in Refs, c \in Nested PROVE FALSE
  <2>1. DOMAIN c = {"ref"} BY <1>1 DEF Refs
  <2>2. DOMAIN c = {"value"} BY <1>1 DEF Nested
  <2>3. "ref" # "value" OBVIOUS
  <2> QED BY <2>1, <2>2, <2>3
<1> QED BY <1>1, ContentsAreDistinct DEF Flat

(* A function is not walked through, and is not empty.                     *)
LEMMA FunctionIsTheEnd ==
  /\ Function \notin Refs \cup Nested
  /\ Invalid \notin Refs \cup Nested /\ NullPointer \notin Refs \cup Nested
  /\ Function # Invalid /\ Function # NullPointer
BY ContentsAreDistinct

(* The wrapper beneath a sound one is sound.                               *)
LEMMA BeneathIsSound ==
  ASSUME holds \in [Callables -> Content], NEW fr \in Frame, Sound(fr), Deeper(fr)
  PROVE  Beneath(fr) \in Frame /\ Sound(Beneath(fr))
<1>1. CASE ContentAt(fr) \in Refs
  <2>1. PICK g \in Callables : ContentAt(fr) = [ref |-> g] BY <1>1 DEF Refs
  <2>2. Beneath(fr) = [fn |-> g, inner |-> FALSE] BY <1>1, <2>1 DEF Beneath, Invoked
  <2> QED BY <2>2 DEF Frame, Sound
<1>2. CASE ContentAt(fr) \notin Refs
  <2>1. ContentAt(fr) \in Nested BY <1>2 DEF Deeper
  <2>2. Beneath(fr) = [fn |-> fr.fn, inner |-> TRUE] BY <1>2 DEF Beneath, Invoked
  <2>3. ~ fr.inner
    <3>1. SUFFICES ASSUME fr.inner PROVE FALSE OBVIOUS
    <3>2. PICK c \in Flat : holds[fr.fn] = [value |-> c] BY <3>1 DEF Sound, Nested
    <3>3. ContentAt(fr) = c BY <3>1, <3>2 DEF ContentAt
    <3> QED BY <2>1, <3>3, FlatIsNotNested
  <2>4. holds[fr.fn] \in Nested BY <2>1, <2>3 DEF ContentAt
  <2> QED BY <2>2, <2>4 DEF Frame, Sound
<1> QED BY <1>1, <1>2

(* What a path says of its last wrapper.                                   *)
LEMMA PathEnds ==
  ASSUME NEW p, Path(p)
  PROVE  /\ Len(p) \in Nat \ {0} /\ DOMAIN p = 1 .. Len(p)
         /\ p[Len(p)] \in Frame /\ Sound(p[Len(p)])
         /\ p[1] \in Frame
BY DEF Path

(* A walk that takes one more step is a path.                              *)
LEMMA PathGrows ==
  ASSUME holds \in [Callables -> Content], NEW p, Path(p), Deeper(p[Len(p)])
  PROVE  Path(Append(p, Beneath(p[Len(p)])))
<1> DEFINE b == Beneath(p[Len(p)])
           q == Append(p, b)
<1>1. b \in Frame /\ Sound(b) BY PathEnds, BeneathIsSound
<1> HIDE DEF b
<1>2. p \in Seq(Frame) /\ p # <<>> BY DEF Path
<1>3. q \in Seq(Frame) /\ Len(q) = Len(p) + 1 /\ q # <<>> BY <1>1, <1>2
<1>4. \A i \in 1 .. Len(p) : q[i] = p[i] BY <1>2
<1>5. q[Len(p) + 1] = b BY <1>2
<1> HIDE DEF q
<1>6. Len(p) \in Nat \ {0} /\ DOMAIN p = 1 .. Len(p) /\ DOMAIN q = 1 .. Len(p) + 1
  BY PathEnds, <1>3
<1>7. ~ q[1].inner BY <1>4, <1>6 DEF Path
<1>8. ASSUME NEW i \in DOMAIN q PROVE Sound(q[i])
  <2>1. CASE i = Len(p) + 1 BY <2>1, <1>5, <1>1
  <2>2. CASE i # Len(p) + 1
    <3>1. i \in 1 .. Len(p) BY <1>6, <2>2
    <3> QED BY <3>1, <1>4, <1>6 DEF Path
  <2> QED BY <2>1, <2>2
<1>9. ASSUME NEW i \in 1 .. Len(q) - 1 PROVE Deeper(q[i]) /\ q[i + 1] = Beneath(q[i])
  <2>1. i \in 1 .. Len(p) BY <1>3, <1>6
  <2>2. q[i] = p[i] BY <2>1, <1>4
  <2>3. CASE i = Len(p) BY <2>2, <2>3, <1>5 DEF b
  <2>4. CASE i # Len(p)
    <3>1. i \in 1 .. Len(p) - 1 /\ i + 1 \in 1 .. Len(p)
      <4>1. PICK n \in Nat : n = Len(p) BY <1>6
      <4> QED BY <2>1, <2>4, <4>1
    <3> QED BY <3>1, <2>2, <1>4 DEF Path
  <2> QED BY <2>3, <2>4
<1>10. Path(q) BY <1>3, <1>7, <1>8, <1>9 DEF Path
<1> QED BY <1>10 DEF q, b

----------------------------------------------------------------------------
(* Every step keeps the invariant.                                         *)

(* A task that starts where the conversion did stands on its witness.      *)
LEMMA StartKeeps ==
  ASSUME IInv, NEW f \in Callables, NEW what \in {"call", "bool"}, Start(f, what)
  PROVE  IInv'
<1> DEFINE s == <<[fn |-> f, inner |-> FALSE]>>
<1>1. /\ task = "idle" /\ task' = what /\ stack' = s /\ out' = "none" /\ holds' = holds
      /\ asked' = IF asked # Unasked /\ asked.fn = f THEN asked ELSE Unasked
  BY DEF Start
<1>2. s \in Seq(Frame) /\ Len(s) = 1 /\ s # <<>> /\ s[1] = [fn |-> f, inner |-> FALSE]
  BY DEF Frame
<1>3. MaxDepth \in Nat \ {0}
  <2>1. Cardinality(Callables) \in Nat /\ Cardinality(Callables) # 0
    BY StackIsLargeEnough, FS_CardinalityType, FS_EmptySet
  <2> QED BY <2>1, StackIsLargeEnough
<1> HIDE DEF s
<1>4. Typed'
  <2>1. asked' \in {Unasked} \cup [fn : Callables, answer : BOOLEAN]
    BY <1>1 DEF IInv, Typed
  <2>2. what \in {"idle", "call", "bool", "overflow"} /\ what # "idle" OBVIOUS
  <2>3. stack' \in Seq(Frame) /\ Len(stack') <= MaxDepth /\ stack' # <<>>
    BY <1>1, <1>2, <1>3
  <2> QED BY <1>1, <2>1, <2>2, <2>3 DEF IInv, Typed
<1>5. Path(stack)'
  <2>1. ~ s[1].inner BY <1>2
  <2>2. DOMAIN s = {1} BY <1>2
  <2>3. ~ s[1].inner /\ (1 .. Len(s) - 1) = {} BY <1>2
  <2> QED BY <1>1, <1>2, <2>1, <2>2, <2>3 DEF Path, Sound
<1>6. Walking' BY <1>1, <1>5 DEF Walking
<1>7. Remembered'
  <2>1. SUFFICES ASSUME asked' # Unasked PROVE \E p \in Seq(Frame) : Witness(p)'
    BY DEF Remembered
  <2>2. asked # Unasked /\ asked.fn = f /\ asked' = asked BY <1>1, <2>1
  <2>3. PICK p \in Seq(Frame) : Witness(p) BY <2>2 DEF IInv, Remembered
  <2>4. Path(p) /\ p[1].fn = f BY <2>2, <2>3 DEF Witness
  <2>5. 1 \in DOMAIN p /\ p[1] \in Frame /\ ~ p[1].inner BY <2>4, PathEnds DEF Path
  <2>6. p[1] = s[1] BY <2>4, <2>5, <1>2 DEF Frame
  <2>7. DOMAIN s = {1} BY <1>2
  <2>8. \A i \in DOMAIN stack' : i \in DOMAIN p /\ stack'[i] = p[i]
    BY <1>1, <2>5, <2>6, <2>7
  <2>9. (Path(p))' BY <2>4, <1>1 DEF Path, Sound, Deeper, Beneath, ContentAt
  <2>10. (~ Deeper(p[Len(p)]))' /\ (asked.answer <=> ContentAt(p[Len(p)]) = Function)'
    BY <2>3, <2>2, <1>1 DEF Witness, Deeper, ContentAt
  <2>11. p[1].fn = asked'.fn BY <2>2, <2>4
  <2>12. Witness(p)' BY <2>8, <2>9, <2>10, <2>11 DEF Witness
  <2> QED BY <2>12
<1>8. BoolForetellsCalls' BY <1>1 DEF BoolForetellsCalls
<1> QED BY <1>4, <1>6, <1>7, <1>8 DEF IInv

(* The wrapper that a task stands on.                                      *)
LEMMA TopIsSound ==
  ASSUME IInv, task # "idle"
  PROVE  /\ Path(stack) /\ out = "none" /\ stack # <<>>
         /\ Len(stack) \in Nat \ {0} /\ DOMAIN stack = 1 .. Len(stack)
         /\ Top \in Frame /\ Sound(Top) /\ stack[1] \in Frame
BY PathEnds DEF IInv, Walking, Top, Path

(* A task that stays on the witness goes down where the conversion did.    *)
LEMMA WitnessGoesOn ==
  ASSUME IInv, task # "idle", Deeper(Top), NEW p \in Seq(Frame), Witness(p)
  PROVE  Len(stack) + 1 \in DOMAIN p /\ p[Len(stack) + 1] = Beneath(Top)
<1>1. PICK k \in Nat \ {0} : k = Len(stack) BY TopIsSound
<1>2. k \in DOMAIN p /\ stack[k] = p[k] BY <1>1, TopIsSound DEF Witness
<1>3. PICK n \in Nat \ {0} : n = Len(p) /\ DOMAIN p = 1 .. n BY PathEnds DEF Witness
<1>4. Deeper(p[k]) BY <1>1, <1>2 DEF Top
<1>5. k # n BY <1>3, <1>4 DEF Witness
<1>6. k \in 1 .. n - 1 /\ k + 1 \in 1 .. n BY <1>2, <1>3, <1>5
<1>7. p[k + 1] = Beneath(p[k]) BY <1>3, <1>6 DEF Witness, Path
<1> QED BY <1>1, <1>2, <1>3, <1>6, <1>7 DEF Top

(* A task that stays on the witness ends where the conversion did.         *)
LEMMA WitnessEnds ==
  ASSUME IInv, task # "idle", ~ Deeper(Top), NEW p \in Seq(Frame), Witness(p)
  PROVE  Top = p[Len(p)]
<1>1. PICK k \in Nat \ {0} : k = Len(stack) BY TopIsSound
<1>2. k \in DOMAIN p /\ stack[k] = p[k] BY <1>1, TopIsSound DEF Witness
<1>3. PICK n \in Nat \ {0} : n = Len(p) /\ DOMAIN p = 1 .. n BY PathEnds DEF Witness
<1>4. ~ Deeper(p[k]) BY <1>1, <1>2 DEF Top
<1>5. k \notin 1 .. n - 1 BY <1>3, <1>4 DEF Witness, Path
<1>6. k = n BY <1>2, <1>3, <1>5
<1> QED BY <1>1, <1>2, <1>3, <1>6 DEF Top

(* What the conversion saw is the same as long as no content changes.      *)
LEMMA WitnessSurvives ==
  ASSUME NEW p, Witness(p), UNCHANGED <<holds, asked>>,
         \A i \in DOMAIN stack' : i \in DOMAIN p /\ stack'[i] = p[i]
  PROVE  Witness(p)'
<1>1. holds' = holds /\ asked' = asked OBVIOUS
<1>2. Path(p)' BY <1>1 DEF Witness, Path, Sound, Deeper, Beneath, ContentAt
<1>3. (~ Deeper(p[Len(p)]))' /\ (asked.answer <=> ContentAt(p[Len(p)]) = Function)'
  BY <1>1 DEF Witness, Deeper, ContentAt
<1>4. (p[1].fn = asked.fn)' BY <1>1 DEF Witness
<1> QED BY <1>2, <1>3, <1>4 DEF Witness

(* A walk goes down one wrapper, or finds the stack full.                  *)
LEMMA EnterKeeps ==
  ASSUME IInv, Enter
  PROVE  IInv'
<1>1. /\ task \in {"call", "bool"} /\ Deeper(Top)
      /\ holds' = holds /\ asked' = asked /\ out' = out
  BY DEF Enter, Running, Deeper
<1>2. /\ task # "idle" /\ Path(stack) /\ out = "none" /\ Sound(Top) /\ Top \in Frame
      /\ stack # <<>> /\ DOMAIN stack = 1 .. Len(stack)
  BY <1>1, TopIsSound
<1>3. PICK k \in Nat \ {0} : k = Len(stack) BY <1>1, TopIsSound
<1>4. BoolForetellsCalls' BY <1>1, <1>2 DEF BoolForetellsCalls
<1>5. MaxDepth \in Nat BY StackIsLargeEnough
<1>6. CASE Len(stack) < MaxDepth /\ stack' = Append(stack, Beneath(Top)) /\ task' = task
  <2>1. Beneath(Top) \in Frame BY <1>2, BeneathIsSound, <1>1 DEF IInv, Typed
  <2>2. Path(stack')
    BY <1>1, <1>2, <1>6, PathGrows DEF Top, IInv, Typed
  <2>3. Path(stack)' BY <2>2, <1>1 DEF Path, Sound, Deeper, Beneath, ContentAt
  <2>4. stack \in Seq(Frame) BY DEF IInv, Typed
  <2>5. /\ stack' \in Seq(Frame) /\ Len(stack') = k + 1 /\ stack' # <<>>
        /\ DOMAIN stack' = 1 .. k + 1
        /\ \A i \in 1 .. k : stack'[i] = stack[i]
        /\ stack'[k + 1] = Beneath(Top)
    BY <2>1, <2>4, <1>3, <1>6
  <2>6. Typed' BY <2>5, <1>1, <1>2, <1>3, <1>5, <1>6 DEF IInv, Typed
  <2>7. Walking' BY <2>3, <1>1, <1>2, <1>6 DEF Walking
  <2>8. Remembered'
    <3>1. SUFFICES ASSUME asked # Unasked PROVE \E p \in Seq(Frame) : Witness(p)'
      BY <1>1 DEF Remembered
    <3>2. PICK p \in Seq(Frame) : Witness(p) BY <3>1 DEF IInv, Remembered
    <3>3. k + 1 \in DOMAIN p /\ p[k + 1] = Beneath(Top)
      BY <1>1, <1>2, <1>3, <3>2, WitnessGoesOn
    <3>4. ASSUME NEW i \in DOMAIN stack' PROVE i \in DOMAIN p /\ stack'[i] = p[i]
      <4>1. CASE i = k + 1 BY <4>1, <3>3, <2>5
      <4>2. CASE i # k + 1
        <5>1. i \in 1 .. k BY <4>2, <2>5
        <5> QED BY <5>1, <2>5, <3>2, <1>2, <1>3 DEF Witness
      <4> QED BY <4>1, <4>2
    <3> QED BY <3>2, <3>4, <1>1, WitnessSurvives
  <2> QED BY <1>4, <2>6, <2>7, <2>8 DEF IInv
<1>7. CASE Len(stack) = MaxDepth /\ task' = "overflow" /\ stack' = stack
  <2>1. Typed' BY <1>1, <1>2, <1>7 DEF IInv, Typed
  <2>2. Path(stack)' BY <1>1, <1>2, <1>7 DEF Path, Sound, Deeper, Beneath, ContentAt
  <2>3. Deeper(Top)' BY <1>1, <1>7 DEF Deeper, Top, ContentAt
  <2>4. Walking' BY <1>1, <1>2, <1>7, <2>2, <2>3 DEF Walking
  <2>5. Remembered'
    <3>1. SUFFICES ASSUME asked # Unasked PROVE \E p \in Seq(Frame) : Witness(p)'
      BY <1>1 DEF Remembered
    <3>2. PICK p \in Seq(Frame) : Witness(p) BY <3>1 DEF IInv, Remembered
    <3>3. \A i \in DOMAIN stack' : i \in DOMAIN p /\ stack'[i] = p[i]
      BY <3>2, <1>7 DEF Witness
    <3> QED BY <3>2, <3>3, <1>1, WitnessSurvives
  <2> QED BY <1>4, <2>1, <2>4, <2>5 DEF IInv
<1> QED BY <1>6, <1>7 DEF Enter, Beneath

(* A task ends: a conversion leaves its path as the witness, and a call    *)
(* that stood on a witness ends with the outcome that was foretold.        *)
LEMMA FinishKeeps ==
  ASSUME IInv, Running, ~ Deeper(Top), NEW how, Finish(how),
         task = "bool" => /\ how \in {"true", "false"}
                          /\ how = "true" <=> ContentAt(Top) = Function,
         task = "call" => /\ how \in {"returned", "threw", "bad_function_call"}
                          /\ how = "bad_function_call" <=> ContentAt(Top) # Function
  PROVE  IInv'
<1>1. task \in {"call", "bool"} /\ task # "idle" BY DEF Running
<1>2. /\ task' = "idle" /\ stack' = <<>> /\ out' = how /\ holds' = holds
      /\ asked' = IF task = "bool" THEN [fn |-> stack[1].fn, answer |-> how = "true"] ELSE asked
  BY DEF Finish
<1>3. /\ Path(stack) /\ DOMAIN stack = 1 .. Len(stack) /\ stack[1].fn \in Callables
  BY <1>1, TopIsSound DEF Frame
<1>4. Typed'
  <2>1. asked' \in {Unasked} \cup [fn : Callables, answer : BOOLEAN]
    BY <1>2, <1>3 DEF IInv, Typed
  <2>2. out' \in {"none", "true", "false", "returned", "threw", "bad_function_call"}
    BY <1>1, <1>2
  <2>3. stack' \in Seq(Frame) /\ Len(stack') <= MaxDepth /\ (stack' = <<>> <=> task' = "idle")
    BY <1>2, StackIsLargeEnough
  <2> QED BY <1>2, <2>1, <2>2, <2>3 DEF IInv, Typed
<1>5. Walking' BY <1>2 DEF Walking
<1>6. DOMAIN stack' = {} BY <1>2
<1>7. CASE task = "bool"
  <2>1. asked' = [fn |-> stack[1].fn, answer |-> how = "true"] BY <1>2, <1>7
  <2>2. asked'.fn = stack[1].fn /\ (asked'.answer <=> ContentAt(Top) = Function)
    BY <2>1, <1>7
  <2>3. Path(stack) /\ stack \in Seq(Frame) BY <1>3 DEF Path
  <2>4. PICK q \in Seq(Frame) : q = stack BY <2>3
  <2>5. Path(q)' BY <1>2, <2>3, <2>4 DEF Path, Sound, Deeper, Beneath, ContentAt
  <2>6. (~ Deeper(q[Len(q)]))' /\ (asked.answer <=> ContentAt(q[Len(q)]) = Function)'
    BY <1>2, <2>2, <2>4 DEF Deeper, ContentAt, Top
  <2>7. Witness(q)' BY <1>6, <2>2, <2>4, <2>5, <2>6 DEF Witness
  <2>8. Remembered' BY <2>7 DEF Remembered
  <2>9. BoolForetellsCalls' BY <1>2, <1>7 DEF BoolForetellsCalls
  <2> QED BY <1>4, <1>5, <2>8, <2>9 DEF IInv
<1>8. CASE task = "call"
  <2>1. asked' = asked BY <1>2, <1>8
  <2>2. CASE asked = Unasked
    <3>1. Remembered' /\ BoolForetellsCalls' BY <2>1, <2>2 DEF Remembered, BoolForetellsCalls
    <3> QED BY <1>4, <1>5, <3>1 DEF IInv
  <2>3. CASE asked # Unasked
    <3>1. PICK p \in Seq(Frame) : Witness(p) BY <2>3 DEF IInv, Remembered
    <3>2. Remembered' BY <3>1, <1>2, <1>6, <2>1, WitnessSurvives DEF Remembered
    <3>3. Top = p[Len(p)] BY <3>1, <1>1, WitnessEnds
    <3>4. asked.answer <=> ContentAt(Top) = Function BY <3>1, <3>3 DEF Witness
    <3>5. BoolForetellsCalls' BY <1>2, <1>8, <2>1, <3>4 DEF BoolForetellsCalls
    <3> QED BY <1>4, <1>5, <3>2, <3>5 DEF IInv
  <2> QED BY <2>2, <2>3
<1> QED BY <1>1, <1>7, <1>8

(* An empty wrapper answers false, or throws.                              *)
LEMMA RefuseKeeps ==
  ASSUME IInv, Refuse
  PROVE  IInv'
<1> DEFINE how == IF task = "bool" THEN "false" ELSE "bad_function_call"
<1>1. Running /\ ContentAt(Top) \in {Invalid, NullPointer} /\ Finish(how) BY DEF Refuse
<1>2. ~ Deeper(Top) /\ ContentAt(Top) # Function BY <1>1, FunctionIsTheEnd DEF Deeper
<1>3. /\ task = "bool" => how \in {"true", "false"} /\ how # "true"
      /\ task = "call" => how = "bad_function_call"
  OBVIOUS
<1> HIDE DEF how
<1> QED BY <1>1, <1>2, <1>3, FinishKeeps

(* A function answers true, or runs.                                       *)
LEMMA ReachKeeps ==
  ASSUME IInv, Reach
  PROVE  IInv'
<1>1. PICK how : /\ Running /\ ContentAt(Top) = Function /\ Finish(how)
                 /\ how \in IF task = "bool" THEN {"true"} ELSE {"returned", "threw"}
  BY DEF Reach
<1>2. ~ Deeper(Top) BY <1>1, FunctionIsTheEnd DEF Deeper
<1>3. /\ task = "bool" => how = "true"
      /\ task = "call" => how \in {"returned", "threw"} /\ how # "bad_function_call"
  BY <1>1
<1> QED BY <1>1, <1>2, <1>3, FinishKeeps

(* What a move leaves behind is a content, and of a flat one a flat one.   *)
LEMMA LeftoversAreContents ==
  /\ \A c \in Content : Leftovers(c) \subseteq Content
  /\ \A c \in Flat : Leftovers(c) \subseteq Flat
BY DEF Leftovers, Content, Flat

(* The user changes contents, of callables that no wrapper entered is in.  *)
LEMMA UserChanges ==
  ASSUME IInv, User
  PROVE  /\ UserCode
         /\ \E h \in [Callables -> Content] :
              Change(h) /\ \A f \in Callables \ Free : h[f] = holds[f]
<1>1. holds \in [Callables -> Content] BY DEF IInv, Typed
<1>2. UserCode BY DEF User
<1>3. PICK f \in Free :
        \/ \E c \in Content : Assign(f, c)
        \/ \E g \in Free : CopyAssign(f, g) \/ MoveAssign(f, g)
        \/ TakeNested(f)
  BY DEF User
<1>4. f \in Callables /\ Free \subseteq Callables BY DEF Free
<1>5. ASSUME NEW c \in Content, NEW g \in Free, NEW d \in Content
      PROVE  /\ [holds EXCEPT ![f] = c] \in [Callables -> Content]
             /\ \A e \in Callables \ Free : [holds EXCEPT ![f] = c][e] = holds[e]
             /\ [holds EXCEPT ![f] = c, ![g] = d] \in [Callables -> Content]
             /\ \A e \in Callables \ Free : [holds EXCEPT ![f] = c, ![g] = d][e] = holds[e]
  BY <1>1, <1>4
<1>6. ASSUME NEW c \in Content, Assign(f, c)
      PROVE  \E h \in [Callables -> Content] :
               Change(h) /\ \A e \in Callables \ Free : h[e] = holds[e]
  BY <1>5, <1>6 DEF Assign
<1>7. ASSUME NEW g \in Free, CopyAssign(f, g)
      PROVE  \E h \in [Callables -> Content] :
               Change(h) /\ \A e \in Callables \ Free : h[e] = holds[e]
  <2>1. holds[g] \in Content BY <1>1, <1>4
  <2> QED BY <2>1, <1>5, <1>7 DEF CopyAssign
<1>8. ASSUME NEW g \in Free, MoveAssign(f, g)
      PROVE  \E h \in [Callables -> Content] :
               Change(h) /\ \A e \in Callables \ Free : h[e] = holds[e]
  <2>1. holds[g] \in Content /\ holds[f] \in Content BY <1>1, <1>4
  <2>2. PICK c \in Leftovers(holds[g]) \cup {d \in {holds[f]} : SameType(d, holds[g])} :
          Change([holds EXCEPT ![f] = holds[g], ![g] = c])
    BY <1>8 DEF MoveAssign
  <2>3. c \in Content BY <2>1, LeftoversAreContents
  <2> DEFINE h == [holds EXCEPT ![f] = holds[g], ![g] = c]
  <2>4. h \in [Callables -> Content] /\ \A e \in Callables \ Free : h[e] = holds[e]
    BY <2>1, <2>3, <1>5
  <2> QED BY <2>2, <2>4
<1>9. ASSUME TakeNested(f)
      PROVE  \E h \in [Callables -> Content] :
               Change(h) /\ \A e \in Callables \ Free : h[e] = holds[e]
  <2>1. PICK v \in Flat : holds[f] = [value |-> v] BY <1>9 DEF TakeNested, Nested
  <2>2. PICK c \in Leftovers(v) : Change([holds EXCEPT ![f] = [value |-> c]])
    BY <1>9, <2>1 DEF TakeNested
  <2>3. [value |-> c] \in Content BY LeftoversAreContents DEF Content, Nested
  <2> QED BY <2>2, <2>3, <1>3, <1>5
<1> QED BY <1>2, <1>3, <1>6, <1>7, <1>8, <1>9

(* What the user does leaves the call that is running on its path.         *)
LEMMA UserKeeps ==
  ASSUME IInv, User
  PROVE  IInv'
<1>1. PICK h \in [Callables -> Content] :
        Change(h) /\ \A f \in Callables \ Free : h[f] = holds[f]
  BY UserChanges
<1>2. /\ holds' = h /\ asked' = Unasked /\ out' = "none" /\ task' = task /\ stack' = stack
      /\ task = "idle" \/ (task = "call" /\ ContentAt(Top) = Function)
  BY <1>1, UserChanges DEF Change, UserCode
<1>3. Typed' BY <1>1, <1>2 DEF IInv, Typed
<1>4. ASSUME task = "call" PROVE Path(stack)'
  <2>1. PICK p : p = stack /\ Path(p) BY <1>4, TopIsSound
  <2>2. ASSUME NEW i \in DOMAIN p
        PROVE  (Deeper(p[i]) => Deeper(p[i])') /\ Beneath(p[i])' = Beneath(p[i]) /\ Sound(p[i])'
    <3>1. p[i] \in Frame /\ p[i].fn \in Callables \ Free
      <4>1. p \in Seq(Frame) BY <2>1 DEF Path
      <4>2. p[i] \in Frame BY <4>1
      <4>3. p[i].fn \in Callables BY <4>2 DEF Frame
      <4>4. p[i].fn \in {stack[j].fn : j \in DOMAIN stack} BY <2>1
      <4> QED BY <4>2, <4>3, <4>4 DEF Free
    <3>2. holds'[p[i].fn] = holds[p[i].fn] BY <1>1, <1>2, <3>1
    <3>3. Sound(p[i]) BY <2>1 DEF Path
    <3> QED BY <3>2, <3>3 DEF Sound, Deeper, Beneath, ContentAt
  <2>3. \A i \in 1 .. Len(p) - 1 : i \in DOMAIN p /\ Deeper(p[i]) /\ p[i + 1] = Beneath(p[i])
    BY <2>1 DEF Path
  <2>4. \A i \in 1 .. Len(p) - 1 : Deeper(p[i])' /\ p[i + 1] = Beneath(p[i])' BY <2>2, <2>3
  <2>5. Path(p)' BY <2>1, <2>2, <2>4 DEF Path
  <2> QED BY <1>2, <2>1, <2>5 DEF Path
<1>5. Walking' BY <1>2, <1>4 DEF Walking
<1>6. Remembered' /\ BoolForetellsCalls' BY <1>2 DEF Remembered, BoolForetellsCalls
<1> QED BY <1>3, <1>5, <1>6 DEF IInv

(* The invariant holds in every state.                                     *)
THEOREM Invariance == Spec => []IInv
<1>1. Init => IInv
  <2>1. ASSUME Init PROVE IInv
    <3>1. /\ holds \in [Callables -> {NullPointer}] /\ task = "idle" /\ stack = <<>>
          /\ asked = Unasked /\ out = "none"
      BY <2>1 DEF Init
    <3>2. NullPointer \in Content BY DEF Content, Flat
    <3>3. stack \in Seq(Frame) /\ Len(stack) <= MaxDepth BY <3>1, StackIsLargeEnough
    <3>4. Typed BY <3>1, <3>2, <3>3 DEF Typed
    <3>5. Walking /\ Remembered /\ BoolForetellsCalls
      BY <3>1 DEF Walking, Remembered, BoolForetellsCalls
    <3> QED BY <3>4, <3>5 DEF IInv
  <2> QED BY <2>1
<1>2. ASSUME IInv, [Next]_vars PROVE IInv'
  <2>1. CASE UNCHANGED vars
    BY <1>2, <2>1 DEF vars, IInv, Typed, Walking, Remembered, BoolForetellsCalls, Witness, Path,
      Sound, Deeper, Beneath, ContentAt, Top
  <2>2. CASE \E f \in Callables, what \in {"call", "bool"} : Start(f, what)
    BY <1>2, <2>2, StartKeeps
  <2>3. CASE Enter BY <1>2, <2>3, EnterKeeps
  <2>4. CASE Refuse BY <1>2, <2>4, RefuseKeeps
  <2>5. CASE Reach BY <1>2, <2>5, ReachKeeps
  <2>6. CASE User BY <1>2, <2>6, UserKeeps
  <2> QED BY <1>2, <2>1, <2>2, <2>3, <2>4, <2>5, <2>6 DEF Next
<1> QED BY <1>1, <1>2, PTL DEF Spec

(* The variables keep their types, and wrappers are entered in a task only. *)
THEOREM TypeCorrect == Spec => []TypeOK
<1>1. IInv => TypeOK BY DEF IInv, Typed, TypeOK
<1> QED BY <1>1, Invariance, PTL

(* Down all references and nested callables, and after any moves, a call   *)
(* right after a conversion to bool finds something to run if and only if  *)
(* the conversion said so.                                                 *)
THEOREM BoolForetells == Spec => []BoolForetellsCalls
<1>1. IInv => BoolForetellsCalls BY DEF IInv
<1> QED BY <1>1, Invariance, PTL

(* A conversion to bool, which is noexcept, ends with an answer.           *)
THEOREM BoolIsNoexcept == Spec => BoolNeverThrows
<1>1. ASSUME IInv, [Next]_vars PROVE [task = "bool" => out' \in {"none", "true", "false"}]_vars
  <2>1. SUFFICES ASSUME Next, task = "bool" PROVE out' \in {"none", "true", "false"}
    BY <1>1
  <2>2. out = "none" BY <1>1, <2>1 DEF IInv, Walking
  <2>3. CASE \E f \in Callables, what \in {"call", "bool"} : Start(f, what)
    BY <2>3 DEF Start
  <2>4. CASE Enter BY <2>2, <2>4 DEF Enter
  <2>5. CASE Refuse BY <2>1, <2>5 DEF Refuse, Finish
  <2>6. CASE Reach BY <2>1, <2>6 DEF Reach, Finish
  <2>7. CASE User BY <2>1, <2>7 DEF User, UserCode
  <2> QED BY <2>1, <2>3, <2>4, <2>5, <2>6, <2>7 DEF Next
<1> QED BY <1>1, Invariance, PTL DEF Spec, BoolNeverThrows

----------------------------------------------------------------------------
(* Only cycles overflow.                                                   *)

(* There are two frames for each callable.                                 *)
LEMMA FramesAreFinite ==
  IsFiniteSet(Frame) /\ Cardinality(Frame) <= 2 * Cardinality(Callables)
<1> DEFINE D == Callables \X BOOLEAN
           frame == [x \in D |-> [fn |-> x[1], inner |-> x[2]]]
<1>1. IsFiniteSet(BOOLEAN) /\ Cardinality(BOOLEAN) = 2
  <2>1. {TRUE} \cup {FALSE} = BOOLEAN /\ FALSE \notin {TRUE} OBVIOUS
  <2>2. IsFiniteSet({TRUE}) /\ Cardinality({TRUE}) = 1 BY FS_Singleton
  <2>3. IsFiniteSet({TRUE} \cup {FALSE}) /\ Cardinality({TRUE} \cup {FALSE}) = 1 + 1
    BY <2>1, <2>2, FS_AddElement
  <2>4. 1 + 1 = 2 OBVIOUS
  <2> QED BY <2>1, <2>3, <2>4, Zenon
<1>2. IsFiniteSet(Callables) /\ Cardinality(Callables) \in Nat
  BY StackIsLargeEnough, FS_CardinalityType
<1>3. IsFiniteSet(D) /\ Cardinality(D) = Cardinality(Callables) * 2
  BY <1>1, <1>2, FS_Product
<1>4. frame \in Surjection(D, Frame)
  <2>1. frame \in [D -> Frame] BY DEF Frame
  <2>2. ASSUME NEW fr \in Frame PROVE \E x \in D : frame[x] = fr
    <3>1. <<fr.fn, fr.inner>> \in D BY DEF Frame
    <3>2. frame[<<fr.fn, fr.inner>>] = fr BY <3>1 DEF Frame
    <3> QED BY <3>1, <3>2
  <2> QED BY <2>1, <2>2 DEF Surjection
<1> HIDE DEF D, frame
<1>5. IsFiniteSet(Frame) /\ Cardinality(Frame) <= Cardinality(D)
  BY <1>3, <1>4, FS_Surjection
<1> QED BY <1>2, <1>3, <1>5

(* A set of frames that is closed under the walk keeps its callables going *)
(* round: each holds a reference to one of them, nested or not.            *)
LEMMA ClosedFramesLead ==
  ASSUME holds \in [Callables -> Content], NEW P \in SUBSET Frame,
         \A fr \in P : Sound(fr) /\ Deeper(fr) /\ Beneath(fr) \in P,
         NEW fr \in P
  PROVE  \E h \in {gr.fn : gr \in P} : Leads(fr.fn, h)
<1>1. ASSUME NEW gr \in P, gr.inner
      PROVE  \E h \in {kr.fn : kr \in P} : Leads(gr.fn, h)
  <2>1. PICK v \in Flat : holds[gr.fn] = [value |-> v] BY <1>1 DEF Sound, Nested
  <2>2. ContentAt(gr) = v BY <1>1, <2>1 DEF ContentAt
  <2>3. v \in Refs BY <1>1, <2>2, FlatIsNotNested DEF Deeper
  <2>4. PICK h \in Callables : v = [ref |-> h] BY <2>3 DEF Refs
  <2>5. Beneath(gr) = [fn |-> h, inner |-> FALSE] BY <2>2, <2>3, <2>4 DEF Beneath, Invoked
  <2>6. Beneath(gr) \in P BY <1>1
  <2>7. Beneath(gr).fn = h BY <2>5
  <2>8. Leads(gr.fn, h) BY <2>1, <2>4 DEF Leads
  <2> QED BY <2>6, <2>7, <2>8
<1>2. CASE fr.inner BY <1>1, <1>2
<1>3. CASE ~ fr.inner /\ holds[fr.fn] \in Refs
  <2>1. PICK h \in Callables : holds[fr.fn] = [ref |-> h] BY <1>3 DEF Refs
  <2>2. Beneath(fr) = [fn |-> h, inner |-> FALSE]
    BY <1>3, <2>1 DEF Beneath, Invoked, ContentAt
  <2>3. Beneath(fr) \in P OBVIOUS
  <2>4. Beneath(fr).fn = h BY <2>2
  <2>5. Leads(fr.fn, h) BY <2>1 DEF Leads
  <2> QED BY <2>3, <2>4, <2>5
<1>4. CASE ~ fr.inner /\ holds[fr.fn] \notin Refs
  <2>1. Beneath(fr) = [fn |-> fr.fn, inner |-> TRUE] BY <1>4 DEF Beneath, Invoked, ContentAt
  <2>2. Beneath(fr) \in P OBVIOUS
  <2>3. Beneath(fr).inner /\ Beneath(fr).fn = fr.fn BY <2>1
  <2> QED BY <1>1, <2>2, <2>3
<1> QED BY <1>2, <1>3, <1>4

(* A path of more wrappers than there are frames comes back to one, and    *)
(* what is between the two visits is endless.                              *)
LEMMA LongPathsAreEndless ==
  ASSUME holds \in [Callables -> Content], NEW q, Path(q), Len(q) > Cardinality(Frame)
  PROVE  Endless(q[1].fn)
<1>1. q \in Seq(Frame) /\ Len(q) \in Nat \ {0} /\ DOMAIN q = 1 .. Len(q)
  BY PathEnds DEF Path
<1>2. PICK n \in Nat : n = Len(q) BY <1>1
<1>3. IsFiniteSet(1 .. n) /\ Cardinality(1 .. n) = n BY FS_Interval
<1>4. Cardinality(Frame) < Cardinality(1 .. n) BY <1>2, <1>3, FramesAreFinite, FS_CardinalityType
<1>5. q \in [1 .. n -> Frame] BY <1>1, <1>2
<1>6. \E i, j \in 1 .. n : i # j /\ q[i] = q[j]
  BY <1>3, <1>4, <1>5, FramesAreFinite, FS_PigeonHole
<1>7. PICK i, j \in 1 .. n : i < j /\ q[i] = q[j] BY <1>6
<1> DEFINE P == {q[k] : k \in 1 .. j - 1}
           S == {fr.fn : fr \in P}
<1>8. P \in SUBSET Frame BY <1>5
<1>9. ASSUME NEW fr \in P PROVE Sound(fr) /\ Deeper(fr) /\ Beneath(fr) \in P
  <2>1. PICK k \in 1 .. j - 1 : fr = q[k] OBVIOUS
  <2>2. k \in 1 .. n - 1 /\ k \in 1 .. n BY <2>1
  <2>3. Sound(q[k]) /\ Deeper(q[k]) /\ q[k + 1] = Beneath(q[k])
    BY <1>1, <1>2, <2>2 DEF Path
  <2>4. q[k + 1] \in P
    <3>1. CASE k + 1 = j
      <4>1. i \in 1 .. j - 1 BY <1>7
      <4> QED BY <3>1, <4>1, <1>7
    <3>2. CASE k + 1 # j
      <4>1. k + 1 \in 1 .. j - 1 BY <3>2
      <4> QED BY <4>1
    <3> QED BY <3>1, <3>2
  <2> QED BY <2>1, <2>3, <2>4
<1>10. q[1] \in P
  <2>1. 1 \in 1 .. j - 1 BY <1>7
  <2> QED BY <2>1
<1> HIDE DEF P
<1>11. \A fr \in P : \E h \in S : Leads(fr.fn, h) BY <1>8, <1>9, ClosedFramesLead
<1>12. S \in SUBSET Callables BY <1>8 DEF Frame
<1>13. q[1].fn \in S BY <1>10
<1>14. \A g \in S : \E h \in S : Leads(g, h) BY <1>11
<1> QED BY <1>12, <1>13, <1>14 DEF Endless

(* A call or conversion that exhausts the stack goes round in a cycle of   *)
(* references, whatever the size of the stack that has room for the rest.  *)
THEOREM OnlyCycles == Spec => []OnlyCyclesOverflow
<1>1. IInv => OnlyCyclesOverflow
  <2>1. SUFFICES ASSUME IInv, task = "overflow" PROVE Endless(stack[1].fn)
    BY DEF OnlyCyclesOverflow
  <2>2. /\ Path(stack) /\ Len(stack) = MaxDepth /\ Deeper(stack[Len(stack)])
        /\ holds \in [Callables -> Content]
    BY <2>1 DEF IInv, Walking, Typed, Top
  <2> DEFINE q == Append(stack, Beneath(stack[Len(stack)]))
  <2>3. Path(q) BY <2>2, PathGrows
  <2>4. /\ stack \in Seq(Frame) /\ stack # <<>>
        /\ Beneath(stack[Len(stack)]) \in Frame
    BY <2>2, PathEnds, BeneathIsSound DEF Path
  <2>5. Len(q) = MaxDepth + 1 /\ q[1] = stack[1] BY <2>2, <2>4
  <2> HIDE DEF q
  <2>6. Cardinality(Frame) \in Nat /\ Cardinality(Callables) \in Nat
    BY FramesAreFinite, StackIsLargeEnough, FS_CardinalityType
  <2>7. Len(q) > Cardinality(Frame) BY <2>5, <2>6, FramesAreFinite, StackIsLargeEnough
  <2>8. Endless(q[1].fn) BY <2>2, <2>3, <2>7, LongPathsAreEndless
  <2> QED BY <2>5, <2>8
<1> QED BY <1>1, Invariance, PTL
============================================================================
