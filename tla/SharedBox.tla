----------------------------- MODULE SharedBox -----------------------------
(***************************************************************************)
(* What a wrap with reference semantics promises its caller, without       *)
(* shared pointers and counts: a box refers to an object, several boxes    *)
(* may refer to the same one, and an object exists exactly as long as some *)
(* box refers to it.  Every call that throws changes nothing.              *)
(***************************************************************************)
CONSTANTS
  Boxes,    (* The objects of one wrap class.                              *)
  Objs,     (* Identities of the values.                                   *)
  Contents, (* What an object holds: a type and a value.                   *)
  Copyable, (* The types whose values can be copied.                       *)
  Nothing,  (* The content of an object that does not exist.               *)
  Empty,    (* What a box in the invalid state refers to.                  *)
  Absent,   (* What a box that does not exist refers to.                   *)
  Outside   (* The source of a call whose argument is not a box.           *)

VARIABLES
  ref,      (* ref[b]: the object box b refers to, or Empty, or Absent.    *)
  content,  (* content[x]: what object x holds.                            *)
  call      (* The last call: operation, destination, source, outcome.     *)

vars == <<ref, content, call>>

Exists(b) == ref[b] # Absent
Full(b) == ref[b] \in Objs
Fresh == {x \in Objs : content[x] = Nothing}

(* The boxes refer to r; the objects hold c as long as they are referred to. *)
Refer(r, c) ==
  /\ ref' = r
  /\ content' = [x \in Objs |-> IF \E b \in Boxes : r[b] = x THEN c[x] ELSE Nothing]

Done(op, b, o, out) == call' = [op |-> op, dst |-> b, src |-> o, out |-> out]
Failed == UNCHANGED <<ref, content>>

Init ==
  /\ ref = [b \in Boxes |-> Absent]
  /\ content = [x \in Objs |-> Nothing]
  /\ \E b \in Boxes : call = [op |-> "none", dst |-> b, src |-> Outside, out |-> "ok"]

(* Box b comes to refer to a new object; the sharers of its former object  *)
(* keep that one.                                                          *)
Rebind(b, op) ==
  \/ /\ Done(op, b, Outside, "ok")
     /\ \E x \in Fresh, c \in Contents : Refer([ref EXCEPT ![b] = x], [content EXCEPT ![x] = c])
  \/ Done(op, b, Outside, "threw") /\ Failed

Create(b) == ~ Exists(b) /\ Rebind(b, "construct")
Assign(b) == Exists(b) /\ Rebind(b, "assign")
Emplace(b) == Exists(b) /\ Rebind(b, "emplace")

CreateEmpty(b) ==
  /\ ~ Exists(b)
  /\ Done("construct", b, Outside, "ok")
  /\ Refer([ref EXCEPT ![b] = Empty], content)

Reset(b) ==
  /\ Exists(b)
  /\ Done("reset", b, Outside, "ok")
  /\ Refer([ref EXCEPT ![b] = Empty], content)

Destroy(b) ==
  /\ Exists(b)
  /\ Done("destroy", b, Outside, "ok")
  /\ Refer([ref EXCEPT ![b] = Absent], content)

(* Copying shares, whatever the source refers to.                          *)
Share(b, o, op) ==
  /\ Exists(o)
  /\ Done(op, b, o, "ok")
  /\ Refer([ref EXCEPT ![b] = ref[o]], content)

CopyCreate(b, o) == ~ Exists(b) /\ Share(b, o, "copy construct")
CopyAssign(b, o) == Exists(b) /\ Share(b, o, "copy assign")

(* Moving hands over and leaves the source empty, unless it is the         *)
(* destination itself.                                                     *)
HandOver(b, o, op) ==
  /\ Exists(o)
  /\ Done(op, b, o, "ok")
  /\ \/ b = o /\ UNCHANGED <<ref, content>>
     \/ b # o /\ Refer([ref EXCEPT ![b] = ref[o], ![o] = Empty], content)

MoveCreate(b, o) == ~ Exists(b) /\ HandOver(b, o, "move construct")
MoveAssign(b, o) == Exists(b) /\ HandOver(b, o, "move assign")

(* copy(): a new object with the same content.  It is an invalid argument  *)
(* exactly when the object is of a type that cannot be copied.             *)
DeepCopy(b, o) ==
  /\ ~ Exists(b) /\ Full(o)
  /\ \/ /\ content[ref[o]].type \in Copyable
        /\ \/ /\ Done("copy()", b, o, "ok")
              /\ \E x \in Fresh :
                   Refer([ref EXCEPT ![b] = x], [content EXCEPT ![x] = content[ref[o]]])
           \/ Done("copy()", b, o, "threw") /\ Failed
     \/ /\ content[ref[o]].type \notin Copyable
        /\ Done("copy()", b, o, "invalid_argument") /\ Failed

Swap(b, o) ==
  /\ Exists(b) /\ Exists(o)
  /\ Done("swap", b, o, "ok")
  /\ Refer([ref EXCEPT ![b] = ref[o], ![o] = ref[b]], content)

(* Writing through one box is seen through every box of the same object.   *)
Write(b) ==
  /\ Full(b)
  /\ Done("write", b, Outside, "ok")
  /\ \E c \in Contents : /\ c.type = content[ref[b]].type
                         /\ Refer(ref, [content EXCEPT ![ref[b]] = c])

Next ==
  \E b \in Boxes :
    \/ Create(b) \/ CreateEmpty(b) \/ Assign(b) \/ Emplace(b)
    \/ Reset(b) \/ Destroy(b) \/ Write(b)
    \/ \E o \in Boxes :
         \/ CopyCreate(b, o) \/ CopyAssign(b, o) \/ MoveCreate(b, o) \/ MoveAssign(b, o)
         \/ DeepCopy(b, o) \/ Swap(b, o)

Spec == Init /\ [][Next]_vars
============================================================================
