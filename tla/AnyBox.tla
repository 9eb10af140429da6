------------------------------ MODULE AnyBox ------------------------------
(***************************************************************************)
(* What a wrap with value semantics promises its caller, without storage,  *)
(* pointers or holders: a box is absent (no object), empty (the invalid    *)
(* state) or has a content (a type and a value).  Values may become        *)
(* Hollow: valid but unspecified, what a move or a half-done assignment    *)
(* leaves behind.  Every call reports whether it threw.                    *)
(***************************************************************************)
CONSTANTS
  Boxes,    (* The objects of one wrap class.                              *)
  Types,    (* The types that may be erased.                               *)
  Vals,     (* The values of a type.                                       *)
  Hollow,   (* A valid but unspecified value.                              *)
  Empty,    (* What a box in the invalid state shows.                      *)
  Absent,   (* What a box that does not exist shows.                       *)
  Outside   (* The source of a call whose argument is not a box.           *)

VARIABLES
  box,      (* box[b] is what the caller sees in b.                        *)
  call      (* The last call: operation, destination, source, threw.       *)

vars == <<box, call>>

Content == [type : Types, val : Vals \cup {Hollow}]

Exists(b) == box[b] # Absent
Full(b) == box[b] \notin {Absent, Empty}

(* The valid-but-unspecified version of a content.                         *)
Hollowed(c) == [type |-> c.type, val |-> Hollow]

(* What a box may show after its content c was moved out.                  *)
Leftover(c) == IF c \in {Empty, Absent} THEN {c} ELSE {Empty, Hollowed(c)}

Done(op, b, o, threw) ==
  call' = [op |-> op, dst |-> b, src |-> o, threw |-> threw]

Init ==
  /\ box = [b \in Boxes |-> Absent]
  /\ \E b \in Boxes : call = [op |-> "none", dst |-> b, src |-> Outside, threw |-> FALSE]

(* A constructor either makes the object or, throwing, makes nothing.      *)
Create(b) ==
  /\ ~ Exists(b)
  /\ \/ /\ Done("construct", b, Outside, FALSE)
        /\ \E c \in Content \cup {Empty} : box' = [box EXCEPT ![b] = c]
     \/ Done("construct", b, Outside, TRUE) /\ UNCHANGED box

CopyCreate(b, o) ==
  /\ ~ Exists(b) /\ Full(o)
  /\ \/ Done("copy construct", b, o, FALSE) /\ box' = [box EXCEPT ![b] = box[o]]
     \/ Done("copy construct", b, o, TRUE) /\ UNCHANGED box

MoveCreate(b, o) ==
  /\ ~ Exists(b) /\ Exists(o)
  /\ Done("move construct", b, o, FALSE)
  /\ \E c \in Leftover(box[o]) : box' = [box EXCEPT ![b] = box[o], ![o] = c]

Destroy(b) ==
  /\ Exists(b)
  /\ Done("destroy", b, Outside, FALSE)
  /\ box' = [box EXCEPT ![b] = Absent]

(* A throwing copy assignment leaves the destination as it was, unless it  *)
(* already held a value of the source's type: then that value may be spoilt.*)
CopyAssign(b, o) ==
  /\ Exists(b) /\ (b = o \/ Full(o))
  /\ \/ Done("copy assign", b, o, FALSE) /\ box' = [box EXCEPT ![b] = box[o]]
     \/ /\ Done("copy assign", b, o, TRUE)
        /\ b # o
        /\ \/ UNCHANGED box
           \/ /\ Full(b) /\ box[b].type = box[o].type
              /\ box' = [box EXCEPT ![b] = Hollowed(box[b])]

(* A move assignment never throws; the source keeps a leftover or, when    *)
(* both had the same type, may receive the destination's old content.      *)
MoveAssign(b, o) ==
  /\ Exists(b) /\ Exists(o)
  /\ Done("move assign", b, o, FALSE)
  /\ \/ b = o /\ UNCHANGED box
     \/ /\ b # o /\ (Full(o) \/ ~ Full(b))
        /\ \E c \in Leftover(box[o]) \cup
                    {d \in {box[b]} : Full(b) /\ d.type = box[o].type} :
             box' = [box EXCEPT ![b] = box[o], ![o] = c]

Reset(b) ==
  /\ Exists(b)
  /\ Done("reset", b, Outside, FALSE)
  /\ box' = [box EXCEPT ![b] = Empty]

(* Assigning a value: throwing, it empties the box, or spoils the value    *)
(* when the box already held one of the same type.                         *)
Assign(b, c) ==
  /\ Exists(b)
  /\ \/ Done("assign", b, Outside, FALSE) /\ box' = [box EXCEPT ![b] = c]
     \/ /\ Done("assign", b, Outside, TRUE)
        /\ IF Full(b) /\ box[b].type = c.type
           THEN \E d \in {box[b], Hollowed(c)} : box' = [box EXCEPT ![b] = d]
           ELSE box' = [box EXCEPT ![b] = Empty]

Emplace(b, c) ==
  /\ Exists(b)
  /\ \/ Done("emplace", b, Outside, FALSE) /\ box' = [box EXCEPT ![b] = c]
     \/ Done("emplace", b, Outside, TRUE) /\ box' = [box EXCEPT ![b] = Empty]

(* Two full boxes exchange their contents exactly; a full and an empty one *)
(* may leave a hollow value where the content was.                         *)
Swap(b, o) ==
  /\ Exists(b) /\ Exists(o)
  /\ Done("swap", b, o, FALSE)
  /\ \/ (b = o \/ (~ Full(b) /\ ~ Full(o))) /\ UNCHANGED box
     \/ Full(b) /\ Full(o) /\ box' = [box EXCEPT ![b] = box[o], ![o] = box[b]]
     \/ /\ ~ Full(b) /\ Full(o)
        /\ \E c \in Leftover(box[o]) : box' = [box EXCEPT ![b] = box[o], ![o] = c]
     \/ /\ Full(b) /\ ~ Full(o)
        /\ \E c \in Leftover(box[b]) : box' = [box EXCEPT ![o] = box[b], ![b] = c]

(* The caller changes the value in place, through value_ref or the interface. *)
Write(b, v) ==
  /\ Full(b)
  /\ Done("write", b, Outside, FALSE)
  /\ box' = [box EXCEPT ![b] = [type |-> box[b].type, val |-> v]]

Next ==
  \E b \in Boxes :
    \/ Create(b) \/ Destroy(b) \/ Reset(b)
    \/ \E c \in Content : Assign(b, c) \/ Emplace(b, c)
    \/ \E v \in Vals : Write(b, v)
    \/ \E o \in Boxes :
         \/ CopyCreate(b, o) \/ MoveCreate(b, o)
         \/ CopyAssign(b, o) \/ MoveAssign(b, o) \/ Swap(b, o)

Spec == Init /\ [][Next]_vars
============================================================================
