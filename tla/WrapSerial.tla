---------------------------- MODULE WrapSerial ----------------------------
(***************************************************************************)
(* Saving wraps with value semantics to a Boost archive and loading them   *)
(* back, with every other operation of ValueWrap in between.               *)
(*                                                                         *)
(* The library is modelled by what save() and load() rely on.  Loading a   *)
(* pointer makes a new holder on the heap (object tracking of value_iface  *)
(* is switched off); if that throws, the holder is gone again.  The        *)
(* archive remembers where it put each value, in case a pointer to it is   *)
(* loaded later; after an exception neither side uses the archive again.   *)
(***************************************************************************)
EXTENDS ValueWrap, Integers, Sequences

CONSTANTS
  Defaulted,   (* The types that are default initialisable.                 *)
  MaxRecords,  (* Bound on the length of an archive.                        *)
  Torn         (* A record whose saving failed half way.                    *)

ASSUME SerialConstantsOK == Defaulted \subseteq Types /\ MaxRecords \in Nat

Record == [st : BOOLEAN, pv : Holder \cup {Null}]

ASSUME TornIsNoRecord == Torn \notin Record \cup Holder \cup {Null}

VARIABLES
  archive,  (* The records written: the storage flag and what m_pv_iface    *)
            (* pointed at.                                                  *)
  pos,      (* How many of them have been loaded.                           *)
  reader,   (* "open", or "failed" after an exception.                      *)
  tracked,  (* tracked[i]: where the archive believes the value of record i.*)
  loadedBy  (* loadedBy[i]: the wrap record i was loaded into, or Outside   *)
            (* once another call has involved it.  History only.            *)

archiveVars == <<archive, pos, reader, tracked, loadedBy>>

Intact == \A i \in DOMAIN archive : archive[i] # Torn

(* Mutant: only the requirement of Boost is checked.                       *)
SavableUnmovable(t) == t \in Defaulted

(* The checks at the start of save().                                      *)
Savable(t) == t \in Defaulted /\ "move ctor" \in Can[t]

(* Mutant: an invalid wrap is not told apart.                              *)
WrittenBlindly(s, w) == [st |-> Stype(s, w), pv |-> HolderOf(s, w)]

Written(s, w) == [st |-> Stype(s, w), pv |-> IF Invalid(s, w) THEN Null ELSE HolderOf(s, w)]

(* A call involves its destination and its source.                         *)
Forget(w, o) == [i \in DOMAIN loadedBy |-> IF loadedBy[i] \in {w, o} THEN Outside ELSE loadedBy[i]]

Save(w) ==
  /\ IsWrap(Now, w) /\ Intact /\ Len(archive) < MaxRecords
  /\ Commit(Now) /\ UNCHANGED <<pos, reader, tracked, loadedBy>>
  /\ \/ /\ Invalid(Now, w) \/ Savable(TypeOf(Now, w))
        /\ \/ archive' = Append(archive, Written(Now, w)) /\ Returned("save", w, Outside, FALSE)
           \/ archive' = Append(archive, Torn) /\ Returned("save", w, Outside, TRUE)
     \/ /\ Valid(Now, w) /\ ~ Savable(TypeOf(Now, w))
        /\ UNCHANGED archive /\ Returned("save", w, Outside, TRUE)

(* ar >> pv_iface: a new holder at b.                                      *)
Deserialise(s, b, h) == [s EXCEPT !.held = [@ EXCEPT ![b] = h]]

(* delete pv_iface.                                                        *)
Delete(s, b) == [s EXCEPT !.held = [@ EXCEPT ![b] = Raw]]

(* Mutant: the old value is not destroyed.                                 *)
TakeOverLeaking(s, w, b) == SetPtr(s, w, b)

(* The dynamic branch of load(): the wrap adopts the holder at b.  As a    *)
(* mutant of MoveIn: every pointer is taken over, whatever the flag.       *)
TakeOver(s, w, b) == SetPtr(Destroy(s, w), w, b)

(* Mutant: the temporary holder is not deleted.                            *)
MoveInLeaking(s, w, b) ==
  LET d == Destroy(s, w)
  IN  NewHolder(Accuse(d, Run(d, b, "move ctor")), w, w, d.held[b])

(* The static branch of load(): the value is moved out of the holder at b. *)
MoveIn(s, w, b) ==
  LET d == Destroy(s, w)
      m == NewHolder(Accuse(d, Run(d, b, "move ctor")), w, w, d.held[b])
  IN  Delete(m, b)

(* Mutant: the archive is not told that the value has moved.               *)
PlaceUnreported(w, b, r) == b

(* Where the archive finds the value afterwards: reset_object_address().   *)
Place(w, b, r) == IF r.st THEN w ELSE b

(* Mutant: the old value is destroyed before the archive is read.          *)
LoadFailsEmptied(w) ==
  /\ Commit(SetPtr(Destroy(Now, w), w, Null))
  /\ reader' = "failed" /\ UNCHANGED <<pos, tracked, loadedBy>>
  /\ Returned("load", w, Outside, TRUE)

(* Any of the reads throws, before anything of the wrap has changed.       *)
LoadFails(w) ==
  /\ Commit(Now)
  /\ reader' = "failed" /\ UNCHANGED <<pos, tracked, loadedBy>>
  /\ Returned("load", w, Outside, TRUE)

(* The record of an invalid wrap; load() asserts that its flag is unset.   *)
LoadNull(w, r) ==
  /\ Commit(SetPtr(Destroy(Accuse(Now, Blame(r.st, "storage assertion")), w), w, Null))
  /\ tracked' = Append(tracked, Null)
  /\ loadedBy' = Append(Forget(w, Outside), Outside)

LoadHolder(w, b, r) ==
  LET s == Deserialise(Now, b, r.pv) IN
  /\ Commit(IF r.st THEN MoveIn(s, w, b) ELSE TakeOver(s, w, b))
  /\ tracked' = Append(tracked, Place(w, b, r))
  /\ loadedBy' = Append(Forget(w, Outside), w)

Load(w) ==
  /\ IsWrap(Now, w) /\ reader = "open" /\ pos < Len(archive)
  /\ UNCHANGED archive
  /\ \/ LoadFails(w)
     \/ /\ archive[pos + 1] # Torn
        /\ \/ archive[pos + 1].pv = Null /\ LoadNull(w, archive[pos + 1])
           \/ /\ archive[pos + 1].pv # Null
              /\ \E b \in FreeBlocks(Now) : LoadHolder(w, b, archive[pos + 1])
        /\ pos' = pos + 1 /\ UNCHANGED reader
        /\ Returned("load", w, Outside, FALSE)

SerialInit ==
  /\ Init
  /\ archive = <<>> /\ pos = 0 /\ reader = "open" /\ tracked = <<>> /\ loadedBy = <<>>

SerialNext ==
  \/ /\ Next
     /\ UNCHANGED <<archive, pos, reader, tracked>>
     /\ loadedBy' = Forget(call'.dst, call'.src)
  \/ \E w \in Wraps : Save(w) \/ Load(w)

SerialSpec == SerialInit /\ [][SerialNext]_<<vars, archiveVars>>

----------------------------------------------------------------------------
(* The state and the archive keep their types; the log of loads and the    *)
(* tracked addresses grow together with the read position.                 *)
SerialTypeOK ==
  /\ Now \in State
  /\ call \in [op : Ops \cup {"save", "load"}, dst : Wraps, src : Wraps \cup {Outside},
               threw : BOOLEAN]
  /\ archive \in Seq(Record \cup {Torn}) /\ Len(archive) <= MaxRecords
  /\ pos \in 0 .. Len(archive) /\ reader \in {"open", "failed"}
  /\ tracked \in Seq(Places \cup {Null}) /\ Len(tracked) = pos
  /\ loadedBy \in Seq(Wraps \cup {Outside}) /\ Len(loadedBy) = pos

(* The address the archive would give to a pointer loaded later is that of *)
(* the value, as long as no other call has involved the wrap it went into: *)
(* neither the holder it was first read into nor, after more loads through *)
(* the same heap block, somebody else's.                                   *)
TrackingFindsValues ==
  \A i \in DOMAIN loadedBy : loadedBy[i] # Outside => tracked[i] = ptr[loadedBy[i]]

ArchivedContent(r) == IF r = Torn THEN Torn ELSE r.pv

Archived == INSTANCE ArchiveBox WITH
  Boxes <- Wraps, Empty <- Null, Absent <- NoWrap,
  box <- [w \in Wraps |-> Seen(Now, w)],
  archive <- [i \in DOMAIN archive |-> ArchivedContent(archive[i])]

(* Saving and loading implement the archive of contents: what was saved is *)
(* loaded, into whatever the wrap held before and wherever the value       *)
(* lives, and a load that throws changes nothing.                          *)
ImplementsArchive == Archived!ArchiveSpec
============================================================================
