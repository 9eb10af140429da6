----------------------------- MODULE RefSerial -----------------------------
(***************************************************************************)
(* Saving wraps with reference semantics to a Boost archive and loading    *)
(* them back, among all the other operations of RefWrap.                   *)
(*                                                                         *)
(* The library is modelled by what save() and load() rely on.  It tracks   *)
(* objects by address: of wraps that share a value only the first one      *)
(* writes it, the others write its number; the first to load a number      *)
(* makes the holder, the others share it.  To be able to do so the reading *)
(* archive holds a reference to each holder it made.  An archive is        *)
(* written in one go, so that no address is reused meanwhile.              *)
(***************************************************************************)
EXTENDS RefWrap, Sequences

CONSTANTS
  Defaulted,   (* The types that are default initialisable.                *)
  MaxRecords,  (* Bound on the length of an archive.                       *)
  Torn         (* A record that was not written to its end.                *)

ASSUME SerialConstantsOK == Defaulted \subseteq Types /\ MaxRecords \in Nat

VARIABLES
  phase,    (* "before", "saving", and "loading" once the archive is written. *)
  archive,  (* The records: numbers of objects, 0 for null, Torn where saving *)
            (* failed half way.                                               *)
  saved,    (* saved[n]: where the writer found object n.                     *)
  objects,  (* objects[n]: what it was then.                                  *)
  pos,      (* How many records have been loaded.                             *)
  reader,   (* "open", "failed" after an exception, or "closed".              *)
  loaded,   (* loaded[n]: the cell of object n, which the reader refers to.   *)
  savedFrom,(* savedFrom[i]: what the wrap of record i referred to.  History. *)
  loadedBy  (* loadedBy[i]: the wrap record i was loaded into, or Outside     *)
            (* once another call has involved it.  History only.              *)

writerVars == <<archive, saved, objects>>
readerVars == <<pos, reader, loaded>>
serialVars == <<phase, writerVars, readerVars, savedFrom, loadedBy>>

Forget(w, o) == [i \in DOMAIN loadedBy |-> IF loadedBy[i] \in {w, o} THEN Outside ELSE loadedBy[i]]

(* Mutant: addresses are not tracked, as with value semantics.             *)
NumberUntracked(c) == Len(saved) + 1

(* The number of the object at c, a new one if c was not met before.       *)
Number(c) == IF \E n \in DOMAIN saved : saved[n] = c
             THEN CHOOSE n \in DOMAIN saved : saved[n] = c ELSE Len(saved) + 1

(* Mutant: the objects that are written are not remembered.                *)
WrittenForgetting(w) ==
  /\ archive' = Append(archive, IF Valid(Now, w) THEN Number(ptr[w]) ELSE 0)
  /\ UNCHANGED <<saved, objects>>

Written(w) ==
  /\ archive' = Append(archive, IF Valid(Now, w) THEN Number(ptr[w]) ELSE 0)
  /\ IF Valid(Now, w) /\ Number(ptr[w]) > Len(saved)
     THEN saved' = Append(saved, ptr[w]) /\ objects' = Append(objects, HolderOf(Now, w))
     ELSE UNCHANGED <<saved, objects>>

Save(w) ==
  /\ IsWrap(Now, w) /\ phase # "loading"
  /\ Len(archive) < MaxRecords /\ Torn \notin {archive[i] : i \in DOMAIN archive}
  /\ Commit(Now) /\ phase' = "saving" /\ UNCHANGED <<readerVars, loadedBy>>
  /\ \/ /\ Valid(Now, w) => HolderOf(Now, w).type \in Defaulted
        /\ \/ /\ Written(w) /\ savedFrom' = Append(savedFrom, ptr[w])
              /\ Returned("save", w, Outside, "ok")
           \/ /\ archive' = Append(archive, Torn) /\ UNCHANGED <<saved, objects, savedFrom>>
              /\ Returned("save", w, Outside, "threw")
     \/ /\ Valid(Now, w) /\ HolderOf(Now, w).type \notin Defaulted
        /\ UNCHANGED <<writerVars, savedFrom>> /\ Returned("save", w, Outside, "invalid_argument")

(* Mutant: the wrap is made invalid without its reference being dropped.   *)
LoadFailsLeaking(w) ==
  /\ Commit([Now EXCEPT !.ptr = [@ EXCEPT ![w] = Null]])
  /\ reader' = "failed" /\ UNCHANGED <<pos, loaded>> /\ loadedBy' = Forget(w, Outside)
  /\ Returned("load", w, Outside, "threw")

(* The read throws: the wrap loses its reference and becomes invalid.      *)
LoadFails(w) ==
  /\ Commit(Adopt(Now, w, Null))
  /\ reader' = "failed" /\ UNCHANGED <<pos, loaded>> /\ loadedBy' = Forget(w, Outside)
  /\ Returned("load", w, Outside, "threw")

LoadNull(w) == Commit(Adopt(Now, w, Null)) /\ UNCHANGED loaded

(* ar >> m_pv_iface for an object the reader knows, and for a new one.     *)
LoadShared(w, c) == Commit(Adopt(Retain(Now, c), w, c)) /\ UNCHANGED loaded

LoadNew(w, c, h) ==
  /\ Commit(Adopt(Retain(MakeShared(Now, c, h), c), w, c))
  /\ loaded' = Append(loaded, c)

LoadRecord(w, n) ==
  \/ n = 0 /\ LoadNull(w)
  \/ n \in DOMAIN loaded /\ LoadShared(w, loaded[n])
  \/ n = Len(loaded) + 1 /\ \E c \in FreeCells(Now) : LoadNew(w, c, objects[n])

Load(w) ==
  /\ IsWrap(Now, w) /\ phase # "before" /\ reader = "open" /\ pos < Len(archive)
  /\ phase' = "loading" /\ UNCHANGED <<writerVars, savedFrom>>
  /\ \/ LoadFails(w)
     \/ /\ archive[pos + 1] # Torn /\ LoadRecord(w, archive[pos + 1])
        /\ pos' = pos + 1 /\ UNCHANGED reader
        /\ loadedBy' = Append(Forget(w, Outside), w)
        /\ Returned("load", w, Outside, "ok")

(* The reading archive goes away, and with it its references.              *)
Close ==
  /\ phase = "loading" /\ reader # "closed"
  /\ LET drop[n \in 0 .. Len(loaded)] == IF n = 0 THEN Now ELSE Release(drop[n - 1], loaded[n])
     IN  Commit(drop[Len(loaded)])
  /\ reader' = "closed" /\ loaded' = <<>>
  /\ UNCHANGED <<phase, writerVars, pos, savedFrom, loadedBy, call>>

SerialInit ==
  /\ Init /\ phase = "before"
  /\ archive = <<>> /\ saved = <<>> /\ objects = <<>>
  /\ pos = 0 /\ reader = "open" /\ loaded = <<>>
  /\ savedFrom = <<>> /\ loadedBy = <<>>

(* Any other call; after the first save it ends the writing.               *)
OtherCall ==
  /\ Next
  /\ phase' = IF phase = "before" THEN phase ELSE "loading"
  /\ loadedBy' = Forget(call'.dst, call'.src) /\ UNCHANGED <<writerVars, readerVars, savedFrom>>

SerialNext == OtherCall \/ Close \/ \E w \in Wraps : Save(w) \/ Load(w)

SerialSpec == SerialInit /\ [][SerialNext]_<<vars, serialVars>>

----------------------------------------------------------------------------
(* The variables keep their types, and the reader meets the objects in the *)
(* order of their numbers.                                                 *)
SerialTypeOK ==
  /\ ptr \in [Wraps -> Cells \cup {Null, NoWrap}]
  /\ held \in [Cells -> Holder \cup {Raw}] /\ count \in [Cells -> Nat]
  /\ call \in [op : Ops \cup {"save", "load"}, dst : Wraps, src : Wraps \cup {Outside},
               out : Outcomes]
  /\ phase \in {"before", "saving", "loading"} /\ reader \in {"open", "failed", "closed"}
  /\ archive \in Seq((0 .. MaxRecords) \cup {Torn}) /\ Len(archive) <= MaxRecords
  /\ objects \in Seq(Holder) /\ Len(objects) = Len(saved) /\ saved \in Seq(Cells)
  /\ \A i \in DOMAIN archive : archive[i] # Torn => archive[i] <= Len(objects)
  /\ pos \in 0 .. Len(archive)
  /\ loaded \in Seq(Cells) /\ Len(loaded) <= Len(objects)
  /\ loadedBy \in Seq(Wraps \cup {Outside}) /\ Len(loadedBy) = pos

(* The use count of a holder is the number of wraps that refer to it, plus *)
(* one while the reading archive does; it is alive exactly while that is   *)
(* not zero.  No load leaks a value or the reference the wrap had before,  *)
(* and none frees a value that the archive may still hand out.             *)
CountsReaders ==
  \A c \in Cells :
    /\ count[c] = Cardinality(Sharers(c)) + Cardinality({n \in DOMAIN loaded : loaded[n] = c})
    /\ held[c] # Raw <=> count[c] > 0

(* Sharing survives the archive: of two wraps that were loaded and not     *)
(* involved in another call since, both refer to one value if and only if  *)
(* the wraps they were saved from did; a wrap saved as invalid is invalid. *)
SharingSurvives ==
  \A i, j \in DOMAIN loadedBy :
    LET w == loadedBy[i]
        u == loadedBy[j]
    IN  w # Outside /\ u # Outside =>
          /\ ptr[w] = Null <=> savedFrom[i] = Null
          /\ ptr[w] = ptr[u] <=> savedFrom[i] = savedFrom[j]
============================================================================
