---------------------------- MODULE ArchiveBox ----------------------------
(***************************************************************************)
(* What serialisation promises on top of AnyBox: an archive is a sequence  *)
(* of contents, saved in one order and loaded in the same one.  A load     *)
(* gives the box exactly what was saved, or throws and changes no box.     *)
(***************************************************************************)
EXTENDS AnyBox, Integers, Sequences

CONSTANT Torn   (* A record whose saving failed half way.                  *)

VARIABLES
  archive,  (* The contents saved so far.                                  *)
  pos,      (* How many of them have been loaded.                          *)
  reader    (* "open", or "failed" after an exception.                     *)

archiveVars == <<archive, pos, reader>>

(* A torn record is the last one.                                          *)
Intact == \A i \in DOMAIN archive : archive[i] # Torn

Save(b) ==
  /\ Exists(b) /\ Intact
  /\ UNCHANGED <<box, pos, reader>>
  /\ \/ Done("save", b, Outside, FALSE) /\ archive' = Append(archive, box[b])
     \/ /\ Done("save", b, Outside, TRUE)
        /\ archive' \in {archive, Append(archive, Torn)}

Load(b) ==
  /\ Exists(b) /\ reader = "open" /\ pos < Len(archive)
  /\ UNCHANGED archive
  /\ \/ /\ archive[pos + 1] # Torn
        /\ Done("load", b, Outside, FALSE)
        /\ box' = [box EXCEPT ![b] = archive[pos + 1]]
        /\ pos' = pos + 1 /\ UNCHANGED reader
     \/ /\ Done("load", b, Outside, TRUE)
        /\ reader' = "failed" /\ UNCHANGED <<box, pos>>

ArchiveInit == Init /\ archive = <<>> /\ pos = 0 /\ reader = "open"

ArchiveNext ==
  \/ Next /\ UNCHANGED archiveVars
  \/ \E b \in Boxes : Save(b) \/ Load(b)

ArchiveSpec == ArchiveInit /\ [][ArchiveNext]_<<vars, archiveVars>>
============================================================================
