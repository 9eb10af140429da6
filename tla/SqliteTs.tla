----------------------------- MODULE SqliteTs -----------------------------
(***************************************************************************)
(* The SQLite time series of test/sqlite_ts.cpp: who closes a connection   *)
(* and who finalises a statement, over every order in which the series and *)
(* the iterators over it are moved, assigned and destroyed.                *)
(*                                                                         *)
(* SQLite is modelled by what its header promises: a connection closed by  *)
(* sqlite3_close_v2() lives on until its last statement is finalised,      *)
(* closing it again is refused meanwhile and undefined after that, and a   *)
(* handle comes with a failed sqlite3_open_v2() too.                       *)
(***************************************************************************)
EXTENDS Integers

CONSTANTS
  Series,  (* The sqlite_ts objects of the program.                        *)
  Iters,   (* Its const_iterator objects.                                  *)
  Conns,   (* Addresses of SQLite's connections,                           *)
  Stmts,   (* and of its statements.                                       *)
  Rows,    (* The rows of the table.                                       *)
  Null,
  NoObject (* There is no object here (not built, or destroyed).         *)

(* SQLite's side of a statement, and the members of a const_iterator.      *)
Statement == [conn : Conns, left : 0 .. Rows]
Iterator == [db : Conns \cup {Null}, stmt : Stmts \cup {Null}]

ASSUME SqliteConstantsOK ==
  /\ Rows \in Nat
  /\ Null \notin Conns \cup Stmts \cup Statement
  /\ NoObject \notin Conns \cup Iterator \cup {Null}

VARIABLES
  conn,  (* conn[c]: "free", "open", or "zombie" once closed but in use.   *)
  stmt,  (* stmt[p]: the connection of statement p and the rows left, or   *)
         (* Null when there is no such statement.                          *)
  ts,    (* ts[s]: the member db of series s.                              *)
  iter,  (* iter[i]: the members db and stmt of iterator i.                *)
  out,   (* How the last call ended: "ok", "threw", "assertion" or         *)
         (* "undefined"; the last two end the program.                     *)
  lost,  (* The connections whose opening failed.  History only.           *)
  aliased  (* Whether a series was assigned to another.  History only.     *)

vars == <<conn, stmt, ts, iter, out, lost, aliased>>

Now == [conn |-> conn, stmt |-> stmt]
Commit(s) == conn' = s.conn /\ stmt' = s.stmt

Running == out \in {"ok", "threw"}
Started(c) == [conn |-> c, left |-> Rows]
NextRow(st) == [conn |-> st.conn, left |-> st.left - 1]
Empty == [db |-> Null, stmt |-> Null]

----------------------------------------------------------------------------
(* SQLite: closing a connection and finalising a statement.                *)
InUse(s, c) == \E p \in Stmts : s.stmt[p] # Null /\ s.stmt[p].conn = c

CloseV2(s, c) ==
  [s EXCEPT !.conn = [@ EXCEPT ![c] = IF InUse(s, c) THEN "zombie" ELSE "free"]]

(* Mutant: sqlite3_close(), which refuses while there are statements.      *)
ClosedEarly(s, c) ==
  IF s.conn[c] = "open" /\ ~ InUse(s, c) THEN "ok" ELSE "assertion"

(* What becomes of the assertion that closing c returns SQLITE_OK.         *)
Closed(s, c) ==
  CASE s.conn[c] = "open" -> "ok"
    [] s.conn[c] = "zombie" -> "assertion"
    [] s.conn[c] = "free" -> "undefined"

Finalize(s, p) ==
  IF p = Null THEN s
  ELSE LET c == s.stmt[p].conn
           rest == [s EXCEPT !.stmt = [@ EXCEPT ![p] = Null]]
       IN  IF s.conn[c] = "zombie" /\ ~ InUse(rest, c)
           THEN [rest EXCEPT !.conn = [@ EXCEPT ![c] = "free"]] ELSE rest

----------------------------------------------------------------------------
Init ==
  /\ conn = [c \in Conns |-> "free"] /\ stmt = [p \in Stmts |-> Null]
  /\ ts = [s \in Series |-> NoObject] /\ iter = [i \in Iters |-> NoObject]
  /\ out = "ok" /\ lost = {} /\ aliased = FALSE

(* The constructor: the handle that comes with a failure is forgotten.     *)
Open(s) ==
  /\ ts[s] = NoObject
  /\ \E c \in {d \in Conns : conn[d] = "free"} :
       /\ conn' = [conn EXCEPT ![c] = "open"]
       /\ \/ ts' = [ts EXCEPT ![s] = c] /\ out' = "ok" /\ UNCHANGED lost
          \/ UNCHANGED ts /\ out' = "threw" /\ lost' = lost \cup {c}
  /\ UNCHANGED <<stmt, iter, aliased>>

(* Mutant: the source of the move keeps the handle.                        *)
MoveSeriesKeeping(s, o) ==
  /\ ts[s] = NoObject /\ ts[o] # NoObject
  /\ ts' = [ts EXCEPT ![s] = ts[o]]
  /\ out' = "ok" /\ UNCHANGED <<conn, stmt, iter, lost, aliased>>

MoveSeries(s, o) ==
  /\ ts[s] = NoObject /\ ts[o] # NoObject
  /\ ts' = [ts EXCEPT ![s] = ts[o], ![o] = Null]
  /\ out' = "ok" /\ UNCHANGED <<conn, stmt, iter, lost, aliased>>

(* The defaulted move assignment: the handle is copied.                    *)
AssignSeries(s, o) ==
  /\ ts[s] # NoObject /\ ts[o] # NoObject
  /\ ts' = [ts EXCEPT ![s] = ts[o]]
  /\ aliased' = (aliased \/ s # o)
  /\ out' = "ok" /\ UNCHANGED <<conn, stmt, iter, lost>>

DestroySeries(s) ==
  /\ ts[s] # NoObject
  /\ IF ts[s] = Null THEN UNCHANGED conn /\ out' = "ok"
     ELSE /\ out' = Closed(Now, ts[s])
          /\ IF out' = "ok" THEN conn' = CloseV2(Now, ts[s]).conn ELSE UNCHANGED conn
  /\ ts' = [ts EXCEPT ![s] = NoObject] /\ UNCHANGED <<stmt, iter, lost, aliased>>

(* Mutant: the iterator is told from its connection alone.                 *)
AdvanceKeeping(s, i, p, c) ==
  \/ /\ s.stmt[p].left = 0
     /\ Commit(s) /\ iter' = [iter EXCEPT ![i] = [db |-> Null, stmt |-> p]] /\ out' = "ok"
  \/ /\ s.stmt[p].left > 0
     /\ Commit([s EXCEPT !.stmt = [@ EXCEPT ![p] = NextRow(s.stmt[p])]])
     /\ iter' = [iter EXCEPT ![i] = [db |-> c, stmt |-> p]] /\ out' = "ok"

(* operator++ when sqlite3_step() succeeds: past the last row the iterator *)
(* becomes the end.                                                        *)
Advance(s, i, p, c) ==
  \/ /\ s.stmt[p].left = 0
     /\ Commit(Finalize(s, p)) /\ iter' = [iter EXCEPT ![i] = Empty] /\ out' = "ok"
  \/ /\ s.stmt[p].left > 0
     /\ Commit([s EXCEPT !.stmt = [@ EXCEPT ![p] = NextRow(s.stmt[p])]])
     /\ iter' = [iter EXCEPT ![i] = [db |-> c, stmt |-> p]] /\ out' = "ok"

(* begin(): the statement is prepared and stepped once, and a throw of     *)
(* either leaves no statement behind.                                      *)
Begin(i, s) ==
  /\ iter[i] = NoObject /\ ts[s] \in Conns /\ conn[ts[s]] = "open"
  /\ \/ \E p \in {q \in Stmts : stmt[q] = Null} :
          Advance([Now EXCEPT !.stmt = [@ EXCEPT ![p] = Started(ts[s])]], i, p, ts[s])
     \/ Commit(Now) /\ UNCHANGED iter /\ out' = "threw"
  /\ UNCHANGED <<ts, lost, aliased>>

(* operator++; a step that fails starts the query over.                    *)
Increment(i) ==
  /\ iter[i] # NoObject /\ iter[i].db # Null
  /\ LET p == iter[i].stmt IN
     \/ Advance(Now, i, p, iter[i].db)
     \/ /\ Commit([Now EXCEPT !.stmt = [@ EXCEPT ![p] = Started(stmt[p].conn)]])
        /\ UNCHANGED iter /\ out' = "threw"
  /\ UNCHANGED <<ts, lost, aliased>>

(* Mutant: an iterator that has a connection keeps it when it is assigned. *)
TakenStmtOnly(i, o) ==
  LET keeps == iter[i] # NoObject /\ iter[i].db # Null /\ iter[o].db # Null
  IN  [iter EXCEPT ![i] = IF keeps THEN [@ EXCEPT !.stmt = iter[o].stmt] ELSE iter[o],
                   ![o] = Empty]

Taken(i, o) == [iter EXCEPT ![i] = iter[o], ![o] = Empty]

(* Move construction and assignment, which finalises the old statement.    *)
MoveIter(i, o) ==
  /\ iter[o] # NoObject /\ i # o
  /\ IF iter[i] = NoObject THEN Commit(Now) ELSE Commit(Finalize(Now, iter[i].stmt))
  /\ iter' = Taken(i, o) /\ out' = "ok" /\ UNCHANGED <<ts, lost, aliased>>

DestroyIter(i) ==
  /\ iter[i] # NoObject
  /\ Commit(Finalize(Now, iter[i].stmt))
  /\ iter' = [iter EXCEPT ![i] = NoObject] /\ UNCHANGED <<ts, lost, aliased>>
  /\ out' = IF iter[i].db = Null /\ iter[i].stmt # Null THEN "assertion" ELSE "ok"

Next ==
  /\ Running
  /\ \/ \E s \in Series :
          \/ Open(s) \/ DestroySeries(s)
          \/ \E o \in Series : MoveSeries(s, o) \/ AssignSeries(s, o)
     \/ \E i \in Iters :
          \/ Increment(i) \/ DestroyIter(i)
          \/ \E s \in Series : Begin(i, s)
          \/ \E o \in Iters : MoveIter(i, o)

Spec == Init /\ [][Next]_vars

----------------------------------------------------------------------------
(* Statements are finalised exactly once: each that exists is the member   *)
(* of one iterator, and an iterator has one exactly if it has a connection *)
(* (the assertion of its destructor).                                      *)
OneIteratorPerStatement ==
  /\ \A i \in Iters : iter[i] # NoObject => (iter[i].db = Null <=> iter[i].stmt = Null)
  /\ \A p \in Stmts :
       LET users == {i \in Iters : iter[i] # NoObject /\ iter[i].stmt = p}
       IN  IF stmt[p] = Null THEN users = {} ELSE \E i \in Iters : users = {i}

(* An iterator may outlive the series it came from, in any order of moves  *)
(* and destructions: the connection of its statement is not freed.         *)
IteratorsKeepConnections ==
  \A i \in Iters : iter[i] # NoObject /\ iter[i].stmt # Null =>
    /\ stmt[iter[i].stmt] # Null
    /\ conn[stmt[iter[i].stmt].conn] # "free" /\ stmt[iter[i].stmt].conn = iter[i].db

(* The assertion of ~sqlite_ts(), that closing the connection succeeds,    *)
(* and that of ~const_iterator() hold in every order of moves,             *)
(* destructions, failed openings and failed steps; only the defaulted      *)
(* assignment of a series, which copies the handle, can lead to a second   *)
(* close.                                                                  *)
CloseSucceeds == out \in {"assertion", "undefined"} => aliased

(* Until then an open connection belongs to one series, which will close   *)
(* it, but for those whose opening failed: their handle is lost with the   *)
(* exception.                                                              *)
OneSeriesPerConnection ==
  ~ aliased => \A c \in Conns :
    LET owners == {s \in Series : ts[s] = c}
    IN  IF conn[c] = "open" /\ c \notin lost THEN \E s \in Series : owners = {s} ELSE owners = {}
============================================================================
