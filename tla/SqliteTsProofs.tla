--------------------------- MODULE SqliteTsProofs ---------------------------
(***************************************************************************)
(* Theorems about SqliteTs, for any number of series, iterators and rows   *)
(* and all sets of connections and statements.                             *)
(*                                                                         *)
(* The inductive invariant has two halves.  Statements says that iterators *)
(* and live statements correspond one to one and that the connection of a  *)
(* live statement is not freed.  Handles says the same of series and open  *)
(* connections, as long as no series was assigned: those whose opening     *)
(* failed, which no series has, stay open.  Calls on iterators change a    *)
(* connection only from zombie to free, and then no statement needs it,    *)
(* which is why each half survives the other's calls.                      *)
(***************************************************************************)
EXTENDS SqliteTs, TLAPS

State == [conn : [Conns -> {"free", "open", "zombie"}], stmt : [Stmts -> Statement \cup {Null}]]

Types ==
  /\ Now \in State
  /\ ts \in [Series -> Conns \cup {Null, NoObject}]
  /\ iter \in [Iters -> Iterator \cup {NoObject}]
  /\ lost \subseteq Conns /\ aliased \in BOOLEAN

(* Iterator i of h has the statement p.                                    *)
Has(h, i, p) == h[i] # NoObject /\ h[i].stmt = p

Statements(s, h) ==
  /\ \A i \in Iters : h[i] # NoObject =>
       IF h[i].stmt = Null THEN h[i].db = Null
       ELSE s.stmt[h[i].stmt] # Null /\ h[i].db = s.stmt[h[i].stmt].conn
  /\ \A p \in Stmts : s.stmt[p] # Null =>
       s.conn[s.stmt[p].conn] # "free" /\ \E i \in Iters : Has(h, i, p)
  /\ \A i, j \in Iters, p \in Stmts : Has(h, i, p) /\ Has(h, j, p) => i = j

Handles(k, d) ==
  /\ \A s \in Series : d[s] \in Conns => k[d[s]] = "open" /\ d[s] \notin lost
  /\ \A s, t \in Series : d[s] = d[t] /\ d[s] \in Conns => s = t
  /\ \A c \in Conns : k[c] = "open" /\ c \notin lost => \E s \in Series : d[s] = c
  /\ \A c \in lost : k[c] = "open"

Inv ==
  /\ Types /\ Statements(Now, iter)
  /\ aliased \/ (Running /\ Handles(conn, ts))

----------------------------------------------------------------------------
(* Connections are freed only when they were closed and are not needed.    *)
Freed(n, s) ==
  \A c \in Conns :
    \/ n.conn[c] = s.conn[c]
    \/ s.conn[c] = "zombie" /\ n.conn[c] = "free" /\ ~ InUse(n, c)

LEMMA FinalizeEffect ==
  ASSUME NEW s \in State, NEW p \in Stmts, s.stmt[p] # Null
  PROVE  /\ Finalize(s, p) \in State
         /\ Finalize(s, p).stmt = [s.stmt EXCEPT ![p] = Null]
         /\ Freed(Finalize(s, p), s)
<1> DEFINE c == s.stmt[p].conn
           rest == [s EXCEPT !.stmt = [@ EXCEPT ![p] = Null]]
           freed == [rest EXCEPT !.conn = [@ EXCEPT ![c] = "free"]]
<1>1. p # Null /\ c \in Conns
  BY SqliteConstantsOK DEF SqliteConstantsOK, State, Statement
<1>2. rest \in State /\ rest.stmt = [s.stmt EXCEPT ![p] = Null] /\ rest.conn = s.conn
  BY DEF State
<1>3. freed \in State /\ freed.stmt = rest.stmt /\ freed.conn = [s.conn EXCEPT ![c] = "free"]
  BY <1>1, <1>2 DEF State
<1>4. CASE s.conn[c] = "zombie" /\ ~ InUse(rest, c)
  <2>1. Finalize(s, p) = freed
    BY <1>1, <1>4 DEF Finalize
  <2>2. ~ InUse(freed, c)
    BY <1>3, <1>4 DEF InUse
  <2> HIDE DEF c, rest, freed
  <2>3. freed.conn[c] = "free" /\ \A d \in Conns \ {c} : freed.conn[d] = s.conn[d]
    BY <1>1, <1>3 DEF State
  <2> QED
    BY <1>2, <1>3, <1>4, <2>1, <2>2, <2>3 DEF Freed
<1>5. CASE ~ (s.conn[c] = "zombie" /\ ~ InUse(rest, c))
  <2>1. Finalize(s, p) = rest
    BY <1>1, <1>5 DEF Finalize
  <2> QED
    BY <1>2, <2>1 DEF Freed
<1> QED
  BY <1>4, <1>5

(* Freeing what is not needed disturbs neither half.                       *)
LEMMA FreedHandles ==
  ASSUME Types, Handles(conn, ts), NEW n \in State, Freed(n, Now)
  PROVE  Handles(n.conn, ts)
  BY DEF Types, Handles, Freed, Now, State

Iterating(h) == h \in [Iters -> Iterator \cup {NoObject}]

LEMMA Members ==
  ASSUME NEW h, Iterating(h), NEW i \in Iters, h[i] # NoObject
  PROVE  h[i] \in Iterator /\ h[i].stmt \in Stmts \cup {Null} /\ h[i].db \in Conns \cup {Null}
  BY DEF Iterating, Iterator

(* An iterator that ends or is destroyed finalises its statement.          *)
LEMMA Dropped ==
  ASSUME NEW s \in State, NEW h, Iterating(h), Statements(s, h),
         NEW i \in Iters, NEW p \in Stmts, Has(h, i, p), NEW e \in {Empty, NoObject}
  PROVE  /\ Finalize(s, p) \in State /\ Freed(Finalize(s, p), s)
         /\ Statements(Finalize(s, p), [h EXCEPT ![i] = e])
<1> DEFINE n == Finalize(s, p)
           g == [h EXCEPT ![i] = e]
<1>1. p # Null /\ s.stmt[p] # Null
  BY SqliteConstantsOK DEF SqliteConstantsOK, Statements, Has
<1>2. n \in State /\ n.stmt = [s.stmt EXCEPT ![p] = Null] /\ Freed(n, s)
  BY <1>1, FinalizeEffect
<1>3. /\ n.stmt[p] = Null /\ \A q \in Stmts \ {p} : n.stmt[q] = s.stmt[q]
      /\ g[i] = e /\ \A j \in Iters \ {i} : g[j] = h[j]
  BY <1>2 DEF State, Iterating
<1> HIDE DEF n, g
<1>4. ASSUME NEW j \in Iters, g[j] # NoObject
      PROVE  IF g[j].stmt = Null THEN g[j].db = Null
             ELSE n.stmt[g[j].stmt] # Null /\ g[j].db = n.stmt[g[j].stmt].conn
  <2>1. CASE j = i
    BY <1>3, <1>4, <2>1 DEF Empty
  <2>2. CASE j # i
    <3>1. g[j] = h[j] /\ h[j] # NoObject /\ h[j].stmt \in Stmts \cup {Null}
      BY <1>3, <1>4, <2>2, Members
    <3>2. h[j].stmt # p
      BY <2>2, <3>1 DEF Statements, Has
    <3> QED
      BY <1>3, <3>1, <3>2 DEF Statements
  <2> QED
    BY <2>1, <2>2
<1>5. ASSUME NEW q \in Stmts, n.stmt[q] # Null
      PROVE  n.conn[n.stmt[q].conn] # "free" /\ \E j \in Iters : Has(g, j, q)
  <2>1. q # p /\ n.stmt[q] = s.stmt[q] /\ s.stmt[q].conn \in Conns
    BY <1>3, <1>5 DEF State, Statement
  <2>2. s.conn[s.stmt[q].conn] # "free"
    BY <1>5, <2>1 DEF Statements
  <2>3. PICK j \in Iters : Has(h, j, q)
    BY <1>5, <2>1 DEF Statements
  <2>4. j # i
    BY <2>1, <2>3 DEF Has
  <2>5. Has(g, j, q)
    BY <1>3, <2>3, <2>4 DEF Has
  <2>6. InUse(n, s.stmt[q].conn)
    BY <1>5, <2>1 DEF InUse
  <2> QED
    BY <1>2, <2>1, <2>2, <2>5, <2>6 DEF Freed
<1>6. ASSUME NEW j \in Iters, NEW k \in Iters, NEW q \in Stmts, Has(g, j, q), Has(g, k, q)
      PROVE  j = k
  <2>1. j # i /\ k # i
    BY <1>3, <1>6, SqliteConstantsOK DEF Has, Empty, SqliteConstantsOK
  <2> QED
    BY <1>3, <1>6, <2>1 DEF Has, Statements
<1>7. Statements(n, g)
  BY <1>4, <1>5, <1>6 DEF Statements
<1> QED
  BY <1>2, <1>7 DEF n, g

(* A step to the next row, or back to the start of the query.              *)
LEMMA Stepped ==
  ASSUME NEW s \in State, NEW h, Iterating(h), Statements(s, h),
         NEW p \in Stmts, s.stmt[p] # Null, NEW r \in Statement, r.conn = s.stmt[p].conn
  PROVE  LET n == [s EXCEPT !.stmt = [@ EXCEPT ![p] = r]]
         IN  n \in State /\ n.conn = s.conn /\ Statements(n, h)
<1> DEFINE n == [s EXCEPT !.stmt = [@ EXCEPT ![p] = r]]
<1>1. /\ n \in State /\ n.conn = s.conn
      /\ n.stmt[p] = r /\ \A q \in Stmts \ {p} : n.stmt[q] = s.stmt[q]
  BY DEF State
<1>2. r # Null
  BY SqliteConstantsOK DEF SqliteConstantsOK
<1> HIDE DEF n
<1>3. \A q \in Stmts : /\ n.stmt[q] # Null <=> s.stmt[q] # Null
                       /\ n.stmt[q] # Null => n.stmt[q].conn = s.stmt[q].conn
  BY <1>1, <1>2
<1>4. \A i \in Iters : h[i] # NoObject => h[i].stmt \in Stmts \cup {Null}
  BY Members
<1>5. Statements(n, h)
  BY <1>1, <1>3, <1>4 DEF Statements
<1> QED
  BY <1>1, <1>5 DEF n

(* begin() prepares a statement that nothing refers to yet.                *)
LEMMA Prepared ==
  ASSUME NEW s \in State, NEW h, Iterating(h), Statements(s, h),
         NEW i \in Iters, h[i] = NoObject, NEW p \in Stmts, s.stmt[p] = Null,
         NEW c \in Conns, s.conn[c] # "free"
  PROVE  LET n == [s EXCEPT !.stmt = [@ EXCEPT ![p] = Started(c)]]
             g == [h EXCEPT ![i] = [db |-> c, stmt |-> p]]
         IN  n \in State /\ n.conn = s.conn /\ Iterating(g) /\ Statements(n, g)
<1> DEFINE n == [s EXCEPT !.stmt = [@ EXCEPT ![p] = Started(c)]]
           g == [h EXCEPT ![i] = [db |-> c, stmt |-> p]]
<1>1. /\ Started(c) \in Statement /\ Started(c) # Null /\ Started(c).conn = c
      /\ [db |-> c, stmt |-> p] \in Iterator /\ [db |-> c, stmt |-> p] # NoObject
      /\ p # Null
  BY SqliteConstantsOK DEF SqliteConstantsOK, Started, Statement, Iterator
<1>2. /\ n \in State /\ n.conn = s.conn /\ Iterating(g)
      /\ n.stmt[p] = Started(c) /\ \A q \in Stmts \ {p} : n.stmt[q] = s.stmt[q]
      /\ g[i] = [db |-> c, stmt |-> p] /\ \A j \in Iters \ {i} : g[j] = h[j]
  BY <1>1 DEF State, Iterating
<1> HIDE DEF n, g
<1>3. \A j \in Iters \ {i} : h[j] # NoObject => h[j].stmt \in (Stmts \ {p}) \cup {Null}
  BY Members DEF Statements
<1>4. \A j \in Iters : g[j] # NoObject =>
        IF g[j].stmt = Null THEN g[j].db = Null
        ELSE n.stmt[g[j].stmt] # Null /\ g[j].db = n.stmt[g[j].stmt].conn
  BY <1>1, <1>2, <1>3 DEF Statements
<1>5. ASSUME NEW q \in Stmts, n.stmt[q] # Null
      PROVE  n.conn[n.stmt[q].conn] # "free" /\ \E j \in Iters : Has(g, j, q)
  <2>1. CASE q = p
    BY <1>1, <1>2, <2>1 DEF Has
  <2>2. CASE q # p
    <3>1. PICK j \in Iters : Has(h, j, q)
      BY <1>2, <1>5, <2>2 DEF Statements
    <3>2. j # i
      BY <3>1 DEF Has
    <3> QED
      BY <1>2, <1>5, <2>2, <3>1, <3>2 DEF Statements, Has
  <2> QED
    BY <2>1, <2>2
<1>6. \A j, k \in Iters, q \in Stmts : Has(g, j, q) /\ Has(g, k, q) => j = k
  BY <1>1, <1>2, <1>3, SqliteConstantsOK DEF Has, Statements, SqliteConstantsOK
<1>7. Statements(n, g)
  BY <1>4, <1>5, <1>6 DEF Statements
<1> QED
  BY <1>2, <1>7 DEF n, g

(* Moving: the destination was dropped, then gets the source's statement.  *)
LEMMA Handed ==
  ASSUME NEW s, NEW h, Iterating(h), Statements(s, h),
         NEW i \in Iters, NEW o \in Iters, i # o, h[i] = NoObject, h[o] # NoObject
  PROVE  LET g == [h EXCEPT ![i] = h[o], ![o] = Empty]
         IN  Iterating(g) /\ Statements(s, g)
<1> DEFINE g == [h EXCEPT ![i] = h[o], ![o] = Empty]
<1>1. Empty \in Iterator /\ Empty # NoObject
  BY SqliteConstantsOK DEF Empty, Iterator, SqliteConstantsOK
<1>2. /\ Iterating(g) /\ g[i] = h[o] /\ g[o] = Empty
      /\ \A j \in Iters \ {i, o} : g[j] = h[j]
  BY <1>1 DEF Iterating
<1> HIDE DEF g
<1>3. \A p \in Stmts : ~ Has(g, o, p) /\ (Has(g, i, p) <=> Has(h, o, p)) /\ ~ Has(h, i, p)
  BY <1>2, SqliteConstantsOK DEF Has, Empty, SqliteConstantsOK
<1>4. \A j \in Iters \ {i, o}, p \in Stmts : Has(g, j, p) <=> Has(h, j, p)
  BY <1>2 DEF Has
<1>5. ASSUME NEW p \in Stmts, NEW j \in Iters, Has(h, j, p) PROVE \E k \in Iters : Has(g, k, p)
  BY <1>3, <1>4, <1>5
<1>6. \A j \in Iters : g[j] # NoObject =>
        IF g[j].stmt = Null THEN g[j].db = Null
        ELSE s.stmt[g[j].stmt] # Null /\ g[j].db = s.stmt[g[j].stmt].conn
  BY <1>2 DEF Statements, Empty
<1>7. \A p \in Stmts : s.stmt[p] # Null =>
        s.conn[s.stmt[p].conn] # "free" /\ \E k \in Iters : Has(g, k, p)
  BY <1>5 DEF Statements
<1>8. \A j, k \in Iters, p \in Stmts : Has(g, j, p) /\ Has(g, k, p) => j = k
  BY <1>3, <1>4 DEF Statements
<1> QED
  BY <1>2, <1>6, <1>7, <1>8 DEF Statements, g

(* ~const_iterator(), with a statement or without.                         *)
LEMMA Ended ==
  ASSUME NEW s \in State, NEW h, Iterating(h), Statements(s, h), NEW i \in Iters, h[i] # NoObject
  PROVE  LET n == Finalize(s, h[i].stmt)
             g == [h EXCEPT ![i] = NoObject]
         IN  n \in State /\ Freed(n, s) /\ Iterating(g) /\ Statements(n, g)
<1> DEFINE g == [h EXCEPT ![i] = NoObject]
<1>1. Iterating(g) /\ g[i] = NoObject /\ \A j \in Iters \ {i} : g[j] = h[j]
  BY DEF Iterating
<1>2. CASE h[i].stmt = Null
  <2>1. Finalize(s, h[i].stmt) = s /\ Freed(s, s)
    BY <1>2 DEF Finalize, Freed
  <2> HIDE DEF g
  <2>2. \A p \in Stmts, j \in Iters : Has(g, j, p) <=> Has(h, j, p)
    BY <1>1, <1>2, SqliteConstantsOK DEF Has, SqliteConstantsOK
  <2>3. Statements(s, g)
    BY <1>1, <2>2 DEF Statements
  <2> QED
    BY <1>1, <2>1, <2>3 DEF g
<1>3. CASE h[i].stmt # Null
  <2>1. h[i].stmt \in Stmts /\ Has(h, i, h[i].stmt)
    BY <1>3, Members DEF Has
  <2> QED
    BY <1>1, <2>1, Dropped
<1> QED
  BY <1>2, <1>3

(* operator++, on the iterators h and the state s it starts from.          *)
LEMMA Advanced ==
  ASSUME NEW s \in State, NEW h, Iterating(h), Iterating(iter), Statements(s, h),
         NEW i \in Iters, NEW p \in Stmts, NEW c, h[i] = [db |-> c, stmt |-> p],
         h[i] # NoObject, h = [iter EXCEPT ![i] = h[i]], Advance(s, i, p, c)
  PROVE  Now' \in State /\ Freed(Now', s) /\ Iterating(iter') /\ Statements(Now', iter') /\ out' = "ok"
<1>1. Has(h, i, p) /\ s.stmt[p] # Null
  BY SqliteConstantsOK DEF Has, Statements, SqliteConstantsOK
<1>2. ASSUME NEW n \in State, Commit(n) PROVE Now' = n
  BY <1>2 DEF Commit, Now, State
<1>3. CASE s.stmt[p].left = 0 /\ Commit(Finalize(s, p)) /\ iter' = [iter EXCEPT ![i] = Empty]
  <2>1. Empty \in Iterator
    BY DEF Empty, Iterator
  <2>2. iter' = [h EXCEPT ![i] = Empty] /\ Iterating(iter')
    BY <1>3, <2>1 DEF Iterating
  <2>3. Finalize(s, p) \in State /\ Freed(Finalize(s, p), s) /\ Statements(Finalize(s, p), iter')
    BY <1>1, <2>2, Dropped
  <2> QED
    BY <1>2, <1>3, <2>2, <2>3 DEF Advance
<1>4. CASE /\ s.stmt[p].left > 0
           /\ Commit([s EXCEPT !.stmt = [@ EXCEPT ![p] = NextRow(s.stmt[p])]])
           /\ iter' = [iter EXCEPT ![i] = [db |-> c, stmt |-> p]]
  <2> DEFINE r == NextRow(s.stmt[p])
             n == [s EXCEPT !.stmt = [@ EXCEPT ![p] = r]]
  <2>1. s.stmt[p] \in Statement
    BY <1>1 DEF State
  <2>2. r \in Statement /\ r.conn = s.stmt[p].conn
    BY <1>4, <2>1, SqliteConstantsOK DEF NextRow, Statement, SqliteConstantsOK
  <2>3. Commit(n)
    BY <1>4
  <2> HIDE DEF r
  <2>4. n \in State /\ n.conn = s.conn /\ Statements(n, h)
    BY <1>1, <2>2, Stepped
  <2>5. iter' = h /\ out' = "ok"
    BY <1>4 DEF Advance
  <2> QED
    BY <1>2, <2>3, <2>4, <2>5 DEF Freed
<1> QED
  BY <1>3, <1>4 DEF Advance

----------------------------------------------------------------------------
(* The calls on iterators.                                                 *)
LEMMA IterCall ==
  ASSUME Inv, Now' \in State, Freed(Now', Now), Iterating(iter'), Statements(Now', iter'),
         UNCHANGED <<ts, lost, aliased>>, out' \in {"ok", "threw"}
  PROVE  Inv'
<1>1. Types'
  BY DEF Inv, Types, Iterating
<1>2. ASSUME ~ aliased PROVE Handles(conn, ts)'
  <2>1. Handles(Now'.conn, ts)
    BY <1>2, FreedHandles DEF Inv
  <2> QED
    BY <2>1 DEF Handles, Now
<1>3. Running'
  BY DEF Running
<1> QED
  BY <1>1, <1>2, <1>3 DEF Inv, Types

LEMMA NowAgain ==
  ASSUME Inv, Commit(Now), UNCHANGED iter
  PROVE  Now' \in State /\ Freed(Now', Now) /\ Iterating(iter') /\ Statements(Now', iter')
<1>1. Now' = Now
  BY DEF Commit, Now
<1> QED
  BY <1>1 DEF Inv, Types, Freed, Iterating

LEMMA BeginStep ==
  ASSUME Inv, NEW i \in Iters, NEW s \in Series, Begin(i, s)
  PROVE  Inv'
<1>1. /\ iter[i] = NoObject /\ ts[s] \in Conns /\ conn[ts[s]] = "open"
      /\ UNCHANGED <<ts, lost, aliased>>
  BY DEF Begin
<1>2. ASSUME NEW p \in Stmts, stmt[p] = Null,
             Advance([Now EXCEPT !.stmt = [@ EXCEPT ![p] = Started(ts[s])]], i, p, ts[s])
      PROVE  Inv'
  <2> DEFINE n == [Now EXCEPT !.stmt = [@ EXCEPT ![p] = Started(ts[s])]]
             g == [iter EXCEPT ![i] = [db |-> ts[s], stmt |-> p]]
  <2>1. Now \in State /\ Iterating(iter) /\ Statements(Now, iter) /\ Now.stmt = stmt /\ Now.conn = conn
    BY DEF Inv, Types, Iterating, Now
  <2>2. n \in State /\ n.conn = conn /\ Iterating(g) /\ Statements(n, g)
    BY <1>1, <1>2, <2>1, Prepared
  <2>3. g[i] = [db |-> ts[s], stmt |-> p] /\ g[i] # NoObject /\ g = [iter EXCEPT ![i] = g[i]]
    BY <1>1, <2>1, SqliteConstantsOK DEF Iterating, Iterator, SqliteConstantsOK
  <2>4. Advance(n, i, p, ts[s])
    BY <1>2
  <2> HIDE DEF n, g
  <2>5. /\ Now' \in State /\ Freed(Now', n) /\ Iterating(iter')
        /\ Statements(Now', iter') /\ out' = "ok"
    BY <2>1, <2>2, <2>3, <2>4, Advanced
  <2>6. Freed(Now', Now)
    BY <2>1, <2>2, <2>5 DEF Freed
  <2> QED
    BY <1>1, <2>5, <2>6, IterCall
<1>3. CASE Commit(Now) /\ UNCHANGED iter /\ out' = "threw"
  BY <1>1, <1>3, NowAgain, IterCall
<1> QED
  BY <1>2, <1>3 DEF Begin

LEMMA IncrementStep ==
  ASSUME Inv, NEW i \in Iters, Increment(i)
  PROVE  Inv'
<1> DEFINE p == iter[i].stmt
<1>1. /\ Now \in State /\ Iterating(iter) /\ Statements(Now, iter) /\ Now.stmt = stmt
      /\ iter[i] # NoObject /\ iter[i].db # Null /\ UNCHANGED <<ts, lost, aliased>>
  BY DEF Inv, Types, Iterating, Now, Increment
<1>2. iter[i] \in Iterator /\ p \in Stmts /\ stmt[p] # Null
  BY <1>1, Members DEF Statements
<1>3. CASE Advance(Now, i, p, iter[i].db)
  <2>1. iter[i] = [db |-> iter[i].db, stmt |-> p] /\ iter = [iter EXCEPT ![i] = iter[i]]
    BY <1>1, <1>2 DEF Iterator, Iterating
  <2> HIDE DEF p
  <2> QED
    BY <1>1, <1>2, <1>3, <2>1, Advanced, IterCall
<1>4. CASE /\ Commit([Now EXCEPT !.stmt = [@ EXCEPT ![p] = Started(stmt[p].conn)]])
           /\ UNCHANGED iter /\ out' = "threw"
  <2> DEFINE n == [Now EXCEPT !.stmt = [@ EXCEPT ![p] = Started(stmt[p].conn)]]
  <2>1. stmt[p] \in Statement
    BY <1>1, <1>2 DEF State
  <2>2. Started(stmt[p].conn) \in Statement /\ Started(stmt[p].conn).conn = stmt[p].conn
    BY <2>1, SqliteConstantsOK DEF Started, Statement, SqliteConstantsOK
  <2>3. n \in State /\ n.conn = Now.conn /\ Statements(n, iter)
    BY <1>1, <1>2, <2>2, Stepped
  <2>4. Commit(n)
    BY <1>4
  <2> HIDE DEF n, p
  <2>5. Now' = n
    BY <2>3, <2>4 DEF Commit, Now, State
  <2> QED
    BY <1>1, <1>4, <2>3, <2>5, IterCall DEF Freed, Iterating
<1> QED
  BY <1>3, <1>4 DEF Increment

LEMMA MoveIterStep ==
  ASSUME Inv, NEW i \in Iters, NEW o \in Iters, MoveIter(i, o)
  PROVE  Inv'
<1>1. /\ Now \in State /\ Iterating(iter) /\ Statements(Now, iter)
      /\ iter[o] # NoObject /\ i # o /\ iter' = Taken(i, o)
      /\ UNCHANGED <<ts, lost, aliased>> /\ out' = "ok"
  BY DEF Inv, Types, Iterating, MoveIter
<1> DEFINE n == IF iter[i] = NoObject THEN Now ELSE Finalize(Now, iter[i].stmt)
           g == [iter EXCEPT ![i] = NoObject]
<1>2. n \in State /\ Freed(n, Now) /\ Iterating(g) /\ Statements(n, g)
  <2>1. CASE iter[i] = NoObject
    <3>1. g = iter
      BY <1>1, <2>1 DEF Iterating
    <3> QED
      BY <1>1, <2>1, <3>1 DEF Freed
  <2>2. CASE iter[i] # NoObject
    BY <1>1, <2>2, Ended
  <2> QED
    BY <2>1, <2>2
<1>3. g[i] = NoObject /\ g[o] = iter[o] /\ Taken(i, o) = [g EXCEPT ![i] = g[o], ![o] = Empty]
  BY <1>1 DEF Iterating, Taken
<1>4. Commit(n)
  BY DEF MoveIter
<1> HIDE DEF n, g
<1>5. Now' = n
  BY <1>2, <1>4 DEF Commit, Now, State
<1>6. Iterating(iter') /\ Statements(n, iter')
  <2>1. iter' = [g EXCEPT ![i] = g[o], ![o] = Empty] /\ i # o /\ g[o] # NoObject
    BY <1>1, <1>3
  <2> QED
    BY <1>2, <1>3, <2>1, Handed
<1>7. Now' \in State /\ Freed(Now', Now) /\ Statements(Now', iter')
  BY <1>2, <1>5, <1>6
<1> QED
  BY <1>1, <1>6, <1>7, IterCall

LEMMA DestroyIterStep ==
  ASSUME Inv, NEW i \in Iters, DestroyIter(i)
  PROVE  Inv'
<1> DEFINE n == Finalize(Now, iter[i].stmt)
<1>1. /\ Now \in State /\ Iterating(iter) /\ Statements(Now, iter) /\ Now.stmt = stmt
      /\ iter[i] # NoObject /\ iter' = [iter EXCEPT ![i] = NoObject]
      /\ UNCHANGED <<ts, lost, aliased>> /\ Commit(n)
  BY DEF Inv, Types, Iterating, DestroyIter, Now
<1>2. n \in State /\ Freed(n, Now) /\ Iterating(iter') /\ Statements(n, iter')
  BY <1>1, Ended
<1> HIDE DEF n
<1>3. Now' = n
  BY <1>1, <1>2 DEF Commit, Now, State
<1>4. iter[i].stmt # Null => stmt[iter[i].stmt] \in Statement
  BY <1>1, Members DEF Statements, State
<1>5. iter[i].stmt # Null => iter[i].db # Null
  BY <1>1, <1>4, SqliteConstantsOK DEF Statements, Statement, SqliteConstantsOK
<1>6. out' = "ok"
  BY <1>5 DEF DestroyIter
<1> QED
  BY <1>1, <1>2, <1>3, <1>6, IterCall

----------------------------------------------------------------------------
(* The calls on series.                                                    *)
LEMMA SeriesCall ==
  ASSUME Inv, UNCHANGED <<stmt, iter>>, Now' \in State,
         \A c \in Conns : conn'[c] = "free" => conn[c] = "free" \/ ~ InUse(Now, c)
  PROVE  Statements(Now', iter')
<1>1. \A p \in Stmts : stmt[p] # Null => stmt[p].conn \in Conns
  BY DEF Inv, Types, State, Statement, Now
<1>2. ASSUME NEW p \in Stmts, stmt[p] # Null PROVE conn'[stmt[p].conn] # "free"
  BY <1>1, <1>2 DEF Inv, Statements, InUse, Now
<1> QED
  BY <1>2 DEF Inv, Statements, Now

LEMMA OpenStep ==
  ASSUME Inv, NEW s \in Series, Open(s)
  PROVE  Inv'
<1>1. PICK c \in Conns :
        /\ conn[c] = "free" /\ conn' = [conn EXCEPT ![c] = "open"]
        /\ \/ ts' = [ts EXCEPT ![s] = c] /\ out' = "ok" /\ UNCHANGED lost
           \/ UNCHANGED ts /\ out' = "threw" /\ lost' = lost \cup {c}
  BY DEF Open
<1>2. ts[s] = NoObject /\ UNCHANGED <<stmt, iter, aliased>>
  BY DEF Open
<1>3. Types' /\ conn'[c] = "open" /\ \A d \in Conns \ {c} : conn'[d] = conn[d]
  BY <1>1, <1>2 DEF Inv, Types, State, Now
<1>4. Statements(Now', iter')
  BY <1>2, <1>3, SeriesCall DEF Types
<1>5. ASSUME ~ aliased PROVE Handles(conn, ts)'
  <2>1. Handles(conn, ts) /\ c \notin lost /\ \A t \in Series : ts[t] # c
    BY <1>1, <1>5 DEF Inv, Handles
  <2>2. CASE ts' = [ts EXCEPT ![s] = c] /\ UNCHANGED lost
    <3>1. ts'[s] = c /\ \A t \in Series \ {s} : ts'[t] = ts[t]
      BY <2>2 DEF Inv, Types
    <3>2. ts[s] \notin Conns
      BY <1>2, SqliteConstantsOK DEF SqliteConstantsOK
    <3>3. lost \subseteq Conns
      BY DEF Inv, Types
    <3> QED
      BY <1>3, <2>1, <2>2, <3>1, <3>2, <3>3 DEF Handles
  <2>3. CASE UNCHANGED ts /\ lost' = lost \cup {c}
    <3>1. lost \subseteq Conns
      BY DEF Inv, Types
    <3> QED
      BY <1>3, <2>1, <2>3, <3>1 DEF Handles
  <2> QED
    BY <1>1, <2>2, <2>3
<1> QED
  BY <1>1, <1>2, <1>3, <1>4, <1>5 DEF Inv, Running

LEMMA MoveSeriesStep ==
  ASSUME Inv, NEW s \in Series, NEW o \in Series, MoveSeries(s, o)
  PROVE  Inv'
<1>1. /\ ts[s] = NoObject /\ ts[o] # NoObject /\ ts' = [ts EXCEPT ![s] = ts[o], ![o] = Null]
      /\ UNCHANGED <<conn, stmt, iter, lost, aliased>> /\ out' = "ok"
  BY DEF MoveSeries
<1>2. /\ ts'[s] = ts[o] /\ ts'[o] = Null /\ \A t \in Series \ {s, o} : ts'[t] = ts[t]
      /\ ts' \in [Series -> Conns \cup {Null, NoObject}]
  BY <1>1 DEF Inv, Types
<1>3. Null \notin Conns /\ ts[s] \notin Conns
  BY <1>1, SqliteConstantsOK DEF SqliteConstantsOK
<1>4. ASSUME ~ aliased PROVE Handles(conn, ts)'
  BY <1>1, <1>2, <1>3, <1>4 DEF Inv, Handles
<1> QED
  BY <1>1, <1>2, <1>4 DEF Inv, Types, Statements, Now, Running, Has

LEMMA AssignSeriesStep ==
  ASSUME Inv, NEW s \in Series, NEW o \in Series, AssignSeries(s, o)
  PROVE  Inv'
<1>1. /\ ts' = [ts EXCEPT ![s] = ts[o]] /\ aliased' = (aliased \/ s # o)
      /\ UNCHANGED <<conn, stmt, iter, lost>> /\ out' = "ok"
  BY DEF AssignSeries
<1>2. ASSUME ~ aliased' PROVE UNCHANGED ts /\ ~ aliased
  BY <1>1, <1>2 DEF Inv, Types
<1>3. Types'
  BY <1>1 DEF Inv, Types, Now
<1>4. ASSUME ~ aliased' PROVE Handles(conn, ts)'
  BY <1>1, <1>2, <1>4 DEF Inv, Handles
<1> QED
  BY <1>1, <1>3, <1>4 DEF Inv, Types, Statements, Now, Running, Has

LEMMA DestroySeriesStep ==
  ASSUME Inv, NEW s \in Series, DestroySeries(s)
  PROVE  Inv'
<1>1. ts' = [ts EXCEPT ![s] = NoObject] /\ UNCHANGED <<stmt, iter, lost, aliased>>
  BY DEF DestroySeries
<1>2. /\ ts'[s] = NoObject /\ \A t \in Series \ {s} : ts'[t] = ts[t]
      /\ ts' \in [Series -> Conns \cup {Null, NoObject}] /\ NoObject \notin Conns
  BY <1>1, SqliteConstantsOK DEF Inv, Types, SqliteConstantsOK
<1>3. CASE ts[s] = Null
  <2>1. UNCHANGED conn /\ out' = "ok" /\ ts[s] \notin Conns
    BY <1>3, SqliteConstantsOK DEF DestroySeries, SqliteConstantsOK
  <2>2. ASSUME ~ aliased PROVE Handles(conn, ts)'
    BY <1>1, <1>2, <2>1, <2>2 DEF Inv, Handles
  <2> QED
    BY <1>1, <1>2, <2>1, <2>2 DEF Inv, Types, Statements, Now, Running, Has
<1>4. CASE ts[s] # Null
  <2> DEFINE c == ts[s]
  <2>1. /\ c \in Conns /\ out' = Closed(Now, c)
        /\ IF out' = "ok" THEN conn' = CloseV2(Now, c).conn ELSE UNCHANGED conn
    BY <1>4 DEF Inv, Types, DestroySeries
  <2>2. ASSUME ~ aliased PROVE conn[c] = "open" /\ c \notin lost
    BY <2>1, <2>2 DEF Inv, Handles
  <2>3. CASE out' = "ok"
    <3>1. conn' = [conn EXCEPT ![c] = IF InUse(Now, c) THEN "zombie" ELSE "free"]
      BY <2>1, <2>3 DEF CloseV2, Now
    <3> HIDE DEF c
    <3>2. /\ conn'[c] = IF InUse(Now, c) THEN "zombie" ELSE "free"
          /\ \A d \in Conns \ {c} : conn'[d] = conn[d]
          /\ Now' \in State
      BY <1>1, <2>1, <3>1 DEF Inv, Types, State, Now
    <3>3. Types'
      BY <1>1, <1>2, <3>2 DEF Inv, Types
    <3>4. Statements(Now', iter')
      BY <1>1, <3>2, SeriesCall
    <3>5. ASSUME ~ aliased PROVE Handles(conn, ts)'
      <4>1. lost \subseteq Conns /\ Handles(conn, ts)
        BY <3>5 DEF Inv, Types
      <4>2. \A t \in Series \ {s} : ts[t] # c
        BY <2>1, <4>1 DEF Handles, c
      <4> QED
        BY <1>1, <1>2, <2>1, <2>2, <3>2, <3>5, <4>1, <4>2 DEF Handles, c
    <3> QED
      BY <1>1, <2>3, <3>3, <3>4, <3>5 DEF Inv, Running
  <2>4. CASE out' # "ok"
    <3>1. aliased
      BY <2>1, <2>2, <2>4 DEF Closed, Now
    <3> QED
      BY <1>1, <1>2, <2>1, <2>4, <3>1 DEF Inv, Types, Statements, Now, Has
  <2> QED
    BY <2>3, <2>4
<1> QED
  BY <1>3, <1>4

----------------------------------------------------------------------------
LEMMA InitInv ==
  ASSUME Init
  PROVE  Inv
<1>1. Types
  BY DEF Init, Types, State, Now
<1>2. NoObject \notin Conns /\ Null \notin Statement
  BY SqliteConstantsOK DEF SqliteConstantsOK
<1>3. Statements(Now, iter)
  BY DEF Init, Statements, Has, Now
<1>4. Running /\ Handles(conn, ts)
  BY <1>2 DEF Init, Handles, Running
<1> QED
  BY <1>1, <1>3, <1>4 DEF Inv

LEMMA NextInv ==
  ASSUME Inv, Next
  PROVE  Inv'
<1>1. ASSUME NEW s \in Series,
             Open(s) \/ DestroySeries(s) \/ \E o \in Series : MoveSeries(s, o) \/ AssignSeries(s, o)
      PROVE  Inv'
  BY <1>1, OpenStep, DestroySeriesStep, MoveSeriesStep, AssignSeriesStep
<1>2. ASSUME NEW i \in Iters,
             \/ Increment(i) \/ DestroyIter(i)
             \/ \E s \in Series : Begin(i, s)
             \/ \E o \in Iters : MoveIter(i, o)
      PROVE  Inv'
  BY <1>2, IncrementStep, DestroyIterStep, BeginStep, MoveIterStep
<1> QED
  BY <1>1, <1>2 DEF Next

(* The correspondence of iterators and statements, and until a series is   *)
(* assigned that of series and connections, hold whatever the program does *)
(* with the series and iterators of sqlite_ts.cpp.                         *)
THEOREM Invariance == Spec => []Inv
<1>1. ASSUME Inv, UNCHANGED vars PROVE Inv'
  BY <1>1 DEF Inv, Types, Statements, Handles, Has, Now, Running, vars
<1> QED
  BY InitInv, NextInv, <1>1, PTL DEF Spec

(* Every statement is finalised exactly once, by the one iterator that has *)
(* it, and the assertion of ~const_iterator() never fails.                 *)
THEOREM FinalisedOnce == Spec => []OneIteratorPerStatement
<1>1. ASSUME Inv PROVE OneIteratorPerStatement
  <2>1. Statements(Now, iter) /\ Iterating(iter) /\ Now.stmt = stmt /\ Now \in State
    BY <1>1 DEF Inv, Types, Iterating, Now
  <2>2. ASSUME NEW i \in Iters, iter[i] # NoObject
        PROVE  iter[i].db = Null <=> iter[i].stmt = Null
    <3>1. CASE iter[i].stmt = Null
      BY <2>1, <2>2, <3>1 DEF Statements
    <3>2. CASE iter[i].stmt # Null
      <4>1. stmt[iter[i].stmt] \in Statement /\ iter[i].db = stmt[iter[i].stmt].conn
        BY <2>1, <2>2, <3>2, Members DEF Statements, State
      <4> QED
        BY <3>2, <4>1, SqliteConstantsOK DEF Statement, SqliteConstantsOK
    <3> QED
      BY <3>1, <3>2
  <2>3. ASSUME NEW p \in Stmts
        PROVE  LET users == {i \in Iters : iter[i] # NoObject /\ iter[i].stmt = p}
               IN  IF stmt[p] = Null THEN users = {} ELSE \E i \in Iters : users = {i}
    <3> DEFINE users == {i \in Iters : iter[i] # NoObject /\ iter[i].stmt = p}
    <3>1. \A i \in Iters : i \in users <=> Has(iter, i, p)
      BY DEF Has
    <3>2. CASE stmt[p] = Null
      <4>1. p # Null
        BY SqliteConstantsOK DEF SqliteConstantsOK
      <4>2. \A i \in Iters : ~ Has(iter, i, p)
        BY <2>1, <3>2, <4>1 DEF Statements, Has
      <4> QED
        BY <3>2, <4>2 DEF Has
    <3>3. CASE stmt[p] # Null
      <4>1. PICK i \in Iters : Has(iter, i, p)
        BY <2>1, <3>3 DEF Statements
      <4>2. \A j \in Iters : Has(iter, j, p) => j = i
        BY <2>1, <4>1 DEF Statements
      <4>3. users = {i}
        BY <3>1, <4>1, <4>2
      <4> QED
        BY <3>3, <4>3
    <3> QED
      BY <3>2, <3>3
  <2> QED
    BY <2>2, <2>3 DEF OneIteratorPerStatement
<1> QED
  BY Invariance, <1>1, PTL

(* The connection of an iterator's statement is not freed under it, also   *)
(* when the series it came from is gone.                                   *)
THEOREM ConnectionsKept == Spec => []IteratorsKeepConnections
<1>1. ASSUME Inv PROVE IteratorsKeepConnections
  <2>1. Statements(Now, iter) /\ Iterating(iter) /\ Now.stmt = stmt /\ Now.conn = conn
    BY <1>1 DEF Inv, Types, Iterating, Now
  <2>2. ASSUME NEW i \in Iters, iter[i] # NoObject, iter[i].stmt # Null
        PROVE  /\ stmt[iter[i].stmt] # Null
               /\ conn[stmt[iter[i].stmt].conn] # "free" /\ stmt[iter[i].stmt].conn = iter[i].db
    <3>1. iter[i].stmt \in Stmts
      BY <2>1, <2>2, Members
    <3> QED
      BY <2>1, <2>2, <3>1 DEF Statements
  <2> QED
    BY <2>2 DEF IteratorsKeepConnections
<1> QED
  BY Invariance, <1>1, PTL

(* As long as no series is assigned, no destructor closes a connection a   *)
(* second time and no assertion fails.                                     *)
THEOREM ClosedOnce == Spec => []CloseSucceeds
<1>1. ASSUME Inv PROVE CloseSucceeds
  BY <1>1 DEF Inv, CloseSucceeds, Running
<1> QED
  BY Invariance, <1>1, PTL

(* As long as no series is assigned, an open connection has one series to  *)
(* close it, unless its opening failed.                                    *)
THEOREM OneOwner == Spec => []OneSeriesPerConnection
<1>1. ASSUME Inv PROVE OneSeriesPerConnection
  <2>1. ASSUME ~ aliased, NEW c \in Conns
        PROVE  LET owners == {s \in Series : ts[s] = c}
               IN  IF conn[c] = "open" /\ c \notin lost THEN \E s \in Series : owners = {s}
                   ELSE owners = {}
    <3> DEFINE owners == {s \in Series : ts[s] = c}
    <3>1. Handles(conn, ts)
      BY <1>1, <2>1 DEF Inv
    <3>2. CASE conn[c] = "open" /\ c \notin lost
      <4>1. PICK s \in Series : ts[s] = c
        BY <3>1, <3>2 DEF Handles
      <4>2. \A t \in Series : ts[t] = c => t = s
        BY <3>1, <4>1 DEF Handles
      <4>3. owners = {s}
        BY <4>1, <4>2
      <4> QED
        BY <3>2, <4>3
    <3>3. CASE ~ (conn[c] = "open" /\ c \notin lost)
      <4>1. \A s \in Series : ts[s] # c
        BY <3>1, <3>3 DEF Handles
      <4> QED
        BY <3>3, <4>1
    <3> QED
      BY <3>2, <3>3
  <2> QED
    BY <2>1 DEF OneSeriesPerConnection
<1> QED
  BY Invariance, <1>1, PTL
============================================================================
