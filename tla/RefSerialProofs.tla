-------------------------- MODULE RefSerialProofs --------------------------
(***************************************************************************)
(* Theorems about RefWrap, and then about RefSerial, which extends it: for *)
(* every finite set of wraps, every set of cells and types, both settings  *)
(* of swappable and archives of every length.                              *)
(*                                                                         *)
(* In the middle of a call one reference may be counted that no wrap holds *)
(* yet, and others than wraps may hold references too, one to each cell of *)
(* a set R.  Counted(s, x, R) says that the counts of s are the numbers of *)
(* sharers, plus one for x if x is a cell, plus one for each cell of R.    *)
(* Retain, make_shared and emptying a moved-from pointer establish it;     *)
(* Adopt turns it into Counted(s, Null, R), where nothing is left over.    *)
(*                                                                         *)
(* In RefSerial the set R is that of the cells the reading archive refers  *)
(* to: SerialInv says that it is what `loaded` lists, each cell once.  It  *)
(* also ties the records to the cells they were written for and the loaded *)
(* wraps to their records, so that the archive can be left out between the *)
(* wraps that were saved and those that were loaded.                       *)
(***************************************************************************)
EXTENDS RefSerial, FiniteSetTheorems, WellFoundedInduction, TLAPS

State == [ptr : [Wraps -> Cells \cup {Null, NoWrap}],
          held : [Cells -> Holder \cup {Raw}],
          count : [Cells -> Nat]]

Holders(s, c) == {w \in Wraps : s.ptr[w] = c}
Pending(x, c) == IF x = c THEN 1 ELSE 0

Extra(R, c) == IF c \in R THEN 1 ELSE 0

Counted(s, x, R) ==
  /\ s \in State
  /\ \A c \in Cells : /\ s.count[c] = Cardinality(Holders(s, c)) + Pending(x, c) + Extra(R, c)
                      /\ s.held[c] # Raw <=> s.count[c] > 0

(* A call may end in n: nothing is pending, the wraps point as r says and  *)
(* the holders still alive are those of h.                                 *)
Reached(n, r, h, R) ==
  Counted(n, Null, R) /\ n.ptr = r /\ \A c \in Cells : n.held[c] \in {h[c], Raw}

----------------------------------------------------------------------------
LEMMA HoldersFinite ==
  ASSUME NEW s, NEW c
  PROVE  IsFiniteSet(Holders(s, c)) /\ Cardinality(Holders(s, c)) \in Nat
<1>1. IsFiniteSet(Wraps)
  BY ConstantsOK DEF ConstantsOK
<1>2. IsFiniteSet(Holders(s, c))
  BY <1>1, FS_Subset DEF Holders
<1> QED
  BY <1>2, FS_CardinalityType

LEMMA ExtraIs ==
  \A R, c : Extra(R, c) \in {0, 1} /\ (c \in R <=> Extra(R, c) = 1) /\ Extra({}, c) = 0
  BY DEF Extra

(* Repointing w moves it from the sharers of the old cell to those of the  *)
(* new one.                                                                *)
Repoints(n, s, w, x) == n.ptr = [s.ptr EXCEPT ![w] = x]

LEMMA HoldersMove ==
  ASSUME NEW s \in State, NEW w \in Wraps, NEW x, NEW n,
         Repoints(n, s, w, x), NEW c
  PROVE  Cardinality(Holders(n, c)) =
           Cardinality(Holders(s, c)) + (IF x = c /\ s.ptr[w] # c THEN 1 ELSE 0)
                                      - (IF x # c /\ s.ptr[w] = c THEN 1 ELSE 0)
<1>1. n.ptr[w] = x /\ \A u \in Wraps \ {w} : n.ptr[u] = s.ptr[u]
  BY DEF State, Repoints
<1>2. CASE x = c /\ s.ptr[w] # c
  <2>1. Holders(n, c) = Holders(s, c) \cup {w} /\ w \notin Holders(s, c)
    BY <1>1, <1>2 DEF Holders
  <2>2. Cardinality(Holders(n, c)) = Cardinality(Holders(s, c)) + 1
    BY <2>1, HoldersFinite, FS_AddElement
  <2> QED BY <1>2, <2>2, HoldersFinite
<1>3. CASE x # c /\ s.ptr[w] = c
  <2>1. Holders(n, c) = Holders(s, c) \ {w} /\ w \in Holders(s, c)
    BY <1>1, <1>3 DEF Holders
  <2>2. Cardinality(Holders(n, c)) = Cardinality(Holders(s, c)) - 1
    BY <2>1, HoldersFinite, FS_RemoveElement
  <2> QED BY <1>3, <2>2, HoldersFinite
<1>4. CASE (x = c) <=> (s.ptr[w] = c)
  <2>1. Holders(n, c) = Holders(s, c)
    BY <1>1, <1>4 DEF Holders
  <2> QED BY <1>4, <2>1, HoldersFinite
<1> QED BY <1>2, <1>3, <1>4

(* A cell that w points at is alive, whatever is pending.                  *)
LEMMA PointedAlive ==
  ASSUME NEW s, NEW R, NEW x, Counted(s, x, R), NEW w \in Wraps, s.ptr[w] \in Cells
  PROVE  s.held[s.ptr[w]] # Raw /\ s.count[s.ptr[w]] > 0
<1> DEFINE c == s.ptr[w]
<1>1. w \in Holders(s, c)
  BY DEF Holders
<1>2. Cardinality(Holders(s, c)) # 0 /\ Cardinality(Holders(s, c)) \in Nat
  BY <1>1, HoldersFinite, FS_EmptySet
<1>3. s.count[c] > 0
  BY <1>2, ExtraIs DEF Counted, Pending
<1> QED
  BY <1>3 DEF Counted

(* Putting the pending reference into w releases the one w had.            *)
LEMMA AdoptGood ==
  ASSUME NEW s, NEW R, NEW w \in Wraps, NEW x \in Cells \cup {Null, NoWrap}, Counted(s, x, R)
  PROVE  Reached(Adopt(s, w, x), [s.ptr EXCEPT ![w] = x], s.held, R)
<1> DEFINE old == s.ptr[w]
           n == Adopt(s, w, x)
<1>1. s \in State /\ Null \notin Cells /\ NoWrap \notin Cells
  BY ConstantsOK DEF Counted, ConstantsOK
<1>2. n.ptr = [s.ptr EXCEPT ![w] = x]
  BY <1>1 DEF Adopt, Release, State
<1> HIDE DEF n, old
<1>3. \A c \in Cells : Cardinality(Holders(n, c)) =
           Cardinality(Holders(s, c)) + (IF x = c /\ old # c THEN 1 ELSE 0)
                                      - (IF x # c /\ old = c THEN 1 ELSE 0)
  <2>1. s \in State /\ Repoints(n, s, w, x)
    BY <1>1, <1>2 DEF Repoints
  <2> QED
    BY <2>1, HoldersMove DEF old
<1>4. CASE old \notin Cells
  <2>1. n.held = s.held /\ n.count = s.count /\ n \in State
    BY <1>1, <1>4 DEF Adopt, Release, State, n, old
  <2>2. ASSUME NEW c \in Cells PROVE n.count[c] = Cardinality(Holders(n, c)) + Extra(R, c)
    <3>1. s.count[c] = Cardinality(Holders(s, c)) + Pending(x, c) + Extra(R, c)
      BY DEF Counted
    <3>2. Cardinality(Holders(s, c)) \in Nat
      BY HoldersFinite
    <3> QED
      BY <1>3, <1>4, <2>1, <3>1, <3>2, ExtraIs DEF Pending
  <2>3. Counted(n, Null, R)
    <3>1. \A c \in Cells : Cardinality(Holders(n, c)) \in Nat
      BY HoldersFinite
    <3> QED
      BY <1>1, <2>1, <2>2, <3>1 DEF Counted, Pending
  <2> QED
    BY <1>2, <2>1, <2>3 DEF Reached, n
<1>5. CASE old \in Cells
  <2>1. s.held[old] # Raw /\ s.count[old] > 0 /\ s.count[old] \in Nat
    BY <1>1, <1>5, PointedAlive DEF State, old
  <2>2. /\ n.count = [s.count EXCEPT ![old] = @ - 1]
        /\ n.held = [s.held EXCEPT ![old] = IF s.count[old] = 1 THEN Raw ELSE @]
    BY <1>1, <1>5 DEF Adopt, Release, State, n, old
  <2>3. n \in State
    <3>1. n = [s EXCEPT !.ptr = n.ptr, !.count = n.count, !.held = n.held]
      BY <1>1, <1>5 DEF Adopt, Release, State, n, old
    <3>2. s.count[old] - 1 \in Nat
      BY <2>1
    <3>3. n.count \in [Cells -> Nat] /\ n.held \in [Cells -> Holder \cup {Raw}]
      BY <1>1, <1>5, <2>2, <3>2 DEF State
    <3>4. n.ptr \in [Wraps -> Cells \cup {Null, NoWrap}]
      BY <1>1, <1>2 DEF State
    <3> QED
      BY <1>1, <3>1, <3>3, <3>4 DEF State
  <2>4. ASSUME NEW c \in Cells
        PROVE  n.count[c] = Cardinality(Holders(n, c)) + Extra(R, c) /\ (n.held[c] # Raw <=> n.count[c] > 0)
               /\ n.held[c] \in {s.held[c], Raw}
    <3>1. /\ s.count[c] = Cardinality(Holders(s, c)) + Pending(x, c) + Extra(R, c) /\ s.count[c] \in Nat
          /\ s.held[c] # Raw <=> s.count[c] > 0
          /\ Cardinality(Holders(s, c)) \in Nat /\ Extra(R, c) \in Nat
      BY <1>1, HoldersFinite, ExtraIs DEF Counted, State
    <3>2. CASE c = old
      <4>1. n.count[c] = s.count[c] - 1 /\ n.held[c] = IF s.count[c] = 1 THEN Raw ELSE s.held[c]
        BY <1>1, <2>2, <3>2 DEF State
      <4>2. Cardinality(Holders(n, c)) =
              Cardinality(Holders(s, c)) + Pending(x, c) - 1
        BY <1>3, <3>1, <3>2 DEF Pending
      <4>3. n.held[c] # Raw <=> s.count[c] - 1 > 0
        BY <2>1, <3>1, <3>2, <4>1
      <4>4. n.held[c] \in {s.held[c], Raw}
        BY <4>1
      <4>5. n.count[c] = Cardinality(Holders(n, c)) + Extra(R, c)
        BY <3>1, <4>1, <4>2 DEF Pending
      <4>6. n.held[c] # Raw <=> n.count[c] > 0
        BY <4>1, <4>3
      <4> QED
        BY <4>4, <4>5, <4>6
    <3>3. CASE c # old
      <4>1. n.count[c] = s.count[c] /\ n.held[c] = s.held[c]
        BY <1>1, <2>2, <3>3 DEF State
      <4> QED
        BY <1>3, <3>1, <3>3, <4>1 DEF Pending
    <3> QED BY <3>2, <3>3
  <2>5. Counted(n, Null, R)
    <3>1. \A c \in Cells : Cardinality(Holders(n, c)) \in Nat
      BY HoldersFinite
    <3> QED
      BY <1>1, <2>3, <2>4, <3>1 DEF Counted, Pending
  <2> QED
    BY <1>2, <2>4, <2>5 DEF Reached, n
<1> QED BY <1>4, <1>5

(* Ways to have a reference pending.                                       *)
LEMMA NothingPending ==
  ASSUME NEW s, NEW R, Counted(s, Null, R), NEW x, x \notin Cells PROVE Counted(s, x, R)
  BY ConstantsOK DEF Counted, Pending, ConstantsOK

LEMMA RetainGood ==
  ASSUME NEW s, NEW R, Counted(s, Null, R), NEW x, x \in Cells => s.held[x] # Raw
  PROVE  /\ Counted(Retain(s, x), x, R)
         /\ Retain(s, x).ptr = s.ptr /\ Retain(s, x).held = s.held
<1> DEFINE n == Retain(s, x)
<1>1. s \in State /\ Null \notin Cells
  BY ConstantsOK DEF Counted, ConstantsOK
<1>2. CASE x \notin Cells
  BY <1>2, NothingPending DEF Retain
<1>3. CASE x \in Cells
  <2>1. /\ n.ptr = s.ptr /\ n.held = s.held /\ n.count = [s.count EXCEPT ![x] = @ + 1]
        /\ n \in State
    BY <1>1, <1>3 DEF Retain, State
  <2>2. s.held[x] # Raw
    BY <1>3
  <2> HIDE DEF n
  <2>3. \A c \in Cells : Holders(n, c) = Holders(s, c)
    BY <2>1 DEF Holders
  <2>4. ASSUME NEW c \in Cells
        PROVE  n.count[c] = Cardinality(Holders(n, c)) + Pending(x, c) + Extra(R, c)
               /\ (n.held[c] # Raw <=> n.count[c] > 0)
    <3>1. /\ s.count[c] = Cardinality(Holders(s, c)) + Extra(R, c) /\ s.count[c] \in Nat
          /\ s.held[c] # Raw <=> s.count[c] > 0
      BY <1>1, HoldersFinite DEF Counted, State, Pending
    <3>2. Cardinality(Holders(s, c)) \in Nat /\ Extra(R, c) \in Nat
      BY HoldersFinite, ExtraIs
    <3> QED
      BY <1>1, <1>3, <2>1, <2>2, <2>3, <3>1, <3>2 DEF Pending, State
  <2> QED
    BY <2>1, <2>4 DEF Counted, n
<1> QED BY <1>2, <1>3

LEMMA MakeSharedGood ==
  ASSUME NEW s, NEW R, Counted(s, Null, R), NEW c \in FreeCells(s), NEW h \in Holder
  PROVE  /\ Counted(MakeShared(s, c, h), c, R)
         /\ MakeShared(s, c, h).ptr = s.ptr
         /\ MakeShared(s, c, h).held = [s.held EXCEPT ![c] = h]
<1> DEFINE n == MakeShared(s, c, h)
<1>1. s \in State /\ Null \notin Cells /\ Raw \notin Holder /\ c \in Cells /\ s.held[c] = Raw
  BY ConstantsOK DEF Counted, ConstantsOK, FreeCells
<1>2. /\ n.ptr = s.ptr /\ n.held = [s.held EXCEPT ![c] = h] /\ n.count = [s.count EXCEPT ![c] = 1]
      /\ n \in State
  BY <1>1 DEF MakeShared, State
<1> HIDE DEF n
<1>3. \A d \in Cells : Holders(n, d) = Holders(s, d)
  BY <1>2 DEF Holders
<1>4. ASSUME NEW d \in Cells
      PROVE  n.count[d] = Cardinality(Holders(n, d)) + Pending(c, d) + Extra(R, d)
             /\ (n.held[d] # Raw <=> n.count[d] > 0)
  <2>1. /\ s.count[d] = Cardinality(Holders(s, d)) + Extra(R, d) /\ s.count[d] \in Nat
        /\ s.held[d] # Raw <=> s.count[d] > 0
        /\ Cardinality(Holders(s, d)) \in Nat /\ Extra(R, d) \in Nat
    BY <1>1, HoldersFinite, ExtraIs DEF Counted, State, Pending
  <2>2. CASE d = c
    <3>1. n.count[d] = 1 /\ n.held[d] = h /\ s.count[d] = 0
      BY <1>1, <1>2, <2>1, <2>2 DEF State
    <3> QED
      BY <1>1, <1>3, <2>1, <2>2, <3>1 DEF Pending
  <2>3. CASE d # c
    <3>1. n.count[d] = s.count[d] /\ n.held[d] = s.held[d]
      BY <1>1, <1>2, <2>3 DEF State
    <3> QED
      BY <1>3, <2>1, <2>3, <3>1 DEF Pending
  <2> QED BY <2>2, <2>3
<1> QED
  BY <1>2, <1>4 DEF Counted, n

(* Emptying the pointer a move takes leaves its reference pending.         *)
LEMMA EmptiedGood ==
  ASSUME NEW s, NEW R, Counted(s, Null, R), NEW o \in Wraps
  PROVE  Counted([s EXCEPT !.ptr = [@ EXCEPT ![o] = Null]], s.ptr[o], R)
<1> DEFINE n == [s EXCEPT !.ptr = [@ EXCEPT ![o] = Null]]
           x == s.ptr[o]
<1>1. s \in State /\ Null \notin Cells
  BY ConstantsOK DEF Counted, ConstantsOK
<1>2. /\ n.ptr = [s.ptr EXCEPT ![o] = Null] /\ n.held = s.held /\ n.count = s.count
      /\ n \in State
  BY <1>1 DEF State
<1> HIDE DEF n, x
<1>3. ASSUME NEW c \in Cells
      PROVE  n.count[c] = Cardinality(Holders(n, c)) + Pending(x, c) + Extra(R, c)
             /\ (n.held[c] # Raw <=> n.count[c] > 0)
  <2>1. Cardinality(Holders(n, c)) = Cardinality(Holders(s, c)) - Pending(x, c)
    <3>1. Cardinality(Holders(n, c)) =
            Cardinality(Holders(s, c)) + (IF Null = c /\ s.ptr[o] # c THEN 1 ELSE 0)
                                       - (IF Null # c /\ s.ptr[o] = c THEN 1 ELSE 0)
      BY <1>1, <1>2, HoldersMove DEF Repoints
    <3>2. Cardinality(Holders(s, c)) \in Nat
      BY HoldersFinite
    <3> QED
      BY <1>1, <3>1, <3>2 DEF Pending, x
  <2>2. s.count[c] = Cardinality(Holders(s, c)) + Extra(R, c) /\ (s.held[c] # Raw <=> s.count[c] > 0)
    BY <1>1, HoldersFinite DEF Counted, Pending
  <2> QED
    BY <1>2, <2>1, <2>2, HoldersFinite DEF Pending
<1> QED
  BY <1>2, <1>3 DEF Counted, n, x

----------------------------------------------------------------------------
(* Where each kind of call ends.                                           *)

LEMMA PointGood ==
  ASSUME NEW s, NEW R, Counted(s, Null, R), NEW w \in Wraps, NEW x \in {Null, NoWrap}
  PROVE  Reached(Adopt(s, w, x), [s.ptr EXCEPT ![w] = x], s.held, R)
<1>1. Counted(s, x, R)
  BY NothingPending, ConstantsOK DEF ConstantsOK
<1> QED
  BY <1>1, AdoptGood

LEMMA RebindGood ==
  ASSUME NEW s, NEW R, Counted(s, Null, R), NEW w \in Wraps, NEW c \in FreeCells(s), NEW h \in Holder
  PROVE  Reached(Adopt(MakeShared(s, c, h), w, c), [s.ptr EXCEPT ![w] = c], [s.held EXCEPT ![c] = h], R)
<1> DEFINE m == MakeShared(s, c, h)
<1>1. Counted(m, c, R) /\ m.ptr = s.ptr /\ m.held = [s.held EXCEPT ![c] = h] /\ c \in Cells
  BY MakeSharedGood DEF FreeCells
<1> HIDE DEF m
<1>2. Reached(Adopt(m, w, c), [m.ptr EXCEPT ![w] = c], m.held, R)
  BY <1>1, AdoptGood
<1> QED
  BY <1>1, <1>2 DEF m

LEMMA ShareGood ==
  ASSUME NEW s, NEW R, Counted(s, Null, R), NEW w \in Wraps, NEW o \in Wraps
  PROVE  Reached(AssignShared(s, w, o), [s.ptr EXCEPT ![w] = s.ptr[o]], s.held, R)
<1> DEFINE m == Retain(s, s.ptr[o])
<1>1. Counted(m, s.ptr[o], R) /\ m.ptr = s.ptr /\ m.held = s.held
  BY PointedAlive, RetainGood
<1>2. s.ptr[o] \in Cells \cup {Null, NoWrap}
  BY DEF Counted, State
<1> HIDE DEF m
<1>3. Reached(Adopt(m, w, s.ptr[o]), [m.ptr EXCEPT ![w] = s.ptr[o]], m.held, R)
  BY <1>1, <1>2, AdoptGood
<1> QED
  BY <1>1, <1>3 DEF AssignShared, m

LEMMA HandOverGood ==
  ASSUME NEW s, NEW R, Counted(s, Null, R), NEW w \in Wraps, NEW o \in Wraps, w # o
  PROVE  Reached(AssignMoved(s, w, o), [s.ptr EXCEPT ![w] = s.ptr[o], ![o] = Null], s.held, R)
<1> DEFINE m == [s EXCEPT !.ptr = [@ EXCEPT ![o] = Null]]
<1>1. s \in State /\ s.ptr[o] \in Cells \cup {Null, NoWrap}
  BY DEF Counted, State
<1>2. Counted(m, s.ptr[o], R)
  BY EmptiedGood
<1>3. m.ptr = [s.ptr EXCEPT ![o] = Null] /\ m.held = s.held
  BY <1>1 DEF State
<1>4. AssignMoved(s, w, o) = Adopt(m, w, s.ptr[o])
  BY DEF AssignMoved
<1> HIDE DEF m
<1>5. Reached(Adopt(m, w, s.ptr[o]), [m.ptr EXCEPT ![w] = s.ptr[o]], m.held, R)
  BY <1>1, <1>2, AdoptGood
<1>6. [m.ptr EXCEPT ![w] = s.ptr[o]] = [s.ptr EXCEPT ![w] = s.ptr[o], ![o] = Null]
  BY <1>1, <1>3 DEF State
<1> QED
  BY <1>3, <1>4, <1>5, <1>6

LEMMA SwapGood ==
  ASSUME NEW s, NEW R, Counted(s, Null, R), NEW w \in Wraps, NEW o \in Wraps
  PROVE  LET r == [s.ptr EXCEPT ![w] = s.ptr[o], ![o] = s.ptr[w]]
         IN  Reached([s EXCEPT !.ptr = r], r, s.held, R)
<1> DEFINE r == [s.ptr EXCEPT ![w] = s.ptr[o], ![o] = s.ptr[w]]
           n == [s EXCEPT !.ptr = r]
           a == s.ptr[w]
           b == s.ptr[o]
           m == [s EXCEPT !.ptr = [s.ptr EXCEPT ![w] = b]]
<1>1. s \in State
  BY DEF Counted
<1>2. n \in State /\ n.ptr = r /\ n.held = s.held /\ n.count = s.count
  BY <1>1 DEF State
<1>3. m \in State /\ m.ptr = [s.ptr EXCEPT ![w] = b] /\ Repoints(m, s, w, b)
  BY <1>1 DEF State, Repoints
<1>4. m \in State
  BY <1>3
<1> HIDE DEF n, m, a, b
<1>5. Repoints(n, m, o, a)
  BY <1>1, <1>2, <1>3 DEF State, a, b, Repoints
<1>6. m.ptr[o] = b /\ s.ptr[w] = a
  BY <1>1, <1>3 DEF State, a, b
<1>7. ASSUME NEW c \in Cells PROVE Cardinality(Holders(n, c)) = Cardinality(Holders(s, c))
  <2>1. Cardinality(Holders(m, c)) =
          Cardinality(Holders(s, c)) + (IF b = c /\ s.ptr[w] # c THEN 1 ELSE 0)
                                     - (IF b # c /\ s.ptr[w] = c THEN 1 ELSE 0)
    BY <1>1, <1>3, HoldersMove
  <2>2. Cardinality(Holders(n, c)) =
          Cardinality(Holders(m, c)) + (IF a = c /\ m.ptr[o] # c THEN 1 ELSE 0)
                                     - (IF a # c /\ m.ptr[o] = c THEN 1 ELSE 0)
    BY <1>4, <1>5, HoldersMove
  <2>3. Cardinality(Holders(s, c)) \in Nat
    BY HoldersFinite
  <2> QED
    BY <1>6, <2>1, <2>2, <2>3
<1>8. Counted(n, Null, R)
  BY <1>2, <1>7 DEF Counted
<1> QED
  BY <1>2, <1>8 DEF Reached, n

LEMMA WriteGood ==
  ASSUME NEW s, NEW R, Counted(s, Null, R), NEW c \in Cells, s.held[c] # Raw, NEW h \in Holder
  PROVE  Reached([s EXCEPT !.held = [@ EXCEPT ![c] = h]], s.ptr, [s.held EXCEPT ![c] = h], R)
<1> DEFINE n == [s EXCEPT !.held = [@ EXCEPT ![c] = h]]
<1>1. s \in State /\ Raw \notin Holder
  BY ConstantsOK DEF Counted, ConstantsOK
<1>2. n \in State /\ n.ptr = s.ptr /\ n.held = [s.held EXCEPT ![c] = h] /\ n.count = s.count
  BY <1>1 DEF State
<1> HIDE DEF n
<1>3. \A d \in Cells : Holders(n, d) = Holders(s, d)
  BY <1>2 DEF Holders
<1>4. \A d \in Cells : n.held[d] # Raw <=> s.held[d] # Raw
  BY <1>1, <1>2 DEF State
<1>5. Counted(n, Null, R)
  BY <1>2, <1>3, <1>4 DEF Counted
<1> QED
  BY <1>1, <1>2, <1>5 DEF Reached, State, n

----------------------------------------------------------------------------
(* The inductive invariant: every call ends with nothing pending.          *)
CallType == [op : Ops, dst : Wraps, src : Wraps \cup {Outside}, out : Outcomes]
IInv == Counted(Now, Null, {}) /\ call \in CallType

LEMMA NowReads ==
  ASSUME IInv
  PROVE  /\ Now.ptr = ptr /\ Now.held = held /\ Now.count = count
         /\ ptr \in [Wraps -> Cells \cup {Null, NoWrap}]
         /\ held \in [Cells -> Holder \cup {Raw}]
         /\ count \in [Cells -> Nat]
  BY DEF IInv, Counted, State, Now

LEMMA IInvSuffices == IInv => TypeOK /\ CountsSharers
<1> SUFFICES ASSUME IInv PROVE TypeOK /\ CountsSharers
  OBVIOUS
<1>1. TypeOK
  BY NowReads DEF TypeOK, IInv, CallType
<1>2. ASSUME NEW c \in Cells
      PROVE  count[c] = Cardinality(Sharers(c)) /\ (held[c] # Raw <=> count[c] > 0)
  <2>1. Holders(Now, c) = Sharers(c)
    BY NowReads DEF Holders, Sharers
  <2>2. Pending(Null, c) = 0
    BY ConstantsOK DEF Pending, ConstantsOK
  <2>3. Now.count[c] = Cardinality(Holders(Now, c)) + Pending(Null, c) + Extra({}, c)
        /\ (Now.held[c] # Raw <=> Now.count[c] > 0)
    BY DEF IInv, Counted
  <2>4. Cardinality(Holders(Now, c)) \in Nat
    BY HoldersFinite
  <2> QED
    BY <2>1, <2>2, <2>3, <2>4, NowReads, ExtraIs
<1> QED
  BY <1>1, <1>2 DEF CountsSharers

(* A committed state is counted, and since a holder is alive exactly while *)
(* it has sharers it is what the abstract boxes refer to.                  *)
LEMMA CommitGood ==
  ASSUME NEW n, NEW r, NEW h, Reached(n, r, h, {}), Commit(n)
  PROVE  Counted(Now, Null, {})' /\ Shared!Refer(r, h)
<1>1. n \in State /\ Counted(n, Null, {}) /\ n.ptr = r /\ Null \notin Cells
  BY ConstantsOK DEF Reached, Counted, ConstantsOK
<1>2. Now' = n
  BY <1>1 DEF Commit, Now, State
<1>3. Counted(Now, Null, {})'
  BY <1>1, <1>2 DEF Counted, State, Holders, Pending
<1>4. ASSUME NEW c \in Cells
      PROVE  n.held[c] = IF \E b \in Wraps : r[b] = c THEN h[c] ELSE Raw
  <2>1. n.held[c] \in {h[c], Raw} /\ Pending(Null, c) = 0
    BY <1>1 DEF Reached, Pending
  <2>2. n.held[c] # Raw <=> Cardinality(Holders(n, c)) > 0
    BY <1>1, <2>1, HoldersFinite, ExtraIs DEF Counted
  <2>3. CASE \E b \in Wraps : r[b] = c
    <3>1. Holders(n, c) # {}
      BY <1>1, <2>3 DEF Holders
    <3>2. Cardinality(Holders(n, c)) > 0
      BY <3>1, HoldersFinite, FS_EmptySet
    <3> QED
      BY <2>1, <2>2, <2>3, <3>2
  <2>4. CASE ~ \E b \in Wraps : r[b] = c
    <3>1. Holders(n, c) = {}
      BY <1>1, <2>4 DEF Holders
    <3>2. Cardinality(Holders(n, c)) = 0
      BY <3>1, FS_EmptySet
    <3> QED
      BY <2>2, <2>4, <3>2
  <2> QED BY <2>3, <2>4
<1>5. n.held = [c \in Cells |-> IF \E b \in Wraps : r[b] = c THEN h[c] ELSE Raw]
  BY <1>1, <1>4 DEF State
<1> QED
  BY <1>1, <1>3, <1>5 DEF Commit, Shared!Refer

LEMMA UnchangedGood ==
  ASSUME IInv, Commit(Now) PROVE Counted(Now, Null, {})' /\ Shared!Failed
<1>1. Now' = Now /\ UNCHANGED <<ptr, held>>
  BY DEF Commit, Now
<1> QED
  BY <1>1 DEF IInv, Counted, State, Holders, Pending, Shared!Failed

----------------------------------------------------------------------------
(* Each operation keeps the invariant and is a step of the abstract boxes. *)
Kept == IInv' /\ Shared!Next

LEMMA ReturnedGood ==
  ASSUME NEW op \in Ops, NEW w \in Wraps, NEW o \in Wraps \cup {Outside}, NEW out \in Outcomes,
         Counted(Now, Null, {})', Returned(op, w, o, out)
  PROVE  IInv' /\ Shared!Done(op, w, o, out)
  BY DEF Returned, CallType, IInv, Shared!Done

LEMMA SharedReads ==
  ASSUME IInv, NEW w \in Wraps
  PROVE  /\ Shared!Exists(w) <=> IsWrap(Now, w)
         /\ Shared!Full(w) <=> Valid(Now, w)
         /\ Shared!Fresh = FreeCells(Now)
  BY NowReads DEF Shared!Exists, Shared!Full, Shared!Fresh, IsWrap, Valid, FreeCells

LEMMA PointKeeps ==
  ASSUME IInv, NEW w \in Wraps, NEW x \in {Null, NoWrap}, NEW op \in Ops,
         Commit(Adopt(Now, w, x)), Returned(op, w, Outside, "ok")
  PROVE  IInv' /\ Shared!Refer([ptr EXCEPT ![w] = x], held) /\ Shared!Done(op, w, Outside, "ok")
<1>1. Reached(Adopt(Now, w, x), [Now.ptr EXCEPT ![w] = x], Now.held, {})
  BY PointGood DEF IInv
<1>2. Counted(Now, Null, {})' /\ Shared!Refer([Now.ptr EXCEPT ![w] = x], Now.held)
  BY <1>1, CommitGood
<1> QED
  BY <1>2, NowReads, ReturnedGood DEF Outcomes

LEMMA MakeKeeps ==
  ASSUME IInv, NEW w \in Wraps, NEW t \in Types, NEW v \in Vals, NEW op \in Ops, Make(w, t, v, op)
  PROVE  IInv' /\ Shared!Rebind(w, op)
<1>1. CASE /\ \E c \in FreeCells(Now) :
                Commit(Adopt(MakeShared(Now, c, [type |-> t, val |-> v]), w, c))
           /\ Returned(op, w, Outside, "ok")
  <2> DEFINE h == [type |-> t, val |-> v]
  <2>1. PICK c \in FreeCells(Now) : Commit(Adopt(MakeShared(Now, c, h), w, c))
    BY <1>1
  <2>2. h \in Holder
    BY DEF Holder
  <2> HIDE DEF h
  <2>3. Reached(Adopt(MakeShared(Now, c, h), w, c),
                [Now.ptr EXCEPT ![w] = c], [Now.held EXCEPT ![c] = h], {})
    BY <2>2, RebindGood DEF IInv
  <2>4. Counted(Now, Null, {})' /\ Shared!Refer([ptr EXCEPT ![w] = c], [held EXCEPT ![c] = h])
    BY <2>1, <2>3, CommitGood, NowReads
  <2>5. IInv' /\ Shared!Done(op, w, Outside, "ok")
    BY <1>1, <2>4, ReturnedGood DEF Outcomes
  <2>6. c \in Shared!Fresh
    BY SharedReads
  <2> QED
    BY <2>2, <2>4, <2>5, <2>6 DEF Shared!Rebind
<1>2. CASE Commit(Now) /\ Returned(op, w, Outside, "threw")
  <2>1. Counted(Now, Null, {})' /\ Shared!Failed
    BY <1>2, UnchangedGood
  <2>2. IInv' /\ Shared!Done(op, w, Outside, "threw")
    BY <1>2, <2>1, ReturnedGood DEF Outcomes
  <2> QED
    BY <2>1, <2>2 DEF Shared!Rebind
<1> QED BY <1>1, <1>2 DEF Make

LEMMA ShareKeeps ==
  ASSUME IInv, NEW w \in Wraps, NEW o \in Wraps, NEW op \in Ops, IsWrap(Now, o),
         Commit(AssignShared(Now, w, o)), Returned(op, w, o, "ok")
  PROVE  IInv' /\ Shared!Share(w, o, op)
<1>1. Reached(AssignShared(Now, w, o), [Now.ptr EXCEPT ![w] = Now.ptr[o]], Now.held, {})
  BY ShareGood DEF IInv
<1>2. Counted(Now, Null, {})' /\ Shared!Refer([ptr EXCEPT ![w] = ptr[o]], held)
  BY <1>1, CommitGood, NowReads
<1>3. IInv' /\ Shared!Done(op, w, o, "ok")
  BY <1>2, ReturnedGood DEF Outcomes
<1> QED
  BY <1>2, <1>3, SharedReads DEF Shared!Share

LEMMA HandOverKeeps ==
  ASSUME IInv, NEW w \in Wraps, NEW o \in Wraps, NEW op \in Ops, IsWrap(Now, o),
         Commit(AssignMoved(Now, w, o)), Returned(op, w, o, "ok")
  PROVE  IInv' /\ Shared!HandOver(w, o, op)
<1>1. CASE w = o
  <2>1. Commit(Now)
    BY <1>1 DEF AssignMoved
  <2>2. Counted(Now, Null, {})' /\ Shared!Failed
    BY <2>1, UnchangedGood
  <2>3. IInv' /\ Shared!Done(op, w, o, "ok")
    BY <2>2, ReturnedGood DEF Outcomes
  <2> QED
    BY <1>1, <2>2, <2>3, SharedReads DEF Shared!HandOver, Shared!Failed
<1>2. CASE w # o
  <2>1. Reached(AssignMoved(Now, w, o), [Now.ptr EXCEPT ![w] = Now.ptr[o], ![o] = Null], Now.held, {})
    BY <1>2, HandOverGood DEF IInv
  <2>2. Counted(Now, Null, {})' /\ Shared!Refer([ptr EXCEPT ![w] = ptr[o], ![o] = Null], held)
    BY <2>1, CommitGood, NowReads
  <2>3. IInv' /\ Shared!Done(op, w, o, "ok")
    BY <2>2, ReturnedGood DEF Outcomes
  <2> QED
    BY <1>2, <2>2, <2>3, SharedReads DEF Shared!HandOver
<1> QED BY <1>1, <1>2

LEMMA InvalidConstructKeeps ==
  ASSUME IInv, NEW w \in Wraps, InvalidConstruct(w) PROVE Kept
<1>1. IInv' /\ Shared!Refer([ptr EXCEPT ![w] = Null], held) /\ Shared!Done("construct", w, Outside, "ok")
  BY PointKeeps DEF InvalidConstruct, Ops
<1> QED
  BY <1>1, SharedReads DEF Kept, InvalidConstruct, Shared!Next, Shared!CreateEmpty

LEMMA DestructKeeps ==
  ASSUME IInv, NEW w \in Wraps, Destruct(w) PROVE Kept
<1>1. IInv' /\ Shared!Refer([ptr EXCEPT ![w] = NoWrap], held) /\ Shared!Done("destroy", w, Outside, "ok")
  BY PointKeeps DEF Destruct, Ops
<1> QED
  BY <1>1, SharedReads DEF Kept, Destruct, Shared!Next, Shared!Destroy

LEMMA ResetKeeps ==
  ASSUME IInv, NEW w \in Wraps, Reset(w) PROVE Kept
<1>1. IInv' /\ Shared!Refer([ptr EXCEPT ![w] = Null], held) /\ Shared!Done("reset", w, Outside, "ok")
  BY PointKeeps DEF Reset, Ops
<1> QED
  BY <1>1, SharedReads DEF Kept, Reset, Shared!Next, Shared!Reset

LEMMA ConstructKeeps ==
  ASSUME IInv, NEW w \in Wraps, NEW t \in Types, NEW v \in Vals, Construct(w, t, v) PROVE Kept
<1>1. IInv' /\ Shared!Rebind(w, "construct")
  BY MakeKeeps DEF Construct, Ops
<1> QED
  BY <1>1, SharedReads DEF Kept, Construct, Shared!Next, Shared!Create

LEMMA AssignKeeps ==
  ASSUME IInv, NEW w \in Wraps, NEW t \in Types, NEW v \in Vals, Assign(w, t, v) PROVE Kept
<1>1. IInv' /\ Shared!Rebind(w, "assign")
  BY MakeKeeps DEF Assign, Ops
<1> QED
  BY <1>1, SharedReads DEF Kept, Assign, Shared!Next, Shared!Assign

LEMMA EmplaceKeeps ==
  ASSUME IInv, NEW w \in Wraps, NEW t \in Types, NEW v \in Vals, Emplace(w, t, v) PROVE Kept
<1>1. IInv' /\ Shared!Rebind(w, "emplace")
  BY MakeKeeps DEF Emplace, Ops
<1> QED
  BY <1>1, SharedReads DEF Kept, Emplace, Shared!Next, Shared!Emplace

LEMMA CopyConstructKeeps ==
  ASSUME IInv, NEW w \in Wraps, NEW o \in Wraps, CopyConstruct(w, o) PROVE Kept
<1>1. IInv' /\ Shared!Share(w, o, "copy construct")
  BY ShareKeeps DEF CopyConstruct, Ops
<1> QED
  BY <1>1, SharedReads DEF Kept, CopyConstruct, Shared!Next, Shared!CopyCreate

LEMMA CopyAssignmentKeeps ==
  ASSUME IInv, NEW w \in Wraps, NEW o \in Wraps, CopyAssignment(w, o) PROVE Kept
<1>1. IInv' /\ Shared!Share(w, o, "copy assign")
  BY ShareKeeps DEF CopyAssignment, Ops
<1> QED
  BY <1>1, SharedReads DEF Kept, CopyAssignment, Shared!Next, Shared!CopyAssign

LEMMA MoveConstructKeeps ==
  ASSUME IInv, NEW w \in Wraps, NEW o \in Wraps, MoveConstruct(w, o) PROVE Kept
<1>1. IInv' /\ Shared!HandOver(w, o, "move construct")
  BY HandOverKeeps DEF MoveConstruct, Ops
<1> QED
  BY <1>1, SharedReads DEF Kept, MoveConstruct, Shared!Next, Shared!MoveCreate

LEMMA MoveAssignmentKeeps ==
  ASSUME IInv, NEW w \in Wraps, NEW o \in Wraps, MoveAssignment(w, o) PROVE Kept
<1>1. IInv' /\ Shared!HandOver(w, o, "move assign")
  BY HandOverKeeps DEF MoveAssignment, Ops
<1> QED
  BY <1>1, SharedReads DEF Kept, MoveAssignment, Shared!Next, Shared!MoveAssign

LEMMA SwapKeeps ==
  ASSUME IInv, NEW w \in Wraps, NEW o \in Wraps, Swap(w, o) PROVE Kept
<1> DEFINE r == [Now.ptr EXCEPT ![w] = Now.ptr[o], ![o] = Now.ptr[w]]
<1>1. Reached([Now EXCEPT !.ptr = r], r, Now.held, {})
  BY SwapGood DEF IInv
<1>2. Commit([Now EXCEPT !.ptr = r])
  BY NowReads DEF Swap
<1>3. r = [ptr EXCEPT ![w] = ptr[o], ![o] = ptr[w]]
  BY NowReads
<1> HIDE DEF r
<1>4. Counted(Now, Null, {})' /\ Shared!Refer(r, held)
  BY <1>1, <1>2, CommitGood, NowReads
<1>5. IInv' /\ Shared!Done("swap", w, o, "ok")
  BY <1>4, ReturnedGood DEF Swap, Ops, Outcomes
<1>6. Shared!Swap(w, o)
  BY <1>3, <1>4, <1>5, SharedReads DEF Swap, Shared!Swap
<1> QED
  BY <1>5, <1>6 DEF Kept, Shared!Next

LEMMA CopyKeeps ==
  ASSUME IInv, NEW w \in Wraps, NEW o \in Wraps, Copy(w, o) PROVE Kept
<1> DEFINE h == HolderOf(Now, o)
<1>1. ~ Shared!Exists(w) /\ Shared!Full(o) /\ Valid(Now, o)
  BY SharedReads DEF Copy
<1>2. h \in Holder /\ h = held[ptr[o]]
  <2>1. Now.held[Now.ptr[o]] # Raw
    BY <1>1, PointedAlive DEF IInv, Valid
  <2> QED
    BY <1>1, <2>1, NowReads DEF HolderOf, Valid
<1> HIDE DEF h
<1>3. CASE /\ h.type \in Copyable
           /\ \E c \in FreeCells(Now) : Commit(Adopt(MakeShared(Now, c, h), w, c))
           /\ Returned("copy()", w, o, "ok")
  <2>1. PICK c \in FreeCells(Now) : Commit(Adopt(MakeShared(Now, c, h), w, c))
    BY <1>3
  <2>2. Reached(Adopt(MakeShared(Now, c, h), w, c),
                [Now.ptr EXCEPT ![w] = c], [Now.held EXCEPT ![c] = h], {})
    BY <1>2, RebindGood DEF IInv
  <2>3. Counted(Now, Null, {})' /\ Shared!Refer([ptr EXCEPT ![w] = c], [held EXCEPT ![c] = h])
    BY <2>1, <2>2, CommitGood, NowReads
  <2>4. IInv' /\ Shared!Done("copy()", w, o, "ok")
    BY <1>3, <2>3, ReturnedGood DEF Ops, Outcomes
  <2>5. c \in Shared!Fresh /\ held[ptr[o]].type \in Copyable
    BY <1>2, <1>3, SharedReads
  <2>6. Shared!Refer([ptr EXCEPT ![w] = c], [held EXCEPT ![c] = held[ptr[o]]])
    BY <1>2, <2>3
  <2>7. Shared!DeepCopy(w, o)
    BY <1>1, <2>4, <2>5, <2>6 DEF Shared!DeepCopy
  <2> QED
    BY <2>4, <2>7 DEF Kept, Shared!Next
<1>4. CASE /\ Commit(Now)
           /\ \/ h.type \in Copyable /\ Returned("copy()", w, o, "threw")
              \/ h.type \notin Copyable /\ Returned("copy()", w, o, "invalid_argument")
  <2>1. PICK out \in {"threw", "invalid_argument"} :
          Returned("copy()", w, o, out) /\ (out = "threw" <=> h.type \in Copyable)
    BY <1>4
  <2>2. Counted(Now, Null, {})' /\ Shared!Failed
    BY <1>4, UnchangedGood
  <2>3. IInv' /\ Shared!Done("copy()", w, o, out)
    BY <2>1, <2>2, ReturnedGood DEF Ops, Outcomes
  <2>4. Shared!DeepCopy(w, o)
    BY <1>1, <1>2, <2>1, <2>2, <2>3 DEF Shared!DeepCopy
  <2> QED
    BY <2>3, <2>4 DEF Kept, Shared!Next
<1> QED
  BY <1>3, <1>4 DEF Copy, h

LEMMA WriteKeeps ==
  ASSUME IInv, NEW w \in Wraps, NEW v \in Vals, Write(w, v) PROVE Kept
<1> DEFINE c == ptr[w]
           h == [held[c] EXCEPT !.val = v]
<1>1. Valid(Now, w) /\ c \in Cells /\ Now.ptr[w] = c
  BY NowReads DEF Write, Valid
<1>2. Now.held[c] # Raw /\ held[c] \in Holder
  BY <1>1, NowReads, PointedAlive DEF IInv
<1>3. h \in Holder /\ h.type = held[c].type
  BY <1>2 DEF Holder
<1>4. [Now.held EXCEPT ![c].val = v] = [Now.held EXCEPT ![c] = h]
  BY <1>1, NowReads
<1>5. Commit([Now EXCEPT !.held = [@ EXCEPT ![c] = h]])
  BY <1>4, NowReads DEF Write
<1> HIDE DEF h, c
<1>6. Reached([Now EXCEPT !.held = [@ EXCEPT ![c] = h]], Now.ptr, [Now.held EXCEPT ![c] = h], {})
  BY <1>1, <1>2, <1>3, WriteGood DEF IInv
<1>7. Counted(Now, Null, {})' /\ Shared!Refer(ptr, [held EXCEPT ![c] = h])
  BY <1>5, <1>6, CommitGood, NowReads
<1>8. IInv' /\ Shared!Done("write", w, Outside, "ok")
  BY <1>7, ReturnedGood DEF Write, Ops, Outcomes
<1>9. Shared!Write(w)
  BY <1>1, <1>3, <1>7, <1>8, SharedReads DEF Shared!Write, c
<1> QED
  BY <1>8, <1>9 DEF Kept, Shared!Next

----------------------------------------------------------------------------
LEMMA InitGood == Init => IInv /\ Shared!Init
<1> SUFFICES ASSUME Init PROVE IInv /\ Shared!Init
  OBVIOUS
<1>1. Now \in State /\ call \in CallType
  BY DEF Init, Now, State, CallType, Ops, Outcomes
<1>2. ASSUME NEW c \in Cells
      PROVE  /\ Now.count[c] = Cardinality(Holders(Now, c)) + Pending(Null, c) + Extra({}, c)
             /\ Now.held[c] # Raw <=> Now.count[c] > 0
  <2>1. Holders(Now, c) = {} /\ Pending(Null, c) = 0
    BY ConstantsOK DEF Init, Now, Holders, Pending, ConstantsOK
  <2>2. Cardinality(Holders(Now, c)) = 0
    BY <2>1, FS_EmptySet
  <2>3. Now.count[c] = 0 /\ Now.held[c] = Raw
    BY DEF Init, Now
  <2> QED
    BY <2>1, <2>2, <2>3, ExtraIs
<1>3. Shared!Init
  BY DEF Init, Shared!Init
<1> QED
  BY <1>1, <1>2, <1>3 DEF IInv, Counted

LEMMA StepGood == IInv /\ [Next]_vars => IInv' /\ [Shared!Next]_(Shared!vars)
<1> SUFFICES ASSUME IInv, [Next]_vars PROVE IInv' /\ [Shared!Next]_(Shared!vars)
  OBVIOUS
<1>1. CASE UNCHANGED vars
  <2>1. Now' = Now /\ call' = call
    BY <1>1 DEF vars, Now
  <2> QED
    BY <1>1, <2>1 DEF vars, Shared!vars, IInv, Counted, State, Holders, Pending
<1>2. CASE Next
  <2>1. PICK w \in Wraps :
          \/ InvalidConstruct(w) \/ Destruct(w) \/ Reset(w)
          \/ \E v \in Vals : \/ Write(w, v)
                            \/ \E t \in Types : Construct(w, t, v) \/ Assign(w, t, v) \/ Emplace(w, t, v)
          \/ \E o \in Wraps : \/ CopyConstruct(w, o) \/ MoveConstruct(w, o) \/ Copy(w, o)
                             \/ CopyAssignment(w, o) \/ MoveAssignment(w, o) \/ Swap(w, o)
    BY <1>2 DEF Next
  <2>2. Kept
    BY <2>1, InvalidConstructKeeps, DestructKeeps, ResetKeeps, WriteKeeps, ConstructKeeps,
       AssignKeeps, EmplaceKeeps, CopyConstructKeeps, MoveConstructKeeps, CopyKeeps,
       CopyAssignmentKeeps, MoveAssignmentKeeps, SwapKeeps
  <2> QED
    BY <2>2 DEF Kept
<1> QED BY <1>1, <1>2

THEOREM Invariance == Spec => []IInv
<1>1. Init => IInv
  BY InitGood
<1>2. IInv /\ [Next]_vars => IInv'
  BY StepGood
<1> QED BY <1>1, <1>2, PTL DEF Spec

(* Pointers, holders, use counts and call records keep their types.        *)
THEOREM TypeCorrect == Spec => []TypeOK
  BY Invariance, IInvSuffices, PTL

(* Between calls the use count of every holder is the number of wraps that *)
(* refer to it, and the holder is alive exactly while there are any: no    *)
(* sequence of shared_ptr assignments, moves and swaps leaks or            *)
(* double-deletes a value.                                                 *)
THEOREM Counting == Spec => []CountsSharers
  BY Invariance, IInvSuffices, PTL

(* The counted references implement objects that live exactly as long as   *)
(* some box refers to them.                                                *)
THEOREM Implementation == Spec => ImplementsSharedBox
<1>1. Init => Shared!Init
  BY InitGood
<1>2. IInv /\ [Next]_vars => [Shared!Next]_(Shared!vars)
  BY StepGood
<1> QED BY <1>1, <1>2, Invariance, PTL DEF Spec, ImplementsSharedBox, Shared!Spec

(* Every call that throws leaves pointers, values and counts alone.        *)
THEOREM StrongGuarantee == Spec => ThrowsChangeNothing
<1>1. ASSUME Next, call'.out # "ok" PROVE UNCHANGED <<ptr, held, count>>
  <2>1. ASSUME NEW op, NEW w, NEW o PROVE ~ Returned(op, w, o, "ok")
    BY <1>1 DEF Returned
  <2>2. PICK w \in Wraps :
          \/ InvalidConstruct(w) \/ Destruct(w) \/ Reset(w)
          \/ \E v \in Vals : \/ Write(w, v)
                            \/ \E t \in Types : Construct(w, t, v) \/ Assign(w, t, v) \/ Emplace(w, t, v)
          \/ \E o \in Wraps : \/ CopyConstruct(w, o) \/ MoveConstruct(w, o) \/ Copy(w, o)
                             \/ CopyAssignment(w, o) \/ MoveAssignment(w, o) \/ Swap(w, o)
    BY <1>1 DEF Next
  <2>3. ~ (InvalidConstruct(w) \/ Destruct(w) \/ Reset(w))
    BY <2>1 DEF InvalidConstruct, Destruct, Reset
  <2>4. ASSUME NEW v \in Vals PROVE ~ Write(w, v)
    BY <2>1 DEF Write
  <2>5. ASSUME NEW o \in Wraps
        PROVE  ~ (\/ CopyConstruct(w, o) \/ MoveConstruct(w, o)
                  \/ CopyAssignment(w, o) \/ MoveAssignment(w, o) \/ Swap(w, o))
    BY <2>1 DEF CopyConstruct, MoveConstruct, CopyAssignment, MoveAssignment, Swap
  <2>6. ASSUME NEW v \in Vals, NEW t \in Types, Construct(w, t, v) \/ Assign(w, t, v) \/ Emplace(w, t, v)
        PROVE  Commit(Now)
    BY <2>1, <2>6 DEF Construct, Assign, Emplace, Make
  <2>7. ASSUME NEW o \in Wraps, Copy(w, o) PROVE Commit(Now)
    BY <2>1, <2>7 DEF Copy
  <2>8. Commit(Now)
    BY <2>2, <2>3, <2>4, <2>5, <2>6, <2>7
  <2> QED
    BY <2>8 DEF Commit, Now
<1>2. [Next]_vars => [call'.out # "ok" => UNCHANGED <<ptr, held, count>>]_vars
  BY <1>1
<1> QED BY <1>2, PTL DEF Spec, ThrowsChangeNothing

(* A value changes in place only through a write; assignment and emplace   *)
(* rebind one wrap and leave its former sharers' value alone.              *)
Rewrites == \A c \in Cells : held[c] # Raw /\ held'[c] \notin {held[c], Raw} =>
              call'.op = "write" /\ ptr[call'.dst] = c

LEMMA ReferRewrites ==
  ASSUME NEW r, NEW h, Shared!Refer(r, h), \A c \in Cells : h[c] = held[c] \/ held[c] = Raw
  PROVE  Rewrites
  BY DEF Shared!Refer, Rewrites

THEOREM Rebinding == Spec => OnlyWritesChangeValues
<1>1. ASSUME IInv, Shared!Next PROVE Rewrites
  <2>1. PICK b \in Wraps :
          \/ Shared!Create(b) \/ Shared!CreateEmpty(b) \/ Shared!Assign(b) \/ Shared!Emplace(b)
          \/ Shared!Reset(b) \/ Shared!Destroy(b) \/ Shared!Write(b)
          \/ \E o \in Wraps :
               \/ Shared!CopyCreate(b, o) \/ Shared!CopyAssign(b, o)
               \/ Shared!MoveCreate(b, o) \/ Shared!MoveAssign(b, o)
               \/ Shared!DeepCopy(b, o) \/ Shared!Swap(b, o)
    BY <1>1 DEF Shared!Next
  <2>2. held \in [Cells -> Holder \cup {Raw}]
    BY <1>1, NowReads
  <2>3. Shared!Failed => Rewrites
    BY DEF Shared!Failed, Rewrites
  <2>4. ASSUME NEW r, Shared!Refer(r, held) PROVE Rewrites
    BY <2>4, ReferRewrites
  <2>5. ASSUME NEW r, NEW x \in Shared!Fresh, NEW k, Shared!Refer(r, [held EXCEPT ![x] = k])
        PROVE  Rewrites
    <3>1. \A c \in Cells : [held EXCEPT ![x] = k][c] = held[c] \/ held[c] = Raw
      BY <2>2 DEF Shared!Fresh
    <3> QED
      BY <2>5, <3>1, ReferRewrites
  <2>6. CASE Shared!Write(b)
    <3>1. PICK k : Shared!Refer(ptr, [held EXCEPT ![ptr[b]] = k])
      BY <2>6 DEF Shared!Write
    <3>2. call'.op = "write" /\ call'.dst = b /\ ptr[b] \in Cells
      BY <2>6 DEF Shared!Write, Shared!Done, Shared!Full
    <3>3. \A c \in Cells : c # ptr[b] => held'[c] \in {held[c], Raw}
      BY <2>2, <3>1 DEF Shared!Refer
    <3> QED
      BY <3>2, <3>3 DEF Rewrites
  <2>7. CASE Shared!CreateEmpty(b) \/ Shared!Reset(b) \/ Shared!Destroy(b)
    BY <2>4, <2>7 DEF Shared!CreateEmpty, Shared!Reset, Shared!Destroy
  <2>8. CASE Shared!Create(b) \/ Shared!Assign(b) \/ Shared!Emplace(b)
    BY <2>3, <2>5, <2>8 DEF Shared!Create, Shared!Assign, Shared!Emplace, Shared!Rebind
  <2>9. ASSUME NEW o \in Wraps,
               \/ Shared!CopyCreate(b, o) \/ Shared!CopyAssign(b, o) \/ Shared!MoveCreate(b, o)
               \/ Shared!MoveAssign(b, o) \/ Shared!Swap(b, o)
        PROVE  Rewrites
    <3>1. CASE Shared!CopyCreate(b, o) \/ Shared!CopyAssign(b, o) \/ Shared!Swap(b, o)
      BY <2>4, <3>1 DEF Shared!CopyCreate, Shared!CopyAssign, Shared!Share, Shared!Swap
    <3>2. CASE Shared!MoveCreate(b, o) \/ Shared!MoveAssign(b, o)
      <4>1. Shared!Failed \/ Shared!Refer([ptr EXCEPT ![b] = ptr[o], ![o] = Null], held)
        BY <3>2 DEF Shared!MoveCreate, Shared!MoveAssign, Shared!HandOver, Shared!Failed
      <4> QED
        BY <2>3, <2>4, <4>1
    <3> QED BY <2>9, <3>1, <3>2
  <2>10. ASSUME NEW o \in Wraps, Shared!DeepCopy(b, o) PROVE Rewrites
    BY <2>3, <2>5, <2>10 DEF Shared!DeepCopy
  <2> QED
    BY <2>1, <2>6, <2>7, <2>8, <2>9, <2>10
<1>2. ASSUME IInv, [Next]_vars PROVE [Rewrites]_vars
  <2>1. CASE Next
    <3>1. Shared!Next \/ UNCHANGED Shared!vars
      BY <1>2, StepGood
    <3>2. UNCHANGED Shared!vars => Rewrites
      BY DEF Shared!vars, Rewrites
    <3> QED
      BY <1>1, <1>2, <3>1, <3>2
  <2> QED
    BY <1>2, <2>1
<1>3. [Rewrites]_vars => [\A c \in Cells : held[c] # Raw /\ held'[c] \notin {held[c], Raw} =>
                            call'.op = "write" /\ ptr[call'.dst] = c]_vars
  BY DEF Rewrites
<1> QED BY <1>2, <1>3, Invariance, PTL DEF Spec, OnlyWritesChangeValues

----------------------------------------------------------------------------
(* Saving and loading.                                                     *)
Injective(f) == \A m, n \in DOMAIN f : f[m] = f[n] => m = n

(* What the reading archive refers to.                                     *)
Read == {loaded[n] : n \in DOMAIN loaded}

SerialCallType ==
  [op : Ops \cup {"save", "load"}, dst : Wraps, src : Wraps \cup {Outside}, out : Outcomes]

Typed ==
  /\ call \in SerialCallType
  /\ phase \in {"before", "saving", "loading"} /\ reader \in {"open", "failed", "closed"}
  /\ archive \in Seq((0 .. MaxRecords) \cup {Torn}) /\ Len(archive) <= MaxRecords
  /\ saved \in Seq(Cells) /\ objects \in Seq(Holder) /\ savedFrom \in Seq(Cells \cup {Null})
  /\ pos \in 0 .. Len(archive)
  /\ loaded \in Seq(Cells) /\ loadedBy \in Seq(Wraps \cup {Outside}) /\ Len(loadedBy) = pos

(* The number of a record is that of the cell its wrap referred to.        *)
Recorded(i) ==
  /\ i \in DOMAIN savedFrom
  /\ \/ archive[i] = 0 /\ savedFrom[i] = Null
     \/ archive[i] \in DOMAIN saved /\ savedFrom[i] = saved[archive[i]]

Writing ==
  /\ Injective(saved) /\ Len(objects) = Len(saved) /\ Len(saved) <= Len(archive)
  /\ Torn \notin {archive[i] : i \in DOMAIN archive} => Len(savedFrom) = Len(archive)
  /\ \A i \in DOMAIN archive : archive[i] # Torn => Recorded(i)

(* As long as the reader knows its objects, a loaded wrap refers to the    *)
(* one of its record.                                                      *)
Target(i) == IF archive[i] = 0 THEN Null ELSE loaded[archive[i]]
Reading ==
  /\ Injective(loaded) /\ Len(loaded) <= Len(saved)
  /\ \A i \in DOMAIN loadedBy :
       /\ archive[i] # Torn
       /\ reader # "closed" => /\ archive[i] \in {0} \cup DOMAIN loaded
                               /\ loadedBy[i] # Outside => ptr[loadedBy[i]] = Target(i)

Alike ==
  \A i, j \in DOMAIN loadedBy :
    loadedBy[i] # Outside /\ loadedBy[j] # Outside =>
      /\ ptr[loadedBy[i]] = Null <=> archive[i] = 0
      /\ ptr[loadedBy[i]] = ptr[loadedBy[j]] <=> archive[i] = archive[j]

SerialInv == Counted(Now, Null, Read) /\ Typed /\ Writing /\ Reading /\ Alike

----------------------------------------------------------------------------
(* The references of the reading archive: taking one to the holder that    *)
(* was just made for it, and dropping one.                                 *)
LEMMA ReaderRetains ==
  ASSUME NEW s, NEW R, NEW x \in Cells, x \notin R, Counted(s, x, R)
  PROVE  /\ Counted(Retain(s, x), x, R \cup {x})
         /\ Retain(s, x).ptr = s.ptr /\ Retain(s, x).held = s.held
<1> DEFINE n == Retain(s, x)
<1>1. s \in State
  BY DEF Counted
<1>2. /\ n.ptr = s.ptr /\ n.held = s.held /\ n.count = [s.count EXCEPT ![x] = @ + 1]
      /\ n \in State
  BY <1>1 DEF Retain, State
<1> HIDE DEF n
<1>3. \A c \in Cells : Holders(n, c) = Holders(s, c)
  BY <1>2 DEF Holders
<1>4. ASSUME NEW c \in Cells
      PROVE  n.count[c] = Cardinality(Holders(n, c)) + Pending(x, c) + Extra(R \cup {x}, c)
             /\ (n.held[c] # Raw <=> n.count[c] > 0)
  <2>1. /\ s.count[c] = Cardinality(Holders(s, c)) + Pending(x, c) + Extra(R, c)
        /\ s.held[c] # Raw <=> s.count[c] > 0
        /\ s.count[c] \in Nat /\ Cardinality(Holders(s, c)) \in Nat
    BY <1>1, HoldersFinite DEF Counted, State
  <2>2. CASE c = x
    <3>1. n.count[c] = s.count[c] + 1 /\ n.held[c] = s.held[c]
      BY <1>1, <1>2, <2>2 DEF State
    <3>2. Extra(R, c) = 0 /\ Extra(R \cup {x}, c) = 1 /\ Pending(x, c) = 1
      BY <2>2 DEF Extra, Pending
    <3> QED
      BY <1>3, <2>1, <3>1, <3>2
  <2>3. CASE c # x
    <3>1. n.count[c] = s.count[c] /\ n.held[c] = s.held[c]
      BY <1>1, <1>2, <2>3 DEF State
    <3>2. Extra(R, c) = Extra(R \cup {x}, c)
      BY <2>3 DEF Extra
    <3> QED
      BY <1>3, <2>1, <3>1, <3>2
  <2> QED BY <2>2, <2>3
<1> QED
  BY <1>2, <1>4 DEF Counted, n

LEMMA ReaderReleases ==
  ASSUME NEW s, NEW R, NEW x \in Cells, x \in R, Counted(s, Null, R)
  PROVE  Counted(Release(s, x), Null, R \ {x}) /\ Release(s, x).ptr = s.ptr
<1> DEFINE n == Release(s, x)
<1>1. s \in State /\ Null \notin Cells
  BY ConstantsOK DEF Counted, ConstantsOK
<1>2. \A c \in Cells : /\ s.count[c] = Cardinality(Holders(s, c)) + Extra(R, c)
                       /\ s.held[c] # Raw <=> s.count[c] > 0
                       /\ s.count[c] \in Nat /\ Cardinality(Holders(s, c)) \in Nat
  BY <1>1, HoldersFinite, ExtraIs DEF Counted, State, Pending
<1>3. s.count[x] > 0
  BY <1>2, ExtraIs
<1>4. /\ n.ptr = s.ptr /\ n.count = [s.count EXCEPT ![x] = @ - 1]
      /\ n.held = [s.held EXCEPT ![x] = IF s.count[x] = 1 THEN Raw ELSE @]
      /\ n \in State
  <2>1. s.count[x] - 1 \in Nat
    BY <1>2, <1>3
  <2> QED
    BY <1>1, <2>1 DEF Release, State
<1> HIDE DEF n
<1>5. \A c \in Cells : Holders(n, c) = Holders(s, c)
  BY <1>4 DEF Holders
<1>6. ASSUME NEW c \in Cells
      PROVE  n.count[c] = Cardinality(Holders(n, c)) + Pending(Null, c) + Extra(R \ {x}, c)
             /\ (n.held[c] # Raw <=> n.count[c] > 0)
  <2>1. Pending(Null, c) = 0
    BY <1>1 DEF Pending
  <2>2. CASE c = x
    <3>1. n.count[c] = s.count[c] - 1 /\ n.held[c] = IF s.count[c] = 1 THEN Raw ELSE s.held[c]
      BY <1>1, <1>4, <2>2 DEF State
    <3>2. Extra(R, c) = 1 /\ Extra(R \ {x}, c) = 0
      BY <2>2 DEF Extra
    <3>3. n.held[c] # Raw <=> s.count[c] - 1 > 0
      BY <1>2, <1>3, <2>2, <3>1
    <3>4. n.count[c] = Cardinality(Holders(n, c)) + 0 + 0
      BY <1>2, <1>5, <3>1, <3>2
    <3> QED
      BY <2>1, <3>1, <3>2, <3>3, <3>4
  <2>3. CASE c # x
    <3>1. n.count[c] = s.count[c] /\ n.held[c] = s.held[c]
      BY <1>1, <1>4, <2>3 DEF State
    <3>2. Extra(R, c) = Extra(R \ {x}, c)
      BY <2>3 DEF Extra
    <3>3. Extra(R, c) \in Nat
      BY ExtraIs
    <3> QED
      BY <1>2, <1>5, <2>1, <3>1, <3>2, <3>3
  <2> QED BY <2>2, <2>3
<1> QED
  BY <1>4, <1>6 DEF Counted, n

----------------------------------------------------------------------------
(* Every other call keeps the count, whatever the archive refers to, and   *)
(* repoints no wrap but the two it is about.                               *)
Bystanders == \A u \in Wraps \ {call'.dst, call'.src} : ptr'[u] = ptr[u]
Settled(R) == Counted(Now', Null, R) /\ call' \in CallType /\ Bystanders

LEMMA Reads ==
  ASSUME NEW R, Counted(Now, Null, R)
  PROVE  /\ Now.ptr = ptr /\ Now.held = held /\ Now.count = count
         /\ ptr \in [Wraps -> Cells \cup {Null, NoWrap}]
         /\ held \in [Cells -> Holder \cup {Raw}]
         /\ count \in [Cells -> Nat]
  BY DEF Counted, State, Now

LEMMA Committed ==
  ASSUME NEW n, NEW r, NEW h, NEW R, Reached(n, r, h, R), Commit(n)
  PROVE  Counted(Now', Null, R) /\ ptr' = r
<1>1. n \in State /\ Counted(n, Null, R) /\ n.ptr = r
  BY DEF Reached, Counted
<1>2. Now' = n
  BY <1>1 DEF Commit, Now, State
<1> QED
  BY <1>1, <1>2 DEF Commit

LEMMA Idle ==
  ASSUME NEW R, Counted(Now, Null, R), Commit(Now)
  PROVE  Counted(Now', Null, R) /\ ptr' = ptr
<1>1. Now' = Now /\ ptr' = ptr
  BY DEF Commit, Now
<1> QED
  BY <1>1

LEMMA Settles ==
  ASSUME NEW R, Counted(Now', Null, R), NEW w \in Wraps, NEW o \in Wraps \cup {Outside},
         NEW op \in Ops, NEW out \in Outcomes, Returned(op, w, o, out),
         \A u \in Wraps \ {w, o} : ptr'[u] = ptr[u]
  PROVE  Settled(R)
  BY DEF Settled, Bystanders, Returned, CallType

LEMMA PointSettles ==
  ASSUME NEW R, Counted(Now, Null, R), NEW w \in Wraps, NEW x \in {Null, NoWrap}, NEW op \in Ops,
         Commit(Adopt(Now, w, x)), Returned(op, w, Outside, "ok")
  PROVE  Settled(R)
<1>1. Reached(Adopt(Now, w, x), [Now.ptr EXCEPT ![w] = x], Now.held, R)
  BY PointGood
<1>2. Counted(Now', Null, R) /\ ptr' = [ptr EXCEPT ![w] = x]
  BY <1>1, Committed, Reads
<1>3. \A u \in Wraps \ {w, Outside} : ptr'[u] = ptr[u]
  BY <1>2, Reads
<1> QED
  BY <1>2, <1>3, Settles DEF Outcomes

(* Pointing w at a new holder, by a call whose other wrap is o.            *)
LEMMA RebindSettles ==
  ASSUME NEW R, Counted(Now, Null, R), NEW w \in Wraps, NEW o \in Wraps \cup {Outside},
         NEW h \in Holder, NEW op \in Ops,
         \E c \in FreeCells(Now) : Commit(Adopt(MakeShared(Now, c, h), w, c)),
         Returned(op, w, o, "ok")
  PROVE  Settled(R)
<1>1. PICK c \in FreeCells(Now) : Commit(Adopt(MakeShared(Now, c, h), w, c))
  OBVIOUS
<1>2. Reached(Adopt(MakeShared(Now, c, h), w, c),
              [Now.ptr EXCEPT ![w] = c], [Now.held EXCEPT ![c] = h], R)
  BY RebindGood
<1>3. Counted(Now', Null, R) /\ ptr' = [ptr EXCEPT ![w] = c]
  BY <1>1, <1>2, Committed, Reads
<1>4. \A u \in Wraps \ {w, o} : ptr'[u] = ptr[u]
  BY <1>3, Reads
<1> QED
  BY <1>3, <1>4, Settles DEF Outcomes

LEMMA IdleSettles ==
  ASSUME NEW R, Counted(Now, Null, R), Commit(Now), NEW w \in Wraps, NEW o \in Wraps \cup {Outside},
         NEW op \in Ops, NEW out \in Outcomes, Returned(op, w, o, out)
  PROVE  Settled(R)
  BY Idle, Settles

LEMMA MakeSettles ==
  ASSUME NEW R, Counted(Now, Null, R), NEW w \in Wraps, NEW t \in Types, NEW v \in Vals,
         NEW op \in Ops, Make(w, t, v, op)
  PROVE  Settled(R)
<1> DEFINE h == [type |-> t, val |-> v]
<1>1. h \in Holder
  BY DEF Holder
<1>2. \/ /\ \E c \in FreeCells(Now) : Commit(Adopt(MakeShared(Now, c, h), w, c))
         /\ Returned(op, w, Outside, "ok")
      \/ Commit(Now) /\ Returned(op, w, Outside, "threw")
  BY DEF Make
<1> HIDE DEF h
<1> QED
  BY <1>1, <1>2, RebindSettles, IdleSettles DEF Outcomes

LEMMA ShareSettles ==
  ASSUME NEW R, Counted(Now, Null, R), NEW w \in Wraps, NEW o \in Wraps, NEW op \in Ops,
         Commit(AssignShared(Now, w, o)), Returned(op, w, o, "ok")
  PROVE  Settled(R)
<1>1. Reached(AssignShared(Now, w, o), [Now.ptr EXCEPT ![w] = Now.ptr[o]], Now.held, R)
  BY ShareGood
<1>2. Counted(Now', Null, R) /\ ptr' = [ptr EXCEPT ![w] = ptr[o]]
  BY <1>1, Committed, Reads
<1>3. \A u \in Wraps \ {w, o} : ptr'[u] = ptr[u]
  BY <1>2, Reads
<1> QED
  BY <1>2, <1>3, Settles DEF Outcomes

LEMMA HandOverSettles ==
  ASSUME NEW R, Counted(Now, Null, R), NEW w \in Wraps, NEW o \in Wraps, NEW op \in Ops,
         Commit(AssignMoved(Now, w, o)), Returned(op, w, o, "ok")
  PROVE  Settled(R)
<1>1. CASE w = o
  BY <1>1, IdleSettles DEF AssignMoved, Outcomes
<1>2. CASE w # o
  <2>1. Reached(AssignMoved(Now, w, o), [Now.ptr EXCEPT ![w] = Now.ptr[o], ![o] = Null], Now.held, R)
    BY <1>2, HandOverGood
  <2>2. Counted(Now', Null, R) /\ ptr' = [ptr EXCEPT ![w] = ptr[o], ![o] = Null]
    BY <2>1, Committed, Reads
  <2>3. \A u \in Wraps \ {w, o} : ptr'[u] = ptr[u]
    BY <2>2, Reads
  <2> QED
    BY <2>2, <2>3, Settles DEF Outcomes
<1> QED BY <1>1, <1>2

LEMMA SwapSettles ==
  ASSUME NEW R, Counted(Now, Null, R), NEW w \in Wraps, NEW o \in Wraps, Swap(w, o)
  PROVE  Settled(R)
<1> DEFINE r == [Now.ptr EXCEPT ![w] = Now.ptr[o], ![o] = Now.ptr[w]]
<1>1. Reached([Now EXCEPT !.ptr = r], r, Now.held, R)
  BY SwapGood
<1>2. Commit([Now EXCEPT !.ptr = r])
  BY Reads DEF Swap
<1>3. \A u \in Wraps \ {w, o} : r[u] = ptr[u]
  BY Reads
<1> HIDE DEF r
<1>4. Counted(Now', Null, R) /\ ptr' = r
  BY <1>1, <1>2, Committed
<1>5. PICK op \in Ops, out \in Outcomes : Returned(op, w, o, out)
  BY DEF Swap, Ops, Outcomes
<1> QED
  BY <1>3, <1>4, <1>5, Settles

LEMMA CopySettles ==
  ASSUME NEW R, Counted(Now, Null, R), NEW w \in Wraps, NEW o \in Wraps, Copy(w, o)
  PROVE  Settled(R)
<1> DEFINE h == HolderOf(Now, o)
<1>1. h \in Holder
  <2>1. Now.ptr[o] \in Cells /\ Now.held[Now.ptr[o]] # Raw
    BY PointedAlive DEF Copy, Valid
  <2> QED
    BY <2>1, Reads DEF HolderOf
<1>2. \/ /\ \E c \in FreeCells(Now) : Commit(Adopt(MakeShared(Now, c, h), w, c))
         /\ Returned("copy()", w, o, "ok")
      \/ Commit(Now) /\ \E out \in Outcomes : Returned("copy()", w, o, out)
  BY DEF Copy, Outcomes
<1> HIDE DEF h
<1> QED
  BY <1>1, <1>2, RebindSettles, IdleSettles DEF Ops

LEMMA WriteSettles ==
  ASSUME NEW R, Counted(Now, Null, R), NEW w \in Wraps, NEW v \in Vals, Write(w, v)
  PROVE  Settled(R)
<1> DEFINE c == ptr[w]
           h == [held[c] EXCEPT !.val = v]
<1>1. c \in Cells /\ Now.held[c] # Raw
  BY Reads, PointedAlive DEF Write, Valid
<1>2. h \in Holder
  BY <1>1, Reads DEF Holder
<1>3. Commit([Now EXCEPT !.held = [@ EXCEPT ![c] = h]])
  BY <1>1, Reads DEF Write
<1> HIDE DEF h, c
<1>4. Reached([Now EXCEPT !.held = [@ EXCEPT ![c] = h]], Now.ptr, [Now.held EXCEPT ![c] = h], R)
  BY <1>1, <1>2, WriteGood
<1>5. Counted(Now', Null, R) /\ ptr' = ptr
  BY <1>3, <1>4, Committed, Reads
<1> QED
  BY <1>5, Settles DEF Write, Ops, Outcomes

LEMMA CallSettles ==
  ASSUME NEW R, Counted(Now, Null, R), Next
  PROVE  Settled(R)
<1>1. PICK w \in Wraps :
        \/ InvalidConstruct(w) \/ Destruct(w) \/ Reset(w)
        \/ \E v \in Vals : \/ Write(w, v)
                          \/ \E t \in Types : Construct(w, t, v) \/ Assign(w, t, v) \/ Emplace(w, t, v)
        \/ \E o \in Wraps : \/ CopyConstruct(w, o) \/ MoveConstruct(w, o) \/ Copy(w, o)
                           \/ CopyAssignment(w, o) \/ MoveAssignment(w, o) \/ Swap(w, o)
  BY DEF Next
<1>2. InvalidConstruct(w) \/ Destruct(w) \/ Reset(w) => Settled(R)
  BY PointSettles DEF InvalidConstruct, Destruct, Reset, Ops
<1>3. ASSUME NEW v \in Vals, NEW t \in Types, Construct(w, t, v) \/ Assign(w, t, v) \/ Emplace(w, t, v)
      PROVE  Settled(R)
  BY <1>3, MakeSettles DEF Construct, Assign, Emplace, Ops
<1>4. ASSUME NEW o \in Wraps, CopyConstruct(w, o) \/ CopyAssignment(w, o) PROVE Settled(R)
  BY <1>4, ShareSettles DEF CopyConstruct, CopyAssignment, Ops
<1>5. ASSUME NEW o \in Wraps, MoveConstruct(w, o) \/ MoveAssignment(w, o) PROVE Settled(R)
  BY <1>5, HandOverSettles DEF MoveConstruct, MoveAssignment, Ops
<1> QED
  BY <1>1, <1>2, <1>3, <1>4, <1>5, WriteSettles, CopySettles, SwapSettles

----------------------------------------------------------------------------
(* What a load does to pointers and counts.                                *)
LEMMA FreeUnread ==
  ASSUME NEW s, NEW R, Counted(s, Null, R), NEW c \in FreeCells(s)
  PROVE  c \in Cells /\ c \notin R
  BY HoldersFinite, ExtraIs, ConstantsOK DEF FreeCells, Counted, Pending, ConstantsOK

LEMMA ReadAlive ==
  ASSUME NEW s, NEW R, Counted(s, Null, R), NEW c \in Cells, c \in R
  PROVE  s.held[c] # Raw
  BY HoldersFinite, ExtraIs, ConstantsOK DEF Counted, Pending, ConstantsOK

LEMMA LoadNullCounts ==
  ASSUME NEW R, Counted(Now, Null, R), NEW w \in Wraps, Commit(Adopt(Now, w, Null))
  PROVE  Counted(Now', Null, R) /\ ptr' = [ptr EXCEPT ![w] = Null]
<1>1. Reached(Adopt(Now, w, Null), [Now.ptr EXCEPT ![w] = Null], Now.held, R)
  BY PointGood
<1> QED
  BY <1>1, Committed, Reads

LEMMA LoadSharedCounts ==
  ASSUME NEW R, Counted(Now, Null, R), NEW w \in Wraps, NEW c \in Cells, c \in R,
         Commit(Adopt(Retain(Now, c), w, c))
  PROVE  Counted(Now', Null, R) /\ ptr' = [ptr EXCEPT ![w] = c]
<1> DEFINE m == Retain(Now, c)
<1>1. Counted(m, c, R) /\ m.ptr = ptr /\ m.held = held
  BY ReadAlive, RetainGood, Reads
<1> HIDE DEF m
<1>2. Reached(Adopt(m, w, c), [m.ptr EXCEPT ![w] = c], m.held, R)
  BY <1>1, AdoptGood
<1> QED
  BY <1>1, <1>2, Committed DEF m

LEMMA LoadNewCounts ==
  ASSUME NEW R, Counted(Now, Null, R), NEW w \in Wraps, NEW c \in FreeCells(Now), NEW h \in Holder,
         Commit(Adopt(Retain(MakeShared(Now, c, h), c), w, c))
  PROVE  Counted(Now', Null, R \cup {c}) /\ ptr' = [ptr EXCEPT ![w] = c]
<1> DEFINE m == MakeShared(Now, c, h)
           n == Retain(m, c)
<1>1. c \in Cells /\ c \notin R
  BY FreeUnread
<1>2. Counted(m, c, R) /\ m.ptr = ptr
  <2>1. Counted(m, c, R) /\ m.ptr = Now.ptr
    BY MakeSharedGood
  <2> HIDE DEF m
  <2> QED BY <2>1, Reads
<1> HIDE DEF m
<1>3. Counted(n, c, R \cup {c}) /\ n.ptr = ptr
  BY <1>1, <1>2, ReaderRetains
<1> HIDE DEF n
<1>4. Reached(Adopt(n, w, c), [n.ptr EXCEPT ![w] = c], n.held, R \cup {c})
  BY <1>1, <1>3, AdoptGood
<1> QED
  BY <1>3, <1>4, Committed DEF n, m

----------------------------------------------------------------------------
(* Closing drops one reference after the other.  The library has induction *)
(* over the naturals as a fact about well-founded relations.               *)
LEMMA Induction ==
  ASSUME NEW S, 0 \in S, \A n \in Nat : n \in S => n + 1 \in S
  PROVE  Nat \subseteq S
<1> DEFINE less == OpToRel(<, Nat)
           T == Nat \ S
<1>1. IsWellFoundedOn(less, Nat)
  BY NatLessThanWellFounded, Zenon
<1>2. \A m, n \in Nat : m < n => <<m, n>> \in less
  BY Zenon DEF OpToRel
<1> HIDE DEF less
<1> SUFFICES ASSUME T # {} PROVE FALSE
  OBVIOUS
<1>3. PICK x \in T : \A y \in T : <<y, x>> \notin less
  <2>1. T \subseteq Nat
    OBVIOUS
  <2> HIDE DEF T
  <2> QED BY <1>1, <2>1, WFMin
<1>4. x \in Nat /\ x # 0 /\ x - 1 \in Nat /\ x - 1 < x
  OBVIOUS
<1>5. x - 1 \in S
  BY <1>2, <1>3, <1>4
<1> QED
  BY <1>3, <1>4, <1>5

(* Dropping references one after the other is well defined.                *)
Dropping(s, l, k, d) == d = [n \in 0 .. k |-> IF n = 0 THEN s ELSE Release(d[n - 1], l[n])]

LEMMA DroppingExists ==
  ASSUME NEW s, NEW l, NEW k \in Nat PROVE \E d : Dropping(s, l, k, d)
<1> DEFINE S == {j \in Nat : \E d : Dropping(s, l, j, d)}
<1>1. 0 \in S
  <2> DEFINE d == [n \in 0 .. 0 |-> s]
  <2>1. Dropping(s, l, 0, d)
    BY DEF Dropping
  <2> QED BY <2>1
<1>2. ASSUME NEW j \in Nat, j \in S PROVE j + 1 \in S
  <2>1. PICK d : Dropping(s, l, j, d)
    BY <1>2
  <2> DEFINE next == Release(d[j], l[j + 1])
             e == [n \in 0 .. j + 1 |-> IF n = j + 1 THEN next ELSE d[n]]
  <2>2. /\ d[0] = s
        /\ \A n \in 1 .. j : d[n] = Release(d[n - 1], l[n])
    BY <2>1 DEF Dropping
  <2> HIDE DEF next
  <2>3. ASSUME NEW n \in 0 .. j + 1
        PROVE  e[n] = IF n = 0 THEN s ELSE Release(e[n - 1], l[n])
    <3>1. CASE n = 0
      BY <2>2, <3>1
    <3>2. CASE n \in 1 .. j
      <4>1. e[n] = d[n] /\ e[n - 1] = d[n - 1]
        BY <3>2
      <4> QED
        BY <2>2, <3>2, <4>1
    <3>3. CASE n = j + 1
      <4>1. e[n] = next /\ e[n - 1] = d[j]
        BY <3>3
      <4> QED
        BY <3>3, <4>1 DEF next
    <3> QED BY <3>1, <3>2, <3>3
  <2>4. e = [n \in 0 .. j + 1 |-> IF n = 0 THEN s ELSE Release(e[n - 1], l[n])]
    BY <2>3
  <2> HIDE DEF e
  <2>5. Dropping(s, l, j + 1, e)
    BY <2>4 DEF Dropping
  <2> QED
    BY <2>5
<1> HIDE DEF S
<1>3. k \in S
  BY <1>1, <1>2, Induction
<1> QED
  BY <1>3 DEF S

(* Whatever is still to be dropped is still counted.                       *)
LEMMA DroppingCounts ==
  ASSUME NEW s, NEW l \in Seq(Cells), Injective(l), NEW d, Dropping(s, l, Len(l), d),
         Counted(s, Null, {l[n] : n \in DOMAIN l})
  PROVE  Counted(d[Len(l)], Null, {}) /\ d[Len(l)].ptr = s.ptr
<1> DEFINE Left(n) == {l[m] : m \in n + 1 .. Len(l)}
           S == {n \in Nat : n <= Len(l) => Counted(d[n], Null, Left(n)) /\ d[n].ptr = s.ptr}
<1>1. Len(l) \in Nat /\ DOMAIN l = 1 .. Len(l)
  OBVIOUS
<1>2. /\ d[0] = s
      /\ \A n \in 1 .. Len(l) : d[n] = Release(d[n - 1], l[n])
  BY <1>1 DEF Dropping
<1>3. 0 \in S
  <2>1. Left(0) = {l[n] : n \in DOMAIN l}
    BY <1>1
  <2> QED
    BY <1>2, <2>1
<1>4. ASSUME NEW n \in Nat, n \in S PROVE n + 1 \in S
  <2> SUFFICES ASSUME n + 1 <= Len(l)
               PROVE  Counted(d[n + 1], Null, Left(n + 1)) /\ d[n + 1].ptr = s.ptr
    OBVIOUS
  <2>1. Counted(d[n], Null, Left(n)) /\ d[n].ptr = s.ptr
    BY <1>1, <1>4
  <2>2. d[n + 1] = Release(d[n], l[n + 1])
    BY <1>1, <1>2
  <2>3. l[n + 1] \in Cells /\ l[n + 1] \in Left(n)
    BY <1>1
  <2>4. Left(n + 1) = Left(n) \ {l[n + 1]}
    BY <1>1 DEF Injective
  <2> HIDE DEF Left
  <2>5. Counted(Release(d[n], l[n + 1]), Null, Left(n) \ {l[n + 1]})
        /\ Release(d[n], l[n + 1]).ptr = d[n].ptr
    BY <2>1, <2>3, ReaderReleases
  <2> QED
    BY <2>1, <2>2, <2>4, <2>5
<1>5. Len(l) \in S
  <2> HIDE DEF S
  <2> QED BY <1>1, <1>3, <1>4, Induction
<1>6. Left(Len(l)) = {}
  BY <1>1
<1> HIDE DEF Left
<1>7. Counted(d[Len(l)], Null, Left(Len(l))) /\ d[Len(l)].ptr = s.ptr
  BY <1>1, <1>5
<1> QED
  BY <1>6, <1>7

LEMMA CloseCounts ==
  ASSUME Counted(Now, Null, Read), loaded \in Seq(Cells), Injective(loaded), Close
  PROVE  Counted(Now', Null, {}) /\ ptr' = ptr
<1> DEFINE drop[n \in 0 .. Len(loaded)] == IF n = 0 THEN Now ELSE Release(drop[n - 1], loaded[n])
           F(d) == [n \in 0 .. Len(loaded) |-> IF n = 0 THEN Now ELSE Release(d[n - 1], loaded[n])]
<1>1. Commit(drop[Len(loaded)])
  BY Zenon DEF Close
<1>2. drop = CHOOSE d : d = F(d)
  BY Zenon
<1>3. \E d : d = F(d)
  <2>1. Len(loaded) \in Nat
    OBVIOUS
  <2>2. \E d : Dropping(Now, loaded, Len(loaded), d)
    BY <2>1, DroppingExists
  <2> QED
    BY <2>2, Zenon DEF Dropping
<1> HIDE DEF drop
<1>4. drop = F(drop)
  <2> HIDE DEF F
  <2> QED BY <1>2, <1>3, Zenon
<1>5. Dropping(Now, loaded, Len(loaded), drop)
  BY <1>4, Zenon DEF Dropping
<1>6. Counted(drop[Len(loaded)], Null, {}) /\ drop[Len(loaded)].ptr = ptr
  BY <1>5, DroppingCounts, Reads DEF Read
<1>7. drop[Len(loaded)] \in State
  BY <1>6 DEF Counted
<1>8. Now' = drop[Len(loaded)]
  BY <1>1, <1>7 DEF Commit, Now, State
<1> QED
  BY <1>1, <1>6, <1>8 DEF Commit

----------------------------------------------------------------------------
(* The records of the archive.                                             *)
LEMMA AppendIs ==
  ASSUME NEW S, NEW s \in Seq(S), NEW e \in S
  PROVE  /\ Append(s, e) \in Seq(S) /\ Len(s) \in Nat /\ Len(Append(s, e)) = Len(s) + 1
         /\ DOMAIN s = 1 .. Len(s) /\ DOMAIN Append(s, e) = 1 .. Len(s) + 1
         /\ \A i \in 1 .. Len(s) : Append(s, e)[i] = s[i]
         /\ Append(s, e)[Len(s) + 1] = e
  OBVIOUS

LEMMA NumberIs ==
  ASSUME saved \in Seq(Cells), NEW c \in Cells
  PROVE  \/ Number(c) \in DOMAIN saved /\ saved[Number(c)] = c
         \/ Number(c) = Len(saved) + 1 /\ \A n \in DOMAIN saved : saved[n] # c
  BY Zenon DEF Number

(* A record written by save() has its number.                              *)
LEMMA WrittenGood ==
  ASSUME SerialInv, NEW w \in Wraps, IsWrap(Now, w), Len(archive) < MaxRecords,
         Torn \notin {archive[i] : i \in DOMAIN archive},
         Written(w), savedFrom' = Append(savedFrom, ptr[w])
  PROVE  /\ Writing'
         /\ archive' \in Seq((0 .. MaxRecords) \cup {Torn}) /\ Len(archive') = Len(archive) + 1
         /\ \A i \in DOMAIN archive : archive'[i] = archive[i]
         /\ saved' \in Seq(Cells) /\ objects' \in Seq(Holder) /\ Len(saved) <= Len(saved')
         /\ savedFrom' \in Seq(Cells \cup {Null})
<1> DEFINE r == IF Valid(Now, w) THEN Number(ptr[w]) ELSE 0
<1>1. /\ archive \in Seq((0 .. MaxRecords) \cup {Torn}) /\ saved \in Seq(Cells)
      /\ objects \in Seq(Holder) /\ savedFrom \in Seq(Cells \cup {Null})
      /\ Injective(saved) /\ Len(objects) = Len(saved) /\ Len(saved) <= Len(archive)
      /\ Len(savedFrom) = Len(archive)
  BY DEF SerialInv, Typed, Writing
<1>2. ptr[w] \in Cells \cup {Null} /\ (Valid(Now, w) <=> ptr[w] \in Cells) /\ Null \notin Cells
  BY Reads, ConstantsOK DEF SerialInv, IsWrap, Valid, ConstantsOK
<1>3. Valid(Now, w) => HolderOf(Now, w) \in Holder
  <2>1. Now.ptr[w] \in Cells => Now.held[Now.ptr[w]] # Raw
    BY PointedAlive DEF SerialInv
  <2> QED
    BY <1>2, <2>1, Reads DEF SerialInv, HolderOf, Valid
<1>4. \A i \in DOMAIN archive : Recorded(i)
  BY DEF SerialInv, Writing
<1>5. archive' = Append(archive, r)
  BY DEF Written
<1>6. \/ /\ r = 0 /\ ptr[w] = Null /\ saved' = saved /\ objects' = objects
      \/ /\ r \in DOMAIN saved /\ ptr[w] = saved[r] /\ saved' = saved /\ objects' = objects
      \/ /\ r = Len(saved) + 1 /\ ptr[w] \in Cells /\ \A n \in DOMAIN saved : saved[n] # ptr[w]
         /\ saved' = Append(saved, ptr[w]) /\ objects' = Append(objects, HolderOf(Now, w))
  <2>1. CASE ~ Valid(Now, w)
    BY <1>2, <2>1 DEF Written
  <2>2. CASE Valid(Now, w) /\ Number(ptr[w]) \in DOMAIN saved /\ saved[Number(ptr[w])] = ptr[w]
    <3>1. ~ (Number(ptr[w]) > Len(saved))
      BY <1>1, <2>2
    <3> QED
      BY <2>2, <3>1 DEF Written
  <2>3. CASE Valid(Now, w) /\ Number(ptr[w]) = Len(saved) + 1
             /\ \A n \in DOMAIN saved : saved[n] # ptr[w]
    <3>1. Number(ptr[w]) > Len(saved)
      BY <1>1, <2>3
    <3> QED
      BY <1>2, <2>3, <3>1 DEF Written
  <2> QED
    BY <1>1, <1>2, <2>1, <2>2, <2>3, NumberIs
<1> HIDE DEF r
<1>7. r \in (0 .. MaxRecords) \cup {Torn}
  BY <1>1, <1>6, SerialConstantsOK DEF SerialConstantsOK
<1>8. /\ archive' \in Seq((0 .. MaxRecords) \cup {Torn}) /\ Len(archive') = Len(archive) + 1
      /\ Len(archive) \in Nat /\ DOMAIN archive = 1 .. Len(archive)
      /\ DOMAIN archive' = 1 .. Len(archive) + 1
      /\ \A i \in 1 .. Len(archive) : archive'[i] = archive[i]
      /\ archive'[Len(archive) + 1] = r
  BY <1>1, <1>5, <1>7, AppendIs
<1>9. /\ savedFrom' \in Seq(Cells \cup {Null}) /\ Len(savedFrom') = Len(archive) + 1
      /\ DOMAIN savedFrom = 1 .. Len(archive) /\ DOMAIN savedFrom' = 1 .. Len(archive) + 1
      /\ \A i \in 1 .. Len(archive) : savedFrom'[i] = savedFrom[i]
      /\ savedFrom'[Len(archive) + 1] = ptr[w]
  BY <1>1, <1>2, AppendIs
<1>10. /\ saved' \in Seq(Cells) /\ objects' \in Seq(Holder) /\ Len(objects') = Len(saved')
       /\ Len(saved) <= Len(saved') /\ Len(saved') <= Len(saved) + 1 /\ Injective(saved')
       /\ \A n \in DOMAIN saved : n \in DOMAIN saved' /\ saved'[n] = saved[n]
       /\ r # 0 => r \in DOMAIN saved' /\ saved'[r] = ptr[w]
  <2>1. CASE r = Len(saved) + 1 /\ ptr[w] \in Cells /\ (\A n \in DOMAIN saved : saved[n] # ptr[w])
             /\ saved' = Append(saved, ptr[w]) /\ objects' = Append(objects, HolderOf(Now, w))
    <3>1. /\ saved' \in Seq(Cells) /\ Len(saved') = Len(saved) + 1 /\ Len(saved) \in Nat
          /\ DOMAIN saved = 1 .. Len(saved) /\ DOMAIN saved' = 1 .. Len(saved) + 1
          /\ \A n \in 1 .. Len(saved) : saved'[n] = saved[n]
          /\ saved'[Len(saved) + 1] = ptr[w]
      BY <1>1, <2>1, AppendIs
    <3>2. objects' \in Seq(Holder) /\ Len(objects') = Len(saved) + 1
      BY <1>1, <1>2, <1>3, <2>1, AppendIs
    <3>3. Injective(saved')
      BY <1>1, <2>1, <3>1 DEF Injective
    <3> QED
      BY <2>1, <3>1, <3>2, <3>3
  <2>2. CASE saved' = saved /\ objects' = objects
    BY <1>1, <1>6, <2>2
  <2> QED
    BY <1>6, <2>1, <2>2
<1>11. ASSUME NEW i \in DOMAIN archive' PROVE Recorded(i)'
  <2>1. CASE i = Len(archive) + 1
    <3>1. r = 0 => ptr[w] = Null
      BY <1>1, <1>6
    <3> QED
      BY <1>8, <1>9, <1>10, <2>1, <3>1 DEF Recorded
  <2>2. CASE i \in 1 .. Len(archive)
    <3>1. Recorded(i)
      BY <1>4, <1>8, <2>2
    <3> QED
      BY <1>8, <1>9, <1>10, <2>2, <3>1 DEF Recorded
  <2> QED
    BY <1>8, <2>1, <2>2
<1>12. Writing'
  BY <1>1, <1>8, <1>9, <1>10, <1>11 DEF Writing
<1> QED
  BY <1>8, <1>9, <1>10, <1>12

(* A record that was not written to its end changes nothing else.          *)
LEMMA TornGood ==
  ASSUME Typed, Writing, archive' = Append(archive, Torn), UNCHANGED <<saved, objects, savedFrom>>
  PROVE  /\ Writing'
         /\ archive' \in Seq((0 .. MaxRecords) \cup {Torn}) /\ Len(archive') = Len(archive) + 1
         /\ \A i \in DOMAIN archive : archive'[i] = archive[i]
<1>1. /\ archive' \in Seq((0 .. MaxRecords) \cup {Torn}) /\ Len(archive') = Len(archive) + 1
      /\ Len(archive) \in Nat /\ DOMAIN archive = 1 .. Len(archive)
      /\ DOMAIN archive' = 1 .. Len(archive) + 1
      /\ \A i \in 1 .. Len(archive) : archive'[i] = archive[i]
      /\ archive'[Len(archive) + 1] = Torn
  BY AppendIs DEF Typed
<1>2. ASSUME NEW i \in DOMAIN archive', archive'[i] # Torn PROVE Recorded(i)'
  <2>1. i \in DOMAIN archive /\ archive'[i] = archive[i]
    BY <1>1, <1>2
  <2>2. Recorded(i)
    BY <1>2, <2>1 DEF Writing
  <2> QED
    BY <2>1, <2>2 DEF Recorded
<1>3. Torn \in {archive'[i] : i \in DOMAIN archive'}
  BY <1>1
<1>4. Writing'
  BY <1>1, <1>2, <1>3 DEF Writing, Injective, Typed
<1> QED
  BY <1>1, <1>4

(* Records already loaded do not change.                                   *)
LEMMA SavingKeepsReading ==
  ASSUME SerialInv, \A i \in DOMAIN archive : archive'[i] = archive[i],
         Len(saved) <= Len(saved'), saved' \in Seq(Cells), UNCHANGED <<readerVars, loadedBy, ptr>>
  PROVE  Reading' /\ Alike'
<1>1. DOMAIN loadedBy \subseteq DOMAIN archive
  BY DEF SerialInv, Typed
<1>2. \A i \in DOMAIN loadedBy : archive'[i] = archive[i]
  BY <1>1
<1>3. Alike'
  BY <1>2 DEF SerialInv, Alike
<1>4. /\ Reading /\ loaded' = loaded /\ loadedBy' = loadedBy /\ reader' = reader /\ ptr' = ptr
      /\ Len(loaded) <= Len(saved)
  BY DEF SerialInv, Reading, readerVars
<1>5. Injective(loaded') /\ Len(loaded') <= Len(saved')
  <2>1. Len(loaded) \in Nat /\ Len(saved) \in Nat /\ Len(saved') \in Nat
    BY DEF SerialInv, Typed
  <2> QED BY <1>4, <2>1 DEF Reading, Injective
<1>6. \A i \in DOMAIN loadedBy : Target(i)' = Target(i)
  BY <1>2, <1>4 DEF Target
<1>7. Reading'
  BY <1>2, <1>4, <1>5, <1>6 DEF Reading
<1> QED
  BY <1>3, <1>7

LEMMA SaveKeeps ==
  ASSUME SerialInv, NEW w \in Wraps, Save(w)
  PROVE  SerialInv'
<1>1. /\ IsWrap(Now, w) /\ Len(archive) < MaxRecords
      /\ Torn \notin {archive[i] : i \in DOMAIN archive}
      /\ Commit(Now) /\ phase' = "saving" /\ UNCHANGED <<readerVars, loadedBy>>
  BY DEF Save
<1>2. Counted(Now, Null, Read)' /\ ptr' = ptr
  <2>1. Counted(Now', Null, Read) /\ ptr' = ptr
    BY <1>1, Idle DEF SerialInv
  <2>2. Read' = Read
    BY <1>1 DEF Read, readerVars
  <2> QED
    BY <2>1, <2>2
<1>3. call' \in SerialCallType
  BY DEF Save, Returned, SerialCallType, Outcomes
<1>4. /\ Writing' /\ Len(archive) <= Len(archive') /\ Len(archive') <= Len(archive) + 1
      /\ archive' \in Seq((0 .. MaxRecords) \cup {Torn})
      /\ \A i \in DOMAIN archive : archive'[i] = archive[i]
      /\ saved' \in Seq(Cells) /\ objects' \in Seq(Holder) /\ Len(saved) <= Len(saved')
      /\ savedFrom' \in Seq(Cells \cup {Null})
  <2>1. /\ archive \in Seq((0 .. MaxRecords) \cup {Torn}) /\ Len(archive) \in Nat
        /\ saved \in Seq(Cells) /\ Len(saved) \in Nat
        /\ objects \in Seq(Holder) /\ savedFrom \in Seq(Cells \cup {Null})
    BY DEF SerialInv, Typed
  <2>2. CASE Written(w) /\ savedFrom' = Append(savedFrom, ptr[w])
    BY <1>1, <2>1, <2>2, WrittenGood
  <2>3. CASE archive' = Append(archive, Torn) /\ UNCHANGED <<saved, objects, savedFrom>>
    BY <2>1, <2>3, TornGood DEF SerialInv
  <2>4. CASE UNCHANGED <<writerVars, savedFrom>>
    <3>1. UNCHANGED <<archive, saved, objects, savedFrom>>
      BY <2>4 DEF writerVars
    <3>2. Writing'
      BY <3>1 DEF SerialInv, Writing, Recorded, Injective
    <3> QED
      BY <2>1, <3>1, <3>2
  <2> QED
    BY <2>2, <2>3, <2>4 DEF Save
<1>5. Reading' /\ Alike'
  BY <1>1, <1>2, <1>4, SavingKeepsReading
<1>6. Typed'
  <2>1. Len(archive') <= MaxRecords /\ pos \in 0 .. Len(archive')
    BY <1>1, <1>4, SerialConstantsOK DEF SerialInv, Typed, SerialConstantsOK
  <2> QED
    BY <1>1, <1>3, <1>4, <2>1 DEF SerialInv, Typed, readerVars
<1> QED
  BY <1>2, <1>4, <1>5, <1>6 DEF SerialInv

----------------------------------------------------------------------------
(* While the archive knows its objects, equal numbers are equal cells.     *)
LEMMA ReadingAlike == loaded \in Seq(Cells) /\ Reading /\ reader # "closed" => Alike
<1> SUFFICES ASSUME loaded \in Seq(Cells), Reading, reader # "closed",
                    NEW i \in DOMAIN loadedBy, NEW j \in DOMAIN loadedBy,
                    loadedBy[i] # Outside, loadedBy[j] # Outside
             PROVE  /\ ptr[loadedBy[i]] = Null <=> archive[i] = 0
                    /\ ptr[loadedBy[i]] = ptr[loadedBy[j]] <=> archive[i] = archive[j]
  BY DEF Alike
<1>1. /\ archive[i] \in {0} \cup DOMAIN loaded /\ ptr[loadedBy[i]] = Target(i)
      /\ archive[j] \in {0} \cup DOMAIN loaded /\ ptr[loadedBy[j]] = Target(j)
  BY DEF Reading
<1>2. /\ 0 \notin DOMAIN loaded /\ Null \notin Cells
      /\ \A n \in DOMAIN loaded : loaded[n] \in Cells
  BY ConstantsOK DEF ConstantsOK
<1>3. \A m, n \in DOMAIN loaded : loaded[m] = loaded[n] => m = n
  BY DEF Reading, Injective
<1> QED
  BY <1>1, <1>2, <1>3 DEF Target

(* Involving w and o in a call forgets what was loaded into them.          *)
LEMMA ForgetIs ==
  ASSUME NEW w, NEW o, loadedBy \in Seq(Wraps \cup {Outside})
  PROVE  /\ Forget(w, o) \in Seq(Wraps \cup {Outside}) /\ Len(Forget(w, o)) = Len(loadedBy)
         /\ DOMAIN Forget(w, o) = DOMAIN loadedBy
         /\ \A i \in DOMAIN loadedBy :
              Forget(w, o)[i] # Outside => /\ Forget(w, o)[i] = loadedBy[i]
                                           /\ loadedBy[i] \in Wraps \ {w, o}
  BY DEF Forget

LEMMA ForgettingKeeps ==
  ASSUME SerialInv, NEW w, NEW o, loadedBy' = Forget(w, o),
         \A u \in Wraps \ {w, o} : ptr'[u] = ptr[u],
         UNCHANGED <<writerVars, savedFrom, pos, loaded>>,
         reader' = "closed" <=> reader = "closed"
  PROVE  Writing' /\ Reading' /\ Alike' /\ loadedBy' \in Seq(Wraps \cup {Outside}) /\ Len(loadedBy') = pos
<1>1. UNCHANGED <<archive, saved, objects, savedFrom, loaded>>
  BY DEF writerVars
<1>2. Writing'
  BY <1>1 DEF SerialInv, Writing, Recorded, Injective
<1>3. /\ loadedBy' \in Seq(Wraps \cup {Outside}) /\ Len(loadedBy') = pos
      /\ DOMAIN loadedBy' = DOMAIN loadedBy
      /\ \A i \in DOMAIN loadedBy :
           loadedBy'[i] # Outside => loadedBy'[i] = loadedBy[i] /\ loadedBy[i] \in Wraps \ {w, o}
  BY ForgetIs DEF SerialInv, Typed
<1>4. \A i \in DOMAIN loadedBy : loadedBy'[i] # Outside => ptr'[loadedBy'[i]] = ptr[loadedBy[i]]
  BY <1>3
<1>5. Reading'
  BY <1>1, <1>3, <1>4 DEF SerialInv, Reading, Target, Injective
<1>6. Alike'
  BY <1>1, <1>3, <1>4 DEF SerialInv, Alike
<1> QED
  BY <1>2, <1>3, <1>5, <1>6

(* Reading one more record, for an object that the archive knows or that   *)
(* it comes to know, which w then refers to.                               *)
LEMMA RecordKeeps ==
  ASSUME SerialInv, NEW w \in Wraps, NEW x, reader = "open", UNCHANGED <<writerVars, savedFrom, reader>>,
         pos < Len(archive), archive[pos + 1] # Torn, pos' = pos + 1,
         loadedBy' = Append(Forget(w, Outside), w), ptr' = [ptr EXCEPT ![w] = x],
         loaded' \in Seq(Cells), Injective(loaded'), Len(loaded') <= Len(saved),
         \A n \in DOMAIN loaded : n \in DOMAIN loaded' /\ loaded'[n] = loaded[n],
         archive[pos + 1] \in {0} \cup DOMAIN loaded',
         x = IF archive[pos + 1] = 0 THEN Null ELSE loaded'[archive[pos + 1]]
  PROVE  /\ Writing' /\ Reading' /\ Alike'
         /\ loadedBy' \in Seq(Wraps \cup {Outside}) /\ Len(loadedBy') = pos'
<1>1. UNCHANGED <<archive, saved, objects, savedFrom>>
  BY DEF writerVars
<1>2. Writing'
  BY <1>1 DEF SerialInv, Writing, Recorded, Injective
<1> DEFINE f == Forget(w, Outside)
<1>3. /\ loadedBy \in Seq(Wraps \cup {Outside}) /\ Len(loadedBy) = pos /\ pos \in Nat
      /\ ptr \in [Wraps -> Cells \cup {Null, NoWrap}]
  BY Reads DEF SerialInv, Typed
<1>3a. DOMAIN loadedBy = 1 .. pos
  BY <1>3
<1>4. /\ f \in Seq(Wraps \cup {Outside}) /\ Len(f) = pos /\ DOMAIN f = 1 .. pos
      /\ \A i \in 1 .. pos :
           f[i] # Outside => f[i] = loadedBy[i] /\ loadedBy[i] \in Wraps \ {w, Outside}
  <2>1. /\ f \in Seq(Wraps \cup {Outside}) /\ Len(f) = Len(loadedBy) /\ DOMAIN f = DOMAIN loadedBy
        /\ \A i \in DOMAIN loadedBy :
             f[i] # Outside => f[i] = loadedBy[i] /\ loadedBy[i] \in Wraps \ {w, Outside}
    BY <1>3, ForgetIs
  <2> HIDE DEF f
  <2> QED BY <1>3a, <1>3, <2>1
<1> HIDE DEF f
<1>5. /\ loadedBy' \in Seq(Wraps \cup {Outside}) /\ Len(loadedBy') = pos + 1
      /\ DOMAIN loadedBy' = 1 .. pos + 1
      /\ \A i \in 1 .. pos : loadedBy'[i] = f[i]
      /\ loadedBy'[pos + 1] = w
  BY <1>4, AppendIs DEF f
<1>6. ASSUME NEW i \in DOMAIN loadedBy'
      PROVE  /\ archive[i] # Torn /\ archive[i] \in {0} \cup DOMAIN loaded'
             /\ loadedBy'[i] # Outside =>
                  ptr'[loadedBy'[i]] = IF archive[i] = 0 THEN Null ELSE loaded'[archive[i]]
  <2>1. CASE i = pos + 1
    BY <1>3, <1>5, <2>1
  <2>2. CASE i \in 1 .. pos
    <3>1. /\ archive[i] # Torn /\ archive[i] \in {0} \cup DOMAIN loaded
          /\ loadedBy[i] # Outside => ptr[loadedBy[i]] = Target(i)
      BY <1>3, <2>2 DEF SerialInv, Reading
    <3>2. loadedBy'[i] # Outside => /\ loadedBy'[i] = loadedBy[i] /\ loadedBy[i] # Outside
                                    /\ ptr'[loadedBy[i]] = ptr[loadedBy[i]]
      BY <1>3, <1>4, <1>5, <2>2
    <3> QED
      BY <3>1, <3>2 DEF Target
  <2> QED
    BY <1>3, <1>5, <2>1, <2>2
<1>7. Reading'
  BY <1>1, <1>6 DEF Reading, Target
<1>8. Alike'
  <2>1. (loaded \in Seq(Cells) /\ Reading /\ reader # "closed" => Alike)'
    BY ReadingAlike, PTL
  <2> QED
    BY <1>7, <2>1
<1> QED
  BY <1>2, <1>5, <1>7, <1>8

LEMMA LoadRecordKeeps ==
  ASSUME SerialInv, NEW w \in Wraps, LoadRecord(w, archive[pos + 1]), reader = "open",
         UNCHANGED <<writerVars, savedFrom, reader>>, pos < Len(archive), archive[pos + 1] # Torn,
         pos' = pos + 1, loadedBy' = Append(Forget(w, Outside), w)
  PROVE  /\ Counted(Now, Null, Read)' /\ Writing' /\ Reading' /\ Alike'
         /\ loaded' \in Seq(Cells)
         /\ loadedBy' \in Seq(Wraps \cup {Outside}) /\ Len(loadedBy') = pos'
<1> DEFINE n == archive[pos + 1]
           Known(x) == x = IF n = 0 THEN Null ELSE loaded'[n]
<1>1. /\ Counted(Now, Null, Read) /\ loaded \in Seq(Cells) /\ Injective(loaded)
      /\ Len(loaded) <= Len(saved) /\ Len(loaded) \in Nat /\ DOMAIN loaded = 1 .. Len(loaded)
      /\ pos \in Nat /\ Len(archive) \in Nat
  BY DEF SerialInv, Typed, Reading
<1>2. n # 0 => n \in DOMAIN saved /\ objects[n] \in Holder
  <2>1. pos + 1 \in DOMAIN archive
    BY <1>1 DEF SerialInv, Typed
  <2>2. Recorded(pos + 1)
    BY <2>1 DEF SerialInv, Writing
  <2>3. objects \in Seq(Holder) /\ Len(objects) = Len(saved) /\ saved \in Seq(Cells)
    BY DEF SerialInv, Typed, Writing
  <2> QED
    BY <2>2, <2>3 DEF Recorded
<1>3. ASSUME NEW x, Counted(Now', Null, Read'), ptr' = [ptr EXCEPT ![w] = x], loaded' \in Seq(Cells),
             Injective(loaded'), Len(loaded') <= Len(saved),
             \A k \in DOMAIN loaded : k \in DOMAIN loaded' /\ loaded'[k] = loaded[k],
             n \in {0} \cup DOMAIN loaded', Known(x)
      PROVE  /\ Counted(Now, Null, Read)' /\ Writing' /\ Reading' /\ Alike'
             /\ loaded' \in Seq(Cells)
             /\ loadedBy' \in Seq(Wraps \cup {Outside}) /\ Len(loadedBy') = pos'
  BY <1>3, RecordKeeps
<1>4. CASE n = 0 /\ LoadNull(w)
  <2>1. loaded' = loaded /\ Read' = Read
    BY <1>4 DEF LoadNull, Read
  <2>2. Counted(Now', Null, Read) /\ ptr' = [ptr EXCEPT ![w] = Null]
    BY <1>1, <1>4, LoadNullCounts DEF LoadNull
  <2> QED
    BY <1>1, <1>3, <1>4, <2>1, <2>2
<1>5. CASE n \in DOMAIN loaded /\ LoadShared(w, loaded[n])
  <2>1. loaded' = loaded /\ Read' = Read
    BY <1>5 DEF LoadShared, Read
  <2>2. loaded[n] \in Cells /\ loaded[n] \in Read /\ n # 0
    BY <1>1, <1>5 DEF Read
  <2>3. Counted(Now', Null, Read) /\ ptr' = [ptr EXCEPT ![w] = loaded[n]]
    BY <1>1, <1>5, <2>2, LoadSharedCounts DEF LoadShared
  <2> QED
    BY <1>1, <1>3, <1>5, <2>1, <2>2, <2>3
<1>6. CASE n = Len(loaded) + 1 /\ \E c \in FreeCells(Now) : LoadNew(w, c, objects[n])
  <2>1. PICK c \in FreeCells(Now) : LoadNew(w, c, objects[n])
    BY <1>6
  <2>2. c \in Cells /\ c \notin Read
    BY <1>1, FreeUnread
  <2>3. n # 0 /\ n <= Len(saved)
    BY <1>1, <1>2, <1>6 DEF SerialInv, Typed
  <2>4. Counted(Now', Null, Read \cup {c}) /\ ptr' = [ptr EXCEPT ![w] = c]
    BY <1>1, <1>2, <2>1, <2>3, LoadNewCounts DEF LoadNew
  <2>5. /\ loaded' \in Seq(Cells) /\ Len(loaded') = Len(loaded) + 1
        /\ DOMAIN loaded' = 1 .. Len(loaded) + 1
        /\ \A k \in 1 .. Len(loaded) : loaded'[k] = loaded[k]
        /\ loaded'[Len(loaded) + 1] = c
    BY <1>1, <2>1, <2>2, AppendIs DEF LoadNew
  <2>6. Read' = Read \cup {c}
    <3>1. \A k \in 1 .. Len(loaded) : loaded'[k] \in Read
      BY <1>1, <2>5 DEF Read
    <3>2. Read \subseteq Read' /\ c \in Read'
      <4>1. ASSUME NEW k \in DOMAIN loaded PROVE k \in DOMAIN loaded' /\ loaded'[k] = loaded[k]
        BY <1>1, <2>5, <4>1
      <4>2. Len(loaded) + 1 \in DOMAIN loaded'
        BY <1>1, <2>5
      <4> QED BY <2>5, <4>1, <4>2 DEF Read
    <3>3. Read' \subseteq Read \cup {c}
      <4>1. ASSUME NEW k \in DOMAIN loaded' PROVE loaded'[k] \in Read \cup {c}
        BY <1>1, <2>5, <3>1, <4>1
      <4> QED BY <4>1 DEF Read
    <3> QED BY <3>2, <3>3
  <2>7. Injective(loaded')
    <3>1. \A k \in 1 .. Len(loaded) : loaded[k] # c
      BY <1>1, <2>2 DEF Read
    <3>2. \A j, k \in 1 .. Len(loaded) : loaded[j] = loaded[k] => j = k
      BY <1>1 DEF Injective
    <3>3. ASSUME NEW j \in DOMAIN loaded', NEW k \in DOMAIN loaded', loaded'[j] = loaded'[k]
          PROVE  j = k
      BY <1>1, <2>5, <3>1, <3>2, <3>3
    <3> QED BY <3>3 DEF Injective
  <2>8. /\ Len(loaded') <= Len(saved) /\ n \in DOMAIN loaded' /\ loaded'[n] = c
        /\ \A k \in DOMAIN loaded : k \in DOMAIN loaded' /\ loaded'[k] = loaded[k]
    BY <1>1, <1>6, <2>3, <2>5
  <2> QED
    BY <1>3, <2>3, <2>4, <2>5, <2>6, <2>7, <2>8
<1> QED
  BY <1>4, <1>5, <1>6 DEF LoadRecord

LEMMA LoadKeeps ==
  ASSUME SerialInv, NEW w \in Wraps, Load(w)
  PROVE  SerialInv'
<1>1. /\ reader = "open" /\ pos < Len(archive) /\ phase' = "loading"
      /\ UNCHANGED <<writerVars, savedFrom>>
  BY DEF Load
<1>2. call' \in SerialCallType
  BY DEF Load, LoadFails, Returned, SerialCallType, Outcomes
<1>3. UNCHANGED <<archive, saved, objects, savedFrom>>
  BY <1>1 DEF writerVars
<1>4. CASE LoadFails(w)
  <2>1. Commit(Adopt(Now, w, Null)) /\ reader' = "failed" /\ UNCHANGED <<pos, loaded>>
        /\ loadedBy' = Forget(w, Outside)
    BY <1>4 DEF LoadFails
  <2>2. Counted(Now', Null, Read) /\ ptr' = [ptr EXCEPT ![w] = Null]
    BY <2>1, LoadNullCounts DEF SerialInv
  <2>3. Counted(Now, Null, Read)'
    BY <2>1, <2>2 DEF Read
  <2>4. \A u \in Wraps \ {w, Outside} : ptr'[u] = ptr[u]
    BY <2>2, Reads DEF SerialInv
  <2>5. reader' = "closed" <=> reader = "closed"
    BY <1>1, <2>1
  <2>6. /\ Writing' /\ Reading' /\ Alike'
        /\ loadedBy' \in Seq(Wraps \cup {Outside}) /\ Len(loadedBy') = pos
    BY <1>1, <2>1, <2>4, <2>5, ForgettingKeeps
  <2>7. Typed'
    BY <1>1, <1>2, <1>3, <2>1, <2>6 DEF SerialInv, Typed
  <2> QED
    BY <2>3, <2>6, <2>7 DEF SerialInv
<1>5. CASE /\ archive[pos + 1] # Torn /\ LoadRecord(w, archive[pos + 1])
           /\ pos' = pos + 1 /\ UNCHANGED reader
           /\ loadedBy' = Append(Forget(w, Outside), w)
  <2>1. /\ Counted(Now, Null, Read)' /\ Writing' /\ Reading' /\ Alike'
        /\ loaded' \in Seq(Cells)
        /\ loadedBy' \in Seq(Wraps \cup {Outside}) /\ Len(loadedBy') = pos'
    BY <1>1, <1>5, LoadRecordKeeps
  <2>2. pos' \in 0 .. Len(archive')
    BY <1>1, <1>3, <1>5 DEF SerialInv, Typed
  <2>3. Typed'
    BY <1>1, <1>2, <1>3, <1>5, <2>1, <2>2 DEF SerialInv, Typed
  <2> QED
    BY <2>1, <2>3 DEF SerialInv
<1> QED
  BY <1>4, <1>5 DEF Load

LEMMA CloseKeeps ==
  ASSUME SerialInv, Close
  PROVE  SerialInv'
<1>1. /\ reader' = "closed" /\ loaded' = <<>>
      /\ UNCHANGED <<phase, writerVars, pos, savedFrom, loadedBy, call>>
  BY DEF Close
<1>2. UNCHANGED <<archive, saved, objects>>
  BY <1>1 DEF writerVars
<1>3. Counted(Now', Null, {}) /\ ptr' = ptr
  BY CloseCounts DEF SerialInv, Typed, Reading
<1>4. Counted(Now, Null, Read)'
  <2>1. Read' = {}
    BY <1>1 DEF Read
  <2> QED
    BY <1>3, <2>1
<1>5. Writing' /\ Alike'
  BY <1>1, <1>2, <1>3 DEF SerialInv, Writing, Recorded, Injective, Alike
<1>6. Typed'
  BY <1>1, <1>2 DEF SerialInv, Typed
<1>7. Reading'
  <2>1. saved \in Seq(Cells) /\ Len(saved) >= 0
    BY DEF SerialInv, Typed
  <2> QED
    BY <1>1, <1>2, <2>1 DEF SerialInv, Reading, Injective
<1> QED
  BY <1>4, <1>5, <1>6, <1>7 DEF SerialInv

LEMMA OtherCallKeeps ==
  ASSUME SerialInv, OtherCall
  PROVE  SerialInv'
<1>1. /\ Next /\ phase' \in {phase, "loading"} /\ loadedBy' = Forget(call'.dst, call'.src)
      /\ UNCHANGED <<writerVars, readerVars, savedFrom>>
  BY DEF OtherCall
<1>2. UNCHANGED <<archive, saved, objects, savedFrom, pos, reader, loaded>>
  BY <1>1 DEF writerVars, readerVars
<1>3. Settled(Read)
  BY <1>1, CallSettles DEF SerialInv
<1>4. Counted(Now, Null, Read)'
  BY <1>2, <1>3 DEF Settled, Read
<1>5. /\ Writing' /\ Reading' /\ Alike'
      /\ loadedBy' \in Seq(Wraps \cup {Outside}) /\ Len(loadedBy') = pos
  BY <1>1, <1>2, <1>3, ForgettingKeeps DEF Settled, Bystanders
<1>6. Typed'
  <2>1. call' \in SerialCallType
    BY <1>3 DEF Settled, CallType, SerialCallType
  <2> QED
    BY <1>1, <1>2, <1>5, <2>1 DEF SerialInv, Typed
<1> QED
  BY <1>4, <1>5, <1>6 DEF SerialInv

----------------------------------------------------------------------------
LEMMA SerialInitGood == SerialInit => SerialInv
<1> SUFFICES ASSUME SerialInit PROVE SerialInv
  OBVIOUS
<1>1. /\ Init /\ phase = "before" /\ reader = "open" /\ pos = 0
      /\ archive = <<>> /\ saved = <<>> /\ objects = <<>>
      /\ loaded = <<>> /\ savedFrom = <<>> /\ loadedBy = <<>>
  BY DEF SerialInit
<1>2. IInv
  BY <1>1, InitGood
<1>3. Counted(Now, Null, Read)
  <2>1. Read = {}
    BY <1>1 DEF Read
  <2> QED
    BY <1>2, <2>1 DEF IInv
<1>4. call \in SerialCallType
  BY <1>2 DEF IInv, CallType, SerialCallType
<1>5. Typed
  BY <1>1, <1>4, SerialConstantsOK DEF Typed, SerialConstantsOK
<1>6. Writing /\ Reading /\ Alike
  BY <1>1 DEF Writing, Reading, Alike, Injective
<1> QED
  BY <1>3, <1>5, <1>6 DEF SerialInv

LEMMA SerialStepGood == SerialInv /\ [SerialNext]_<<vars, serialVars>> => SerialInv'
<1> SUFFICES ASSUME SerialInv, [SerialNext]_<<vars, serialVars>> PROVE SerialInv'
  OBVIOUS
<1>1. CASE UNCHANGED <<vars, serialVars>>
  <2>1. /\ UNCHANGED <<ptr, held, count, call, phase, archive, saved, objects>>
        /\ UNCHANGED <<pos, reader, loaded, savedFrom, loadedBy>>
    BY <1>1 DEF vars, serialVars, writerVars, readerVars
  <2>2. Now' = Now /\ Read' = Read
    BY <2>1 DEF Now, Read
  <2>3. Counted(Now, Null, Read)'
    BY <2>2 DEF SerialInv
  <2>4. Typed' /\ Alike'
    BY <2>1 DEF SerialInv, Typed, Alike
  <2>5. Writing' /\ Reading'
    BY <2>1 DEF SerialInv, Writing, Recorded, Reading, Target, Injective
  <2> QED
    BY <2>3, <2>4, <2>5 DEF SerialInv
<1> QED
  BY <1>1, OtherCallKeeps, CloseKeeps, SaveKeeps, LoadKeeps DEF SerialNext

LEMMA TypedSuffices == SerialInv => SerialTypeOK
<1> SUFFICES ASSUME SerialInv PROVE SerialTypeOK
  OBVIOUS
<1>1. /\ ptr \in [Wraps -> Cells \cup {Null, NoWrap}]
      /\ held \in [Cells -> Holder \cup {Raw}] /\ count \in [Cells -> Nat]
  BY Reads DEF SerialInv
<1>2. ASSUME NEW i \in DOMAIN archive, archive[i] # Torn PROVE archive[i] <= Len(objects)
  <2>1. Recorded(i) /\ Len(objects) = Len(saved) /\ saved \in Seq(Cells)
    BY <1>2 DEF SerialInv, Typed, Writing
  <2> QED
    BY <2>1 DEF Recorded
<1> QED
  BY <1>1, <1>2 DEF SerialInv, Typed, Writing, Reading, SerialTypeOK, SerialCallType

LEMMA CountedSuffices == SerialInv => CountsReaders
<1> SUFFICES ASSUME SerialInv, NEW c \in Cells
             PROVE  /\ count[c] = Cardinality(Sharers(c))
                                  + Cardinality({n \in DOMAIN loaded : loaded[n] = c})
                    /\ held[c] # Raw <=> count[c] > 0
  BY DEF CountsReaders
<1> DEFINE refs == {n \in DOMAIN loaded : loaded[n] = c}
<1>1. Cardinality(refs) = Extra(Read, c)
  <2>1. CASE refs = {}
    <3>1. c \notin Read
      BY <2>1 DEF Read
    <3> QED
      BY <2>1, <3>1, FS_EmptySet DEF Extra
  <2>2. CASE refs # {}
    <3>1. PICK n \in refs : TRUE
      BY <2>2
    <3>2. refs = {n} /\ c \in Read
      BY <3>1 DEF SerialInv, Reading, Injective, Read
    <3> HIDE DEF refs
    <3> QED
      BY <3>2, FS_Singleton DEF Extra
  <2> QED BY <2>1, <2>2
<1> HIDE DEF refs
<1>2. /\ Now.count[c] = Cardinality(Holders(Now, c)) + Pending(Null, c) + Extra(Read, c)
      /\ Now.held[c] # Raw <=> Now.count[c] > 0
  BY DEF SerialInv, Counted
<1>3. Now.count = count /\ Now.held = held /\ Now.ptr = ptr
  BY Reads DEF SerialInv
<1>4. Holders(Now, c) = Sharers(c) /\ Pending(Null, c) = 0
  BY <1>3, ConstantsOK DEF Holders, Sharers, Pending, ConstantsOK
<1>5. Cardinality(Holders(Now, c)) \in Nat /\ Extra(Read, c) \in Nat
  BY HoldersFinite, ExtraIs
<1> QED
  BY <1>1, <1>2, <1>3, <1>4, <1>5 DEF refs

LEMMA AlikeSuffices == SerialInv => SharingSurvives
<1> SUFFICES ASSUME SerialInv, NEW i \in DOMAIN loadedBy, NEW j \in DOMAIN loadedBy,
                    loadedBy[i] # Outside, loadedBy[j] # Outside
             PROVE  /\ ptr[loadedBy[i]] = Null <=> savedFrom[i] = Null
                    /\ ptr[loadedBy[i]] = ptr[loadedBy[j]] <=> savedFrom[i] = savedFrom[j]
  BY DEF SharingSurvives
<1>1. /\ ptr[loadedBy[i]] = Null <=> archive[i] = 0
      /\ ptr[loadedBy[i]] = ptr[loadedBy[j]] <=> archive[i] = archive[j]
  BY DEF SerialInv, Alike
<1>2. i \in DOMAIN archive /\ j \in DOMAIN archive
  BY DEF SerialInv, Typed
<1>3. Recorded(i) /\ Recorded(j)
  BY <1>2 DEF SerialInv, Writing, Reading
<1>4. /\ 0 \notin DOMAIN saved /\ Null \notin Cells
      /\ \A n \in DOMAIN saved : saved[n] \in Cells
      /\ \A m, n \in DOMAIN saved : saved[m] = saved[n] => m = n
  BY ConstantsOK DEF SerialInv, Typed, Writing, Injective, ConstantsOK
<1> QED
  BY <1>1, <1>3, <1>4 DEF Recorded

THEOREM SerialInvariance == SerialSpec => []SerialInv
BY SerialInitGood, SerialStepGood, PTL DEF SerialSpec

(* Pointers, counts, archive and records keep their types, and the reader  *)
(* meets the objects in the order of their numbers.                        *)
THEOREM SerialTypeCorrect == SerialSpec => []SerialTypeOK
BY SerialInvariance, TypedSuffices, PTL

(* Between calls every holder is counted once for each wrap that refers to *)
(* it and once while the reading archive does, whatever was saved, loaded, *)
(* or failed to load: closing the archive drops exactly its references.    *)
THEOREM ReaderCounting == SerialSpec => []CountsReaders
BY SerialInvariance, CountedSuffices, PTL

(* Wraps loaded from an archive share a value if and only if the wraps     *)
(* they were saved from did, and are invalid if and only if those were.    *)
THEOREM SharingPreserved == SerialSpec => []SharingSurvives
BY SerialInvariance, AlikeSuffices, PTL
=============================================================================
