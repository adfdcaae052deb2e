------------------------- MODULE MPSCQSlottedProofs -------------------------
(***************************************************************************)
(* Theorems about MPSCQSlotted, for any producers, items, number of cells  *)
(* and width of the positions.                                             *)
(***************************************************************************)
EXTENDS MPSCQSlotted, SequenceTheorems, FiniteSetTheorems, TLAPS

-----------------------------------------------------------------------------
(* The inductive invariant *)

\* The position k places behind the tail.
At(k) == Plus(tail, k)

\* Producers that drew a position and have not published it.
Busy == {p \in Producers : pc[p] \in {"spin", "write", "publish"}}

\* The positions drawn and not freed are those of the items in line, and no more
\* than there are cells and threads.
Line ==
    /\ head = At(Len(Oldest))
    /\ Len(Oldest) <= N + Cardinality(Producers)

\* A busy producer holds one of these positions, with its item, for itself alone;
\* behind the cells every position is held.
Holders ==
    /\ \A p \in Busy : \E k \in 0..(Len(Oldest) - 1) :
          pos[p] = At(k) /\ item[p] = Oldest[k + 1]
    /\ \A p, q \in Busy : pos[p] = pos[q] => p = q
    /\ \A k \in N..(Len(Oldest) - 1) : \E p \in Busy : pos[p] = At(k)

\* A producer past its spin has the cell to itself, and publishes its own item.
Writers ==
    \A p \in Producers :
        /\ pc[p] \in {"write", "publish"} => seq[Cell(pos[p])] = pos[p]
        /\ pc[p] = "publish" => data[Cell(pos[p])] = item[p]

\* Each cell waits for its position of the lap at the tail, which is held if it is
\* drawn, or has the item that drew it.
CellAt(k) ==
    \/ /\ seq[Cell(At(k))] = At(k)
       /\ k < Len(Oldest) => \E p \in Busy : pos[p] = At(k)
    \/ /\ seq[Cell(At(k))] = Plus(At(k), 1)
       /\ k < Len(Oldest)
       /\ \A p \in Busy : pos[p] # At(k)
       /\ data[Cell(At(k))] = Oldest[k + 1]

\* The consumer reads and frees a published cell.
Reading == cpc \in {"read", "advance"} => seq[Cell(tail)] = Plus(tail, 1)

\* An item belongs to a caller, to one producer that has no position for it yet,
\* or stands in line, once.
Owners ==
    /\ \A p \in Producers : pc[p] # "idle" => item[p] \in Items \ free
    /\ \A p, q \in Producers :
          pc[p] = "claim" /\ pc[q] = "claim" /\ item[p] = item[q] => p = q
    /\ \A k \in 1..Len(Oldest) :
          /\ Oldest[k] \in Items \ free
          /\ \A p \in Producers : pc[p] = "claim" => item[p] # Oldest[k]
          /\ \A j \in 1..Len(Oldest) : Oldest[j] = Oldest[k] => j = k

IInv ==
    /\ TypeOK /\ Line /\ Holders /\ Writers
    /\ \A k \in 0..(N - 1) : CellAt(k)
    /\ Reading /\ Owners

-----------------------------------------------------------------------------
(* Positions and cells *)

LEMMA Sizes ==
    /\ N \in Nat /\ N >= 2 /\ W \in Nat
    /\ Cardinality(Producers) \in Nat /\ 2 * (N + Cardinality(Producers)) <= W
BY SizeAssumption, WrapAssumption, FS_CardinalityType

\* Division with a remainder, and that there is one way to do it.
LEMMA Divided ==
    ASSUME NEW m \in Nat \ {0}, NEW a \in Nat
    PROVE  a % m \in 0..(m - 1) /\ \E q \in Nat : a = q * m + (a % m)
<1>1. a \div m \in Nat /\ a = (a \div m) * m + (a % m) /\ a % m \in 0..(m - 1)
  OBVIOUS
<1> QED
  BY <1>1

LEMMA Remainder ==
    ASSUME NEW m \in Nat \ {0}, NEW a \in Int, NEW q \in Int, NEW r \in 0..(m - 1),
           a = q * m + r
    PROVE  a % m = r
OBVIOUS

\* A position counted on from another one wraps once at most.
LEMMA PlusIs ==
    ASSUME NEW t \in Positions, NEW k \in 0..W
    PROVE  /\ Plus(t, k) \in Positions
           /\ Plus(t, k) = IF t + k < W THEN t + k ELSE t + k - W
<1>1. W \in Nat \ {0} /\ t \in 0..(W - 1)
  BY Sizes DEF Positions
<1>2. CASE t + k < W
  <2>1. t + k \in 0..(W - 1) /\ t + k = 0 * W + (t + k)
    BY <1>1, <1>2
  <2> QED
    BY <1>1, <1>2, <2>1, Remainder DEF Plus, Positions
<1>3. CASE ~(t + k < W)
  <2>1. t + k - W \in 0..(W - 1) /\ t + k = 1 * W + (t + k - W)
    BY <1>1, <1>3
  <2> QED
    BY <1>1, <1>3, <2>1, Remainder DEF Plus, Positions
<1> QED
  BY <1>2, <1>3

\* How far one position is behind another.
LEMMA Behind ==
    ASSUME NEW t \in Positions, NEW u \in Positions
    PROVE  (u - t) % W = IF t <= u THEN u - t ELSE u - t + W
<1>1. W \in Nat \ {0} /\ t \in 0..(W - 1) /\ u \in 0..(W - 1)
  BY Sizes DEF Positions
<1>2. CASE t <= u
  <2>1. u - t \in 0..(W - 1) /\ u - t = 0 * W + (u - t) /\ u - t \in Int
    BY <1>1, <1>2
  <2> QED
    BY <1>1, <1>2, <2>1, Remainder
<1>3. CASE ~(t <= u)
  <2>1. u - t + W \in 0..(W - 1) /\ u - t = (0 - 1) * W + (u - t + W) /\ u - t \in Int
    BY <1>1, <1>3
  <2> QED
    BY <1>1, <1>3, <2>1, Remainder
<1> QED
  BY <1>2, <1>3

\* Counting on from a position: the places up to the wrap are distinct.
Circle(t) ==
    /\ Plus(t, 0) = t
    /\ \A k \in 0..W : Plus(t, k) \in Positions
    /\ \A k \in 0..(W - 1) :
          /\ (Plus(t, k) - t) % W = k
          /\ Plus(Plus(t, k), 1) = Plus(t, k + 1)
          /\ Plus(Plus(t, 1), k) = Plus(t, k + 1)
          /\ \A j \in 0..(W - 1) : Plus(t, j) = Plus(t, k) => j = k

LEMMA CircleOK == \A t \in Positions : Circle(t)
<1> SUFFICES ASSUME NEW t \in Positions PROVE Circle(t)
  OBVIOUS
<1>1. W \in Nat /\ W >= 4 /\ t \in 0..(W - 1)
  BY Sizes DEF Positions
<1>2. \A u \in Positions, k \in 0..W :
        Plus(u, k) \in Positions /\ Plus(u, k) = IF u + k < W THEN u + k ELSE u + k - W
  BY PlusIs
<1>3. Plus(t, 0) = t
  BY <1>1, <1>2
<1>4. ASSUME NEW k \in 0..(W - 1)
      PROVE  /\ (Plus(t, k) - t) % W = k
             /\ Plus(Plus(t, k), 1) = Plus(t, k + 1)
             /\ Plus(Plus(t, 1), k) = Plus(t, k + 1)
             /\ \A j \in 0..(W - 1) : Plus(t, j) = Plus(t, k) => j = k
  <2>1. /\ Plus(t, k) \in Positions /\ Plus(t, 1) \in Positions
        /\ Plus(t, k) = IF t + k < W THEN t + k ELSE t + k - W
        /\ Plus(t, 1) = IF t + 1 < W THEN t + 1 ELSE t + 1 - W
        /\ Plus(t, k + 1) = IF t + k + 1 < W THEN t + k + 1 ELSE t + k + 1 - W
    BY <1>1, <1>2
  <2>2. PICK u \in 0..(W - 1), v \in 0..(W - 1) : u = Plus(t, k) /\ v = Plus(t, 1)
    BY <2>1 DEF Positions
  <2>3. (u - t) % W = IF t <= u THEN u - t ELSE u - t + W
    BY <2>1, <2>2, Behind
  <2>4. (u - t) % W = k
    BY <1>1, <2>1, <2>2, <2>3
  <2>5. Plus(u, 1) = IF u + 1 < W THEN u + 1 ELSE u + 1 - W
    BY <1>1, <2>1, <2>2, PlusIs
  <2>6. Plus(v, k) = IF v + k < W THEN v + k ELSE v + k - W
    BY <1>1, <2>1, <2>2, PlusIs
  <2>7. Plus(u, 1) = Plus(t, k + 1) /\ Plus(v, k) = Plus(t, k + 1)
    BY <1>1, <2>1, <2>2, <2>5, <2>6
  <2>8. ASSUME NEW j \in 0..(W - 1), Plus(t, j) = Plus(t, k) PROVE j = k
    <3>1. Plus(t, j) = IF t + j < W THEN t + j ELSE t + j - W
      BY <1>1, PlusIs
    <3> QED
      BY <1>1, <2>1, <2>8, <3>1
  <2> QED
    BY <2>2, <2>4, <2>7, <2>8
<1> QED
  BY <1>2, <1>3, <1>4 DEF Circle

LEMMA LapsApart ==
    ASSUME NEW m \in Nat \ {0}, NEW q \in Nat, NEW r \in Nat, q < r
    PROVE  q * m + m <= r * m
<1>1. PICK d \in Nat : r = q + 1 + d
  <2>1. r - q - 1 \in Nat /\ r = q + 1 + (r - q - 1)
    OBVIOUS
  <2> QED
    BY <2>1
<1>2. r * m = q * m + m + d * m
  BY <1>1
<1>3. d * m \in Nat /\ q * m \in Nat
  OBVIOUS
<1> QED
  BY <1>2, <1>3

\* A position is its cell after some whole laps of the cells.
LEMMA CellLap ==
    ASSUME NEW i \in Nat
    PROVE  Cell(i) \in 0..(N - 1) /\ \E q \in Nat : i = q * N + Cell(i)
<1>1. N \in Nat \ {0}
  BY Sizes
<1>2. i % N \in 0..(N - 1) /\ \E q \in Nat : i = q * N + (i % N)
  BY <1>1, Divided
<1> QED
  BY <1>2 DEF Cell

LEMMA CellOfLap ==
    ASSUME NEW q \in Nat, NEW r \in 0..(N - 1)
    PROVE  Cell(q * N + r) = r
<1>1. N \in Nat \ {0} /\ q * N + r \in Int /\ q \in Int
  BY Sizes
<1>2. (q * N + r) % N = r
  BY <1>1, Remainder
<1> QED
  BY <1>2 DEF Cell

\* Positions of one cell are whole laps of the cells apart.
LEMMA CellsApart ==
    ASSUME NEW i \in Nat, NEW j \in Nat, Cell(i) = Cell(j), i < j
    PROVE  i + N <= j
<1>1. PICK r \in 0..(N - 1) : r = Cell(i)
  BY CellLap
<1>2. PICK q \in Nat : i = q * N + r
  BY <1>1, CellLap
<1>3. PICK s \in Nat : j = s * N + r
  BY <1>1, CellLap
<1>4. q * N \in Nat /\ s * N \in Nat
  BY Sizes
<1>5. q < s
  <2> SUFFICES ASSUME s <= q PROVE FALSE
    BY <1>2, <1>3
  <2>1. s = q \/ s < q
    BY <1>2, <1>3
  <2>2. CASE s = q
    BY <1>2, <1>3, <2>2
  <2>3. CASE s < q
    <3>1. s * N + N <= q * N
      BY <2>3, Sizes, LapsApart
    <3> QED
      BY <1>2, <1>3, <1>4, <3>1, Sizes
  <2> QED
    BY <2>1, <2>2, <2>3
<1>6. q * N + N <= s * N
  BY <1>5, Sizes, LapsApart
<1> QED
  BY <1>2, <1>3, <1>4, <1>6, Sizes

\* A position and the one a lap of the cells on, or a wrap back, share a cell.
LEMMA SameCell ==
    ASSUME NEW i \in Nat
    PROVE  /\ Cell(i) \in Cells
           /\ Cell(i + N) = Cell(i)
           /\ i >= W => Cell(i - W) = Cell(i)
<1>1. PICK r \in 0..(N - 1) : r = Cell(i)
  BY CellLap
<1>2. PICK q \in Nat : i = q * N + r
  BY <1>1, CellLap
<1>3. Cell(i + N) = r
  <2>1. i + N = (q + 1) * N + r
    BY <1>2, Sizes
  <2>2. Cell((q + 1) * N + r) = r
    BY CellOfLap
  <2> QED
    BY <2>1, <2>2
<1>4. ASSUME i >= W PROVE Cell(i - W) = r
  <2>1. W \in Nat /\ Cell(W) = 0
    BY Sizes, WrapAssumption DEF Cell
  <2>2. PICK s \in Nat : W = s * N + 0
    BY <2>1, CellLap
  <2>3. s <= q
    <3> SUFFICES ASSUME q < s PROVE FALSE
      BY <1>2, <2>2
    <3>1. q * N + N <= s * N
      BY Sizes, LapsApart
    <3>2. q * N \in Nat /\ s * N \in Nat
      BY Sizes
    <3> QED
      BY <1>2, <1>4, <2>2, <3>1, <3>2, Sizes
  <2>4. q - s \in Nat /\ i - W = (q - s) * N + r
    BY <1>2, <2>2, <2>3, Sizes
  <2>5. Cell((q - s) * N + r) = r
    BY <2>4, CellOfLap
  <2> QED
    BY <2>4, <2>5
<1> QED
  BY <1>1, <1>3, <1>4 DEF Cells

\* The N positions from t on have the N cells.
Lap(t) ==
    /\ \A k \in 0..W : Cell(Plus(t, k)) \in Cells
    /\ \A j, k \in 0..W : Cell(Plus(t, j)) = Cell(Plus(t, k)) /\ j < k => j + N <= k
    /\ Cell(Plus(t, N)) = Cell(t)
    /\ \A c \in Cells : \E k \in 0..(N - 1) : Cell(Plus(t, k)) = c

LEMMA LapOK == \A t \in Positions : Lap(t)
<1> SUFFICES ASSUME NEW t \in Positions PROVE Lap(t)
  OBVIOUS
<1>1. W \in Nat /\ N \in Nat /\ N >= 2 /\ N <= W /\ t \in Nat /\ t < W
  BY Sizes DEF Positions
<1>2. ASSUME NEW k \in 0..W PROVE Cell(Plus(t, k)) = Cell(t + k)
  <2>1. Plus(t, k) = IF t + k < W THEN t + k ELSE t + k - W
    BY PlusIs
  <2>2. t + k \in Nat
    BY <1>1
  <2>3. t + k >= W => Cell((t + k) - W) = Cell(t + k)
    BY <2>2, SameCell
  <2> QED
    BY <1>1, <2>1, <2>2, <2>3
<1>3. \A k \in 0..W : t + k \in Nat /\ Cell(t + k) \in Cells
  BY <1>1, SameCell
<1>4. ASSUME NEW j \in 0..W, NEW k \in 0..W, Cell(Plus(t, j)) = Cell(Plus(t, k)), j < k
      PROVE  j + N <= k
  <2>1. Cell(t + j) = Cell(t + k) /\ t + j \in Nat /\ t + k \in Nat /\ t + j < t + k
    BY <1>1, <1>2, <1>4
  <2>2. (t + j) + N <= t + k
    BY <2>1, CellsApart
  <2> QED
    BY <1>1, <2>2
<1>5. Cell(Plus(t, N)) = Cell(t)
  BY <1>1, <1>2, SameCell
<1>6. ASSUME NEW c \in Cells PROVE \E k \in 0..(N - 1) : Cell(Plus(t, k)) = c
  <2>1. PICK q \in Nat, r \in 0..(N - 1) : t = q * N + r
    BY <1>1, CellLap
  <2>2. c \in 0..(N - 1) /\ q * N \in Nat
    BY <1>1 DEF Cells
  <2>3. CASE r <= c
    <3>1. c - r \in 0..(N - 1) /\ c - r \in 0..W /\ t + (c - r) = q * N + c
      BY <1>1, <2>1, <2>2, <2>3
    <3>2. Cell(t + (c - r)) = c
      BY <2>2, <3>1, CellOfLap
    <3> QED
      BY <1>2, <3>1, <3>2
  <2>4. CASE r > c
    <3>1. /\ c - r + N \in 0..(N - 1) /\ c - r + N \in 0..W
          /\ t + (c - r + N) = (q + 1) * N + c
      BY <1>1, <2>1, <2>2, <2>4
    <3>2. Cell((q + 1) * N + c) = c
      BY <2>2, CellOfLap
    <3> QED
      BY <1>2, <3>1, <3>2
  <2> QED
    BY <2>2, <2>3, <2>4
<1> QED
  BY <1>2, <1>3, <1>4, <1>5, <1>6 DEF Lap

-----------------------------------------------------------------------------
(* What the invariant says of the places behind the tail *)

LEMMA Places ==
    ASSUME TypeOK
    PROVE  /\ At(0) = tail
           /\ \A k \in 0..W : At(k) \in Positions /\ Cell(At(k)) \in Cells
           /\ \A j, k \in 0..(W - 1) : At(j) = At(k) => j = k
           /\ \A k \in 0..(W - 1) :
                Plus(At(k), 1) = At(k + 1) /\ Plus(Plus(tail, 1), k) = At(k + 1)
           /\ \A j, k \in 0..W : Cell(At(j)) = Cell(At(k)) /\ j < k => j + N <= k
           /\ Cell(At(N)) = Cell(tail)
           /\ \A c \in Cells : \E k \in 0..(N - 1) : Cell(At(k)) = c
<1>1. tail \in Positions
  BY DEF TypeOK
<1>2. Circle(tail) /\ Lap(tail)
  BY <1>1, CircleOK, LapOK
<1> QED
  BY <1>2 DEF Circle, Lap, At

\* The items in line and the one being freed.
LEMMA OldestIs ==
    ASSUME IInv
    PROVE  /\ Oldest \in Seq(Items) /\ Len(Oldest) \in Nat
           /\ 2 * Len(Oldest) <= W /\ Len(Oldest) <= N + Cardinality(Producers)
           /\ cpc = "advance" =>
                /\ Len(Oldest) = Len(line) + 1 /\ Oldest[1] = out /\ out \in Items
                /\ \A k \in 1..Len(line) : Oldest[k + 1] = line[k]
           /\ cpc # "advance" => Oldest = line
<1>1. line \in Seq(Items) /\ Len(line) \in Nat /\ out \in Items \cup {NULL}
  BY DEF IInv, TypeOK
<1>2. CASE cpc = "advance"
  <2>1. Oldest = <<out>> \o line
    BY <1>2 DEF Oldest
  <2>2. /\ <<out>> \in Seq(Items \cup {NULL}) /\ line \in Seq(Items \cup {NULL})
        /\ Len(<<out>>) = 1 /\ <<out>>[1] = out
    BY <1>1
  <2>3. /\ Oldest \in Seq(Items \cup {NULL}) /\ Len(Oldest) = Len(line) + 1
        /\ \A i \in 1..(Len(line) + 1) :
              Oldest[i] = IF i <= 1 THEN <<out>>[i] ELSE line[i - 1]
    BY <2>1, <2>2, ConcatProperties
  <2>4. Oldest[1] = out /\ \A k \in 1..Len(line) : Oldest[k + 1] = line[k]
    BY <1>1, <2>2, <2>3
  <2>5. \A k \in 1..Len(Oldest) : Oldest[k] \in Items
    BY DEF IInv, Owners
  <2>6. out \in Items
    BY <1>1, <2>3, <2>4, <2>5
  <2>7. <<out>> \in Seq(Items)
    BY <2>6
  <2>8. Oldest \in Seq(Items)
    BY <1>1, <2>1, <2>7, ConcatProperties
  <2> QED
    BY <1>1, <1>2, <2>3, <2>4, <2>6, <2>8, Sizes DEF IInv, Line
<1>3. CASE cpc # "advance"
  BY <1>1, <1>3, Sizes DEF IInv, Line, Oldest
<1> QED
  BY <1>2, <1>3

\* A cell waits for its position of the lap at the tail, or has the next number.
LEMMA CellNumber ==
    ASSUME IInv, NEW k \in 0..(N - 1)
    PROVE  seq[Cell(At(k))] \in {At(k), At(k + 1)}
<1>1. k \in 0..(W - 1)
  BY Sizes
<1>2. Plus(At(k), 1) = At(k + 1)
  BY <1>1, Places DEF IInv
<1> QED
  BY <1>2 DEF IInv, CellAt

\* The number a position waits for is in its cell only on the lap at the tail.
LEMMA OnLap ==
    ASSUME IInv, NEW k \in 0..(W - 1), seq[Cell(At(k))] = At(k)
    PROVE  k < N
<1>1. TypeOK /\ N \in Nat /\ N >= 2 /\ 2 * N <= W /\ W \in Nat
  BY Sizes DEF IInv
<1>2. Cell(At(k)) \in Cells
  BY <1>1, Places
<1>3. PICK j \in 0..(N - 1) : Cell(At(j)) = Cell(At(k))
  BY <1>1, <1>2, Places
<1>4. seq[Cell(At(j))] \in {At(j), At(j + 1)}
  BY CellNumber
<1>5. j \in 0..(W - 1) /\ j + 1 \in 0..(W - 1)
  BY <1>1
<1>6. At(k) = At(j) \/ At(k) = At(j + 1)
  BY <1>3, <1>4
<1>7. k = j \/ k = j + 1
  BY <1>1, <1>5, <1>6, Places
<1>8. k # j + 1
  <2> SUFFICES ASSUME k = j + 1 PROVE FALSE
    OBVIOUS
  <2>1. j \in 0..W /\ k \in 0..W /\ j < k
    BY <1>1, <1>5
  <2>2. j + N <= k
    BY <1>1, <1>3, <2>1, Places
  <2> QED
    BY <1>1, <1>5, <2>2
<1> QED
  BY <1>1, <1>7, <1>8

\* A producer whose number is in its cell holds a position of that lap.
LEMMA HolderOnLap ==
    ASSUME IInv, NEW p \in Busy, seq[Cell(pos[p])] = pos[p]
    PROVE  \E k \in 0..(N - 1) :
              pos[p] = At(k) /\ k < Len(Oldest) /\ item[p] = Oldest[k + 1]
<1>1. PICK k \in 0..(Len(Oldest) - 1) : pos[p] = At(k) /\ item[p] = Oldest[k + 1]
  BY DEF IInv, Holders
<1>2. k \in 0..(W - 1) /\ k < Len(Oldest)
  BY OldestIs, Sizes
<1>3. k < N
  BY <1>1, <1>2, OnLap
<1>4. k \in 0..(N - 1)
  BY <1>2, <1>3, Sizes
<1> QED
  BY <1>1, <1>2, <1>4

\* The numbers of two cells of the lap at the tail are in two places.
LEMMA LapCells ==
    ASSUME TypeOK, NEW j \in 0..(N - 1), NEW k \in 0..(N - 1), Cell(At(j)) = Cell(At(k))
    PROVE  j = k
<1>1. j \in 0..W /\ k \in 0..W /\ N \in Nat /\ j \in Nat /\ k \in Nat
  BY Sizes
<1>2. (j < k => j + N <= k) /\ (k < j => k + N <= j)
  BY <1>1, Places
<1> QED
  BY <1>1, <1>2

\* A number differs from the next.
LEMMA NextDiffers ==
    ASSUME TypeOK, NEW k \in 0..(W - 2)
    PROVE  At(k) # Plus(At(k), 1) /\ Plus(At(k), 1) = At(k + 1)
<1>1. k \in 0..(W - 1) /\ k + 1 \in 0..(W - 1) /\ k # k + 1
  BY Sizes
<1> QED
  BY <1>1, Places

-----------------------------------------------------------------------------
(* The invariant holds initially *)

LEMMA InitInv == Init => IInv
<1> SUFFICES ASSUME Init PROVE IInv
  OBVIOUS
<1>1. N \in Nat /\ N >= 2 /\ W \in Nat /\ 2 * N <= W /\ Cardinality(Producers) \in Nat
  BY Sizes
<1>2. \A k \in 0..(W - 1) : k \in Positions
  BY DEF Positions
<1>3. TypeOK
  <2>1. seq \in [Cells -> Positions]
    BY <1>1, <1>2 DEF Init, Cells
  <2>2. head \in Positions /\ tail \in Positions /\ pos \in [Producers -> Positions]
    BY <1>1, <1>2 DEF Init
  <2> QED
    BY <2>1, <2>2 DEF Init, TypeOK
<1>4. Oldest = <<>> /\ Len(Oldest) = 0 /\ Busy = {}
  BY DEF Init, Oldest, Busy
<1>5. At(0) = tail
  BY <1>3, Places
<1>6. Line
  BY <1>1, <1>4, <1>5 DEF Init, Line
<1>7. Holders /\ Writers /\ Reading /\ Owners
  <2>1. 0..(Len(Oldest) - 1) = {} /\ N..(Len(Oldest) - 1) = {} /\ 1..Len(Oldest) = {}
    BY <1>1, <1>4
  <2> QED
    BY <1>4, <2>1 DEF Init, Holders, Writers, Reading, Owners
<1>8. ASSUME NEW k \in 0..(N - 1) PROVE CellAt(k)
  <2>1. tail \in Positions /\ tail = 0 /\ k \in 0..W /\ k < W
    BY <1>1, <1>3 DEF Init, TypeOK
  <2>2. At(k) = k
    BY <2>1, PlusIs DEF At
  <2>3. Cell(0 * N + k) = k
    BY CellOfLap
  <2>4. Cell(k) = k
    BY <1>1, <2>3
  <2>5. seq[Cell(At(k))] = At(k)
    BY <2>2, <2>4 DEF Init, Cells
  <2> QED
    BY <1>4, <2>5 DEF CellAt
<1> QED
  BY <1>3, <1>6, <1>7, <1>8 DEF IInv

-----------------------------------------------------------------------------
(* The steps of enqueue *)

LEMMA EnqCallInv ==
    ASSUME IInv, NEW p \in Producers, EnqCall(p)
    PROVE  IInv'
<1>1. PICK i \in free : item' = [item EXCEPT ![p] = i] /\ free' = free \ {i}
  BY DEF EnqCall
<1>2. i \in Items /\ pc[p] = "idle" /\ item'[p] = i
  BY <1>1 DEF EnqCall, IInv, TypeOK
<1>3. TypeOK'
  BY <1>1, <1>2 DEF EnqCall, consumerVars, IInv, TypeOK
<1>4. /\ Oldest' = Oldest /\ Busy' = Busy /\ \A k : At(k)' = At(k)
      /\ pos' = pos /\ seq' = seq /\ data' = data /\ head' = head
      /\ \A q \in Producers \ {p} : pc'[q] = pc[q] /\ item'[q] = item[q]
      /\ pc'[p] = "claim" /\ p \notin Busy
  BY <1>1, <1>2 DEF EnqCall, consumerVars, Oldest, Busy, At, IInv, TypeOK
<1>5. Line'
  BY <1>4 DEF IInv, Line
<1>6. Holders'
  <2>1. \A q \in Busy : q \in Producers \ {p}
    BY <1>4 DEF Busy
  <2> QED
    BY <1>4, <2>1 DEF IInv, Holders
<1>7. Writers'
  BY <1>4 DEF IInv, Writers
<1>8. ASSUME NEW k \in 0..(N - 1) PROVE CellAt(k)'
  BY <1>4 DEF IInv, CellAt
<1>9. Reading'
  BY DEF EnqCall, consumerVars, IInv, Reading
<1>10. Owners'
  <2>1. \A q \in Producers \ {p} : pc[q] # "idle" => item[q] \in Items \ free /\ item[q] # i
    BY DEF IInv, Owners
  <2>2. \A k \in 1..Len(Oldest) : Oldest[k] \in Items \ free /\ Oldest[k] # i
    BY DEF IInv, Owners
  <2> QED
    BY <1>1, <1>2, <1>4, <2>1, <2>2 DEF IInv, Owners
<1> QED
  BY <1>3, <1>5, <1>6, <1>7, <1>8, <1>9, <1>10 DEF IInv

LEMMA EnqSpinInv ==
    ASSUME IInv, NEW p \in Producers, EnqSpin(p)
    PROVE  IInv'
<1>1. /\ Oldest' = Oldest /\ Busy' = Busy /\ \A k : At(k)' = At(k)
      /\ pos' = pos /\ seq' = seq /\ data' = data /\ head' = head /\ item' = item
      /\ free' = free /\ cpc' = cpc /\ tail' = tail
      /\ \A q \in Producers \ {p} : pc'[q] = pc[q]
      /\ pc[p] = "spin" /\ pc'[p] = "write"
  BY DEF EnqSpin, consumerVars, Oldest, Busy, At, IInv, TypeOK
<1>2. seq[Cell(pos[p])] = pos[p]
  <2>1. PICK k \in 0..(Len(Oldest) - 1) : pos[p] = At(k)
    BY <1>1 DEF IInv, Holders, Busy
  <2>2. k \in 0..W /\ TypeOK
    BY OldestIs, Sizes DEF IInv
  <2>3. Cell(pos[p]) \in Cells /\ pos[p] \in Positions
    BY <2>1, <2>2, Places
  <2>4. seq[Cell(pos[p])] \in Positions
    BY <2>2, <2>3 DEF TypeOK
  <2> DEFINE s == seq[Cell(pos[p])]
             t == pos[p]
  <2>5. (s - t) % W = IF t <= s THEN s - t ELSE s - t + W
    BY <2>3, <2>4, Behind
  <2>6. Dif(s, t) = 0
    BY DEF EnqSpin
  <2>7. s \in 0..(W - 1) /\ t \in 0..(W - 1) /\ W \in Nat
    BY <2>3, <2>4, Sizes DEF Positions
  <2> HIDE DEF s, t
  <2>8. (s - t) % W = 0 \/ ((s - t) % W) - W = 0
    BY <2>6 DEF Dif
  <2>9. s = t
    BY <2>5, <2>7, <2>8
  <2> QED
    BY <2>9 DEF s, t
<1>3. TypeOK'
  BY DEF EnqSpin, consumerVars, IInv, TypeOK
<1>4. Line' /\ Holders' /\ Reading'
  BY <1>1 DEF IInv, Line, Holders, Reading
<1>5. Writers'
  BY <1>1, <1>2 DEF IInv, Writers
<1>6. ASSUME NEW k \in 0..(N - 1) PROVE CellAt(k)'
  BY <1>1 DEF IInv, CellAt
<1>7. Owners'
  BY <1>1 DEF IInv, Owners
<1> QED
  BY <1>3, <1>4, <1>5, <1>6, <1>7 DEF IInv

LEMMA EnqWriteInv ==
    ASSUME IInv, NEW p \in Producers, EnqWrite(p)
    PROVE  IInv'
<1>1. /\ Oldest' = Oldest /\ Busy' = Busy /\ \A k : At(k)' = At(k)
      /\ pos' = pos /\ seq' = seq /\ head' = head /\ item' = item
      /\ free' = free /\ cpc' = cpc /\ tail' = tail
      /\ \A q \in Producers \ {p} : pc'[q] = pc[q]
      /\ pc[p] = "write" /\ pc'[p] = "publish" /\ p \in Busy
  BY DEF EnqWrite, consumerVars, Oldest, Busy, At, IInv, TypeOK
<1>2. seq[Cell(pos[p])] = pos[p]
  BY <1>1 DEF IInv, Writers
<1>3. PICK k \in 0..(N - 1) : pos[p] = At(k)
  BY <1>1, <1>2, HolderOnLap
<1>4. TypeOK /\ k \in 0..W /\ k \in 0..(W - 2)
  BY Sizes DEF IInv
<1>5. Cell(pos[p]) \in Cells
  BY <1>3, <1>4, Places
<1>6. /\ data'[Cell(pos[p])] = item[p]
      /\ \A c \in Cells : c # Cell(pos[p]) => data'[c] = data[c]
  BY <1>5 DEF EnqWrite, IInv, TypeOK
<1>7. TypeOK'
  <2>1. item[p] \in Items \cup {NULL}
    BY <1>4 DEF TypeOK
  <2>2. data' \in [Cells -> Items \cup {NULL}]
    BY <1>4, <2>1 DEF EnqWrite, TypeOK
  <2>3. pc' \in [Producers -> {"idle", "claim", "spin", "write", "publish"}]
    BY <1>4 DEF EnqWrite, TypeOK
  <2> QED
    BY <1>1, <2>2, <2>3 DEF EnqWrite, consumerVars, IInv, TypeOK
<1>8. Line' /\ Holders' /\ Reading'
  BY <1>1 DEF IInv, Line, Holders, Reading
<1>9. Writers'
  <2>1. \A q \in Producers : pc'[q] \in {"write", "publish"} => seq[Cell(pos[q])] = pos[q]
    BY <1>1, <1>2 DEF IInv, Writers
  <2>2. ASSUME NEW q \in Producers, pc'[q] = "publish"
        PROVE  data'[Cell(pos[q])] = item[q]
    <3>1. CASE q = p
      BY <1>6, <3>1
    <3>2. CASE q # p
      <4>1. pc[q] = "publish" /\ q \in Busy
        BY <1>1, <2>2, <3>2 DEF Busy
      <4>2. data[Cell(pos[q])] = item[q] /\ seq[Cell(pos[q])] = pos[q]
        BY <4>1 DEF IInv, Writers
      <4>3. Cell(pos[q]) # Cell(pos[p])
        <5> SUFFICES ASSUME Cell(pos[q]) = Cell(pos[p]) PROVE FALSE
          OBVIOUS
        <5>1. pos[q] = pos[p]
          BY <1>2, <4>2
        <5> QED
          BY <1>1, <3>2, <4>1, <5>1 DEF IInv, Holders
      <4>4. Cell(pos[q]) \in Cells
        <5>1. \E j \in 0..(N - 1) : pos[q] = At(j)
          BY <4>1, <4>2, HolderOnLap
        <5> QED
          BY <1>4, <5>1, Sizes, Places
      <4> QED
        BY <1>6, <4>2, <4>3, <4>4
    <3> QED
      BY <3>1, <3>2
  <2> QED
    BY <1>1, <2>1, <2>2 DEF Writers
<1>10. ASSUME NEW j \in 0..(N - 1) PROVE CellAt(j)'
  <2>1. j \in 0..W /\ Cell(At(j)) \in Cells
    BY <1>4, Sizes, Places
  <2>2. CASE j = k
    BY <1>1, <1>2, <1>3, <2>2 DEF CellAt
  <2>3. CASE j # k
    <3>1. Cell(At(j)) # Cell(pos[p])
      BY <1>3, <1>4, <2>3, LapCells
    <3>2. data'[Cell(At(j))] = data[Cell(At(j))]
      BY <1>6, <2>1, <3>1
    <3>3. CellAt(j)
      BY DEF IInv
    <3> QED
      BY <1>1, <3>2, <3>3 DEF CellAt
  <2> QED
    BY <2>2, <2>3
<1>11. Owners'
  BY <1>1 DEF IInv, Owners
<1> QED
  BY <1>7, <1>8, <1>9, <1>10, <1>11 DEF IInv

LEMMA EnqPublishInv ==
    ASSUME IInv, NEW p \in Producers, EnqPublish(p)
    PROVE  IInv'
<1>1. /\ Oldest' = Oldest /\ Busy' = Busy \ {p} /\ \A k : At(k)' = At(k)
      /\ data' = data /\ head' = head
      /\ free' = free /\ cpc' = cpc /\ tail' = tail
      /\ \A q \in Producers \ {p} :
            pc'[q] = pc[q] /\ pos'[q] = pos[q] /\ item'[q] = item[q]
      /\ pc[p] = "publish" /\ pc'[p] = "idle" /\ p \in Busy
  BY DEF EnqPublish, consumerVars, Oldest, Busy, At, IInv, TypeOK
<1>2. seq[Cell(pos[p])] = pos[p] /\ data[Cell(pos[p])] = item[p]
  BY <1>1 DEF IInv, Writers
<1>3. PICK k \in 0..(N - 1) : pos[p] = At(k) /\ k < Len(Oldest) /\ item[p] = Oldest[k + 1]
  BY <1>1, <1>2, HolderOnLap
<1>4. TypeOK /\ k \in 0..W /\ k \in 0..(W - 2) /\ N \in Nat
  BY Sizes DEF IInv
<1>5. Cell(pos[p]) \in Cells /\ Plus(pos[p], 1) \in Positions
  <2>1. k + 1 \in 0..W
    BY <1>4, Sizes
  <2> QED
    BY <1>3, <1>4, <2>1, NextDiffers, Places
<1>6. /\ seq'[Cell(pos[p])] = Plus(pos[p], 1)
      /\ \A c \in Cells : c # Cell(pos[p]) => seq'[c] = seq[c]
  BY <1>5 DEF EnqPublish, IInv, TypeOK
<1>7. pos[p] # Plus(pos[p], 1)
  BY <1>3, <1>4, NextDiffers
<1>8. TypeOK'
  <2>1. seq' \in [Cells -> Positions]
    BY <1>4, <1>5 DEF EnqPublish, TypeOK
  <2>2. 0 \in Positions
    BY Sizes DEF Positions
  <2>3. /\ pos' \in [Producers -> Positions] /\ item' \in [Producers -> Items \cup {NULL}]
        /\ pc' \in [Producers -> {"idle", "claim", "spin", "write", "publish"}]
    BY <1>4, <2>2 DEF EnqPublish, TypeOK
  <2> QED
    BY <1>4, <2>1, <2>3 DEF EnqPublish, consumerVars, TypeOK
<1>9. Line'
  BY <1>1 DEF IInv, Line
<1>10. \A q \in Busy \ {p} : q \in Producers \ {p} /\ pos[q] # pos[p]
  BY <1>1 DEF Busy, IInv, Holders
<1>11. Holders'
  <2>1. \A q \in Busy \ {p} : \E j \in 0..(Len(Oldest) - 1) :
           pos'[q] = At(j) /\ item'[q] = Oldest[j + 1]
    BY <1>1, <1>10 DEF IInv, Holders
  <2>2. \A q, r \in Busy \ {p} : pos'[q] = pos'[r] => q = r
    BY <1>1, <1>10 DEF IInv, Holders
  <2>3. ASSUME NEW j \in N..(Len(Oldest) - 1)
        PROVE  \E q \in Busy \ {p} : pos'[q] = At(j)
    <3>1. PICK q \in Busy : pos[q] = At(j)
      BY DEF IInv, Holders
    <3>2. j \in 0..(W - 1) /\ k \in 0..(W - 1) /\ j # k
      BY <1>4, OldestIs, Sizes
    <3>3. q # p
      BY <1>3, <1>4, <3>1, <3>2, Places
    <3> QED
      BY <1>1, <1>10, <3>1, <3>3
  <2> QED
    BY <1>1, <2>1, <2>2, <2>3 DEF Holders
<1>12. Writers'
  <2> SUFFICES ASSUME NEW q \in Producers \ {p}, pc[q] \in {"write", "publish"}
               PROVE  seq'[Cell(pos[q])] = pos[q]
    BY <1>1 DEF IInv, Writers
  <2>1. q \in Busy \ {p} /\ seq[Cell(pos[q])] = pos[q]
    BY DEF Busy, IInv, Writers
  <2>2. Cell(pos[q]) # Cell(pos[p])
    BY <1>2, <1>10, <2>1
  <2>3. \E j \in 0..(N - 1) : pos[q] = At(j)
    BY <2>1, HolderOnLap
  <2>4. Cell(pos[q]) \in Cells
    BY <1>4, <2>3, Sizes, Places
  <2> QED
    BY <1>6, <2>1, <2>2, <2>4
<1>13. ASSUME NEW j \in 0..(N - 1) PROVE CellAt(j)'
  <2>1. j \in 0..(W - 1) /\ j \in 0..W /\ Cell(At(j)) \in Cells
    BY <1>4, Sizes, Places
  <2>2. CASE j = k
    <3>1. \A q \in Busy \ {p} : pos'[q] # At(k)
      BY <1>1, <1>3, <1>10
    <3> QED
      BY <1>1, <1>2, <1>3, <1>6, <2>2, <3>1 DEF CellAt
  <2>3. CASE j # k
    <3>1. Cell(At(j)) # Cell(pos[p])
      BY <1>3, <1>4, <2>3, LapCells
    <3>2. seq'[Cell(At(j))] = seq[Cell(At(j))]
      BY <1>6, <2>1, <3>1
    <3>3. CellAt(j)
      BY DEF IInv
    <3>4. k \in 0..(W - 1)
      BY <1>4, Sizes
    <3>5. At(j) # pos[p]
      BY <1>3, <1>4, <2>1, <2>3, <3>4, Places
    <3>6. /\ (\E q \in Busy : pos[q] = At(j)) => \E q \in Busy \ {p} : pos'[q] = At(j)
          /\ (\A q \in Busy : pos[q] # At(j)) => \A q \in Busy \ {p} : pos'[q] # At(j)
      BY <1>1, <1>10, <3>5
    <3> QED
      BY <1>1, <3>2, <3>3, <3>6 DEF CellAt
  <2> QED
    BY <2>2, <2>3
<1>14. Reading'
  <2> SUFFICES ASSUME cpc \in {"read", "advance"} PROVE seq'[Cell(tail)] = Plus(tail, 1)
    BY <1>1 DEF Reading
  <2>1. seq[Cell(tail)] = Plus(tail, 1)
    BY DEF IInv, Reading
  <2>2. Cell(tail) # Cell(pos[p])
    <3> SUFFICES ASSUME Cell(tail) = Cell(pos[p]) PROVE FALSE
      OBVIOUS
    <3>1. At(0) = tail /\ 0 \in 0..(N - 1)
      BY <1>4, Places, Sizes
    <3>2. k = 0
      BY <1>3, <1>4, <3>1, LapCells
    <3>3. pos[p] = tail
      BY <1>3, <3>1, <3>2
    <3> QED
      BY <1>2, <1>7, <2>1, <3>3
  <2>3. Cell(tail) \in Cells
    BY <1>4, Places, Sizes
  <2> QED
    BY <1>6, <2>1, <2>2, <2>3
<1>15. Owners'
  BY <1>1 DEF IInv, Owners
<1> QED
  BY <1>8, <1>9, <1>11, <1>12, <1>13, <1>14, <1>15 DEF IInv

\* No more positions are drawn than there are cells and threads: every position
\* behind the cells has a thread of its own, other than one about to draw.
LEMMA RoomToClaim ==
    ASSUME IInv, NEW p \in Producers, pc[p] = "claim"
    PROVE  Len(Oldest) < N + Cardinality(Producers)
<1> DEFINE M == Len(Oldest)
           Late == N..(M - 1)
           holder == [k \in Late |-> CHOOSE q \in Busy : pos[q] = At(k)]
<1>1. /\ TypeOK /\ M \in Nat
      /\ N \in Nat /\ N >= 2 /\ W \in Nat /\ Cardinality(Producers) \in Nat
      /\ 2 * (N + Cardinality(Producers)) <= W /\ M <= N + Cardinality(Producers)
  BY OldestIs, Sizes DEF IInv
<1> SUFFICES ASSUME M = N + Cardinality(Producers) PROVE FALSE
  BY <1>1
<1>2. \A k \in Late : holder[k] \in Busy /\ pos[holder[k]] = At(k)
  <2>1. \A k \in Late : \E q \in Busy : pos[q] = At(k)
    BY DEF IInv, Holders
  <2> QED
    BY <2>1
<1>3. IsFiniteSet(Late) /\ Cardinality(Late) = Cardinality(Producers)
  <2>1. N \in Int /\ M - 1 \in Int /\ (M - 1) - N + 1 = Cardinality(Producers)
    BY <1>1
  <2>2. /\ IsFiniteSet(N..(M - 1))
        /\ Cardinality(N..(M - 1)) = IF N > M - 1 THEN 0 ELSE (M - 1) - N + 1
    BY <2>1, FS_Interval
  <2> QED
    BY <1>1, <2>1, <2>2
<1>4. /\ IsFiniteSet(Producers \ {p})
      /\ Cardinality(Producers \ {p}) = Cardinality(Producers) - 1
  BY WrapAssumption, FS_RemoveElement
<1>5. holder \in [Late -> Producers \ {p}]
  BY <1>2 DEF Busy
<1>6. Cardinality(Producers \ {p}) < Cardinality(Late)
  BY <1>1, <1>3, <1>4
<1> HIDE DEF holder, Late
<1>7. PICK j \in Late, k \in Late : j # k /\ holder[j] = holder[k]
  BY <1>3, <1>4, <1>5, <1>6, FS_PigeonHole
<1>8. At(j) = At(k)
  BY <1>2, <1>7
<1>9. j \in 0..(W - 1) /\ k \in 0..(W - 1)
  BY <1>1, <1>7 DEF Late
<1> QED
  BY <1>1, <1>7, <1>8, <1>9, Places

\* The position drawn is the one behind those in line.
LEMMA EnqClaimInv ==
    ASSUME IInv, NEW p \in Producers, EnqClaim(p)
    PROVE  IInv'
<1> DEFINE M == Len(Oldest)
<1>1. /\ \A k : At(k)' = At(k)
      /\ seq' = seq /\ data' = data /\ item' = item
      /\ free' = free /\ cpc' = cpc /\ tail' = tail
      /\ \A q \in Producers \ {p} : pc'[q] = pc[q] /\ pos'[q] = pos[q]
      /\ pc[p] = "claim" /\ pc'[p] = "spin" /\ p \notin Busy /\ Busy' = Busy \cup {p}
      /\ pos'[p] = head /\ head' = Plus(head, 1)
  BY DEF EnqClaim, consumerVars, Busy, At, IInv, TypeOK
<1>2. /\ TypeOK /\ M \in Nat /\ Oldest \in Seq(Items)
      /\ N \in Nat /\ N >= 2 /\ W \in Nat /\ Cardinality(Producers) \in Nat
      /\ 2 * (N + Cardinality(Producers)) <= W /\ M <= N + Cardinality(Producers)
  BY OldestIs, Sizes DEF IInv
<1>3. item[p] \in Items \ free
  BY <1>1 DEF IInv, Owners
<1>4. Oldest' = Append(Oldest, item[p])
  <2>1. line' = line \o <<item[p]>>
    BY <1>2, <1>3 DEF EnqClaim, TypeOK
  <2>2. CASE cpc = "advance"
    <3>1. Oldest = <<out>> \o line /\ Oldest' = <<out>> \o line'
      BY <1>1, <2>2 DEF EnqClaim, consumerVars, Oldest
    <3>2. line \in Seq(Items) /\ out \in Items
      BY <1>2, <2>2, OldestIs DEF TypeOK
    <3>3. <<out>> \in Seq(Items) /\ <<item[p]>> \in Seq(Items)
      BY <1>3, <3>2
    <3>4. \A s, t, u \in Seq(Items) : (s \o t) \o u = s \o (t \o u)
      BY ConcatAssociative
    <3>5. Oldest' = (<<out>> \o line) \o <<item[p]>>
      BY <2>1, <3>1, <3>2, <3>3, <3>4
    <3> QED
      BY <1>2, <1>3, <3>1, <3>5
  <2>3. CASE cpc # "advance"
    BY <1>1, <2>3 DEF EnqClaim, Oldest
  <2> QED
    BY <2>2, <2>3
<1>5. /\ Len(Oldest)' = M + 1
      /\ \A k \in 1..M : Oldest'[k] = Oldest[k]
      /\ Oldest'[M + 1] = item[p]
  BY <1>2, <1>3, <1>4
<1>6. head = At(M)
  BY DEF IInv, Line
<1>7. \A q \in Busy : \E k \in 0..(M - 1) : pos[q] = At(k) /\ item[q] = Oldest[k + 1]
  BY DEF IInv, Holders
<1>8. \A k \in N..(M - 1) : \E q \in Busy : pos[q] = At(k)
  BY DEF IInv, Holders
<1>9. /\ \A j, k \in 0..(W - 1) : At(j) = At(k) => j = k
      /\ At(M) \in Positions /\ At(M + 1) \in Positions
      /\ Plus(At(M), 1) = At(M + 1)
  <2>1. M \in 0..W /\ M + 1 \in 0..W /\ M \in 0..(W - 1)
    BY <1>2
  <2> QED
    BY <1>2, <2>1, Places
<1>10. M < N + Cardinality(Producers)
  BY <1>1, RoomToClaim
<1> HIDE DEF M
<1>11. TypeOK'
  <2>1. head' \in Positions /\ head \in Positions
    BY <1>1, <1>6, <1>9
  <2>2. /\ pos' \in [Producers -> Positions]
        /\ pc' \in [Producers -> {"idle", "claim", "spin", "write", "publish"}]
    BY <1>2, <2>1 DEF EnqClaim, TypeOK
  <2>3. line' \in Seq(Items)
    BY <1>2, <1>3 DEF EnqClaim, TypeOK
  <2> QED
    BY <1>2, <2>1, <2>2, <2>3 DEF EnqClaim, consumerVars, TypeOK
<1>12. Line'
  <2>1. head' = At(M + 1)
    BY <1>1, <1>6, <1>9
  <2>2. M + 1 <= N + Cardinality(Producers)
    BY <1>2, <1>10
  <2> QED
    BY <1>1, <1>5, <2>1, <2>2 DEF Line, At
<1>13. \A q \in Busy : q # p /\ q \in Producers \ {p} /\ pos'[q] = pos[q] /\ pos'[q] # At(M)
  <2> SUFFICES ASSUME NEW q \in Busy
               PROVE  q # p /\ q \in Producers \ {p} /\ pos'[q] = pos[q] /\ pos'[q] # At(M)
    OBVIOUS
  <2>1. q # p /\ q \in Producers \ {p} /\ pos'[q] = pos[q]
    BY <1>1 DEF Busy
  <2>2. PICK k \in 0..(M - 1) : pos[q] = At(k)
    BY <1>7
  <2>3. k \in 0..(W - 1) /\ M \in 0..(W - 1) /\ k # M
    BY <1>2
  <2> QED
    BY <1>9, <2>1, <2>2, <2>3
<1>14. Holders'
  <2>1. ASSUME NEW q \in Busy \cup {p}
        PROVE  \E k \in 0..M : pos'[q] = At(k) /\ item[q] = Oldest'[k + 1]
    <3>1. CASE q = p
      BY <1>1, <1>2, <1>5, <1>6, <3>1
    <3>2. CASE q # p
      <4>1. PICK k \in 0..(M - 1) : pos[q] = At(k) /\ item[q] = Oldest[k + 1]
        BY <1>7, <3>2
      <4>2. k + 1 \in 1..M /\ k \in 0..M
        BY <1>2
      <4> QED
        BY <1>5, <1>13, <3>2, <4>1, <4>2
    <3> QED
      BY <3>1, <3>2
  <2>2. \A q, r \in Busy \cup {p} : pos'[q] = pos'[r] => q = r
    BY <1>1, <1>6, <1>13 DEF IInv, Holders
  <2>3. \A k \in N..M : \E q \in Busy \cup {p} : pos'[q] = At(k)
    <3> SUFFICES ASSUME NEW k \in N..M PROVE \E q \in Busy \cup {p} : pos'[q] = At(k)
      OBVIOUS
    <3>1. CASE k = M
      BY <1>1, <1>6, <3>1
    <3>2. CASE k # M
      <4>1. k \in N..(M - 1)
        BY <1>2, <3>2
      <4> QED
        BY <1>8, <1>13, <4>1
    <3> QED
      BY <3>1, <3>2
  <2>4. Len(Oldest)' - 1 = M
    BY <1>2, <1>5
  <2> QED
    BY <1>1, <2>1, <2>2, <2>3, <2>4 DEF Holders
<1>15. Writers'
  BY <1>1 DEF IInv, Writers
<1>16. ASSUME NEW k \in 0..(N - 1) PROVE CellAt(k)'
  <2>1. CellAt(k)
    BY DEF IInv
  <2>2. CASE seq[Cell(At(k))] = At(k) /\ (k < M => \E q \in Busy : pos[q] = At(k))
    <3>1. k < M + 1 => \E q \in Busy \cup {p} : pos'[q] = At(k)
      <4>1. CASE k < M
        BY <1>13, <2>2, <4>1
      <4>2. CASE k = M
        BY <1>1, <1>6, <4>2
      <4> QED
        BY <1>2, <4>1, <4>2
    <3> QED
      BY <1>1, <1>5, <2>2, <3>1 DEF CellAt
  <2>3. CASE /\ seq[Cell(At(k))] = Plus(At(k), 1)
             /\ k < M
             /\ \A q \in Busy : pos[q] # At(k)
             /\ data[Cell(At(k))] = Oldest[k + 1]
    <3>1. k < M + 1 /\ k + 1 \in 1..M
      BY <1>2, <2>3
    <3>2. Oldest'[k + 1] = Oldest[k + 1]
      BY <1>5, <3>1
    <3>3. pos'[p] # At(k)
      <4>1. k \in 0..(W - 1) /\ M \in 0..(W - 1) /\ k # M
        BY <1>2, <2>3
      <4> QED
        BY <1>1, <1>6, <1>9, <4>1
    <3>4. \A q \in Busy \cup {p} : pos'[q] # At(k)
      BY <1>13, <2>3, <3>3
    <3> QED
      BY <1>1, <1>5, <2>3, <3>1, <3>2, <3>4 DEF CellAt
  <2> QED
    BY <2>1, <2>2, <2>3 DEF CellAt, M
<1>17. Reading'
  BY <1>1 DEF IInv, Reading
<1>18. Owners'
  <2>1. \A q \in Producers : pc'[q] # "idle" => item[q] \in Items \ free
    BY <1>1 DEF IInv, Owners
  <2>2. \A q, r \in Producers :
           pc'[q] = "claim" /\ pc'[r] = "claim" /\ item[q] = item[r] => q = r
    BY <1>1 DEF IInv, Owners
  <2>3. \A k \in 1..M :
          /\ Oldest[k] \in Items \ free /\ Oldest[k] # item[p]
          /\ \A q \in Producers : pc[q] = "claim" => item[q] # Oldest[k]
          /\ \A j \in 1..M : Oldest[j] = Oldest[k] => j = k
    BY <1>1 DEF IInv, Owners, M
  <2>4. \A k \in 1..(M + 1) : k \in 1..M \/ k = M + 1
    BY <1>2
  <2>5. \A k \in 1..(M + 1) : Oldest'[k] \in Items \ free
    BY <1>3, <1>5, <2>3, <2>4
  <2>6. \A k \in 1..(M + 1) : \A q \in Producers : pc'[q] = "claim" => item[q] # Oldest'[k]
    BY <1>1, <1>5, <2>3, <2>4 DEF IInv, Owners
  <2>7. \A j, k \in 1..(M + 1) : Oldest'[j] = Oldest'[k] => j = k
    BY <1>5, <2>3, <2>4
  <2> QED
    BY <1>1, <1>5, <2>1, <2>2, <2>5, <2>6, <2>7 DEF Owners
<1> QED
  BY <1>11, <1>12, <1>14, <1>15, <1>16, <1>17, <1>18 DEF IInv

-----------------------------------------------------------------------------
(* The steps of dequeue *)

LEMMA DeqLoadInv ==
    ASSUME IInv, DeqLoad
    PROVE  IInv'
<1>1. /\ Oldest' = Oldest /\ Busy' = Busy /\ \A k : At(k)' = At(k)
      /\ pc' = pc /\ item' = item /\ pos' = pos /\ head' = head
      /\ seq' = seq /\ data' = data /\ free' = free /\ tail' = tail
  BY DEF DeqLoad, producerVars, Oldest, Busy, At
<1>2. TypeOK'
  BY DEF DeqLoad, producerVars, IInv, TypeOK
<1>3. Line' /\ Holders' /\ Writers' /\ Owners'
  BY <1>1 DEF IInv, Line, Holders, Writers, Owners
<1>4. ASSUME NEW k \in 0..(N - 1) PROVE CellAt(k)'
  BY <1>1 DEF IInv, CellAt
<1>5. seq[Cell(tail)] = Plus(tail, 1)
  <2>1. TypeOK /\ 0 \in 0..(N - 1) /\ 0 \in 0..(W - 1) /\ 1 \in 0..W /\ W \in Nat /\ W >= 4
    BY Sizes DEF IInv
  <2>2. At(0) = tail /\ tail \in Positions /\ Plus(tail, 1) = At(1) /\ At(1) \in Positions
    BY <2>1, Places DEF At, TypeOK
  <2>3. seq[Cell(tail)] = tail \/ seq[Cell(tail)] = Plus(tail, 1)
    BY <2>1, <2>2, CellNumber
  <2>4. seq[Cell(tail)] # tail
    <3> SUFFICES ASSUME seq[Cell(tail)] = tail PROVE FALSE
      OBVIOUS
    <3> DEFINE u == Plus(tail, 1)
    <3>1. Dif(tail, u) >= 0
      BY DEF DeqLoad
    <3>2. u = IF tail + 1 < W THEN tail + 1 ELSE tail + 1 - W
      BY <2>1, <2>2, PlusIs
    <3>3. (tail - u) % W = IF u <= tail THEN tail - u ELSE tail - u + W
      BY <2>2, Behind
    <3>4. tail \in 0..(W - 1)
      BY <2>1, <2>2 DEF Positions
    <3> HIDE DEF u
    <3>5. (tail - u) % W = W - 1
      BY <2>1, <3>2, <3>3, <3>4
    <3>6. ~(W - 1 < W \div 2) /\ (W - 1) - W = -1
      BY <2>1
    <3>7. Dif(tail, u) = -1
      BY <3>5, <3>6 DEF Dif
    <3> QED
      BY <3>1, <3>7
  <2> QED
    BY <2>3, <2>4
<1>6. Reading'
  BY <1>1, <1>5 DEF Reading
<1> QED
  BY <1>2, <1>3, <1>4, <1>6 DEF IInv

\* The cell at the tail has the oldest item.
LEMMA ReadsOldest ==
    ASSUME IInv, cpc \in {"read", "advance"}
    PROVE  /\ 0 < Len(Oldest) /\ data[Cell(tail)] = Oldest[1]
           /\ \A p \in Busy : pos[p] # tail
<1>1. TypeOK /\ 0 \in 0..(N - 1) /\ 0 \in 0..(W - 2)
  BY Sizes DEF IInv
<1>2. At(0) = tail /\ tail # Plus(tail, 1)
  BY <1>1, Places, NextDiffers
<1>3. seq[Cell(tail)] = Plus(tail, 1)
  BY DEF IInv, Reading
<1>4. CellAt(0)
  BY <1>1 DEF IInv
<1>5. 0 + 1 = 1
  OBVIOUS
<1> QED
  BY <1>2, <1>3, <1>4, <1>5 DEF CellAt

LEMMA DeqReadInv ==
    ASSUME IInv, DeqRead
    PROVE  IInv'
<1>1. /\ Busy' = Busy /\ \A k : At(k)' = At(k)
      /\ pc' = pc /\ item' = item /\ pos' = pos /\ head' = head
      /\ seq' = seq /\ data' = data /\ free' = free /\ tail' = tail
      /\ cpc = "read" /\ cpc' = "advance"
  BY DEF DeqRead, producerVars, Busy, At
<1>2. Oldest = line /\ line \in Seq(Items) /\ Len(line) \in Nat
  BY <1>1, OldestIs
<1>3. line # <<>> /\ out' = line[1]
  <2>1. 0 < Len(Oldest) /\ data[Cell(tail)] = Oldest[1]
    BY <1>1, ReadsOldest
  <2> QED
    BY <1>2, <2>1 DEF DeqRead
<1>4. Oldest' = Oldest
  <2>1. Oldest' = <<out'>> \o line'
    BY <1>1 DEF Oldest
  <2>2. line' = Tail(line)
    BY DEF DeqRead
  <2>3. line = <<line[1]>> \o Tail(line)
    BY <1>2, <1>3
  <2> QED
    BY <1>2, <1>3, <2>1, <2>2, <2>3
<1>5. TypeOK'
  BY <1>1, <1>2, <1>3 DEF DeqRead, IInv, TypeOK
<1>6. Line' /\ Holders' /\ Writers' /\ Owners'
  BY <1>1, <1>4 DEF IInv, Line, Holders, Writers, Owners
<1>7. ASSUME NEW k \in 0..(N - 1) PROVE CellAt(k)'
  BY <1>1, <1>4 DEF IInv, CellAt
<1>8. Reading'
  BY <1>1 DEF IInv, Reading
<1> QED
  BY <1>5, <1>6, <1>7, <1>8 DEF IInv

\* Freeing the cell moves the lap on by one place: the cell is now the last of the
\* lap, and its new position is held if it is drawn.
LEMMA DeqAdvanceInv ==
    ASSUME IInv, DeqAdvance
    PROVE  IInv'
<1> DEFINE M == Len(Oldest)
<1>1. /\ Busy' = Busy /\ line' = line /\ Oldest' = line
      /\ pc' = pc /\ item' = item /\ pos' = pos /\ head' = head
      /\ data' = data /\ free' = free \cup {out} /\ tail' = Plus(tail, 1)
      /\ cpc = "advance" /\ cpc' = "idle" /\ out' = out
  BY DEF DeqAdvance, producerVars, Busy, Oldest
<1>2. /\ TypeOK /\ M \in Nat /\ M = Len(line) + 1 /\ Oldest[1] = out /\ out \in Items
      /\ line \in Seq(Items) /\ Len(line) \in Nat
      /\ \A k \in 1..Len(line) : Oldest[k + 1] = line[k]
      /\ N \in Nat /\ N >= 2 /\ W \in Nat /\ Cardinality(Producers) \in Nat
      /\ 2 * (N + Cardinality(Producers)) <= W /\ M <= N + Cardinality(Producers)
  BY <1>1, OldestIs, Sizes DEF IInv, TypeOK
<1>3. \A p \in Busy : pos[p] # tail
  BY <1>1, ReadsOldest
<1>4. seq[Cell(tail)] = Plus(tail, 1)
  BY <1>1 DEF IInv, Reading
<1>5. /\ At(0) = tail /\ Cell(At(N)) = Cell(tail) /\ Cell(tail) \in Cells
      /\ \A k \in 0..W : At(k) \in Positions /\ Cell(At(k)) \in Cells
      /\ \A j, k \in 0..(W - 1) : At(j) = At(k) => j = k
      /\ \A k \in 0..(W - 1) : At(k)' = At(k + 1) /\ Plus(At(k), 1) = At(k + 1)
  <2>1. \A k \in 0..(W - 1) : Plus(Plus(tail, 1), k) = At(k + 1)
    BY <1>2, Places
  <2>2. \A k \in 0..(W - 1) : At(k)' = At(k + 1)
    BY <1>1, <2>1 DEF At
  <2>3. 0 \in 0..W /\ \A k \in 0..W : At(k) \in Positions /\ Cell(At(k)) \in Cells
    BY <1>2, Places
  <2>4. At(0) = tail /\ Cell(At(N)) = Cell(tail)
    BY <1>2, Places
  <2>5. /\ \A j, k \in 0..(W - 1) : At(j) = At(k) => j = k
        /\ \A k \in 0..(W - 1) : Plus(At(k), 1) = At(k + 1)
    BY <1>2, Places
  <2> QED
    BY <2>2, <2>3, <2>4, <2>5
<1>6. /\ seq'[Cell(tail)] = At(N)
      /\ \A c \in Cells : c # Cell(tail) => seq'[c] = seq[c]
  BY <1>2, <1>5 DEF DeqAdvance, TypeOK, At
<1>7. ASSUME NEW p \in Busy
      PROVE  \E k \in 1..(M - 1) : pos[p] = At(k) /\ item[p] = Oldest[k + 1]
  <2>1. PICK k \in 0..(M - 1) : pos[p] = At(k) /\ item[p] = Oldest[k + 1]
    BY DEF IInv, Holders
  <2>2. k # 0
    BY <1>3, <1>5, <2>1
  <2>3. k \in 1..(M - 1)
    BY <1>2, <2>2
  <2> QED
    BY <2>1, <2>3
<1> HIDE DEF M
<1>8. TypeOK'
  <2>1. N \in 0..W /\ 1 \in 0..W
    BY <1>2
  <2>2. Plus(tail, N) \in Positions /\ tail' \in Positions
    BY <1>1, <1>5, <2>1 DEF At
  <2>3. seq' \in [Cells -> Positions]
    BY <1>2, <2>2 DEF DeqAdvance, TypeOK
  <2> QED
    BY <1>1, <1>2, <2>2, <2>3 DEF TypeOK
<1>9. Line'
  <2>1. Len(line) \in 0..(W - 1) /\ Len(line) + 1 = M
    BY <1>2
  <2>2. At(Len(line))' = At(M)
    <3> SUFFICES ASSUME NEW k \in 0..(W - 1), k = Len(line) PROVE At(k)' = At(M)
      BY <1>1, <2>1 DEF At
    <3> QED
      BY <1>5, <2>1
  <2>3. head = At(M)
    BY DEF IInv, Line, M
  <2> QED
    BY <1>1, <1>2, <2>1, <2>2, <2>3 DEF Line
<1>10. Holders'
  <2>1. ASSUME NEW p \in Busy
        PROVE  \E k \in 0..(Len(line) - 1) : pos[p] = At(k)' /\ item[p] = line[k + 1]
    <3>1. PICK k \in 1..(M - 1) : pos[p] = At(k) /\ item[p] = Oldest[k + 1]
      BY <1>7
    <3>2. k - 1 \in 0..(Len(line) - 1) /\ k - 1 \in 0..(W - 1) /\ (k - 1) + 1 = k
      BY <1>2
    <3>3. k \in 1..Len(line)
      BY <1>2
    <3>4. item[p] = line[k]
      BY <1>2, <3>1, <3>3
    <3>5. PICK j \in 0..(Len(line) - 1) : j = k - 1
      BY <3>2
    <3>6. At(j)' = At(k)
      BY <1>5, <3>2, <3>5
    <3> QED
      BY <3>1, <3>2, <3>4, <3>5, <3>6
  <2>2. \A p, q \in Busy : pos[p] = pos[q] => p = q
    BY DEF IInv, Holders
  <2>3. ASSUME NEW k \in N..(Len(line) - 1)
        PROVE  \E p \in Busy : pos[p] = At(k)'
    <3>1. k + 1 \in N..(M - 1) /\ k \in 0..(W - 1)
      BY <1>2
    <3>2. \A j \in N..(M - 1) : \E p \in Busy : pos[p] = At(j)
      BY DEF IInv, Holders, M
    <3>3. At(k)' = At(k + 1)
      BY <1>5, <3>1
    <3> QED
      BY <3>1, <3>2, <3>3
  <2> QED
    BY <1>1, <2>1, <2>2, <2>3 DEF Holders
<1>11. Writers'
  <2> SUFFICES ASSUME NEW p \in Producers, pc[p] \in {"write", "publish"}
               PROVE  seq'[Cell(pos[p])] = pos[p]
    BY <1>1 DEF IInv, Writers
  <2>1. p \in Busy /\ seq[Cell(pos[p])] = pos[p]
    BY DEF Busy, IInv, Writers
  <2>2. PICK k \in 0..(N - 1) : pos[p] = At(k)
    BY <2>1, HolderOnLap
  <2>3. Cell(pos[p]) # Cell(tail)
    <3> SUFFICES ASSUME Cell(pos[p]) = Cell(tail) PROVE FALSE
      OBVIOUS
    <3>1. 0 \in 0..(N - 1)
      BY <1>2
    <3>2. k = 0
      BY <1>2, <1>5, <2>2, <3>1, LapCells
    <3> QED
      BY <1>3, <1>5, <2>1, <2>2, <3>2
  <2>4. Cell(pos[p]) \in Cells
    BY <1>2, <1>5, <2>2
  <2> QED
    BY <1>6, <2>1, <2>3, <2>4
<1>12. ASSUME NEW k \in 0..(N - 1) PROVE CellAt(k)'
  <2>1. k \in 0..(W - 1) /\ k + 1 \in 0..(W - 1) /\ At(k)' = At(k + 1)
    BY <1>2, <1>5
  <2>2. CASE k = N - 1
    <3>1. At(k)' = At(N)
      BY <1>2, <2>1, <2>2
    <3>2. seq'[Cell(At(N))] = At(N)
      BY <1>5, <1>6
    <3>3. k < Len(line) => \E p \in Busy : pos[p] = At(N)
      <4>1. k < Len(line) => N \in N..(M - 1)
        BY <1>2, <2>2
      <4> QED
        BY <4>1 DEF IInv, Holders, M
    <3> QED
      BY <1>1, <3>1, <3>2, <3>3 DEF CellAt
  <2>3. CASE k # N - 1
    <3>1. k + 1 \in 0..(N - 1) /\ 0 \in 0..(N - 1) /\ k + 1 # 0
      BY <1>2, <2>3
    <3>2. Cell(At(k + 1)) # Cell(tail)
      BY <1>2, <1>5, <3>1, LapCells
    <3>3. seq'[Cell(At(k + 1))] = seq[Cell(At(k + 1))]
      <4>1. k + 1 \in 0..W
        BY <1>2, <2>1
      <4>2. Cell(At(k + 1)) \in Cells
        BY <1>5, <4>1
      <4> QED
        BY <1>6, <3>2, <4>2
    <3>4. CellAt(k + 1)
      BY <3>1 DEF IInv
    <3>5. k + 1 < M <=> k < Len(line)
      BY <1>2, <3>1
    <3>6. k < Len(line) => Oldest[(k + 1) + 1] = line[k + 1]
      BY <1>2, <3>1
    <3>7. Plus(At(k + 1), 1) = Plus(At(k)', 1)
      BY <2>1
    <3> QED
      BY <1>1, <2>1, <3>3, <3>4, <3>5, <3>6, <3>7 DEF CellAt, M
  <2> QED
    BY <2>2, <2>3
<1>13. Reading'
  BY <1>1 DEF Reading
<1>14. Owners'
  <2>1. \A k \in 1..M :
          /\ Oldest[k] \in Items \ free
          /\ \A p \in Producers : pc[p] = "claim" => item[p] # Oldest[k]
          /\ \A j \in 1..M : Oldest[j] = Oldest[k] => j = k
    BY DEF IInv, Owners, M
  <2>2. 1 \in 1..M /\ \A k \in 1..Len(line) : k + 1 \in 1..M /\ k + 1 # 1
    BY <1>2
  <2>3. \A k \in 1..Len(line) :
          /\ line[k] \in Items \ free /\ line[k] # out
          /\ \A p \in Producers : pc[p] = "claim" => item[p] # line[k]
    <3> SUFFICES ASSUME NEW k \in 1..Len(line)
                 PROVE  /\ line[k] \in Items \ free /\ line[k] # out
                        /\ \A p \in Producers : pc[p] = "claim" => item[p] # line[k]
      OBVIOUS
    <3>1. line[k] = Oldest[k + 1] /\ out = Oldest[1]
      BY <1>2
    <3>2. k + 1 \in 1..M /\ k + 1 # 1 /\ 1 \in 1..M
      BY <2>2
    <3> QED
      BY <2>1, <3>1, <3>2
  <2>4. \A k \in 1..Len(line) : \A j \in 1..Len(line) : line[j] = line[k] => j = k
    <3> SUFFICES ASSUME NEW k \in 1..Len(line), NEW j \in 1..Len(line), line[j] = line[k]
                 PROVE  j = k
      OBVIOUS
    <3>1. Oldest[j + 1] = Oldest[k + 1]
      BY <1>2
    <3>2. j + 1 = k + 1
      BY <2>1, <2>2, <3>1
    <3> QED
      BY <3>2
  <2>5. ASSUME NEW p \in Producers, pc[p] # "idle" PROVE item[p] # out
    <3>1. CASE pc[p] = "claim"
      BY <1>2, <2>1, <2>2, <3>1
    <3>2. CASE pc[p] # "claim"
      <4>1. p \in Busy
        BY <1>2, <2>5, <3>2 DEF Busy, TypeOK
      <4>2. PICK k \in 1..(M - 1) : item[p] = Oldest[k + 1]
        BY <1>7, <4>1
      <4>3. k + 1 \in 1..M /\ k + 1 # 1
        BY <1>2
      <4> QED
        BY <1>2, <2>1, <2>2, <4>2, <4>3
    <3> QED
      BY <3>1, <3>2
  <2>6. \A p \in Producers : pc[p] # "idle" => item[p] \in Items \ (free \cup {out})
    BY <2>5 DEF IInv, Owners
  <2>7. \A p, q \in Producers :
           pc[p] = "claim" /\ pc[q] = "claim" /\ item[p] = item[q] => p = q
    BY DEF IInv, Owners
  <2> QED
    BY <1>1, <2>3, <2>4, <2>6, <2>7 DEF Owners
<1> QED
  BY <1>8, <1>9, <1>10, <1>11, <1>12, <1>13, <1>14 DEF IInv

-----------------------------------------------------------------------------
(* The theorems *)

LEMMA StepInv == IInv /\ [Next]_vars => IInv'
<1> SUFFICES ASSUME IInv, [Next]_vars PROVE IInv'
  OBVIOUS
<1>1. ASSUME NEW p \in Producers, EnqCall(p) PROVE IInv'
  BY <1>1, EnqCallInv
<1>2. ASSUME NEW p \in Producers, EnqClaim(p) PROVE IInv'
  BY <1>2, EnqClaimInv
<1>3. ASSUME NEW p \in Producers, EnqSpin(p) PROVE IInv'
  BY <1>3, EnqSpinInv
<1>4. ASSUME NEW p \in Producers, EnqWrite(p) PROVE IInv'
  BY <1>4, EnqWriteInv
<1>5. ASSUME NEW p \in Producers, EnqPublish(p) PROVE IInv'
  BY <1>5, EnqPublishInv
<1>6. CASE DeqLoad
  BY <1>6, DeqLoadInv
<1>7. CASE DeqRead
  BY <1>7, DeqReadInv
<1>8. CASE DeqAdvance
  BY <1>8, DeqAdvanceInv
<1>9. CASE UNCHANGED vars
  <2>1. /\ Oldest' = Oldest /\ Busy' = Busy /\ \A k : At(k)' = At(k)
        /\ pc' = pc /\ item' = item /\ pos' = pos /\ head' = head /\ cpc' = cpc
        /\ seq' = seq /\ data' = data /\ free' = free /\ tail' = tail
    BY <1>9 DEF vars, consumerVars, Oldest, Busy, At
  <2>2. TypeOK'
    BY <1>9 DEF vars, consumerVars, IInv, TypeOK
  <2>3. Line' /\ Holders' /\ Writers' /\ Reading' /\ Owners'
    BY <2>1 DEF IInv, Line, Holders, Writers, Reading, Owners
  <2>4. ASSUME NEW k \in 0..(N - 1) PROVE CellAt(k)'
    BY <2>1 DEF IInv, CellAt
  <2> QED
    BY <2>2, <2>3, <2>4 DEF IInv
<1> QED
  BY <1>1, <1>2, <1>3, <1>4, <1>5, <1>6, <1>7, <1>8, <1>9 DEF Next, Enqueue, Dequeue

\* The positions behind the tail and the cells of their lap are as IInv says in
\* every reachable state of enqueue and dequeue.
THEOREM Invariant == Spec => []IInv
BY InitInv, StepInv, PTL DEF Spec

\* Every variable of the queue keeps its type: the positions stay below the wrap
\* and only items that were enqueued are handed out.
THEOREM TypeCorrect == Spec => []TypeOK
<1>1. IInv => TypeOK
  BY DEF IInv
<1> QED
  BY <1>1, Invariant, PTL

\* The plain data of a cell is never reached by two threads at once: whoever is
\* past the spin of enqueue, or past the test of dequeue, has the cell alone.
THEOREM DataIsNotRaced == Spec => []NoDataRace
<1>1. IInv => NoDataRace
  <2> SUFFICES ASSUME IInv, NEW p \in Producers, pc[p] = "write"
               PROVE  /\ \A q \in Producers \ {p} :
                            pc[q] = "write" => Cell(pos[q]) # Cell(pos[p])
                      /\ cpc = "read" => Cell(tail) # Cell(pos[p])
    BY DEF NoDataRace
  <2>1. p \in Busy /\ seq[Cell(pos[p])] = pos[p]
    BY DEF Busy, IInv, Writers
  <2>2. ASSUME NEW q \in Producers \ {p}, pc[q] = "write" PROVE Cell(pos[q]) # Cell(pos[p])
    <3>1. q \in Busy /\ seq[Cell(pos[q])] = pos[q]
      BY <2>2 DEF Busy, IInv, Writers
    <3> QED
      BY <2>1, <3>1 DEF IInv, Holders
  <2>3. ASSUME cpc = "read" PROVE Cell(tail) # Cell(pos[p])
    <3> SUFFICES ASSUME Cell(tail) = Cell(pos[p]) PROVE FALSE
      OBVIOUS
    <3>1. TypeOK /\ 0 \in 0..(N - 1)
      BY Sizes DEF IInv
    <3>2. PICK k \in 0..(N - 1) : pos[p] = At(k)
      BY <2>1, HolderOnLap
    <3>3. k = 0
      BY <3>1, <3>2, LapCells, Places
    <3>4. pos[p] = tail
      BY <3>1, <3>2, <3>3, Places
    <3> QED
      BY <2>1, <2>3, <3>4, ReadsOldest
  <2> QED
    BY <2>2, <2>3
<1> QED
  BY <1>1, Invariant, PTL

\* The sequence number of every cell tells where its position of the current lap
\* stands, and the item it holds is the one that drew that position.
THEOREM NumbersTellTheState == Spec => []CellsInStep
<1>1. IInv => CellsInStep
  <2> SUFFICES ASSUME IInv PROVE CellsInStep
    OBVIOUS
  <2>1. /\ TypeOK /\ N \in Nat /\ W \in Nat /\ N <= W /\ Len(Oldest) \in 0..(W - 1)
    BY OldestIs, Sizes DEF IInv
  <2>2. Len(Oldest) = Drawn
    <3>1. head = Plus(tail, Len(Oldest)) /\ tail \in Positions
      BY <2>1 DEF IInv, Line, At, TypeOK
    <3>2. (Plus(tail, Len(Oldest)) - tail) % W = Len(Oldest)
      BY <2>1, <3>1, CircleOK DEF Circle
    <3> QED
      BY <3>1, <3>2 DEF Drawn
  <2>3. ASSUME NEW k \in 0..(N - 1)
        PROVE  \/ /\ seq[Cell(At(k))] = At(k)
                  /\ Cardinality(Drawers(At(k))) = IF k < Drawn THEN 1 ELSE 0
               \/ /\ seq[Cell(At(k))] = Plus(At(k), 1)
                  /\ k < Drawn /\ Drawers(At(k)) = {}
                  /\ data[Cell(At(k))] = Oldest[k + 1]
    <3>1. Drawers(At(k)) = {p \in Busy : pos[p] = At(k)}
      BY DEF Drawers, Busy
    <3>2. CellAt(k)
      BY DEF IInv
    <3>3. CASE /\ seq[Cell(At(k))] = At(k)
               /\ k < Len(Oldest) => \E p \in Busy : pos[p] = At(k)
      <4>1. CASE k < Len(Oldest)
        <5>1. PICK p \in Busy : pos[p] = At(k)
          BY <3>3, <4>1
        <5>2. \A q \in Busy : pos[q] = At(k) => q = p
          BY <5>1 DEF IInv, Holders
        <5>3. Drawers(At(k)) = {p}
          BY <3>1, <5>1, <5>2
        <5>4. Cardinality(Drawers(At(k))) = 1
          BY <5>3, FS_Singleton
        <5> QED
          BY <2>2, <3>3, <4>1, <5>4
      <4>2. CASE ~(k < Len(Oldest))
        <5>1. ASSUME NEW q \in Busy PROVE pos[q] # At(k)
          <6>1. PICK j \in 0..(Len(Oldest) - 1) : pos[q] = At(j)
            BY DEF IInv, Holders
          <6>2. j \in 0..(W - 1) /\ k \in 0..(W - 1) /\ j # k
            BY <2>1, <4>2
          <6> QED
            BY <2>1, <6>1, <6>2, Places
        <5>2. Drawers(At(k)) = {}
          BY <3>1, <5>1
        <5>3. Cardinality(Drawers(At(k))) = 0
          BY <5>2, FS_EmptySet
        <5> QED
          BY <2>2, <3>3, <4>2, <5>3
      <4> QED
        BY <4>1, <4>2
    <3>4. CASE /\ seq[Cell(At(k))] = Plus(At(k), 1)
               /\ k < Len(Oldest)
               /\ \A p \in Busy : pos[p] # At(k)
               /\ data[Cell(At(k))] = Oldest[k + 1]
      <4>1. Drawers(At(k)) = {}
        BY <3>1, <3>4
      <4> QED
        BY <2>2, <3>4, <4>1
    <3> QED
      BY <3>2, <3>3, <3>4 DEF CellAt
  <2> QED
    BY <2>2, <2>3 DEF CellsInStep, At
<1> QED
  BY <1>1, Invariant, PTL

-----------------------------------------------------------------------------
(* The queue implements MpscChannel *)

\* The cell of a place has the number that publishes it.
ReadyAt(k) == seq[Cell(At(k))] = Plus(At(k), 1)

\* Only places drawn, of the lap at the tail, are published.
ReadyOK == \A k \in 0..(W - 2) : ReadyAt(k) => k < N /\ k < Len(Oldest)

LEMMA ReadyPlaces == IInv => ReadyOK
<1> SUFFICES ASSUME IInv, NEW k \in 0..(W - 2), ReadyAt(k)
             PROVE  k < N /\ k < Len(Oldest)
  BY DEF ReadyOK
<1>1. TypeOK /\ N \in Nat /\ N >= 2 /\ 2 * N <= W /\ W \in Nat
  BY Sizes DEF IInv
<1>2. k \in 0..W /\ k \in 0..(W - 1) /\ k + 1 \in 0..(W - 1)
  BY <1>1
<1>3. Cell(At(k)) \in Cells /\ At(k) # At(k + 1) /\ seq[Cell(At(k))] = At(k + 1)
  BY <1>1, <1>2, Places, NextDiffers DEF ReadyAt
<1>4. PICK j \in 0..(N - 1) : Cell(At(j)) = Cell(At(k))
  BY <1>1, <1>3, Places
<1>5. j \in 0..W /\ j \in 0..(W - 1) /\ j + 1 \in 0..(W - 1)
  BY <1>1
<1>6. At(k + 1) = At(j) \/ At(k + 1) = At(j + 1)
  BY <1>3, <1>4, CellNumber
<1>7. k + 1 = j \/ k + 1 = j + 1
  BY <1>1, <1>2, <1>5, <1>6, Places
<1>8. k < j => k + N <= j
  BY <1>1, <1>2, <1>4, <1>5, Places
<1>9. k = j
  BY <1>1, <1>2, <1>5, <1>7, <1>8
<1>10. CellAt(k)
  BY <1>9 DEF IInv
<1>11. k < Len(Oldest)
  BY <1>3, <1>10 DEF CellAt
<1> QED
  BY <1>1, <1>9, <1>11

\* The places of the items in line: the one being freed is no longer among them.
Ahead == IF cpc = "advance" THEN 1 ELSE 0

\* The channel of a state is a sequence with the items in line.
ChanOK ==
    /\ chanBar \in Seq(Channel!Cell)
    /\ Len(chanBar) = Len(line) /\ Len(line) \in Nat
    /\ \A k \in 1..Len(line) : chanBar[k] = [item |-> line[k], ready |-> Published(k)]

\* A function on 1..n is a sequence of length n.
LEMMA SeqOfFunction ==
    ASSUME NEW S, NEW n \in Nat, NEW f \in [1..n -> S]
    PROVE  f \in Seq(S) /\ Len(f) = n
OBVIOUS

LEMMA ChanShape == IInv => ChanOK
<1> SUFFICES ASSUME IInv PROVE ChanOK
  OBVIOUS
<1>1. line \in Seq(Items) /\ Len(line) \in Nat
  BY DEF IInv, TypeOK
<1>2. \A k \in 1..Len(line) : line[k] \in Items /\ Published(k) \in BOOLEAN
  BY <1>1 DEF Published
<1>3. \A k \in 1..Len(line) : [item |-> line[k], ready |-> Published(k)] \in Channel!Cell
  BY <1>2 DEF Channel!Cell
<1>4. chanBar \in [1..Len(line) -> Channel!Cell]
  BY <1>3 DEF chanBar
<1>5. chanBar \in Seq(Channel!Cell) /\ Len(chanBar) = Len(line)
  BY <1>1, <1>4, SeqOfFunction
<1> QED
  BY <1>1, <1>5 DEF ChanOK, chanBar

\* A place of the channel is published when its cell has the number for it.
LEMMA PublishedIs ==
    ASSUME IInv, NEW k \in 1..Len(line)
    PROVE  /\ k - 1 + Ahead \in 0..(Len(Oldest) - 1) /\ k - 1 + Ahead \in 0..(W - 2)
           /\ PositionOf(k) = At(k - 1 + Ahead)
           /\ Published(k) <=> ReadyAt(k - 1 + Ahead)
           /\ Oldest[k + Ahead] = line[k]
<1>1. PositionOf(k) = At(k - 1 + Ahead)
  BY DEF PositionOf, At, Ahead
<1>2. Published(k) <=> ReadyAt(k - 1 + Ahead)
  BY <1>1 DEF Published, ReadyAt
<1>3. Len(line) \in Nat /\ Len(Oldest) \in Nat /\ Len(Oldest) = Len(line) + Ahead
  BY OldestIs DEF IInv, TypeOK, Ahead
<1>4. Ahead \in {0, 1}
  BY DEF Ahead
<1>5. Oldest[k + Ahead] = line[k]
  BY <1>3, OldestIs DEF Ahead
<1> QED
  BY <1>1, <1>2, <1>3, <1>4, <1>5, OldestIs, Sizes

\* Channels with the same items, published alike, are equal.
LEMMA SameChannel ==
    ASSUME ChanOK, ChanOK', line' = line,
           \A k \in 1..Len(line) : Published(k)' <=> Published(k)
    PROVE  chanBar' = chanBar
<1>1. /\ chanBar \in Seq(Channel!Cell) /\ chanBar' \in Seq(Channel!Cell)
      /\ Len(chanBar') = Len(chanBar) /\ Len(chanBar) = Len(line)
  BY DEF ChanOK, Channel!Cell
<1>2. \A k \in 1..Len(line) : Published(k)' = Published(k)
  BY DEF Published
<1>3. \A k \in 1..Len(line) : chanBar'[k] = chanBar[k]
  BY <1>2 DEF ChanOK
<1> QED
  BY <1>1, <1>3, SeqEqual

\* What a state and its successor are known to satisfy.
Related ==
    /\ IInv /\ ReadyOK /\ ChanOK
    /\ IInv' /\ ReadyOK' /\ ChanOK'

\* Steps that leave line, numbers and tail alone are no step of the channel.
LEMMA QuietStep ==
    ASSUME Related, UNCHANGED <<line, seq, tail, out>>, (cpc' = "advance") <=> (cpc = "advance")
    PROVE  UNCHANGED <<chanBar, out>>
<1>1. \A k : PositionOf(k)' = PositionOf(k)
  BY DEF PositionOf
<1>2. \A k \in 1..Len(line) : Published(k)' <=> Published(k)
  BY <1>1 DEF Published
<1> QED
  BY <1>2, SameChannel DEF Related

\* The fields of a place, and what publishing does to it.
LEMMA CellFields ==
    \A i, r : [item |-> i, ready |-> r].item = i /\ [item |-> i, ready |-> r].ready = r
OBVIOUS

LEMMA PublishedCell ==
    ASSUME NEW i, NEW a, NEW b
    PROVE  [[item |-> i, ready |-> a] EXCEPT !.ready = b] = [item |-> i, ready |-> b]
OBVIOUS

\* A place is as published as it was when tail and numbers are.
LEMMA SamePlaces ==
    ASSUME UNCHANGED <<seq, tail>>, (cpc' = "advance") <=> (cpc = "advance")
    PROVE  \A k : Published(k)' <=> Published(k)
<1>1. \A k : PositionOf(k)' = PositionOf(k)
  BY DEF PositionOf
<1> QED
  BY <1>1 DEF Published

\* Drawing a position claims the last place for the item.
LEMMA DrawClaims ==
    ASSUME Related, NEW p \in Producers, EnqClaim(p)
    PROVE  Channel!Claim(item[p]) /\ item[p] \in Items
<1>1. /\ IInv /\ IInv' /\ pc[p] = "claim" /\ line' = Append(line, item[p])
      /\ UNCHANGED <<seq, tail, cpc, out>>
  BY DEF Related, EnqClaim, consumerVars
<1>2. item[p] \in Items /\ \A k \in 1..Len(Oldest) : Oldest[k] # item[p]
  BY <1>1 DEF IInv, Owners
<1>3. line \in Seq(Items) /\ Len(line) \in Nat /\ Len(line)' = Len(line) + 1
  BY <1>1, <1>2 DEF IInv, TypeOK
<1>4. /\ chanBar \in Seq(Channel!Cell) /\ Len(chanBar) = Len(line)
      /\ \A k \in 1..Len(line) : chanBar[k] = [item |-> line[k], ready |-> Published(k)]
      /\ chanBar' \in Seq(Channel!Cell) /\ Len(chanBar') = Len(line) + 1
      /\ \A k \in 1..(Len(line) + 1) :
            chanBar'[k] = [item |-> line'[k], ready |-> Published(k)']
  BY <1>3 DEF Related, ChanOK, Channel!Cell
<1>5. Len(chanBar) < N + Cardinality(Producers)
  <2>1. Len(line) <= Len(Oldest) /\ Len(Oldest) \in Nat
    BY <1>1, <1>3, OldestIs
  <2> QED
    BY <1>1, <1>3, <1>4, <2>1, RoomToClaim, Sizes
<1>6. \A k \in 1..Len(chanBar) : chanBar[k].item # item[p]
  <2> SUFFICES ASSUME NEW k \in 1..Len(chanBar) PROVE chanBar[k].item # item[p]
    OBVIOUS
  <2>1. k \in 1..Len(line) /\ chanBar[k] = [item |-> line[k], ready |-> Published(k)]
    BY <1>4
  <2>2. Oldest[k + Ahead] = line[k] /\ k - 1 + Ahead \in 0..(Len(Oldest) - 1)
    BY <1>1, <2>1, PublishedIs
  <2>3. k + Ahead \in 1..Len(Oldest)
    BY <1>1, <2>1, <2>2, OldestIs DEF Ahead
  <2>4. line[k] # item[p]
    BY <1>2, <2>2, <2>3
  <2> QED
    BY <2>1, <2>4, CellFields
<1>7. \A k : Published(k)' <=> Published(k)
  BY <1>1, SamePlaces
<1>8. ~Published(Len(line) + 1)
  <2> SUFFICES ASSUME Published(Len(line) + 1) PROVE FALSE
    OBVIOUS
  <2>1. Len(line) + Ahead = Len(Oldest) /\ Len(Oldest) \in 0..(W - 2)
    BY <1>1, <1>3, OldestIs, RoomToClaim, Sizes DEF Ahead
  <2>2. PositionOf(Len(line) + 1) = At(Len(Oldest))
    BY <1>3, <2>1 DEF PositionOf, At, Ahead
  <2>3. ReadyAt(Len(Oldest))
    BY <2>2 DEF Published, ReadyAt
  <2> QED
    BY <2>1, <2>3 DEF Related, ReadyOK
<1> DEFINE e == [item |-> item[p], ready |-> FALSE]
<1>9. chanBar' = Append(chanBar, e)
  <2>1. e \in Channel!Cell
    BY <1>2 DEF Channel!Cell
  <2>2. /\ Append(chanBar, e) \in Seq(Channel!Cell)
        /\ Len(Append(chanBar, e)) = Len(chanBar) + 1
        /\ \A k \in 1..Len(chanBar) : Append(chanBar, e)[k] = chanBar[k]
        /\ Append(chanBar, e)[Len(chanBar) + 1] = e
    BY <1>4, <2>1, AppendProperties
  <2>3. ASSUME NEW k \in 1..(Len(line) + 1) PROVE chanBar'[k] = Append(chanBar, e)[k]
    <3>1. CASE k = Len(line) + 1
      <4>1. Published(k)' = FALSE
        BY <1>7, <1>8, <3>1 DEF Published
      <4>2. line'[k] = item[p]
        BY <1>1, <1>2, <1>3, <3>1
      <4> QED
        BY <1>4, <2>2, <3>1, <4>1, <4>2
    <3>2. CASE k # Len(line) + 1
      <4>1. k \in 1..Len(line)
        BY <1>3, <3>2
      <4>2. line'[k] = line[k]
        BY <1>1, <1>2, <1>3, <4>1
      <4>3. Published(k)' = Published(k)
        BY <1>7 DEF Published
      <4> QED
        BY <1>4, <2>2, <4>1, <4>2, <4>3
    <3> QED
      BY <3>1, <3>2
  <2> QED
    BY <1>4, <2>2, <2>3, SeqEqual
<1> QED
  BY <1>1, <1>2, <1>5, <1>6, <1>9 DEF Channel!Claim

\* Publishing makes the place its producer drew ready, and no other: the number
\* it leaves publishes nothing for another lap of the cell.
LEMMA NumberPublishes ==
    ASSUME Related, NEW p \in Producers, EnqPublish(p)
    PROVE  \E k \in 1..Len(chanBar) : Channel!Publish(k)
<1>1. /\ IInv /\ TypeOK /\ pc[p] = "publish" /\ p \in Busy
      /\ seq' = [seq EXCEPT ![Cell(pos[p])] = Plus(pos[p], 1)]
      /\ UNCHANGED <<line, tail, cpc, out>>
  BY DEF Related, IInv, EnqPublish, consumerVars, Busy
<1>2. seq[Cell(pos[p])] = pos[p]
  BY <1>1 DEF IInv, Writers
<1>3. PICK h \in 0..(N - 1) : pos[p] = At(h) /\ h < Len(Oldest)
  BY <1>1, <1>2, HolderOnLap
<1>4. /\ Len(line) \in Nat /\ Len(Oldest) = Len(line) + Ahead /\ Len(Oldest) \in Nat
      /\ N \in Nat /\ W \in Nat /\ 2 * N <= W /\ N >= 2
      /\ h \in 0..W /\ h \in 0..(W - 2) /\ \A k : At(k)' = At(k)
      /\ Oldest' = Oldest
  BY <1>1, OldestIs, Sizes DEF IInv, TypeOK, Ahead, At, Oldest
<1>5. Cell(At(h)) \in Cells /\ At(h) # Plus(At(h), 1)
  BY <1>1, <1>4, Places, NextDiffers
<1>6. /\ seq'[Cell(At(h))] = Plus(At(h), 1)
      /\ \A c \in Cells : c # Cell(At(h)) => seq'[c] = seq[c]
  BY <1>1, <1>3, <1>5 DEF TypeOK
<1>7. PICK k \in 1..Len(line) : k - 1 + Ahead = h
  <2>1. h # 0 \/ Ahead = 0
    BY <1>1, <1>3, ReadsOldest, Places DEF Ahead
  <2>2. h + 1 - Ahead \in 1..Len(line) /\ (h + 1 - Ahead) - 1 + Ahead = h
    BY <1>3, <1>4, <2>1 DEF Ahead
  <2> QED
    BY <2>2
<1>8. ASSUME NEW j \in 1..Len(line), NEW g \in 0..(W - 2), g = j - 1 + Ahead
      PROVE  (Published(j) <=> ReadyAt(g)) /\ (Published(j)' <=> ReadyAt(g)')
  <2>1. PositionOf(j)' = PositionOf(j) /\ PositionOf(j) = At(g)
    BY <1>1, <1>8, PublishedIs DEF PositionOf
  <2> QED
    BY <1>4, <2>1 DEF Published, ReadyAt
<1>9. ~Published(k) /\ Published(k)'
  <2>1. ~ReadyAt(h)
    BY <1>2, <1>3, <1>5 DEF ReadyAt
  <2>2. ReadyAt(h)'
    BY <1>4, <1>6 DEF ReadyAt
  <2>3. (Published(k) <=> ReadyAt(h)) /\ (Published(k)' <=> ReadyAt(h)')
    BY <1>4, <1>7, <1>8
  <2> QED
    BY <2>1, <2>2, <2>3
<1>10. ASSUME NEW g \in 0..(W - 2), g # h
       PROVE  ReadyAt(g)' <=> ReadyAt(g)
  <2>1. Cell(At(g)) \in Cells
    BY <1>1, <1>4, Places
  <2>2. CASE Cell(At(g)) # Cell(At(h))
    BY <1>4, <1>6, <2>1, <2>2 DEF ReadyAt
  <2>3. CASE Cell(At(g)) = Cell(At(h))
    <3>1. ~(g < N)
      <4> SUFFICES ASSUME g < N PROVE FALSE
        OBVIOUS
      <4>1. g \in 0..(N - 1)
        BY <1>4
      <4> QED
        BY <1>1, <1>10, <2>3, <4>1, LapCells
    <3> QED
      BY <3>1 DEF Related, ReadyOK
  <2> QED
    BY <2>2, <2>3
<1>11. ASSUME NEW j \in 1..Len(line), j # k
       PROVE  Published(j)' <=> Published(j)
  <2>1. PICK g \in 0..(W - 2) : g = j - 1 + Ahead
    BY <1>1, PublishedIs
  <2>2. g # h
    BY <1>4, <1>7, <1>11, <2>1 DEF Ahead
  <2> QED
    BY <1>8, <1>10, <2>1, <2>2
<1>12. /\ chanBar \in Seq(Channel!Cell) /\ Len(chanBar) = Len(line)
       /\ \A j \in 1..Len(line) : chanBar[j] = [item |-> line[j], ready |-> Published(j)]
       /\ chanBar' \in Seq(Channel!Cell) /\ Len(chanBar') = Len(line)
       /\ \A j \in 1..Len(line) :
             chanBar'[j] = [item |-> line[j], ready |-> Published(j)']
  BY <1>1 DEF Related, ChanOK, Channel!Cell
<1> DEFINE e == [item |-> line[k], ready |-> TRUE]
<1>13. chanBar[k] = [item |-> line[k], ready |-> FALSE] /\ chanBar'[k] = e
  <2>1. Published(k) = FALSE /\ Published(k)' = TRUE
    BY <1>9 DEF Published
  <2> QED
    BY <1>12, <2>1
<1>14. \A j \in 1..Len(line) : j # k => chanBar'[j] = chanBar[j]
  <2>1. \A j \in 1..Len(line) : j # k => Published(j)' = Published(j)
    BY <1>11 DEF Published
  <2> QED
    BY <1>12, <2>1
<1>15. chanBar' = [chanBar EXCEPT ![k].ready = TRUE]
  <2>1. [chanBar[k] EXCEPT !.ready = TRUE] = e
    <3>1. [[item |-> line[k], ready |-> FALSE] EXCEPT !.ready = TRUE] = e
      BY PublishedCell
    <3> QED
      BY <1>13, <3>1
  <2>2. e \in Channel!Cell
    BY <1>1, <1>4 DEF TypeOK, Channel!Cell
  <2> HIDE DEF e
  <2>3. [chanBar EXCEPT ![k].ready = TRUE] = [chanBar EXCEPT ![k] = e]
    BY <2>1
  <2>4. /\ [chanBar EXCEPT ![k] = e] \in Seq(Channel!Cell)
        /\ Len([chanBar EXCEPT ![k] = e]) = Len(chanBar)
        /\ \A j \in 1..Len(chanBar) :
              [chanBar EXCEPT ![k] = e][j] = IF j = k THEN e ELSE chanBar[j]
    BY <1>12, <2>2, ExceptSeq
  <2>5. chanBar' = [chanBar EXCEPT ![k] = e]
    BY <1>12, <1>13, <1>14, <2>4, SeqEqual
  <2> QED
    BY <2>3, <2>5
<1>16. ~chanBar[k].ready /\ k \in 1..Len(chanBar)
  BY <1>12, <1>13, CellFields
<1> QED
  BY <1>1, <1>15, <1>16 DEF Channel!Publish

\* Reading the data of the tail's cell takes the first place, which is published.
LEMMA ReadTakes ==
    ASSUME Related, DeqRead
    PROVE  Channel!Take
<1>1. /\ IInv /\ TypeOK /\ cpc = "read" /\ cpc' = "advance"
      /\ out' = data[Cell(tail)] /\ line' = Tail(line)
      /\ UNCHANGED <<seq, tail>>
  BY DEF Related, IInv, DeqRead
<1>2. Oldest = line /\ line \in Seq(Items) /\ Len(line) \in Nat
  BY <1>1, OldestIs
<1>3. Len(line) >= 1 /\ line # <<>> /\ out' = line[1]
  BY <1>1, <1>2, ReadsOldest
<1>4. /\ Len(line') = Len(line) - 1
      /\ \A k \in 1..(Len(line) - 1) : line'[k] = line[k + 1]
  BY <1>1, <1>2, <1>3, HeadTailProperties
<1>5. /\ chanBar \in Seq(Channel!Cell) /\ Len(chanBar) = Len(line)
      /\ \A k \in 1..Len(line) : chanBar[k] = [item |-> line[k], ready |-> Published(k)]
      /\ chanBar' \in Seq(Channel!Cell) /\ Len(chanBar') = Len(line) - 1
      /\ \A k \in 1..(Len(line) - 1) :
            chanBar'[k] = [item |-> line'[k], ready |-> Published(k)']
  BY <1>4 DEF Related, ChanOK, Channel!Cell
<1>6. chanBar # <<>> /\ Head(chanBar) = chanBar[1]
  BY <1>2, <1>3, <1>5, EmptySeq
<1>7. Published(1) = TRUE
  <2>1. PositionOf(1) = tail
    <3>1. PositionOf(1) = At(1 - 1 + 0) /\ 1 - 1 + 0 = 0
      BY <1>1 DEF PositionOf, At
    <3> QED
      BY <1>1, <3>1, Places
  <2>2. seq[Cell(tail)] = Plus(tail, 1)
    BY <1>1 DEF IInv, Reading
  <2> QED
    BY <2>1, <2>2 DEF Published
<1>8. Head(chanBar).item = line[1] /\ Head(chanBar).ready = TRUE
  <2>1. chanBar[1] = [item |-> line[1], ready |-> Published(1)]
    BY <1>2, <1>3, <1>5
  <2> QED
    BY <1>6, <1>7, <2>1, CellFields
<1>9. /\ Tail(chanBar) \in Seq(Channel!Cell)
      /\ Len(Tail(chanBar)) = Len(chanBar) - 1
      /\ \A k \in 1..Len(Tail(chanBar)) : Tail(chanBar)[k] = chanBar[k + 1]
  BY <1>5, <1>6, HeadTailProperties
<1>10. ASSUME NEW k \in 1..(Len(line) - 1) PROVE chanBar'[k] = chanBar[k + 1]
  <2>1. PositionOf(k)' = PositionOf(k + 1)
    <3>1. k - 1 + 1 = (k + 1) - 1 + 0
      BY <1>2
    <3> QED
      BY <1>1, <3>1 DEF PositionOf
  <2>2. Published(k)' = Published(k + 1)
    BY <1>1, <2>1 DEF Published
  <2>3. k + 1 \in 1..Len(line)
    BY <1>2
  <2> QED
    BY <1>4, <1>5, <2>2, <2>3
<1>11. chanBar' = Tail(chanBar)
  BY <1>5, <1>9, <1>10, SeqEqual
<1> QED
  BY <1>3, <1>6, <1>8, <1>11 DEF Channel!Take

\* Freeing the cell publishes nothing: its number waits for the next lap, whose
\* place was not published before either.
LEMMA FreeingUnseen ==
    ASSUME Related, DeqAdvance
    PROVE  UNCHANGED <<chanBar, out>>
<1>1. /\ IInv /\ TypeOK /\ cpc = "advance" /\ cpc' = "idle"
      /\ seq' = [seq EXCEPT ![Cell(tail)] = At(N)] /\ tail' = Plus(tail, 1)
      /\ UNCHANGED <<line, out>>
  BY DEF Related, IInv, DeqAdvance, At
<1>2. /\ Len(line) \in Nat /\ Len(Oldest) = Len(line) + 1 /\ Len(Oldest) \in 0..(W - 2)
      /\ N \in Nat /\ W \in Nat /\ 2 * N <= W /\ N >= 2 /\ N \in 0..(W - 2)
  BY <1>1, OldestIs, Sizes DEF IInv, TypeOK
<1>3. ASSUME NEW k \in 1..Len(line) PROVE Published(k)' <=> Published(k)
  <2>1. k \in 0..(W - 2) /\ k \in 0..W /\ 0 \in 0..W /\ 0 \in 0..(N - 1)
    BY <1>2
  <2>2. PositionOf(k) = At(k)
    <3>1. k - 1 + 1 = k
      OBVIOUS
    <3> QED
      BY <1>1, <3>1 DEF PositionOf, At
  <2>3. PositionOf(k)' = At(k)
    <3>1. k - 1 \in 0..(W - 1) /\ k - 1 + 0 = k - 1 /\ (k - 1) + 1 = k
      BY <2>1, <1>2
    <3>2. Plus(Plus(tail, 1), k - 1) = At(k)
      BY <1>1, <3>1, Places
    <3> QED
      BY <1>1, <3>1, <3>2 DEF PositionOf
  <2>4. Cell(At(k)) \in Cells /\ Cell(At(N)) = Cell(tail) /\ At(0) = tail /\ Cell(tail) \in Cells
    BY <1>1, <2>1, Places
  <2>5. Published(k)' <=> seq'[Cell(At(k))] = Plus(At(k), 1)
    BY <2>3 DEF Published
  <2>6. Published(k) <=> seq[Cell(At(k))] = Plus(At(k), 1)
    BY <2>2 DEF Published
  <2>7. CASE Cell(At(k)) # Cell(tail)
    BY <1>1, <2>4, <2>5, <2>6, <2>7 DEF TypeOK
  <2>8. CASE Cell(At(k)) = Cell(tail)
    <3>1. 0 + N <= k
      BY <1>1, <1>2, <2>1, <2>4, <2>8, Places
    <3>2. ~Published(k)
      BY <1>2, <2>1, <2>6, <3>1 DEF Related, ReadyOK, ReadyAt
    <3>3. At(N) # Plus(At(k), 1)
      <4>1. k + 1 \in 0..(W - 1) /\ N \in 0..(W - 1) /\ k + 1 # N /\ k \in 0..(W - 1)
        BY <1>2, <2>1, <3>1
      <4> QED
        BY <1>1, <4>1, Places
    <3> QED
      BY <1>1, <2>4, <2>5, <2>8, <3>2, <3>3 DEF TypeOK
  <2> QED
    BY <2>7, <2>8
<1> QED
  BY <1>1, <1>3, SameChannel DEF Related

\* One step of the queue, seen through the mapping.
LEMMA StepSimulation ==
    IInv /\ IInv' /\ [Next]_vars => [Channel!Next]_<<chanBar, out>>
<1> SUFFICES ASSUME IInv, IInv', [Next]_vars
             PROVE  Channel!Next \/ UNCHANGED <<chanBar, out>>
  OBVIOUS
<1>1. (IInv => ReadyOK /\ ChanOK) /\ (IInv' => ReadyOK' /\ ChanOK')
  BY ReadyPlaces, ChanShape, PTL
<1>2. Related
  BY <1>1 DEF Related
<1>3. ASSUME NEW p \in Producers, EnqCall(p) \/ EnqSpin(p) \/ EnqWrite(p)
      PROVE  UNCHANGED <<chanBar, out>>
  BY <1>2, <1>3, QuietStep DEF EnqCall, EnqSpin, EnqWrite, consumerVars
<1>4. ASSUME NEW p \in Producers, EnqClaim(p) PROVE Channel!Next
  BY <1>2, <1>4, DrawClaims DEF Channel!Next
<1>5. ASSUME NEW p \in Producers, EnqPublish(p) PROVE Channel!Next
  BY <1>2, <1>5, NumberPublishes DEF Channel!Next
<1>6. CASE DeqLoad \/ UNCHANGED vars
  BY <1>2, <1>6, QuietStep DEF DeqLoad, vars, consumerVars
<1>7. CASE DeqRead
  BY <1>2, <1>7, ReadTakes DEF Channel!Next
<1>8. CASE DeqAdvance
  BY <1>2, <1>8, FreeingUnseen
<1> QED
  BY <1>3, <1>4, <1>5, <1>6, <1>7, <1>8 DEF Next, Enqueue, Dequeue

\* The slotted queue is a FIFO channel: however many threads spin on a cell and
\* however often the positions wrap, the items leave in the order in which their
\* positions were drawn, each once, each after its number was published.
THEOREM SlottedQueueIsChannel == Spec => ImplementsChannel
<1>1. Init => Channel!Init
  <2> SUFFICES ASSUME Init PROVE chanBar = <<>> /\ out = NULL
    BY DEF Channel!Init
  <2>1. ChanOK /\ Len(line) = 0 /\ out = NULL
    BY InitInv, ChanShape DEF Init
  <2>2. Len(chanBar) = 0 /\ chanBar \in Seq(Channel!Cell)
    BY <2>1 DEF ChanOK
  <2> QED
    BY <2>1, <2>2, EmptySeq
<1> QED
  BY Invariant, <1>1, StepSimulation, PTL
  DEF Spec, ImplementsChannel, Channel!Spec, Channel!vars
=============================================================================
