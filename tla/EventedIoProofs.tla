--------------------------- MODULE EventedIoProofs ---------------------------
(***************************************************************************)
(* Theorems about EventedIo, for any requests, ring sizes and width of the *)
(* indices, and any number of failing calls.                               *)
(***************************************************************************)
EXTENDS EventedIo, SequenceTheorems, FiniteSetTheorems, TLAPS

-----------------------------------------------------------------------------
(* The inductive invariant *)

\* Requests published and not popped.
InPlay == Range(Submitted) \cup Range(Completed) \cup inflight

\* No ring holds more than it has room for, a push that found room still has it,
\* and the submission thread sees no entry that is not there.
Rooms ==
    /\ Between(sqHead, sqTail) <= Entries
    /\ app \in {"fill", "publish"} => Between(sqHead, sqTail) < Entries
    /\ Between(sqHead, seenTail) <= Between(sqHead, sqTail)
    /\ Between(cqHead, cqTail) <= CqEntries
    /\ app = "reap" => cqHead # cqTail

\* Every entry of the submission ring is named by its own slot.
Named ==
    \A k \in 1..Between(sqHead, sqTail) :
        sqArray[Index(sqHead + k - 1, Entries)] = Index(sqHead + k - 1, Entries)

\* Where the application thread is tells which request it pushes.
Step ==
    /\ app \in {"fill", "publish", "flags", "wake", "enter"} => req \in Reqs
    /\ app = "publish" => sqes[Index(sqTail, Entries)] = req
    /\ app \in {"flags", "wake", "enter"} => req \in InPlay
    /\ app \in {"flags", "wake"} => ring.is_sq_poll
    /\ app \in {"wait", "reap"} => owed > 0

\* The push whose completion the next pop must return is the only one owed.
Latest == latest # NULL => latest \in InPlay /\ owed = 1

IInv ==
    /\ TypeOK /\ Rooms /\ Named /\ Step /\ Latest
    /\ NoRequestLost /\ StrandedStay

-----------------------------------------------------------------------------
(* Indices and slots *)

LEMMA Remainder ==
    ASSUME NEW m \in Nat \ {0}, NEW a \in Int, NEW q \in Int, NEW r \in 0..(m - 1),
           a = q * m + r
    PROVE  a % m = r
OBVIOUS

LEMMA Divided ==
    ASSUME NEW m \in Nat \ {0}, NEW a \in Nat
    PROVE  a % m \in 0..(m - 1) /\ \E q \in Nat : a = q * m + (a % m)
<1>1. a \div m \in Nat /\ a = (a \div m) * m + (a % m) /\ a % m \in 0..(m - 1)
  OBVIOUS
<1> QED
  BY <1>1

LEMMA LapsApart ==
    ASSUME NEW m \in Nat \ {0}, NEW q \in Nat, NEW r \in Nat, q < r
    PROVE  q * m + m <= r * m
<1>1. PICK d \in Nat : r = q + 1 + d
  <2>1. r - q - 1 \in Nat /\ r = q + 1 + (r - q - 1)
    OBVIOUS
  <2> QED
    BY <2>1
<1>2. r * m = q * m + m + d * m
  BY <1>1
<1>3. d * m \in Nat /\ q * m \in Nat
  OBVIOUS
<1> QED
  BY <1>2, <1>3

\* A ring of m slots has the same ones on every lap of the indices.
RingSize(m) == m \in Nat \ {0} /\ W \in Nat /\ 2 * m <= W /\ W % m = 0

LEMMA Sizes ==
    ASSUME TypeOK
    PROVE  /\ RingSize(Entries) /\ RingSize(CqEntries)
           /\ CqEntries = 2 * Entries /\ 4 * Entries <= W
<1>1. PICK c \in Created : ring.sq_mask = c[2] - 1
  BY DEF TypeOK
<1>2. /\ c[2] \in Nat /\ c[2] >= 1 /\ W >= 4 * c[2] /\ W \in Nat /\ W % (2 * c[2]) = 0
  BY CreatedAssumption, BoundsAssumption
<1>3. Entries = c[2] /\ CqEntries = 2 * c[2]
  BY <1>1, <1>2 DEF Entries, CqEntries
<1>4. PICK m \in Nat \ {0} : m = c[2]
  BY <1>2
<1>5. PICK q \in Nat : W = q * (2 * m) + (W % (2 * m))
  <2>1. 2 * m \in Nat \ {0}
    OBVIOUS
  <2> QED
    BY <1>2, <2>1, Divided
<1>6. W = (2 * q) * m + 0 /\ 2 * q \in Int /\ 0 \in 0..(m - 1)
  <2>1. W % (2 * m) = 0 /\ q * (2 * m) \in Nat
    BY <1>2, <1>4
  <2>2. W = q * (2 * m)
    BY <1>5, <2>1
  <2>3. q * (2 * m) = (2 * q) * m
    OBVIOUS
  <2>4. W = (2 * q) * m
    BY <2>2, <2>3
  <2> QED
    BY <1>2, <2>4
<1>7. W % m = 0
  BY <1>2, <1>6, Remainder
<1> QED
  BY <1>2, <1>3, <1>4, <1>7 DEF RingSize

\* How far one index is behind another.
LEMMA Behind ==
    ASSUME W \in Nat \ {0}, NEW a \in 0..(W - 1), NEW b \in 0..(W - 1)
    PROVE  Between(a, b) = IF a <= b THEN b - a ELSE b - a + W
<1>1. CASE a <= b
  <2>1. b - a \in 0..(W - 1) /\ b - a = 0 * W + (b - a) /\ b - a \in Int
    BY <1>1
  <2> QED
    BY <1>1, <2>1, Remainder DEF Between
<1>2. CASE ~(a <= b)
  <2>1. b - a + W \in 0..(W - 1) /\ b - a = (0 - 1) * W + (b - a + W) /\ b - a \in Int
    BY <1>2
  <2> QED
    BY <1>2, <2>1, Remainder DEF Between
<1> QED
  BY <1>1, <1>2

LEMMA NextIndex ==
    ASSUME W \in Nat, W >= 2, NEW a \in 0..(W - 1)
    PROVE  Plus1(a) \in 0..(W - 1) /\ Plus1(a) = IF a + 1 < W THEN a + 1 ELSE 0
<1>1. CASE a + 1 < W
  BY <1>1 DEF Plus1
<1>2. CASE ~(a + 1 < W)
  <2>1. a + 1 = 1 * W + 0 /\ a + 1 \in Int /\ 0 \in 0..(W - 1)
    BY <1>2
  <2>2. (a + 1) % W = 0
    BY <2>1, Remainder
  <2> QED
    BY <1>2, <2>1, <2>2 DEF Plus1
<1> QED
  BY <1>1, <1>2

\* What advancing an index does to a distance.
LEMMA Distances ==
    ASSUME W \in Nat, W >= 2, NEW a \in 0..(W - 1), NEW b \in 0..(W - 1)
    PROVE  /\ Between(a, b) \in 0..(W - 1)
           /\ Between(a, b) = 0 <=> a = b
           /\ Between(a, b) < W - 1 => Between(a, Plus1(b)) = Between(a, b) + 1
           /\ a # b => Between(Plus1(a), b) = Between(a, b) - 1
<1>1. Between(a, b) = IF a <= b THEN b - a ELSE b - a + W
  BY Behind
<1>2. PICK c \in 0..(W - 1), d \in 0..(W - 1) :
        /\ c = Plus1(a) /\ c = IF a + 1 < W THEN a + 1 ELSE 0
        /\ d = Plus1(b) /\ d = IF b + 1 < W THEN b + 1 ELSE 0
  BY NextIndex
<1>3. Between(a, d) = IF a <= d THEN d - a ELSE d - a + W
  BY Behind
<1>4. Between(c, b) = IF c <= b THEN b - c ELSE b - c + W
  BY Behind
<1>5. Between(a, b) < W - 1 => Between(a, d) = Between(a, b) + 1
  BY <1>1, <1>2, <1>3
<1>6. a # b => Between(c, b) = Between(a, b) - 1
  BY <1>1, <1>2, <1>4
<1> QED
  BY <1>1, <1>2, <1>5, <1>6

LEMMA DistanceOfTwo ==
    ASSUME W \in Nat, W >= 2, NEW a \in 0..(W - 1), NEW b \in 0..(W - 1), a # b
    PROVE  Between(a, b) \in 1..(W - 1)
<1>1. Between(a, b) \in 0..(W - 1) /\ (Between(a, b) = 0 <=> a = b)
  BY Distances
<1> QED
  BY <1>1

\* An index is its slot after some whole laps of the ring.
LEMMA IndexLap ==
    ASSUME NEW m \in Nat, RingSize(m), NEW i \in Nat
    PROVE  Index(i, m) \in 0..(m - 1) /\ \E q \in Nat : i = q * m + Index(i, m)
<1>1. m \in Nat \ {0}
  BY DEF RingSize
<1>2. i % m \in 0..(m - 1) /\ \E q \in Nat : i = q * m + (i % m)
  BY <1>1, Divided
<1> QED
  BY <1>2 DEF Index

\* Fewer than a lap of indices have different slots.
LEMMA IndexApart ==
    ASSUME NEW m \in Nat, RingSize(m), NEW i \in Nat, NEW j \in Nat, i < j, j < i + m
    PROVE  Index(i, m) # Index(j, m)
<1> SUFFICES ASSUME Index(i, m) = Index(j, m) PROVE FALSE
  OBVIOUS
<1>1. m \in Nat \ {0}
  BY DEF RingSize
<1>2. PICK r \in 0..(m - 1) : r = Index(i, m)
  BY IndexLap
<1>3. PICK q \in Nat : i = q * m + r
  BY <1>2, IndexLap
<1>4. PICK s \in Nat : j = s * m + r
  BY <1>2, IndexLap
<1>5. q * m \in Nat /\ s * m \in Nat
  BY <1>1
<1>6. q < s => q * m + m <= s * m
  BY <1>1, LapsApart
<1>7. s < q => s * m + m <= q * m
  BY <1>1, LapsApart
<1>8. q = s => q * m = s * m
  OBVIOUS
<1>9. q < s \/ s < q \/ q = s
  BY <1>1
<1> QED
  BY <1>1, <1>3, <1>4, <1>5, <1>6, <1>7, <1>8, <1>9

\* A slot is the same one after the indices wrap.
LEMMA IndexBack ==
    ASSUME NEW m \in Nat, RingSize(m), NEW i \in Nat, i >= W
    PROVE  Index(i - W, m) = Index(i, m)
<1>1. m \in Nat \ {0} /\ W \in Nat /\ W % m = 0
  BY DEF RingSize
<1>2. PICK r \in 0..(m - 1) : r = Index(i, m)
  BY IndexLap
<1>3. PICK q \in Nat : i = q * m + r
  BY <1>2, IndexLap
<1>4. PICK s \in Nat : W = s * m + 0
  BY <1>1, Divided
<1>5. q * m \in Nat /\ s * m \in Nat
  BY <1>1
<1>6. i - W = (q - s) * m + r /\ q - s \in Int /\ i - W \in Int
  BY <1>1, <1>3, <1>4
<1>7. (i - W) % m = r
  BY <1>1, <1>6, Remainder
<1> QED
  BY <1>2, <1>7 DEF Index

-----------------------------------------------------------------------------
(* The entries of a ring *)

\* A function on 1..n is a sequence of length n.
LEMMA SeqOfFunction ==
    ASSUME NEW S, NEW n \in Nat, NEW f \in [1..n -> S]
    PROVE  f \in Seq(S) /\ Len(f) = n
OBVIOUS

\* The entries from one index to another are a sequence of what the slots have.
EntryOK(slots, m, S) ==
    \A a, b \in 0..(W - 1) :
        /\ Between(a, b) \in 0..(W - 1)
        /\ Entry(slots, m, a, b) \in Seq(S)
        /\ Len(Entry(slots, m, a, b)) = Between(a, b)
        /\ \A k \in 1..Between(a, b) :
             Entry(slots, m, a, b)[k] = slots[Index(a + k - 1, m)]

LEMMA EntryIs ==
    ASSUME NEW m \in Nat, RingSize(m), NEW S, NEW slots \in [0..(m - 1) -> S]
    PROVE  EntryOK(slots, m, S)
<1> SUFFICES ASSUME NEW a \in 0..(W - 1), NEW b \in 0..(W - 1)
             PROVE  /\ Between(a, b) \in 0..(W - 1)
                    /\ Entry(slots, m, a, b) \in Seq(S)
                    /\ Len(Entry(slots, m, a, b)) = Between(a, b)
                    /\ \A k \in 1..Between(a, b) :
                         Entry(slots, m, a, b)[k] = slots[Index(a + k - 1, m)]
  BY DEF EntryOK
<1>1. m \in Nat \ {0} /\ W \in Nat /\ W >= 2
  BY DEF RingSize
<1>2. Between(a, b) \in 0..(W - 1)
  BY <1>1, Distances
<1>3. ASSUME NEW k \in 1..Between(a, b) PROVE Index(a + k - 1, m) \in 0..(m - 1)
  <2>1. a + k - 1 \in Nat
    BY <1>1, <1>2
  <2> QED
    BY <2>1, IndexLap
<1>4. Entry(slots, m, a, b) \in [1..Between(a, b) -> S]
  BY <1>3 DEF Entry
<1>5. Entry(slots, m, a, b) \in Seq(S) /\ Len(Entry(slots, m, a, b)) = Between(a, b)
  BY <1>1, <1>2, <1>4, SeqOfFunction
<1> QED
  BY <1>2, <1>5 DEF Entry

\* The slot of index b, m entries or fewer behind, is the next one and not in use.
LEMMA NextSlot ==
    ASSUME NEW m \in Nat, RingSize(m), NEW a \in 0..(W - 1), NEW b \in 0..(W - 1)
    PROVE  /\ Index(a + Between(a, b), m) = Index(b, m)
           /\ Index(b, m) \in 0..(m - 1)
           /\ \A k \in 1..Between(a, b) : Index(a + k - 1, m) \in 0..(m - 1)
           /\ Between(a, b) < m =>
                \A k \in 1..Between(a, b) : Index(a + k - 1, m) # Index(b, m)
<1>1. m \in Nat \ {0} /\ W \in Nat /\ W >= 2
  BY DEF RingSize
<1>2. PICK n \in 0..(W - 1) : n = Between(a, b) /\ n = IF a <= b THEN b - a ELSE b - a + W
  <2>1. Between(a, b) \in 0..(W - 1)
    BY <1>1, Distances
  <2>2. Between(a, b) = IF a <= b THEN b - a ELSE b - a + W
    BY <1>1, Behind
  <2> QED
    BY <2>1, <2>2
<1>3. Index(a + n, m) = Index(b, m)
  <2>1. CASE a <= b
    BY <1>1, <1>2, <2>1
  <2>2. CASE ~(a <= b)
    <3>1. a + n \in Nat /\ a + n >= W /\ (a + n) - W = b
      BY <1>1, <1>2, <2>2
    <3> QED
      BY <3>1, IndexBack
  <2> QED
    BY <2>1, <2>2
<1>4. ASSUME NEW k \in 1..n PROVE Index(a + k - 1, m) \in 0..(m - 1)
  <2>1. a + k - 1 \in Nat
    BY <1>1
  <2> QED
    BY <2>1, IndexLap
<1>5. ASSUME n < m, NEW k \in 1..n PROVE Index(a + k - 1, m) # Index(a + n, m)
  <2>1. a + k - 1 \in Nat /\ a + n \in Nat /\ a + k - 1 < a + n /\ a + n < (a + k - 1) + m
    BY <1>1, <1>2, <1>5
  <2> QED
    BY <2>1, IndexApart
<1>6. Index(b, m) \in 0..(m - 1)
  <2>1. b \in Nat
    BY <1>1
  <2> QED
    BY <2>1, IndexLap
<1> QED
  BY <1>2, <1>3, <1>4, <1>5, <1>6

\* The entries from index a to index b did not change.
SameEntries(old, new, m, a, b) ==
    \A k \in 1..Between(a, b) : new[Index(a + k - 1, m)] = old[Index(a + k - 1, m)]

\* Filling the next slot adds its entry.
LEMMA EntryAdd ==
    ASSUME NEW m \in Nat, RingSize(m), NEW S,
           NEW old \in [0..(m - 1) -> S], NEW new \in [0..(m - 1) -> S],
           NEW a \in 0..(W - 1), NEW b \in 0..(W - 1), Between(a, b) < m,
           SameEntries(old, new, m, a, b)
    PROVE  /\ Entry(new, m, a, Plus1(b)) = Append(Entry(old, m, a, b), new[Index(b, m)])
           /\ Between(a, Plus1(b)) = Between(a, b) + 1
<1>1. m \in Nat \ {0} /\ W \in Nat /\ W >= 2 /\ 2 * m <= W
  BY DEF RingSize
<1>2. PICK n \in 0..(W - 1) : n = Between(a, b) /\ n < m
  BY <1>1, Distances
<1>3. PICK c \in 0..(W - 1) : c = Plus1(b)
  BY <1>1, NextIndex
<1>4. Between(a, c) = n + 1
  <2>1. Between(a, b) < W - 1
    BY <1>1, <1>2
  <2> QED
    BY <1>1, <1>2, <1>3, <2>1, Distances
<1>5. new[Index(b, m)] \in S
  BY NextSlot
<1> DEFINE e == Entry(old, m, a, b)
           f == Entry(new, m, a, c)
<1>6. /\ e \in Seq(S) /\ Len(e) = n
      /\ \A k \in 1..n : e[k] = old[Index(a + k - 1, m)]
  <2>1. /\ e \in Seq(S) /\ Len(e) = Between(a, b)
        /\ \A k \in 1..Between(a, b) : e[k] = old[Index(a + k - 1, m)]
    <3>1. EntryOK(old, m, S)
      BY EntryIs
    <3> QED
      BY <3>1 DEF EntryOK
  <2> QED
    BY <1>2, <2>1
<1>7. /\ f \in Seq(S) /\ Len(f) = n + 1
      /\ \A k \in 1..(n + 1) : f[k] = new[Index(a + k - 1, m)]
  <2>1. /\ f \in Seq(S) /\ Len(f) = Between(a, c)
        /\ \A k \in 1..Between(a, c) : f[k] = new[Index(a + k - 1, m)]
    <3>1. EntryOK(new, m, S)
      BY EntryIs
    <3> QED
      BY <3>1 DEF EntryOK
  <2> QED
    BY <1>4, <2>1
<1> HIDE DEF e, f
<1>8. /\ Append(e, new[Index(b, m)]) \in Seq(S) /\ Len(Append(e, new[Index(b, m)])) = n + 1
      /\ \A k \in 1..n : Append(e, new[Index(b, m)])[k] = e[k]
      /\ Append(e, new[Index(b, m)])[n + 1] = new[Index(b, m)]
  BY <1>5, <1>6, AppendProperties
<1>9. ASSUME NEW k \in 1..(n + 1) PROVE f[k] = Append(e, new[Index(b, m)])[k]
  <2>1. CASE k = n + 1
    <3>1. a + k - 1 = a + n
      BY <1>2, <2>1
    <3>2. Index(a + k - 1, m) = Index(b, m)
      BY <1>2, <3>1, NextSlot
    <3> QED
      BY <1>7, <1>8, <2>1, <3>2
  <2>2. CASE k # n + 1
    <3>1. k \in 1..n
      BY <1>2, <2>2
    <3>2. new[Index(a + k - 1, m)] = old[Index(a + k - 1, m)]
      BY <1>2, <3>1 DEF SameEntries
    <3> QED
      BY <1>2, <1>6, <1>7, <1>8, <3>1, <3>2
  <2> QED
    BY <2>1, <2>2
<1>10. f = Append(e, new[Index(b, m)])
  BY <1>7, <1>8, <1>9, SeqEqual
<1> QED
  BY <1>2, <1>3, <1>4, <1>10 DEF e, f

\* Advancing the head drops the oldest entry.
LEMMA EntryDrop ==
    ASSUME NEW m \in Nat, RingSize(m), NEW S, NEW slots \in [0..(m - 1) -> S],
           NEW a \in 0..(W - 1), NEW b \in 0..(W - 1), a # b
    PROVE  /\ Between(a, b) > 0
           /\ Entry(slots, m, a, b)[1] = slots[Index(a, m)]
           /\ Entry(slots, m, Plus1(a), b) = Tail(Entry(slots, m, a, b))
           /\ Between(Plus1(a), b) = Between(a, b) - 1
           /\ \A k \in 1..(Between(a, b) - 1) : Index(Plus1(a) + k - 1, m) = Index(a + k, m)
<1>1. m \in Nat \ {0} /\ W \in Nat /\ W >= 2
  BY DEF RingSize
<1>2. PICK n \in 1..(W - 1) : n = Between(a, b)
  <2>1. Between(a, b) \in 1..(W - 1)
    BY <1>1, DistanceOfTwo
  <2> QED
    BY <1>1, <2>1
<1>3. PICK c \in 0..(W - 1) : c = Plus1(a) /\ c = IF a + 1 < W THEN a + 1 ELSE 0
  BY <1>1, NextIndex
<1>4. Between(c, b) = n - 1
  <2>1. Between(Plus1(a), b) = Between(a, b) - 1
    BY <1>1, Distances
  <2> QED
    BY <1>2, <1>3, <2>1
<1> DEFINE e == Entry(slots, m, a, b)
           f == Entry(slots, m, c, b)
<1>5. /\ e \in Seq(S) /\ Len(e) = n
      /\ \A k \in 1..n : e[k] = slots[Index(a + k - 1, m)]
  <2>1. /\ e \in Seq(S) /\ Len(e) = Between(a, b)
        /\ \A k \in 1..Between(a, b) : e[k] = slots[Index(a + k - 1, m)]
    <3>1. EntryOK(slots, m, S)
      BY EntryIs
    <3> QED
      BY <3>1 DEF EntryOK
  <2> QED
    BY <1>2, <2>1
<1>6. /\ f \in Seq(S) /\ Len(f) = n - 1
      /\ \A k \in 1..(n - 1) : f[k] = slots[Index(c + k - 1, m)]
  <2>1. /\ f \in Seq(S) /\ Len(f) = Between(c, b)
        /\ \A k \in 1..Between(c, b) : f[k] = slots[Index(c + k - 1, m)]
    <3>1. EntryOK(slots, m, S)
      BY EntryIs
    <3> QED
      BY <3>1 DEF EntryOK
  <2> QED
    BY <1>4, <2>1
<1> HIDE DEF e, f
<1>7. e # <<>>
  BY <1>2, <1>5
<1>8. Tail(e) \in Seq(S) /\ Len(Tail(e)) = n - 1 /\ \A k \in 1..(n - 1) : Tail(e)[k] = e[k + 1]
  BY <1>2, <1>5, <1>7, HeadTailProperties
<1>9. ASSUME NEW k \in 1..(n - 1) PROVE Index(c + k - 1, m) = Index(a + k, m)
  <2>1. a + k \in Nat
    BY <1>1, <1>2
  <2>2. CASE a + 1 < W
    <3>1. c + k - 1 = a + k
      BY <1>1, <1>3, <2>2
    <3> QED
      BY <3>1
  <2>3. CASE ~(a + 1 < W)
    <3>1. a + k >= W /\ (a + k) - W = c + k - 1
      BY <1>1, <1>2, <1>3, <2>3
    <3> QED
      BY <2>1, <3>1, IndexBack
  <2> QED
    BY <2>2, <2>3
<1>10. ASSUME NEW k \in 1..(n - 1) PROVE f[k] = Tail(e)[k]
  <2>1. k + 1 \in 1..n /\ a + (k + 1) - 1 = a + k /\ a + k \in Nat
    BY <1>1, <1>2
  <2>2. Tail(e)[k] = slots[Index(a + k, m)]
    BY <1>5, <1>8, <2>1
  <2> QED
    BY <1>6, <1>9, <2>2
<1>11. f = Tail(e)
  BY <1>6, <1>8, <1>10, SeqEqual
<1>12. e[1] = slots[Index(a, m)]
  <2>1. 1 \in 1..n /\ a + 1 - 1 = a
    BY <1>1, <1>2
  <2> QED
    BY <1>5, <2>1
<1> QED
  BY <1>2, <1>3, <1>4, <1>11, <1>12, <1>9 DEF e, f

-----------------------------------------------------------------------------
(* Where the requests are *)

LEMMA AppendedOne ==
    ASSUME NEW S, NEW s \in Seq(S), NEW e \in S, Distinct(s), e \notin Range(s)
    PROVE  /\ Append(s, e) \in Seq(S) /\ Len(Append(s, e)) = Len(s) + 1
           /\ Range(Append(s, e)) = Range(s) \cup {e}
           /\ Distinct(Append(s, e))
<1>1. /\ Len(s) \in Nat /\ DOMAIN s = 1..Len(s)
      /\ Append(s, e) \in Seq(S) /\ Len(Append(s, e)) = Len(s) + 1
      /\ DOMAIN Append(s, e) = 1..(Len(s) + 1)
      /\ \A k \in 1..Len(s) : Append(s, e)[k] = s[k]
      /\ Append(s, e)[Len(s) + 1] = e
  BY AppendProperties, LenProperties
<1> DEFINE t == Append(s, e)
           n == Len(s)
<1>2. /\ n \in Nat /\ DOMAIN s = 1..n /\ DOMAIN t = 1..(n + 1) /\ Len(t) = n + 1
      /\ \A k \in 1..n : t[k] = s[k]
      /\ t[n + 1] = e
  BY <1>1
<1>3. \A k \in 1..n : s[k] # e
  BY <1>2 DEF Range
<1>4. \A j, k \in 1..n : s[j] = s[k] => j = k
  BY DEF Distinct
<1> HIDE DEF t, n
<1>5. \A k \in 1..(n + 1) : k \in 1..n \/ k = n + 1
  BY <1>2
<1>6. \A j, k \in 1..(n + 1) : t[j] = t[k] => j = k
  BY <1>2, <1>3, <1>4, <1>5
<1>7. Range(t) = Range(s) \cup {e}
  <2>1. \A x : x \in Range(t) <=> \E k \in 1..(n + 1) : x = t[k]
    BY <1>2 DEF Range
  <2>2. \A x : x \in Range(s) <=> \E k \in 1..n : x = s[k]
    BY <1>2 DEF Range
  <2>3. n + 1 \in 1..(n + 1) /\ \A k \in 1..n : k \in 1..(n + 1)
    BY <1>2
  <2> QED
    BY <1>2, <1>5, <2>1, <2>2, <2>3
<1> QED
  BY <1>1, <1>2, <1>6, <1>7 DEF Distinct, t

LEMMA DroppedOne ==
    ASSUME NEW S, NEW s \in Seq(S), Distinct(s), Len(s) > 0
    PROVE  /\ Tail(s) \in Seq(S) /\ Len(Tail(s)) = Len(s) - 1
           /\ s[1] \in Range(s) /\ s[1] \in S
           /\ Range(Tail(s)) = Range(s) \ {s[1]}
           /\ Distinct(Tail(s))
<1>1. Len(s) \in Nat /\ DOMAIN s = 1..Len(s) /\ s # <<>>
  BY LenProperties
<1>2. /\ Tail(s) \in Seq(S) /\ Len(Tail(s)) = Len(s) - 1
      /\ \A k \in 1..Len(Tail(s)) : Tail(s)[k] = s[k + 1]
  BY <1>1, HeadTailProperties
<1>3. DOMAIN Tail(s) = 1..Len(Tail(s))
  BY <1>2, LenProperties
<1> DEFINE t == Tail(s)
           n == Len(s)
<1>4. /\ n \in Nat /\ n > 0 /\ DOMAIN s = 1..n /\ DOMAIN t = 1..(n - 1) /\ Len(t) = n - 1
      /\ \A k \in 1..(n - 1) : t[k] = s[k + 1]
  BY <1>1, <1>2, <1>3
<1>5. \A j, k \in 1..n : s[j] = s[k] => j = k
  BY DEF Distinct
<1>6. s[1] \in S
  BY <1>4, ElementOfSeq
<1> HIDE DEF t, n
<1>7. \A k \in 1..(n - 1) : k + 1 \in 1..n /\ k + 1 # 1
  BY <1>4
<1>8. \A k \in 1..n : k = 1 \/ (k - 1 \in 1..(n - 1) /\ (k - 1) + 1 = k)
  BY <1>4
<1>9. \A j, k \in 1..(n - 1) : t[j] = t[k] => j = k
  <2> SUFFICES ASSUME NEW j \in 1..(n - 1), NEW k \in 1..(n - 1), t[j] = t[k] PROVE j = k
    OBVIOUS
  <2>1. j + 1 = k + 1
    BY <1>4, <1>5, <1>7
  <2> QED
    BY <1>4, <2>1
<1>10. \A x : x \in Range(t) <=> \E k \in 1..(n - 1) : x = t[k]
  BY <1>4 DEF Range
<1>11. \A x : x \in Range(s) <=> \E k \in 1..n : x = s[k]
  BY <1>4 DEF Range
<1>12. 1 \in 1..n
  BY <1>4
<1>13. ASSUME NEW x PROVE x \in Range(t) <=> x \in Range(s) \ {s[1]}
  <2>1. ASSUME x \in Range(t) PROVE x \in Range(s) \ {s[1]}
    BY <1>4, <1>5, <1>7, <1>10, <1>11, <1>12, <2>1
  <2>2. ASSUME x \in Range(s) \ {s[1]} PROVE x \in Range(t)
    <3>1. PICK k \in 1..n : x = s[k]
      BY <1>11, <2>2
    <3>2. k - 1 \in 1..(n - 1) /\ (k - 1) + 1 = k
      BY <1>8, <2>2, <3>1
    <3> QED
      BY <1>4, <1>10, <3>1, <3>2
  <2> QED
    BY <2>1, <2>2
<1> QED
  BY <1>2, <1>4, <1>6, <1>9, <1>11, <1>12, <1>13 DEF Distinct, t

\* As many requests as entries.
LEMMA DistinctCount ==
    ASSUME NEW S, NEW s \in Seq(S), Distinct(s)
    PROVE  IsFiniteSet(Range(s)) /\ Cardinality(Range(s)) = Len(s)
<1>1. Len(s) \in Nat /\ s \in [1..Len(s) -> S] /\ DOMAIN s = 1..Len(s)
  BY LenProperties
<1>2. s \in Surjection(1..Len(s), Range(s)) /\ s \in Injection(1..Len(s), Range(s))
  BY <1>1 DEF Range, Distinct, Surjection, Injection, IsInjective
<1>3. IsFiniteSet(1..Len(s)) /\ Cardinality(1..Len(s)) = Len(s)
  <2>1. /\ IsFiniteSet(1..Len(s))
        /\ Cardinality(1..Len(s)) = IF 1 > Len(s) THEN 0 ELSE Len(s) - 1 + 1
    BY <1>1, FS_Interval, SMTT(15)
  <2> QED
    BY <1>1, <2>1
<1> QED
  BY <1>2, <1>3, FS_Surjection

\* A request is in one of five places.
Parted(A, B, C, D, E) ==
    /\ A \cap B = {} /\ A \cap C = {} /\ A \cap D = {} /\ A \cap E = {}
    /\ B \cap C = {} /\ B \cap D = {} /\ B \cap E = {}
    /\ C \cap D = {} /\ C \cap E = {} /\ D \cap E = {}
    /\ A \cup B \cup C \cup D \cup E = Reqs

LEMMA FiveSets ==
    ASSUME NEW A, NEW B, NEW C, NEW D, NEW E
    PROVE  Apart(<<A, B, C, D, E>>) /\ UNION Range(<<A, B, C, D, E>>) = Reqs
             <=> Parted(A, B, C, D, E)
<1> DEFINE p == <<A, B, C, D, E>>
<1>1. /\ Len(p) = 5 /\ DOMAIN p = 1..5
      /\ p[1] = A /\ p[2] = B /\ p[3] = C /\ p[4] = D /\ p[5] = E
  OBVIOUS
<1> HIDE DEF p
<1>2. 1..5 = {1, 2, 3, 4, 5}
  OBVIOUS
<1>3. Range(p) = {A, B, C, D, E}
  BY <1>1, <1>2 DEF Range
<1>4. UNION Range(p) = A \cup B \cup C \cup D \cup E
  BY <1>3
<1>5. Apart(p) <=>
        /\ A \cap B = {} /\ A \cap C = {} /\ A \cap D = {} /\ A \cap E = {}
        /\ B \cap C = {} /\ B \cap D = {} /\ B \cap E = {}
        /\ C \cap D = {} /\ C \cap E = {} /\ D \cap E = {}
  BY <1>1, <1>2 DEF Apart
<1> QED
  BY <1>4, <1>5 DEF Parted, p

LEMMA RequestsAre ==
    NoRequestLost <=>
        /\ Distinct(Submitted) /\ Distinct(Completed)
        /\ Parted(Range(Submitted), Range(Completed), Pushing, inflight, free)
BY FiveSets DEF NoRequestLost, Places

-----------------------------------------------------------------------------
(* The rings as sequences of requests *)

\* What the slots of the submission ring say through the array.
Slots == [i \in DOMAIN sqes |-> sqes[sqArray[i]]]

Values == Reqs \cup {NULL}

LEMMA RingTypes ==
    ASSUME TypeOK
    PROVE  /\ W \in Nat /\ W >= 4 /\ Entries \in Nat \ {0} /\ Entries < W
           /\ CqEntries \in Nat \ {0} /\ CqEntries < W
           /\ RingSize(Entries) /\ RingSize(CqEntries)
           /\ sqHead \in 0..(W - 1) /\ sqTail \in 0..(W - 1) /\ seenTail \in 0..(W - 1)
           /\ cqHead \in 0..(W - 1) /\ cqTail \in 0..(W - 1)
           /\ Slots \in [0..(Entries - 1) -> Values]
           /\ sqes \in [0..(Entries - 1) -> Values]
           /\ sqArray \in [0..(Entries - 1) -> 0..(Entries - 1)]
           /\ cqes \in [0..(CqEntries - 1) -> Values]
           /\ Submitted = Entry(Slots, Entries, sqHead, sqTail)
<1>1. /\ RingSize(Entries) /\ RingSize(CqEntries) /\ CqEntries = 2 * Entries
      /\ 4 * Entries <= W
  BY Sizes
<1>2. Entries \in Nat \ {0} /\ W \in Nat
  BY <1>1 DEF RingSize
<1>3. Slots \in [0..(Entries - 1) -> Values]
  BY DEF TypeOK, Slots, Values
<1>4. Submitted = Entry(Slots, Entries, sqHead, sqTail)
  BY DEF Submitted, Slots
<1>5. /\ sqes \in [0..(Entries - 1) -> Values]
      /\ sqArray \in [0..(Entries - 1) -> 0..(Entries - 1)]
      /\ cqes \in [0..(CqEntries - 1) -> Values]
  BY DEF TypeOK, Values
<1>6. /\ sqHead \in 0..(W - 1) /\ sqTail \in 0..(W - 1) /\ seenTail \in 0..(W - 1)
      /\ cqHead \in 0..(W - 1) /\ cqTail \in 0..(W - 1)
  BY DEF TypeOK
<1>7. W >= 4 /\ Entries < W /\ CqEntries \in Nat \ {0} /\ CqEntries < W
  BY <1>1, <1>2
<1> QED
  BY <1>1, <1>2, <1>3, <1>4, <1>5, <1>6, <1>7

LEMMA RingSequences ==
    ASSUME IInv
    PROVE  /\ Submitted \in Seq(Reqs) /\ Completed \in Seq(Reqs)
           /\ Len(Submitted) = Between(sqHead, sqTail)
           /\ Len(Submitted) \in Nat /\ Len(Completed) \in Nat
           /\ Entry(cqes, CqEntries, cqHead, cqTail) \in Seq(Values)
           /\ Len(Entry(cqes, CqEntries, cqHead, cqTail)) = Between(cqHead, cqTail)
           /\ overflow \in Seq(Reqs)
           /\ Len(Completed) = Between(cqHead, cqTail) + Len(overflow)
           /\ Between(cqHead, cqTail) \in Nat /\ Between(sqHead, sqTail) \in Nat
<1>1. TypeOK /\ NoRequestLost
  BY DEF IInv
<1>2. EntryOK(Slots, Entries, Values) /\ EntryOK(cqes, CqEntries, Values)
  BY <1>1, RingTypes, EntryIs
<1>3. /\ Submitted \in Seq(Values) /\ Len(Submitted) = Between(sqHead, sqTail)
      /\ Between(sqHead, sqTail) \in Nat
  BY <1>1, <1>2, RingTypes DEF EntryOK
<1> DEFINE e == Entry(cqes, CqEntries, cqHead, cqTail)
<1>4. e \in Seq(Values) /\ Len(e) = Between(cqHead, cqTail) /\ Between(cqHead, cqTail) \in Nat
  BY <1>1, <1>2, RingTypes DEF EntryOK
<1>5. overflow \in Seq(Reqs) /\ overflow \in Seq(Values)
  BY <1>1 DEF TypeOK, Values
<1> HIDE DEF e
<1>6. e \o overflow \in Seq(Values) /\ Len(e \o overflow) = Len(e) + Len(overflow)
  BY <1>4, <1>5, ConcatProperties
<1>7. Completed = e \o overflow
  BY DEF Completed, e
<1>8. Parted(Range(Submitted), Range(Completed), Pushing, inflight, free)
  BY <1>1, RequestsAre
<1>9. Range(Submitted) \subseteq Reqs /\ Range(Completed) \subseteq Reqs
  BY <1>8 DEF Parted
<1>10. Submitted \in Seq(Reqs)
  BY <1>3, <1>9 DEF Range
<1>11. Completed \in Seq(Reqs)
  <2> DEFINE c == Completed
  <2>1. c \in Seq(Values) /\ Range(c) \subseteq Reqs
    BY <1>6, <1>7, <1>9
  <2> HIDE DEF c
  <2>2. c \in Seq(Reqs)
    BY <2>1 DEF Range
  <2> QED
    BY <2>2 DEF c
<1> QED
  BY <1>3, <1>4, <1>5, <1>6, <1>7, <1>10, <1>11 DEF e

\* The kernel takes the oldest request of the submission ring.
LEMMA Consumed ==
    ASSUME IInv, sqHead # sqTail, Consume, UNCHANGED <<ring, sqTail, sqes, sqArray>>
    PROVE  /\ Len(Submitted) > 0 /\ Submitted' = Tail(Submitted)
           /\ inflight' = inflight \cup {Submitted[1]}
           /\ Between(sqHead', sqTail') = Between(sqHead, sqTail) - 1
           /\ sqHead' = Plus1(sqHead) /\ sqHead' \in 0..(W - 1)
           /\ Named'
<1>1. TypeOK
  BY DEF IInv
<1>2. /\ Between(sqHead, sqTail) > 0
      /\ Entry(Slots, Entries, sqHead, sqTail)[1] = Slots[Index(sqHead, Entries)]
      /\ Entry(Slots, Entries, Plus1(sqHead), sqTail)
           = Tail(Entry(Slots, Entries, sqHead, sqTail))
      /\ Between(Plus1(sqHead), sqTail) = Between(sqHead, sqTail) - 1
      /\ \A k \in 1..(Between(sqHead, sqTail) - 1) :
            Index(Plus1(sqHead) + k - 1, Entries) = Index(sqHead + k, Entries)
  <2>1. /\ Entries \in Nat /\ RingSize(Entries) /\ sqHead \in 0..(W - 1)
        /\ sqTail \in 0..(W - 1) /\ Slots \in [0..(Entries - 1) -> Values]
    BY <1>1, RingTypes
  <2> QED
    BY <2>1, EntryDrop
<1>3. Index(sqHead, Entries) \in 0..(Entries - 1)
  <2>1. sqHead \in Nat
    BY <1>1, RingTypes
  <2> QED
    BY <1>1, <2>1, RingTypes, IndexLap
<1>4. Slots[Index(sqHead, Entries)] = sqes[sqArray[Index(sqHead, Entries)]]
  BY <1>1, <1>3, RingTypes DEF Slots
<1>5. Submitted' = Entry(Slots, Entries, Plus1(sqHead), sqTail)
  BY DEF Consume, Submitted, Slots, Entries
<1>6. Plus1(sqHead) \in 0..(W - 1)
  BY <1>1, RingTypes, NextIndex
<1>7. Named'
  <2>1. PICK n \in Nat : n = Between(sqHead, sqTail)
    BY RingSequences
  <2>2. Entries' = Entries /\ sqArray' = sqArray /\ sqHead' = Plus1(sqHead) /\ sqTail' = sqTail
    BY DEF Consume, Entries
  <2> SUFFICES ASSUME NEW k \in 1..(n - 1)
               PROVE  sqArray[Index(Plus1(sqHead) + k - 1, Entries)]
                        = Index(Plus1(sqHead) + k - 1, Entries)
    BY <1>2, <2>1, <2>2 DEF Named
  <2>3. Index(Plus1(sqHead) + k - 1, Entries) = Index(sqHead + k, Entries)
    BY <1>2, <2>1
  <2>4. k + 1 \in 1..n /\ sqHead + (k + 1) - 1 = sqHead + k
    BY <1>1, <2>1, RingTypes
  <2>5. sqArray[Index(sqHead + (k + 1) - 1, Entries)] = Index(sqHead + (k + 1) - 1, Entries)
    BY <2>1, <2>4 DEF IInv, Named
  <2> QED
    BY <2>3, <2>4, <2>5
<1> QED
  BY <1>1, <1>2, <1>4, <1>5, <1>6, <1>7, RingTypes, RingSequences DEF Consume

\* A push adds its request to the submission ring.
LEMMA Published ==
    ASSUME IInv, PushPublish
    PROVE  /\ Submitted' = Append(Submitted, req)
           /\ Between(sqHead', sqTail') = Between(sqHead, sqTail) + 1
           /\ sqTail' \in 0..(W - 1) /\ sqTail' = Plus1(sqTail)
           /\ sqArray' \in [0..(Entries - 1) -> 0..(Entries - 1)]
           /\ Named'
<1>1. TypeOK /\ app = "publish"
  BY DEF IInv, PushPublish
<1>2. /\ UNCHANGED <<ring, sqHead, sqes>> /\ Entries' = Entries
      /\ sqTail' = Plus1(sqTail)
      /\ sqArray' = [sqArray EXCEPT ![Index(sqTail, Entries)] = Index(sqTail, Entries)]
  BY DEF PushPublish, callerVars, Entries
<1>3. PICK n \in Nat : n = Between(sqHead, sqTail) /\ n < Entries
  BY <1>1, RingSequences DEF IInv, Rooms
<1>4. /\ Index(sqHead + n, Entries) = Index(sqTail, Entries)
      /\ Index(sqTail, Entries) \in 0..(Entries - 1)
      /\ \A k \in 1..n : Index(sqHead + k - 1, Entries) \in 0..(Entries - 1)
      /\ \A k \in 1..n : Index(sqHead + k - 1, Entries) # Index(sqTail, Entries)
  BY <1>1, <1>3, RingTypes, NextSlot
<1> DEFINE new == [i \in DOMAIN sqes |-> sqes[sqArray'[i]]]
           s == Index(sqTail, Entries)
<1>5. /\ sqArray' \in [0..(Entries - 1) -> 0..(Entries - 1)]
      /\ sqArray'[s] = s
      /\ \A i \in 0..(Entries - 1) : i # s => sqArray'[i] = sqArray[i]
  BY <1>1, <1>2, <1>4, RingTypes
<1>6. new \in [0..(Entries - 1) -> Values] /\ new[s] = req
  <2>1. new \in [0..(Entries - 1) -> Values] /\ new[s] = sqes[s]
    BY <1>1, <1>4, <1>5, RingTypes
  <2> QED
    BY <1>1, <2>1 DEF IInv, Step
<1>7. \A k \in 1..n : new[Index(sqHead + k - 1, Entries)] = Slots[Index(sqHead + k - 1, Entries)]
  BY <1>1, <1>4, <1>5, RingTypes DEF Slots
<1>8. /\ Entry(new, Entries, sqHead, Plus1(sqTail))
           = Append(Entry(Slots, Entries, sqHead, sqTail), new[s])
      /\ Between(sqHead, Plus1(sqTail)) = Between(sqHead, sqTail) + 1
  <2>1. /\ Entries \in Nat /\ RingSize(Entries) /\ sqHead \in 0..(W - 1)
        /\ sqTail \in 0..(W - 1) /\ Slots \in [0..(Entries - 1) -> Values]
        /\ new \in [0..(Entries - 1) -> Values] /\ Between(sqHead, sqTail) < Entries
        /\ SameEntries(Slots, new, Entries, sqHead, sqTail)
    BY <1>1, <1>3, <1>6, <1>7, RingTypes DEF SameEntries
  <2> HIDE DEF new
  <2>2. /\ Entry(new, Entries, sqHead, Plus1(sqTail))
             = Append(Entry(Slots, Entries, sqHead, sqTail), new[Index(sqTail, Entries)])
        /\ Between(sqHead, Plus1(sqTail)) = Between(sqHead, sqTail) + 1
    BY <2>1, EntryAdd
  <2> QED
    BY <2>2
<1>9. Submitted' = Entry(new, Entries, sqHead, Plus1(sqTail))
  BY <1>2 DEF Submitted
<1>10. Plus1(sqTail) \in 0..(W - 1)
  BY <1>1, RingTypes, NextIndex
<1>11. Named'
  <2> SUFFICES ASSUME NEW k \in 1..(n + 1)
               PROVE  sqArray'[Index(sqHead + k - 1, Entries)] = Index(sqHead + k - 1, Entries)
    BY <1>2, <1>3, <1>8 DEF Named
  <2>1. CASE k = n + 1
    <3>1. sqHead + k - 1 = sqHead + n
      BY <1>1, <1>3, <2>1, RingTypes
    <3> QED
      BY <1>4, <1>5, <3>1
  <2>2. CASE k # n + 1
    <3>1. k \in 1..n
      BY <1>3, <2>2
    <3> QED
      BY <1>3, <1>4, <1>5, <3>1 DEF IInv, Named
  <2> QED
    BY <2>1, <2>2
<1> HIDE DEF new, s
<1> QED
  BY <1>1, <1>2, <1>5, <1>6, <1>8, <1>9, <1>10, <1>11, RingTypes

-----------------------------------------------------------------------------
(* The completion ring and what did not fit *)

LEMMA TailOfConcat ==
    ASSUME NEW S, NEW s \in Seq(S), NEW t \in Seq(S), Len(s) > 0
    PROVE  Tail(s \o t) = Tail(s) \o t /\ (s \o t)[1] = s[1] /\ Len(s \o t) > 0
<1> DEFINE u == s \o t
           v == Tail(s) \o t
<1>1. /\ Len(s) \in Nat /\ Len(t) \in Nat /\ u \in Seq(S) /\ Len(u) = Len(s) + Len(t)
      /\ \A k \in 1..(Len(s) + Len(t)) : u[k] = IF k <= Len(s) THEN s[k] ELSE t[k - Len(s)]
  BY ConcatProperties, LenProperties
<1>2. /\ Tail(s) \in Seq(S) /\ Len(Tail(s)) = Len(s) - 1
      /\ \A k \in 1..Len(Tail(s)) : Tail(s)[k] = s[k + 1]
  <2>1. s # <<>>
    OBVIOUS
  <2> QED
    BY <2>1, HeadTailProperties
<1>3. /\ v \in Seq(S) /\ Len(v) = Len(s) - 1 + Len(t)
      /\ \A k \in 1..(Len(s) - 1 + Len(t)) :
            v[k] = IF k <= Len(s) - 1 THEN Tail(s)[k] ELSE t[k - (Len(s) - 1)]
  BY <1>2, ConcatProperties
<1> HIDE DEF u, v
<1>4. /\ Tail(u) \in Seq(S) /\ Len(Tail(u)) = Len(u) - 1
      /\ \A k \in 1..Len(Tail(u)) : Tail(u)[k] = u[k + 1]
  <2>1. u # <<>>
    BY <1>1
  <2> QED
    BY <1>1, <2>1, HeadTailProperties
<1>5. ASSUME NEW k \in 1..Len(v) PROVE Tail(u)[k] = v[k]
  <2>1. k \in 1..Len(Tail(u)) /\ k + 1 \in 1..(Len(s) + Len(t))
    BY <1>1, <1>3, <1>4
  <2>2. Tail(u)[k] = IF k + 1 <= Len(s) THEN s[k + 1] ELSE t[k + 1 - Len(s)]
    BY <1>1, <1>4, <2>1
  <2>3. CASE k <= Len(s) - 1
    BY <1>1, <1>2, <1>3, <2>2, <2>3
  <2>4. CASE ~(k <= Len(s) - 1)
    <3>1. k + 1 - Len(s) = k - (Len(s) - 1)
      BY <1>1
    <3> QED
      BY <1>1, <1>3, <2>2, <2>4, <3>1
  <2> QED
    BY <2>3, <2>4
<1>6. Tail(u) = v
  BY <1>1, <1>3, <1>4, <1>5, SeqEqual
<1>7. 1 \in 1..(Len(s) + Len(t))
  BY <1>1
<1>8. u[1] = s[1] /\ Len(u) > 0
  BY <1>1, <1>7
<1> QED
  BY <1>6, <1>8 DEF u, v

\* Appending to a concatenation, and moving its border.
LEMMA AppendConcat ==
    ASSUME NEW S, NEW s \in Seq(S), NEW t \in Seq(S), NEW x \in S
    PROVE  /\ s \o Append(t, x) = Append(s \o t, x)
           /\ s \o <<x>> = Append(s, x)
           /\ t # <<>> => Append(s, Head(t)) \o Tail(t) = s \o t
<1>1. \A p, q, r \in Seq(S) : (p \o q) \o r = p \o (q \o r)
  BY ConcatAssociative, SMTT(15)
<1>2. \A p \in Seq(S) : \A e \in S : Append(p, e) = p \o <<e>> /\ <<e>> \in Seq(S)
  BY AppendIsConcat
<1>3. s \o t \in Seq(S)
  BY ConcatProperties
<1>4. s \o Append(t, x) = Append(s \o t, x)
  BY <1>1, <1>2, <1>3
<1>5. ASSUME t # <<>> PROVE Append(s, Head(t)) \o Tail(t) = s \o t
  <2>1. Head(t) \in S /\ Tail(t) \in Seq(S) /\ <<Head(t)>> \o Tail(t) = t
    BY <1>5, HeadTailProperties, ConcatProperties
  <2>2. Append(s, Head(t)) = s \o <<Head(t)>> /\ <<Head(t)>> \in Seq(S)
    BY <1>2, <2>1
  <2> QED
    BY <1>1, <2>1, <2>2
<1> QED
  BY <1>2, <1>4, <1>5

\* Completions in the ring.
Arrived == Entry(cqes, CqEntries, cqHead, cqTail)

\* The kernel stores a completion in the next place.
LEMMA Posted ==
    ASSUME IInv, NEW x \in Reqs, Between(cqHead, cqTail) < CqEntries,
           cqes' = [cqes EXCEPT ![Index(cqTail, CqEntries)] = x],
           cqTail' = Plus1(cqTail), UNCHANGED <<ring, cqHead>>
    PROVE  /\ Arrived' = Append(Arrived, x)
           /\ Between(cqHead', cqTail') = Between(cqHead, cqTail) + 1
           /\ cqTail' \in 0..(W - 1)
           /\ cqes' \in [0..(CqEntries - 1) -> Values]
<1>1. TypeOK /\ x \in Values
  BY DEF IInv, Values
<1>2. PICK n \in Nat : n = Between(cqHead, cqTail) /\ n < CqEntries
  BY RingSequences
<1>3. /\ Index(cqTail, CqEntries) \in 0..(CqEntries - 1)
      /\ \A k \in 1..n : Index(cqHead + k - 1, CqEntries) \in 0..(CqEntries - 1)
      /\ \A k \in 1..n : Index(cqHead + k - 1, CqEntries) # Index(cqTail, CqEntries)
  <2>1. /\ CqEntries \in Nat /\ RingSize(CqEntries)
        /\ cqHead \in 0..(W - 1) /\ cqTail \in 0..(W - 1)
    BY <1>1, RingTypes
  <2> QED
    BY <1>2, <2>1, NextSlot
<1> DEFINE new == [cqes EXCEPT ![Index(cqTail, CqEntries)] = x]
<1>4. /\ new \in [0..(CqEntries - 1) -> Values]
      /\ new[Index(cqTail, CqEntries)] = x
      /\ \A i \in 0..(CqEntries - 1) : i # Index(cqTail, CqEntries) => new[i] = cqes[i]
  BY <1>1, <1>3, RingTypes
<1>5. cqes' = new
  OBVIOUS
<1> HIDE DEF new
<1>6. SameEntries(cqes, new, CqEntries, cqHead, cqTail)
  BY <1>2, <1>3, <1>4 DEF SameEntries
<1>7. /\ CqEntries \in Nat /\ RingSize(CqEntries)
      /\ cqHead \in 0..(W - 1) /\ cqTail \in 0..(W - 1)
      /\ cqes \in [0..(CqEntries - 1) -> Values]
      /\ Between(cqHead, cqTail) < CqEntries
  BY <1>1, <1>2, RingTypes
<1>8. /\ Entry(new, CqEntries, cqHead, Plus1(cqTail))
           = Append(Entry(cqes, CqEntries, cqHead, cqTail), new[Index(cqTail, CqEntries)])
      /\ Between(cqHead, Plus1(cqTail)) = Between(cqHead, cqTail) + 1
  BY <1>4, <1>6, <1>7, EntryAdd
<1>9. Arrived' = Entry(new, CqEntries, cqHead, Plus1(cqTail))
  BY <1>5 DEF Arrived, CqEntries, Entries
<1>10. Plus1(cqTail) \in 0..(W - 1)
  BY <1>1, RingTypes, NextIndex
<1> QED
  BY <1>4, <1>5, <1>8, <1>9, <1>10 DEF Arrived

\* A request completes: it is the last of the completions, in the ring or not.
LEMMA Completes ==
    ASSUME IInv, NEW r \in Reqs, Complete(r)
    PROVE  /\ Completed' = Append(Completed, r)
           /\ overflow' \in Seq(Reqs)
           /\ cqTail' \in 0..(W - 1)
           /\ cqes' \in [0..(CqEntries - 1) -> Values]
           /\ Between(cqHead', cqTail') <= CqEntries
           /\ cqHead # cqTail => cqHead' # cqTail'
<1>1. /\ Completed = Arrived \o overflow /\ Arrived \in Seq(Values)
      /\ overflow \in Seq(Reqs) /\ overflow \in Seq(Values) /\ r \in Values
  <2>1. overflow \in Seq(Reqs) /\ Arrived \in Seq(Values)
    BY RingSequences DEF Arrived
  <2>2. overflow \in Seq(Values)
    BY <2>1, SeqMonotonic DEF Values
  <2> QED
    BY <2>1, <2>2 DEF Completed, Arrived, Values
<1>2. UNCHANGED <<ring, cqHead>>
  BY DEF Complete, callerVars
<1>3. CqEntries' = CqEntries
  BY <1>2 DEF CqEntries, Entries
<1>4. CASE overflow = <<>> /\ Between(cqHead, cqTail) < CqEntries
  <2>1. /\ cqes' = [cqes EXCEPT ![Index(cqTail, CqEntries)] = r]
        /\ cqTail' = Plus1(cqTail) /\ overflow' = overflow
    BY <1>4 DEF Complete
  <2>2. /\ Arrived' = Append(Arrived, r)
        /\ Between(cqHead', cqTail') = Between(cqHead, cqTail) + 1
        /\ cqTail' \in 0..(W - 1)
        /\ cqes' \in [0..(CqEntries - 1) -> Values]
    BY <1>2, <1>4, <2>1, Posted
  <2>3. Completed' = Append(Arrived, r) \o <<>> /\ Completed = Arrived \o <<>>
    BY <1>1, <1>4, <2>1, <2>2 DEF Completed, Arrived
  <2>4. Append(Arrived, r) \in Seq(Values)
    BY <1>1, AppendProperties
  <2>5. Append(Arrived, r) \o <<>> = Append(Arrived, r) /\ Arrived \o <<>> = Arrived
    BY <1>1, <2>4, ConcatEmptySeq
  <2>6. Between(cqHead', cqTail') <= CqEntries
    <3>1. CqEntries \in Nat
      BY RingTypes DEF IInv
    <3> QED
      BY <1>4, <2>2, <3>1, RingSequences
  <2>7. cqHead' # cqTail'
    <3>1. W \in Nat /\ W >= 2 /\ cqHead \in 0..(W - 1) /\ cqHead' = cqHead
      BY <1>2, RingTypes DEF IInv
    <3>2. Between(cqHead, cqTail) \in Nat
      BY RingSequences
    <3>3. Between(cqHead, cqTail') # 0
      BY <2>2, <3>1, <3>2
    <3> QED
      BY <2>2, <3>1, <3>3, Distances
  <2> QED
    BY <1>1, <2>1, <2>2, <2>3, <2>5, <2>6, <2>7
<1>5. CASE ~(overflow = <<>> /\ Between(cqHead, cqTail) < CqEntries)
  <2>1. overflow' = Append(overflow, r) /\ UNCHANGED <<cqes, cqTail>>
    BY <1>5 DEF Complete
  <2>2. Arrived' = Arrived
    BY <1>2, <1>3, <2>1 DEF Arrived
  <2>3. Completed' = Arrived \o Append(overflow, r)
    BY <2>1, <2>2 DEF Completed, Arrived
  <2>4. Arrived \o Append(overflow, r) = Append(Arrived \o overflow, r)
    BY <1>1, AppendConcat
  <2>5. Append(overflow, r) \in Seq(Reqs)
    BY <1>1, AppendProperties
  <2>6. /\ cqTail \in 0..(W - 1) /\ cqes \in [0..(CqEntries - 1) -> Values]
        /\ Between(cqHead, cqTail) <= CqEntries
    BY RingTypes DEF IInv, Rooms
  <2> QED
    BY <1>1, <1>2, <2>1, <2>3, <2>4, <2>5, <2>6
<1> QED
  BY <1>4, <1>5

\* Moving a completion into the ring leaves them all in place.
LEMMA Flushed ==
    ASSUME IInv, FlushOverflow
    PROVE  /\ Completed' = Completed
           /\ overflow' \in Seq(Reqs)
           /\ cqTail' \in 0..(W - 1)
           /\ cqes' \in [0..(CqEntries - 1) -> Values]
           /\ Between(cqHead', cqTail') <= CqEntries
<1>1. /\ Completed = Arrived \o overflow /\ Arrived \in Seq(Values)
      /\ overflow \in Seq(Reqs) /\ overflow \in Seq(Values) /\ overflow # <<>>
  <2>1. overflow \in Seq(Reqs) /\ Arrived \in Seq(Values)
    BY RingSequences DEF Arrived
  <2>2. overflow \in Seq(Values)
    BY <2>1, SeqMonotonic DEF Values
  <2> QED
    BY <2>1, <2>2 DEF Completed, Arrived, FlushOverflow
<1>2. PICK x \in Reqs : x = Head(overflow)
  BY <1>1, HeadTailProperties
<1>3. /\ UNCHANGED <<ring, cqHead>> /\ Between(cqHead, cqTail) < CqEntries
      /\ cqes' = [cqes EXCEPT ![Index(cqTail, CqEntries)] = x]
      /\ cqTail' = Plus1(cqTail) /\ overflow' = Tail(overflow)
  BY <1>2 DEF FlushOverflow, callerVars
<1>4. /\ Arrived' = Append(Arrived, x)
      /\ Between(cqHead', cqTail') = Between(cqHead, cqTail) + 1
      /\ cqTail' \in 0..(W - 1)
      /\ cqes' \in [0..(CqEntries - 1) -> Values]
  BY <1>3, Posted
<1>5. Completed' = Append(Arrived, x) \o Tail(overflow)
  BY <1>3, <1>4 DEF Completed, Arrived
<1>6. Append(Arrived, x) \o Tail(overflow) = Arrived \o overflow
  BY <1>1, <1>2, AppendConcat DEF Values
<1>7. Tail(overflow) \in Seq(Reqs)
  BY <1>1, HeadTailProperties
<1>8. Between(cqHead', cqTail') <= CqEntries
  <2>1. CqEntries \in Nat
    BY RingTypes DEF IInv
  <2> QED
    BY <1>3, <1>4, <2>1, RingSequences
<1> QED
  BY <1>1, <1>3, <1>4, <1>5, <1>6, <1>7, <1>8

\* Behind PopWait there is a completion.
LEMMA ReapIs ==
    ASSUME IInv, PopReap
    PROVE  /\ app = "reap" /\ app' = "idle" /\ cqHead # cqTail
           /\ free' = free \cup {cqes[Index(cqHead, CqEntries)]}
           /\ cqHead' = Plus1(cqHead) /\ latest' = NULL /\ owed' = owed - 1
           /\ UNCHANGED <<sqVars, cqTail, cqes, overflow, kernelVars, req, ring,
                          failures, stranded>>
<1>1. app = "reap" /\ cqHead # cqTail
  BY DEF IInv, PopReap, Rooms
<1> QED
  BY <1>1, Zenon DEF PopReap

\* A pop takes the oldest completion.
LEMMA Reaped ==
    ASSUME IInv, PopReap
    PROVE  /\ Len(Completed) > 0 /\ Completed' = Tail(Completed)
           /\ free' = free \cup {Completed[1]}
           /\ cqHead' \in 0..(W - 1)
           /\ Between(cqHead', cqTail') <= CqEntries
<1>1. TypeOK /\ app = "reap" /\ cqHead # cqTail
  BY ReapIs DEF IInv
<1>2. /\ UNCHANGED <<ring, cqTail, cqes, overflow>> /\ cqHead' = Plus1(cqHead)
      /\ free' = free \cup {cqes[Index(cqHead, CqEntries)]}
  BY ReapIs
<1>3. /\ CqEntries \in Nat /\ RingSize(CqEntries)
      /\ cqHead \in 0..(W - 1) /\ cqTail \in 0..(W - 1)
      /\ cqes \in [0..(CqEntries - 1) -> Values]
  BY <1>1, RingTypes
<1>4. /\ Between(cqHead, cqTail) > 0
      /\ Arrived[1] = cqes[Index(cqHead, CqEntries)]
      /\ Entry(cqes, CqEntries, Plus1(cqHead), cqTail) = Tail(Arrived)
      /\ Between(Plus1(cqHead), cqTail) = Between(cqHead, cqTail) - 1
  BY <1>1, <1>3, EntryDrop DEF Arrived
<1>5. Arrived' = Tail(Arrived)
  BY <1>2, <1>4 DEF Arrived, CqEntries, Entries
<1>6. /\ Completed = Arrived \o overflow /\ Arrived \in Seq(Values) /\ Len(Arrived) > 0
      /\ overflow \in Seq(Values)
  <2>1. /\ overflow \in Seq(Reqs) /\ Arrived \in Seq(Values)
        /\ Len(Arrived) = Between(cqHead, cqTail)
    BY RingSequences DEF Arrived
  <2>2. overflow \in Seq(Values)
    BY <2>1, SeqMonotonic DEF Values
  <2> QED
    BY <1>4, <2>1, <2>2 DEF Completed, Arrived
<1>7. Completed' = Tail(Arrived) \o overflow
  BY <1>2, <1>5 DEF Completed, Arrived
<1>8. /\ Tail(Arrived \o overflow) = Tail(Arrived) \o overflow
      /\ (Arrived \o overflow)[1] = Arrived[1] /\ Len(Arrived \o overflow) > 0
  BY <1>6, TailOfConcat
<1>9. Plus1(cqHead) \in 0..(W - 1)
  BY <1>1, RingTypes, NextIndex
<1>10. Between(cqHead', cqTail') <= CqEntries
  <2>1. Between(cqHead, cqTail) <= CqEntries
    BY DEF IInv, Rooms
  <2> QED
    BY <1>2, <1>3, <1>4, <2>1, RingSequences
<1> QED
  BY <1>2, <1>4, <1>6, <1>7, <1>8, <1>9, <1>10

\* Filling the next slot changes no entry.
LEMMA Filled ==
    ASSUME IInv, PushFill
    PROVE  /\ Submitted' = Submitted
           /\ sqes' \in [0..(Entries - 1) -> Values]
           /\ sqes'[Index(sqTail, Entries)] = req
<1>1. TypeOK /\ app = "fill" /\ req \in Values
  BY DEF IInv, PushFill, Step, Values
<1>2. /\ UNCHANGED <<ring, sqHead, sqTail, sqArray>> /\ Entries' = Entries
      /\ sqes' = [sqes EXCEPT ![Index(sqTail, Entries)] = req]
  BY DEF PushFill, callerVars, Entries
<1>3. PICK n \in Nat : n = Between(sqHead, sqTail) /\ n < Entries
  BY <1>1, RingSequences DEF IInv, Rooms
<1>4. /\ Index(sqTail, Entries) \in 0..(Entries - 1)
      /\ \A k \in 1..n : Index(sqHead + k - 1, Entries) \in 0..(Entries - 1)
      /\ \A k \in 1..n : Index(sqHead + k - 1, Entries) # Index(sqTail, Entries)
  <2>1. /\ Entries \in Nat /\ RingSize(Entries)
        /\ sqHead \in 0..(W - 1) /\ sqTail \in 0..(W - 1)
    BY <1>1, RingTypes
  <2> QED
    BY <1>3, <2>1, NextSlot
<1> DEFINE new == [i \in DOMAIN sqes' |-> sqes'[sqArray[i]]]
<1>5. /\ sqes' \in [0..(Entries - 1) -> Values]
      /\ sqes'[Index(sqTail, Entries)] = req
      /\ \A i \in 0..(Entries - 1) : i # Index(sqTail, Entries) => sqes'[i] = sqes[i]
  BY <1>1, <1>2, <1>4, RingTypes
<1>6. SameEntries(Slots, new, Entries, sqHead, sqTail)
  <2> SUFFICES ASSUME NEW k \in 1..n
               PROVE  new[Index(sqHead + k - 1, Entries)] = Slots[Index(sqHead + k - 1, Entries)]
    BY <1>3 DEF SameEntries
  <2>1. sqArray[Index(sqHead + k - 1, Entries)] = Index(sqHead + k - 1, Entries)
    BY <1>3 DEF IInv, Named
  <2> QED
    BY <1>1, <1>4, <1>5, <2>1, RingTypes DEF Slots
<1>7. Submitted' = Entry(new, Entries, sqHead, sqTail)
  BY <1>2 DEF Submitted
<1> HIDE DEF new
<1>8. Entry(new, Entries, sqHead, sqTail) = Entry(Slots, Entries, sqHead, sqTail)
  BY <1>6 DEF Entry, SameEntries
<1> QED
  BY <1>1, <1>5, <1>7, <1>8, RingTypes

LEMMA SameSubmitted ==
    ASSUME UNCHANGED <<ring, sqHead, sqTail, sqes, sqArray>>
    PROVE  Submitted' = Submitted /\ Entries' = Entries /\ (Named => Named')
<1>1. Entries' = Entries
  BY DEF Entries
<1>2. Submitted' = Submitted
  BY <1>1 DEF Submitted
<1>3. Named => Named'
  BY <1>1 DEF Named
<1> QED
  BY <1>1, <1>2, <1>3

LEMMA SameCompleted ==
    ASSUME UNCHANGED <<ring, cqHead, cqTail, cqes, overflow>>
    PROVE  Completed' = Completed /\ CqEntries' = CqEntries
<1>1. CqEntries' = CqEntries
  BY DEF CqEntries, Entries
<1> QED
  BY <1>1 DEF Completed

\* The requests in the rings and in the kernel, each counted once.
LEMMA Counts ==
    ASSUME IInv
    PROVE  /\ IsFiniteSet(inflight) /\ Cardinality(inflight) \in Nat
           /\ Cardinality(Reqs) \in Nat
           /\ Len(Submitted) \in Nat /\ Len(Completed) \in Nat
           /\ Len(Submitted) + Cardinality(inflight) + Len(Completed) <= Cardinality(Reqs)
<1>1. /\ Distinct(Submitted) /\ Distinct(Completed)
      /\ Parted(Range(Submitted), Range(Completed), Pushing, inflight, free)
  BY RequestsAre DEF IInv
<1>2. /\ Submitted \in Seq(Reqs) /\ Completed \in Seq(Reqs)
      /\ Len(Submitted) \in Nat /\ Len(Completed) \in Nat
  BY RingSequences
<1> DEFINE A == Range(Submitted)
           B == Range(Completed)
<1>3. IsFiniteSet(A) /\ Cardinality(A) = Len(Submitted)
  BY <1>1, <1>2, DistinctCount
<1>4. IsFiniteSet(B) /\ Cardinality(B) = Len(Completed)
  BY <1>1, <1>2, DistinctCount
<1>5. /\ A \cap B = {} /\ (A \cup B) \cap inflight = {} /\ (A \cup B) \cup inflight \subseteq Reqs
  BY <1>1 DEF Parted
<1> HIDE DEF A, B
<1>6. IsFiniteSet(Reqs) /\ Cardinality(Reqs) \in Nat
  BY BoundsAssumption, FS_CardinalityType
<1>7. IsFiniteSet(inflight) /\ Cardinality(inflight) \in Nat
  <2>1. inflight \in SUBSET Reqs
    BY <1>5
  <2>2. IsFiniteSet(inflight)
    BY <1>6, <2>1, FS_Subset
  <2> QED
    BY <2>2, FS_CardinalityType
<1>8. IsFiniteSet(A \cup B) /\ Cardinality(A \cup B) = Len(Submitted) + Len(Completed)
  <2>1. /\ IsFiniteSet(A \cup B)
        /\ Cardinality(A \cup B) = Cardinality(A) + Cardinality(B) - Cardinality(A \cap B)
    BY <1>3, <1>4, FS_Union
  <2>2. Cardinality(A \cap B) = 0
    BY <1>5, FS_EmptySet
  <2> QED
    BY <1>2, <1>3, <1>4, <2>1, <2>2
<1> DEFINE C == A \cup B
<1>9. /\ IsFiniteSet(C) /\ Cardinality(C) = Len(Submitted) + Len(Completed)
      /\ C \cap inflight = {} /\ C \cup inflight \in SUBSET Reqs
  BY <1>5, <1>8
<1> HIDE DEF C
<1>10. Cardinality(C \cup inflight) = Len(Submitted) + Len(Completed) + Cardinality(inflight)
  <2>1. Cardinality(C \cup inflight)
          = Cardinality(C) + Cardinality(inflight) - Cardinality(C \cap inflight)
    BY <1>7, <1>9, FS_Union
  <2>2. Cardinality(C \cap inflight) = 0
    BY <1>9, FS_EmptySet
  <2> QED
    BY <1>2, <1>7, <1>9, <2>1, <2>2
<1>11. Cardinality(C \cup inflight) <= Cardinality(Reqs)
  BY <1>6, <1>9, FS_Subset
<1> QED
  BY <1>2, <1>6, <1>7, <1>10, <1>11

-----------------------------------------------------------------------------
(* What a step has to show *)

LEMMA RequestsMove ==
    ASSUME NEW A, NEW B, NEW C, NEW D, NEW E,
           Submitted' = A, Completed' = B, Pushing' = C, inflight' = D, free' = E,
           Distinct(A), Distinct(B), Parted(Range(A), Range(B), C, D, E)
    PROVE  NoRequestLost'
<1>1. Apart(<<Range(A), Range(B), C, D, E>>) /\ UNION Range(<<Range(A), Range(B), C, D, E>>) = Reqs
  BY FiveSets
<1>2. Places' = <<Range(A), Range(B), C, D, E>>
  BY DEF Places
<1> QED
  BY <1>1, <1>2 DEF NoRequestLost

\* Pushes published and not answered.
Publishing == IF app \in {"flags", "wake", "enter"} THEN 1 ELSE 0

LEMMA StrandedIs ==
    StrandedStay <=>
        /\ Len(Submitted) + Cardinality(inflight) + Len(Completed)
             = owed + stranded + Publishing
        /\ ~ring.is_sq_poll => Len(Submitted) = stranded + Publishing
BY DEF StrandedStay, Publishing

LEMMA StrandedMove ==
    ASSUME NEW s, NEW k, NEW c, NEW n,
           Len(Submitted') = s, Cardinality(inflight') = k, Len(Completed') = c,
           Publishing' = n, s + k + c = owed' + stranded' + n,
           ~ring'.is_sq_poll => s = stranded' + n
    PROVE  StrandedStay'
BY DEF StrandedStay, Publishing

\* A step that moves no request.
LEMMA Quiet ==
    ASSUME IInv, Submitted' = Submitted, Completed' = Completed,
           UNCHANGED <<ring, inflight, free, owed, latest, stranded>>,
           Pushing' = Pushing, Publishing' = Publishing
    PROVE  NoRequestLost' /\ StrandedStay' /\ Latest' /\ InPlay' = InPlay
<1>1. /\ Distinct(Submitted) /\ Distinct(Completed)
      /\ Parted(Range(Submitted), Range(Completed), Pushing, inflight, free)
  BY RequestsAre DEF IInv
<1>2. NoRequestLost'
  BY <1>1, RequestsMove
<1>3. StrandedStay'
  BY StrandedIs DEF IInv, StrandedStay, Publishing
<1>4. InPlay' = InPlay
  BY DEF InPlay
<1> QED
  BY <1>2, <1>3, <1>4 DEF IInv, Latest

\* The types of the variables that are not part of the rings.
LEMMA Typed ==
    ASSUME TypeOK, ring' = ring,
           sqHead' \in 0..(W - 1), sqTail' \in 0..(W - 1), seenTail' \in 0..(W - 1),
           cqHead' \in 0..(W - 1), cqTail' \in 0..(W - 1),
           sqes' \in [0..(Entries - 1) -> Values],
           sqArray' \in [0..(Entries - 1) -> 0..(Entries - 1)],
           cqes' \in [0..(CqEntries - 1) -> Values],
           needWakeup' \in BOOLEAN, poller' \in {"run", "arm", "asleep"},
           inflight' \subseteq Reqs, free' \subseteq Reqs, overflow' \in Seq(Reqs),
           app' \in {"idle", "fill", "publish", "flags", "wake", "enter", "wait", "reap"},
           req' \in Values, latest' \in Values,
           owed' \in 0..Cardinality(Reqs),
           failures' \in 0..MaxFailures, stranded' \in 0..failures'
    PROVE  TypeOK'
<1>1. Entries' = Entries /\ CqEntries' = CqEntries
  BY DEF Entries, CqEntries
<1> QED
  BY <1>1 DEF TypeOK, Values

\* What TypeOK says of the variables a step leaves alone.
Kept ==
    /\ sqHead \in 0..(W - 1) /\ sqTail \in 0..(W - 1) /\ seenTail \in 0..(W - 1)
    /\ cqHead \in 0..(W - 1) /\ cqTail \in 0..(W - 1)
    /\ sqes \in [0..(Entries - 1) -> Values]
    /\ sqArray \in [0..(Entries - 1) -> 0..(Entries - 1)]
    /\ cqes \in [0..(CqEntries - 1) -> Values]
    /\ needWakeup \in BOOLEAN /\ poller \in {"run", "arm", "asleep"}
    /\ inflight \subseteq Reqs /\ free \subseteq Reqs /\ overflow \in Seq(Reqs)
    /\ req \in Values /\ latest \in Values
    /\ app \in {"idle", "fill", "publish", "flags", "wake", "enter", "wait", "reap"}
    /\ owed \in 0..Cardinality(Reqs)
    /\ failures \in 0..MaxFailures /\ stranded \in 0..failures
    /\ MaxFailures \in Nat /\ Cardinality(Reqs) \in Nat
    /\ Entries \in Nat \ {0} /\ CqEntries \in Nat \ {0} /\ W \in Nat /\ W >= 4

LEMMA KeptIs ==
    ASSUME IInv
    PROVE  Kept
<1>1. TypeOK
  BY DEF IInv
<1>2. /\ sqHead \in 0..(W - 1) /\ sqTail \in 0..(W - 1) /\ seenTail \in 0..(W - 1)
      /\ cqHead \in 0..(W - 1) /\ cqTail \in 0..(W - 1)
      /\ sqes \in [0..(Entries - 1) -> Values]
      /\ sqArray \in [0..(Entries - 1) -> 0..(Entries - 1)]
      /\ cqes \in [0..(CqEntries - 1) -> Values]
      /\ Entries \in Nat \ {0} /\ CqEntries \in Nat \ {0} /\ W \in Nat /\ W >= 4
  BY <1>1, RingTypes
<1>3. /\ needWakeup \in BOOLEAN /\ poller \in {"run", "arm", "asleep"}
      /\ inflight \subseteq Reqs /\ free \subseteq Reqs /\ overflow \in Seq(Reqs)
      /\ req \in Values /\ latest \in Values
      /\ app \in {"idle", "fill", "publish", "flags", "wake", "enter", "wait", "reap"}
      /\ owed \in 0..Cardinality(Reqs)
      /\ failures \in 0..MaxFailures /\ stranded \in 0..failures
  BY <1>1 DEF TypeOK, Values
<1>4. MaxFailures \in Nat /\ Cardinality(Reqs) \in Nat
  BY BoundsAssumption, FS_CardinalityType
<1> QED
  BY <1>2, <1>3, <1>4 DEF Kept

-----------------------------------------------------------------------------
(* Steps that move no request *)

\* Where the application thread goes in them.
QuietMove ==
    \/ app' = app
    \/ app = "flags" /\ app' \in {"wake", "enter"}
    \/ app = "idle" /\ app' = "wait" /\ owed > 0
    \/ app = "wait" /\ app' = "reap" /\ cqHead # cqTail
    \/ app = "wait" /\ app' = "idle"

LEMMA StepQuiet ==
    ASSUME IInv, UNCHANGED <<ring, sqHead, sqTail, sqes, sqArray>>, UNCHANGED cqVars,
           UNCHANGED <<inflight, req, free, owed, latest, stranded>>,
           QuietMove, seenTail' \in {seenTail, sqTail},
           needWakeup' \in BOOLEAN, poller' \in {"run", "arm", "asleep"},
           failures' = failures \/ EnterFails
    PROVE  IInv'
<1>1. Kept /\ TypeOK
  BY KeptIs DEF IInv
<1>2. Submitted' = Submitted /\ Entries' = Entries /\ Named'
  BY SameSubmitted DEF IInv
<1>3. Completed' = Completed /\ CqEntries' = CqEntries
  BY SameCompleted DEF cqVars
<1>4. NoRequestLost' /\ StrandedStay' /\ Latest' /\ InPlay' = InPlay
  <2>1. Pushing' = Pushing /\ Publishing' = Publishing
    BY DEF QuietMove, Pushing, Publishing
  <2> QED
    BY <1>2, <1>3, <2>1, Quiet
<1>5. Rooms'
  <2>1. Between(sqHead, sqTail) \in Nat
    BY RingSequences
  <2> QED
    BY <1>2, <1>3, <2>1 DEF IInv, Rooms, cqVars, QuietMove
<1>6. Step'
  BY <1>2, <1>4 DEF IInv, Step, QuietMove
<1>7. TypeOK'
  <2>1. seenTail' \in 0..(W - 1)
    BY <1>1 DEF Kept
  <2>2. failures' \in 0..MaxFailures /\ stranded' \in 0..failures'
    <3>1. failures \in 0..MaxFailures /\ stranded \in 0..failures /\ MaxFailures \in Nat
      BY <1>1 DEF Kept
    <3> QED
      BY <3>1 DEF EnterFails
  <2>3. app' \in {"idle", "fill", "publish", "flags", "wake", "enter", "wait", "reap"}
    BY <1>1 DEF Kept, QuietMove
  <2> QED
    BY <1>1, <2>1, <2>2, <2>3, Typed DEF Kept, cqVars
<1> QED
  BY <1>2, <1>4, <1>5, <1>6, <1>7 DEF IInv

LEMMA QuietSteps ==
    ASSUME IInv,
           \/ PushFlags \/ PopCall \/ PopWait \/ PopFails
           \/ PollArm \/ PollRecheck \/ TailVisible
    PROVE  IInv'
<1>1. CASE PushFlags
  BY <1>1, StepQuiet, KeptIs
     DEF PushFlags, QuietMove, Kept, sqVars, kernelVars, callerVars
<1>2. CASE PopCall
  BY <1>2, StepQuiet, KeptIs DEF PopCall, QuietMove, Kept, sqVars, kernelVars, callerVars
<1>3. CASE PopWait
  BY <1>3, StepQuiet, KeptIs DEF PopWait, QuietMove, Kept, sqVars, kernelVars, callerVars
<1>4. CASE PopFails
  BY <1>4, StepQuiet, KeptIs DEF PopFails, QuietMove, Kept, sqVars, kernelVars, callerVars
<1>5. CASE PollArm
  BY <1>5, StepQuiet, KeptIs DEF PollArm, QuietMove, Kept, sqVars, callerVars
<1>6. CASE PollRecheck
  BY <1>6, StepQuiet, KeptIs DEF PollRecheck, QuietMove, Kept, sqVars, callerVars
<1>7. CASE TailVisible
  BY <1>7, StepQuiet, KeptIs DEF TailVisible, QuietMove, Kept, kernelVars, callerVars
<1> QED
  BY <1>1, <1>2, <1>3, <1>4, <1>5, <1>6, <1>7

\* A failing call leaves the entry in the ring.
LEMMA StepPushFails ==
    ASSUME IInv, PushFails
    PROVE  IInv'
<1>1. /\ UNCHANGED <<sqHead, sqTail, sqes, sqArray, kernelVars, ring, free, owed, latest>>
      /\ UNCHANGED cqVars /\ app \in {"wake", "enter"} /\ app' = "idle" /\ req' = NULL
      /\ seenTail' = sqTail /\ stranded' = stranded + 1 /\ EnterFails
  BY DEF PushFails
<1>2. Kept /\ TypeOK
  BY KeptIs DEF IInv
<1>3. Submitted' = Submitted /\ Entries' = Entries /\ Named'
  BY <1>1, SameSubmitted DEF IInv
<1>4. Completed' = Completed /\ CqEntries' = CqEntries
  BY <1>1, SameCompleted DEF cqVars
<1>5. Pushing' = Pushing
  BY <1>1 DEF Pushing
<1>6. NoRequestLost'
  BY <1>1, <1>3, <1>4, <1>5, RequestsAre, RequestsMove DEF IInv, kernelVars
<1>7. StrandedStay'
  <2>1. /\ Len(Submitted) + Cardinality(inflight) + Len(Completed) = owed + stranded + 1
        /\ ~ring.is_sq_poll => Len(Submitted) = stranded + 1
        /\ Publishing' = 0
    BY <1>1, StrandedIs DEF IInv, Publishing
  <2>2. owed \in Nat /\ stranded \in Nat
    BY <1>2 DEF Kept
  <2> QED
    BY <1>1, <1>3, <1>4, <2>1, <2>2, Counts, StrandedMove DEF kernelVars
<1>8. Latest' /\ InPlay' = InPlay
  BY <1>1, <1>3, <1>4 DEF IInv, Latest, InPlay, kernelVars
<1>9. Rooms'
  <2>1. Between(sqHead, sqTail) \in Nat
    BY RingSequences
  <2> QED
    BY <1>1, <1>3, <1>4, <2>1 DEF IInv, Rooms, cqVars
<1>10. Step'
  BY <1>1 DEF Step
<1>11. TypeOK'
  <2>1. seenTail' \in 0..(W - 1) /\ req' \in Values
    BY <1>1, <1>2 DEF Kept, Values
  <2>2. failures' \in 0..MaxFailures /\ stranded' \in 0..failures'
    BY <1>1, <1>2 DEF Kept, EnterFails
  <2> QED
    BY <1>1, <1>2, <2>1, <2>2, Typed DEF Kept, cqVars, kernelVars
<1> QED
  BY <1>3, <1>6, <1>7, <1>8, <1>9, <1>10, <1>11 DEF IInv

-----------------------------------------------------------------------------
(* The steps of a push *)

LEMMA StepPushSlot ==
    ASSUME IInv, PushSlot
    PROVE  IInv'
<1>1. /\ UNCHANGED <<sqVars, cqVars, kernelVars, ring, owed, latest, failures, stranded>>
      /\ app = "idle" /\ app' = "fill" /\ Between(sqHead, sqTail) < Entries
  BY DEF PushSlot
<1>2. PICK r \in free : req' = r /\ free' = free \ {r}
  BY DEF PushSlot
<1>3. Kept /\ TypeOK
  BY KeptIs DEF IInv
<1>4. Submitted' = Submitted /\ Entries' = Entries /\ Named'
  BY <1>1, SameSubmitted DEF IInv, sqVars
<1>5. Completed' = Completed /\ CqEntries' = CqEntries
  BY <1>1, SameCompleted DEF cqVars
<1>6. NoRequestLost'
  <2> DEFINE A == Range(Submitted)
             B == Range(Completed)
  <2>1. /\ Distinct(Submitted) /\ Distinct(Completed)
        /\ Parted(A, B, Pushing, inflight, free)
    BY RequestsAre DEF IInv
  <2>2. Pushing = {} /\ Pushing' = {r}
    BY <1>1, <1>2 DEF Pushing
  <2> HIDE DEF A, B
  <2>3. Parted(A, B, {r}, inflight, free \ {r})
    BY <2>1, <2>2 DEF Parted
  <2> QED
    BY <1>1, <1>2, <1>4, <1>5, <2>1, <2>2, <2>3, RequestsMove DEF kernelVars, A, B
<1>7. StrandedStay'
  <2>1. Publishing = 0 /\ Publishing' = 0
    BY <1>1 DEF Publishing
  <2>2. /\ Len(Submitted) + Cardinality(inflight) + Len(Completed) = owed + stranded + 0
        /\ ~ring.is_sq_poll => Len(Submitted) = stranded + 0
    BY <2>1, StrandedIs DEF IInv
  <2> QED
    BY <1>1, <1>4, <1>5, <2>1, <2>2, StrandedMove DEF kernelVars
<1>8. Latest'
  BY <1>1, <1>4, <1>5 DEF IInv, Latest, InPlay, kernelVars
<1>9. Rooms'
  BY <1>1, <1>4, <1>5 DEF IInv, Rooms, sqVars, cqVars
<1>10. Step'
  BY <1>1, <1>2, <1>3 DEF Step, Kept
<1>11. TypeOK'
  <2>1. req' \in Values /\ free' \subseteq Reqs
    BY <1>2, <1>3 DEF Kept, Values
  <2> QED
    BY <1>1, <1>3, <2>1, Typed DEF Kept, sqVars, cqVars, kernelVars
<1> QED
  BY <1>4, <1>6, <1>7, <1>8, <1>9, <1>10, <1>11 DEF IInv

LEMMA StepPushFill ==
    ASSUME IInv, PushFill
    PROVE  IInv'
<1>1. /\ UNCHANGED <<sqHead, sqTail, sqArray, seenTail, cqVars, kernelVars, req>>
      /\ UNCHANGED <<ring, free, owed, latest, failures, stranded>>
      /\ app = "fill" /\ app' = "publish"
  BY DEF PushFill, callerVars
<1>2. Kept /\ TypeOK
  BY KeptIs DEF IInv
<1>3. /\ Submitted' = Submitted /\ sqes' \in [0..(Entries - 1) -> Values]
      /\ sqes'[Index(sqTail, Entries)] = req
  BY Filled
<1>4. Entries' = Entries /\ Completed' = Completed /\ CqEntries' = CqEntries
  BY <1>1, SameCompleted DEF cqVars, Entries
<1>5. Named'
  BY <1>1, <1>4 DEF IInv, Named
<1>6. NoRequestLost' /\ StrandedStay' /\ Latest' /\ InPlay' = InPlay
  <2>1. Pushing' = Pushing /\ Publishing' = Publishing
    BY <1>1 DEF Pushing, Publishing
  <2> QED
    BY <1>1, <1>3, <1>4, <2>1, Quiet DEF kernelVars
<1>7. Rooms'
  BY <1>1, <1>4 DEF IInv, Rooms, cqVars
<1>8. Step'
  BY <1>1, <1>3, <1>4 DEF IInv, Step
<1>9. TypeOK'
  BY <1>1, <1>2, <1>3, Typed DEF Kept, cqVars, kernelVars
<1> QED
  BY <1>5, <1>6, <1>7, <1>8, <1>9 DEF IInv

LEMMA StepPushPublish ==
    ASSUME IInv, PushPublish
    PROVE  IInv'
<1>1. /\ UNCHANGED <<sqHead, sqes, cqVars, kernelVars, req>>
      /\ UNCHANGED <<ring, free, owed, latest, failures, stranded>>
      /\ app = "publish" /\ seenTail' \in {seenTail, sqTail'}
      /\ app' = IF ring.is_sq_poll THEN "flags" ELSE "enter"
  BY DEF PushPublish, callerVars
<1>2. Kept /\ TypeOK
  BY KeptIs DEF IInv
<1>3. /\ Submitted' = Append(Submitted, req)
      /\ Between(sqHead', sqTail') = Between(sqHead, sqTail) + 1
      /\ sqTail' \in 0..(W - 1)
      /\ sqArray' \in [0..(Entries - 1) -> 0..(Entries - 1)]
      /\ Named'
  BY Published
<1>4. Entries' = Entries /\ Completed' = Completed /\ CqEntries' = CqEntries
  BY <1>1, SameCompleted DEF cqVars, Entries
<1>5. PICK r \in Reqs : r = req
  BY <1>1 DEF IInv, Step
<1>6. /\ Distinct(Submitted) /\ Distinct(Completed)
      /\ Parted(Range(Submitted), Range(Completed), {r}, inflight, free)
  <2>1. Pushing = {r}
    BY <1>1, <1>5 DEF Pushing
  <2> QED
    BY <2>1, RequestsAre DEF IInv
<1>7. /\ Len(Append(Submitted, r)) = Len(Submitted) + 1
      /\ Range(Append(Submitted, r)) = Range(Submitted) \cup {r}
      /\ Distinct(Append(Submitted, r))
  <2>1. r \notin Range(Submitted) /\ Submitted \in Seq(Reqs)
    BY <1>6, RingSequences DEF Parted
  <2> QED
    BY <1>6, <2>1, AppendedOne
<1>8. NoRequestLost'
  <2> DEFINE A == Range(Submitted)
             B == Range(Completed)
  <2>1. Parted(A, B, {r}, inflight, free)
    BY <1>6
  <2> HIDE DEF A, B
  <2>2. Parted(A \cup {r}, B, {}, inflight, free)
    BY <2>1 DEF Parted
  <2>3. Pushing' = {} /\ inflight' = inflight /\ free' = free
    BY <1>1 DEF Pushing, kernelVars
  <2>4. /\ Range(Submitted)' = A \cup {r} /\ Range(Completed)' = B
        /\ Distinct(Submitted)' /\ Distinct(Completed)'
    BY <1>3, <1>4, <1>5, <1>6, <1>7 DEF A, B
  <2> QED
    BY <2>2, <2>3, <2>4, RequestsMove
<1>9. StrandedStay'
  <2>1. Publishing = 0 /\ Publishing' = 1
    BY <1>1 DEF Publishing
  <2>2. /\ Len(Submitted) + Cardinality(inflight) + Len(Completed) = owed + stranded + 0
        /\ ~ring.is_sq_poll => Len(Submitted) = stranded + 0
    BY <2>1, StrandedIs DEF IInv
  <2>3. owed \in Nat /\ stranded \in Nat
    BY <1>2 DEF Kept
  <2>4. Len(Submitted') = Len(Submitted) + 1
    BY <1>3, <1>5, <1>7
  <2>5. /\ (Len(Submitted) + 1) + Cardinality(inflight) + Len(Completed)
              = owed' + stranded' + 1
        /\ ~ring'.is_sq_poll => Len(Submitted) + 1 = stranded' + 1
    BY <1>1, <2>2, <2>3, Counts
  <2> QED
    BY <1>1, <1>4, <2>1, <2>4, <2>5, StrandedMove DEF kernelVars
<1>10. InPlay' = InPlay \cup {r}
  BY <1>1, <1>3, <1>4, <1>5, <1>7 DEF InPlay, kernelVars
<1>11. Latest'
  BY <1>1, <1>10 DEF IInv, Latest
<1>12. Rooms'
  <2>1. PICK n \in Nat : n = Between(sqHead, sqTail) /\ n < Entries
    BY <1>1, RingSequences DEF IInv, Rooms
  <2>2. Between(sqHead', seenTail') <= n + 1 /\ Between(sqHead', sqTail') = n + 1
    <3>1. Between(sqHead, seenTail) <= n /\ Between(sqHead, seenTail) \in Nat
      <4>1. /\ W \in Nat /\ W >= 2 /\ sqHead \in 0..(W - 1) /\ seenTail \in 0..(W - 1)
        BY <1>2 DEF Kept
      <4> QED
        BY <2>1, <4>1, Distances DEF IInv, Rooms
    <3> QED
      BY <1>1, <1>3, <2>1, <3>1
  <2>3. app' \notin {"fill", "publish", "reap"} /\ n + 1 <= Entries
    BY <1>1, <1>2, <2>1 DEF Kept
  <2> QED
    BY <1>1, <1>4, <2>2, <2>3 DEF IInv, Rooms, cqVars
<1>13. Step'
  BY <1>1, <1>5, <1>10 DEF Step
<1>14. TypeOK'
  <2>1. /\ app' \in {"idle", "fill", "publish", "flags", "wake", "enter", "wait", "reap"}
        /\ seenTail' \in 0..(W - 1)
    BY <1>1, <1>2, <1>3 DEF Kept
  <2> QED
    BY <1>1, <1>2, <1>3, <2>1, Typed DEF Kept, cqVars, kernelVars
<1> QED
  BY <1>3, <1>8, <1>9, <1>11, <1>12, <1>13, <1>14 DEF IInv

\* The push returns Success: its request is owed, and the latest if no other is.
LEMMA Succeeded ==
    ASSUME IInv, app \in {"wake", "enter"}, PushSucceeds
    PROVE  /\ app' = "idle" /\ req' = NULL /\ owed' = owed + 1
           /\ UNCHANGED <<ring, free, failures, stranded>>
           /\ owed' \in 0..Cardinality(Reqs) /\ latest' \in Values
           /\ Pushing = {} /\ Pushing' = {} /\ Publishing' = 0
           /\ Len(Submitted) + Cardinality(inflight) + Len(Completed)
                = owed' + stranded'
           /\ ~ring.is_sq_poll => Len(Submitted) = stranded' + 1
           /\ InPlay' = InPlay => Latest'
           /\ Step'
<1>1. /\ app' = "idle" /\ req' = NULL /\ owed' = owed + 1
      /\ UNCHANGED <<ring, free, failures, stranded>>
      /\ latest' = IF owed = 0 THEN req ELSE NULL
  BY DEF PushSucceeds
<1>2. Kept /\ req \in Reqs /\ req \in InPlay
  BY KeptIs DEF IInv, Step
<1>3. /\ Len(Submitted) + Cardinality(inflight) + Len(Completed) = owed + stranded + 1
      /\ ~ring.is_sq_poll => Len(Submitted) = stranded + 1
  BY StrandedIs DEF IInv, Publishing
<1>4. owed' \in 0..Cardinality(Reqs)
  BY <1>1, <1>2, <1>3, Counts DEF Kept
<1>5. latest' \in Values /\ Pushing = {} /\ Pushing' = {} /\ Publishing' = 0 /\ Step'
  BY <1>1, <1>2 DEF Values, Pushing, Publishing, Step
<1>6. InPlay' = InPlay => Latest'
  BY <1>1, <1>2 DEF Latest, Kept
<1>7. Len(Submitted) + Cardinality(inflight) + Len(Completed) = owed' + stranded'
  BY <1>1, <1>2, <1>3, Counts DEF Kept
<1> QED
  BY <1>1, <1>3, <1>4, <1>5, <1>6, <1>7

LEMMA StepPushWake ==
    ASSUME IInv, PushWake
    PROVE  IInv'
<1>1. /\ UNCHANGED <<sqHead, sqTail, sqes, sqArray, cqVars, inflight>>
      /\ app = "wake" /\ seenTail' = sqTail /\ poller' = "run" /\ needWakeup' = FALSE
      /\ PushSucceeds
  BY DEF PushWake
<1>2. Kept /\ TypeOK
  BY KeptIs DEF IInv
<1>3. /\ app' = "idle" /\ req' = NULL /\ owed' = owed + 1
      /\ UNCHANGED <<ring, free, failures, stranded>>
      /\ owed' \in 0..Cardinality(Reqs) /\ latest' \in Values
      /\ Pushing' = Pushing /\ Publishing' = 0
      /\ Len(Submitted) + Cardinality(inflight) + Len(Completed) = owed' + stranded'
      /\ InPlay' = InPlay => Latest'
      /\ Step'
  BY <1>1, Succeeded
<1>4. Submitted' = Submitted /\ Entries' = Entries /\ Named'
  BY <1>1, <1>3, SameSubmitted DEF IInv
<1>5. Completed' = Completed /\ CqEntries' = CqEntries
  BY <1>1, <1>3, SameCompleted DEF cqVars
<1>6. NoRequestLost'
  BY <1>1, <1>3, <1>4, <1>5, RequestsAre, RequestsMove DEF IInv
<1>7. StrandedStay'
  <2>1. ring.is_sq_poll
    BY <1>1 DEF IInv, Step
  <2>2. Len(Submitted) + Cardinality(inflight) + Len(Completed) = owed' + stranded' + 0
    BY <1>2, <1>3 DEF Kept
  <2> QED
    BY <1>1, <1>3, <1>4, <1>5, <2>1, <2>2, StrandedMove
<1>8. Latest'
  BY <1>1, <1>3, <1>4, <1>5 DEF InPlay
<1>9. Rooms'
  <2>1. Between(sqHead, sqTail) \in Nat
    BY RingSequences
  <2> QED
    BY <1>1, <1>3, <1>4, <1>5, <2>1 DEF IInv, Rooms, cqVars
<1>10. TypeOK'
  <2>1. seenTail' \in 0..(W - 1) /\ req' \in Values
    BY <1>1, <1>2, <1>3 DEF Kept, Values
  <2> QED
    BY <1>1, <1>2, <1>3, <2>1, Typed DEF Kept, cqVars
<1> QED
  BY <1>3, <1>4, <1>6, <1>7, <1>8, <1>9, <1>10 DEF IInv

\* The request the kernel takes changes its place and no other one does.
LEMMA Taken ==
    ASSUME IInv, sqHead # sqTail, Consume, UNCHANGED <<ring, sqTail, sqes, sqArray>>
    PROVE  /\ Len(Submitted') = Len(Submitted) - 1
           /\ Cardinality(inflight') = Cardinality(inflight) + 1
           /\ inflight' \subseteq Reqs /\ Distinct(Submitted')
           /\ Parted(Range(Submitted'), Range(Completed), Pushing, inflight', free)
           /\ Range(Submitted') \cup Range(Completed) \cup inflight' = InPlay
<1>1. /\ Len(Submitted) > 0 /\ Submitted' = Tail(Submitted)
      /\ inflight' = inflight \cup {Submitted[1]}
  BY Consumed
<1>2. /\ Distinct(Submitted)
      /\ Parted(Range(Submitted), Range(Completed), Pushing, inflight, free)
  BY RequestsAre DEF IInv
<1>3. /\ Len(Tail(Submitted)) = Len(Submitted) - 1
      /\ Submitted[1] \in Range(Submitted) /\ Submitted[1] \in Reqs
      /\ Range(Tail(Submitted)) = Range(Submitted) \ {Submitted[1]}
      /\ Distinct(Tail(Submitted))
  BY <1>1, <1>2, RingSequences, DroppedOne
<1> DEFINE A == Range(Submitted)
           B == Range(Completed)
<1>4. PICK x : x = Submitted[1] /\ x \in A /\ x \in Reqs
  BY <1>3
<1>5. Parted(A, B, Pushing, inflight, free) /\ InPlay = A \cup B \cup inflight
  BY <1>2 DEF InPlay
<1>6. Range(Submitted') = A \ {x} /\ inflight' = inflight \cup {x}
  BY <1>1, <1>3, <1>4
<1> HIDE DEF A
<1>7. Parted(A \ {x}, B, Pushing, inflight \cup {x}, free)
  BY <1>4, <1>5 DEF Parted
<1>8. (A \ {x}) \cup B \cup (inflight \cup {x}) = InPlay
  BY <1>4, <1>5
<1>9. Cardinality(inflight \cup {x}) = Cardinality(inflight) + 1
  <2>1. x \notin inflight
    BY <1>4, <1>5 DEF Parted
  <2> QED
    BY <2>1, Counts, FS_AddElement
<1>10. inflight \cup {x} \subseteq Reqs
  BY <1>4, KeptIs DEF Kept
<1> QED
  BY <1>1, <1>3, <1>6, <1>7, <1>8, <1>9, <1>10

LEMMA StepPushEnter ==
    ASSUME IInv, PushEnter
    PROVE  IInv'
<1>1. /\ UNCHANGED <<sqTail, sqes, sqArray, cqVars, needWakeup, poller>>
      /\ app = "enter" /\ seenTail' = sqTail /\ PushSucceeds
  BY DEF PushEnter
<1>2. Kept /\ TypeOK
  BY KeptIs DEF IInv
<1>3. /\ app' = "idle" /\ req' = NULL /\ owed' = owed + 1
      /\ UNCHANGED <<ring, free, failures, stranded>>
      /\ owed' \in 0..Cardinality(Reqs) /\ latest' \in Values
      /\ Pushing' = Pushing /\ Publishing' = 0
      /\ Len(Submitted) + Cardinality(inflight) + Len(Completed) = owed' + stranded'
      /\ ~ring.is_sq_poll => Len(Submitted) = stranded' + 1
      /\ InPlay' = InPlay => Latest'
      /\ Step'
  BY <1>1, Succeeded
<1>4. Entries' = Entries /\ Completed' = Completed /\ CqEntries' = CqEntries
  BY <1>1, <1>3, SameCompleted DEF cqVars, Entries
<1>5. /\ Distinct(Submitted) /\ Distinct(Completed)
      /\ Parted(Range(Submitted), Range(Completed), Pushing, inflight, free)
  BY RequestsAre DEF IInv
<1>6. PICK n \in Nat : n = Between(sqHead, sqTail) /\ n <= Entries /\ n = Len(Submitted)
  BY RingSequences DEF IInv, Rooms
<1>7. /\ sqHead' \in 0..(W - 1) /\ inflight' \subseteq Reqs
      /\ Named' /\ NoRequestLost' /\ StrandedStay'
      /\ InPlay' = InPlay /\ Between(sqHead', sqTail') <= n
      /\ Between(sqHead', sqTail') \in Nat
  <2>1. CASE ring.is_sq_poll
    <3>1. UNCHANGED <<inflight, sqHead>>
      BY <2>1 DEF PushEnter
    <3>2. Submitted' = Submitted /\ Named'
      BY <1>1, <1>3, <3>1, SameSubmitted DEF IInv
    <3>3. NoRequestLost'
      BY <1>3, <1>4, <1>5, <3>1, <3>2, RequestsMove
    <3>4. StrandedStay'
      <4>1. Len(Submitted) + Cardinality(inflight) + Len(Completed) = owed' + stranded' + 0
        BY <1>2, <1>3 DEF Kept
      <4> QED
        BY <1>3, <1>4, <2>1, <3>1, <3>2, <4>1, StrandedMove
    <3>5. InPlay' = InPlay
      BY <1>4, <3>1, <3>2 DEF InPlay
    <3>6. sqHead' \in 0..(W - 1) /\ inflight' \subseteq Reqs
      BY <1>2, <3>1 DEF Kept
    <3>7. Between(sqHead', sqTail') = n
      BY <1>1, <1>6, <3>1
    <3>8. Between(sqHead', sqTail') <= n /\ Between(sqHead', sqTail') \in Nat
      BY <1>6, <3>7
    <3> QED
      BY <3>2, <3>3, <3>4, <3>5, <3>6, <3>8
  <2>2. CASE ~ring.is_sq_poll
    <3>1. Consume
      BY <2>2 DEF PushEnter
    <3>2. sqHead # sqTail
      <4>1. stranded \in Nat
        BY <1>2 DEF Kept
      <4>2. n # 0
        BY <1>3, <1>6, <2>2, <4>1
      <4>3. W \in Nat /\ W >= 2 /\ sqHead \in 0..(W - 1) /\ sqTail \in 0..(W - 1)
        BY <1>2 DEF Kept
      <4> QED
        BY <1>6, <4>2, <4>3, Distances
    <3>3. /\ Len(Submitted') = Len(Submitted) - 1
          /\ Cardinality(inflight') = Cardinality(inflight) + 1
          /\ inflight' \subseteq Reqs /\ Distinct(Submitted')
          /\ Parted(Range(Submitted'), Range(Completed), Pushing, inflight', free)
          /\ Range(Submitted') \cup Range(Completed) \cup inflight' = InPlay
      BY <1>1, <1>3, <3>1, <3>2, Taken
    <3>4. /\ Len(Submitted) > 0 /\ Between(sqHead', sqTail') = Between(sqHead, sqTail) - 1
          /\ sqHead' \in 0..(W - 1) /\ Named'
      BY <1>1, <1>3, <3>1, <3>2, Consumed
    <3>5. NoRequestLost'
      BY <1>3, <1>4, <1>5, <3>3, RequestsMove
    <3>6. StrandedStay'
      <4>1. /\ (n - 1) + (Cardinality(inflight) + 1) + Len(Completed) = owed' + stranded' + 0
            /\ n - 1 = stranded' + 0
        <5>1. PICK k \in Nat, c \in Nat : k = Cardinality(inflight) /\ c = Len(Completed)
          BY Counts
        <5>2. PICK o \in Nat, t \in Nat : o = owed' /\ t = stranded'
          BY <1>2, <1>3 DEF Kept
        <5>3. n + k + c = o + t /\ n = t + 1
          BY <1>3, <1>6, <2>2, <5>1, <5>2
        <5>4. (n - 1) + (k + 1) + c = o + t + 0 /\ n - 1 = t + 0
          BY <5>3
        <5> QED
          BY <5>1, <5>2, <5>4
      <4> QED
        BY <1>3, <1>4, <1>6, <3>3, <4>1, StrandedMove
    <3>7. InPlay' = InPlay
      BY <1>4, <3>3 DEF InPlay
    <3>8. Between(sqHead', sqTail') = n - 1 /\ n > 0
      BY <1>6, <3>4
    <3>9. Between(sqHead', sqTail') <= n /\ Between(sqHead', sqTail') \in Nat
      BY <1>6, <3>8
    <3> QED
      BY <3>3, <3>4, <3>5, <3>6, <3>7, <3>9
  <2> QED
    BY <2>1, <2>2
<1>8. Rooms'
  <2>1. PICK d \in Nat : d = Between(sqHead', sqTail') /\ d <= n
    BY <1>7
  <2>2. d <= Entries /\ Between(sqHead', seenTail') <= d
    <3>1. Entries \in Nat
      BY <1>2 DEF Kept
    <3> QED
      BY <1>1, <1>6, <2>1, <3>1
  <2>3. Between(cqHead', cqTail') <= CqEntries
    BY <1>1 DEF IInv, Rooms, cqVars
  <2> QED
    BY <1>3, <1>4, <2>1, <2>2, <2>3 DEF Rooms
<1>9. TypeOK'
  <2>1. seenTail' \in 0..(W - 1) /\ req' \in Values
    BY <1>1, <1>2, <1>3 DEF Kept, Values
  <2> QED
    BY <1>1, <1>2, <1>3, <1>7, <2>1, Typed DEF Kept, cqVars
<1> QED
  BY <1>3, <1>7, <1>8, <1>9 DEF IInv

-----------------------------------------------------------------------------
(* The steps of the kernel and of a pop *)

LEMMA StepPollTake ==
    ASSUME IInv, PollTake
    PROVE  IInv'
<1>1. /\ UNCHANGED <<sqTail, sqes, sqArray, seenTail, cqVars, needWakeup, poller, app, req>>
      /\ UNCHANGED <<ring, free, owed, latest, failures, stranded>>
      /\ ring.is_sq_poll /\ sqHead # seenTail /\ Consume
  BY DEF PollTake, callerVars
<1>2. Kept /\ TypeOK
  BY KeptIs DEF IInv
<1>3. Entries' = Entries /\ Completed' = Completed /\ CqEntries' = CqEntries
  BY <1>1, SameCompleted DEF cqVars, Entries
<1>4. Pushing' = Pushing /\ Publishing' = Publishing
  BY <1>1 DEF Pushing, Publishing
<1>5. PICK n \in Nat, v \in Nat :
        /\ n = Between(sqHead, sqTail) /\ v = Between(sqHead, seenTail)
        /\ 0 < v /\ v <= n /\ n <= Entries
        /\ Between(Plus1(sqHead), seenTail) = v - 1
        /\ sqHead # sqTail
  <2>1. /\ W \in Nat /\ W >= 2 /\ sqHead \in 0..(W - 1) /\ sqTail \in 0..(W - 1)
        /\ seenTail \in 0..(W - 1)
    BY <1>2 DEF Kept
  <2>2. PICK v \in Nat : v = Between(sqHead, seenTail) /\ v # 0
    <3>1. /\ Between(sqHead, seenTail) \in 0..(W - 1)
          /\ Between(sqHead, seenTail) = 0 <=> sqHead = seenTail
      BY <2>1, Distances, SMTT(15)
    <3> QED
      BY <1>1, <2>1, <3>1
  <2>3. PICK n \in Nat : n = Between(sqHead, sqTail) /\ n <= Entries
    BY RingSequences DEF IInv, Rooms
  <2>4. v <= n
    BY <2>2, <2>3 DEF IInv, Rooms
  <2>5. n # 0
    BY <2>2, <2>4
  <2>6. sqHead # sqTail
    BY <2>1, <2>3, <2>5, Distances
  <2>7. Between(Plus1(sqHead), seenTail) = v - 1
    BY <1>1, <2>1, <2>2, Distances
  <2> QED
    BY <2>2, <2>3, <2>4, <2>6, <2>7
<1>6. /\ Len(Submitted') = Len(Submitted) - 1
      /\ Cardinality(inflight') = Cardinality(inflight) + 1
      /\ inflight' \subseteq Reqs /\ Distinct(Submitted')
      /\ Parted(Range(Submitted'), Range(Completed), Pushing, inflight', free)
      /\ Range(Submitted') \cup Range(Completed) \cup inflight' = InPlay
  BY <1>1, <1>5, Taken
<1>7. /\ Between(sqHead', sqTail') = Between(sqHead, sqTail) - 1
      /\ sqHead' = Plus1(sqHead) /\ sqHead' \in 0..(W - 1) /\ Named'
  BY <1>1, <1>5, Consumed
<1>8. NoRequestLost'
  <2>1. Distinct(Completed)
    BY RequestsAre DEF IInv
  <2> QED
    BY <1>1, <1>3, <1>4, <1>6, <2>1, RequestsMove
<1>9. StrandedStay'
  <2>1. PICK s \in Nat, k \in Nat, c \in Nat :
          s = Len(Submitted) /\ k = Cardinality(inflight) /\ c = Len(Completed)
    BY Counts
  <2>2. s + k + c = owed + stranded + Publishing
    BY <2>1, StrandedIs DEF IInv
  <2>3. (s - 1) + (k + 1) + c = s + k + c
    OBVIOUS
  <2>4. /\ Len(Submitted') = s - 1 /\ Cardinality(inflight') = k + 1 /\ Len(Completed') = c
        /\ (s - 1) + (k + 1) + c = owed' + stranded' + Publishing
    BY <1>1, <1>3, <1>6, <2>1, <2>2, <2>3
  <2> QED
    BY <1>1, <1>4, <2>4, StrandedMove
<1>10. Latest' /\ InPlay' = InPlay
  BY <1>1, <1>3, <1>6 DEF IInv, Latest, InPlay
<1>11. Rooms'
  <2>1. Between(sqHead', sqTail') = n - 1 /\ Between(sqHead', seenTail') = v - 1
    BY <1>1, <1>5, <1>7
  <2>2. /\ n - 1 <= Entries /\ v - 1 <= n - 1
        /\ app \in {"fill", "publish"} => n - 1 < Entries
    <3>1. Entries \in Nat
      BY <1>2 DEF Kept
    <3>2. app \in {"fill", "publish"} => n < Entries
      BY <1>5 DEF IInv, Rooms
    <3> QED
      BY <1>5, <3>1, <3>2
  <2>3. Between(cqHead', cqTail') <= CqEntries /\ (app = "reap" => cqHead' # cqTail')
    BY <1>1 DEF IInv, Rooms, cqVars
  <2> QED
    BY <1>1, <1>3, <2>1, <2>2, <2>3 DEF Rooms
<1>12. Step'
  BY <1>1, <1>3, <1>10 DEF IInv, Step
<1>13. TypeOK'
  BY <1>1, <1>2, <1>6, <1>7, Typed DEF Kept, cqVars
<1> QED
  BY <1>7, <1>8, <1>9, <1>10, <1>11, <1>12, <1>13 DEF IInv

LEMMA StepComplete ==
    ASSUME IInv, NEW r \in Reqs, Complete(r)
    PROVE  IInv'
<1>1. /\ UNCHANGED <<sqVars, cqHead, needWakeup, poller, app, req>>
      /\ UNCHANGED <<ring, free, owed, latest, failures, stranded>>
      /\ r \in inflight /\ inflight' = inflight \ {r}
  BY DEF Complete, callerVars
<1>2. Kept /\ TypeOK
  BY KeptIs DEF IInv
<1>3. Submitted' = Submitted /\ Entries' = Entries /\ CqEntries' = CqEntries /\ Named'
  BY <1>1, SameSubmitted DEF sqVars, IInv, CqEntries, Entries
<1>4. /\ Completed' = Append(Completed, r) /\ overflow' \in Seq(Reqs)
      /\ cqTail' \in 0..(W - 1) /\ cqes' \in [0..(CqEntries - 1) -> Values]
      /\ Between(cqHead', cqTail') <= CqEntries
      /\ cqHead # cqTail => cqHead' # cqTail'
  BY Completes
<1>5. Pushing' = Pushing /\ Publishing' = Publishing
  BY <1>1 DEF Pushing, Publishing
<1>6. /\ Distinct(Submitted) /\ Distinct(Completed)
      /\ Parted(Range(Submitted), Range(Completed), Pushing, inflight, free)
  BY RequestsAre DEF IInv
<1>7. /\ Len(Append(Completed, r)) = Len(Completed) + 1
      /\ Range(Append(Completed, r)) = Range(Completed) \cup {r}
      /\ Distinct(Append(Completed, r))
  <2>1. r \notin Range(Completed) /\ Completed \in Seq(Reqs)
    BY <1>1, <1>6, RingSequences DEF Parted
  <2> QED
    BY <1>6, <2>1, AppendedOne
<1>8. NoRequestLost' /\ InPlay' = InPlay
  <2> DEFINE A == Range(Submitted)
             B == Range(Completed)
  <2>1. Parted(A, B, Pushing, inflight, free)
    BY <1>6
  <2>2. InPlay = A \cup B \cup inflight /\ InPlay' = A \cup (B \cup {r}) \cup (inflight \ {r})
    BY <1>1, <1>3, <1>4, <1>7 DEF InPlay
  <2> HIDE DEF A, B
  <2>3. Parted(A, B \cup {r}, Pushing, inflight \ {r}, free)
    BY <1>1, <2>1 DEF Parted
  <2>4. InPlay' = InPlay
    BY <1>1, <2>2
  <2>5. Parted(Range(Submitted), Range(Append(Completed, r)), Pushing, inflight \ {r}, free)
    BY <1>7, <2>3 DEF A, B
  <2>6. /\ Submitted' = Submitted /\ Completed' = Append(Completed, r)
        /\ Pushing' = Pushing /\ inflight' = inflight \ {r} /\ free' = free
        /\ Distinct(Submitted) /\ Distinct(Append(Completed, r))
    BY <1>1, <1>3, <1>4, <1>5, <1>6, <1>7
  <2>7. NoRequestLost'
    BY <2>5, <2>6, RequestsMove
  <2> QED
    BY <2>4, <2>7
<1>9. StrandedStay'
  <2>1. PICK s \in Nat, k \in Nat, c \in Nat :
          s = Len(Submitted) /\ k = Cardinality(inflight) /\ c = Len(Completed)
    BY Counts
  <2>2. /\ s + k + c = owed + stranded + Publishing
        /\ ~ring.is_sq_poll => s = stranded + Publishing
    BY <2>1, StrandedIs DEF IInv
  <2>3. Cardinality(inflight') = k - 1
    <3>1. Cardinality(inflight \ {r}) = Cardinality(inflight) - 1
      BY <1>1, Counts, FS_RemoveElement
    <3> QED
      BY <1>1, <2>1, <3>1
  <2>4. s + (k - 1) + (c + 1) = s + k + c
    OBVIOUS
  <2>5. /\ Len(Submitted') = s /\ Len(Completed') = c + 1
        /\ s + (k - 1) + (c + 1) = owed' + stranded' + Publishing
    BY <1>1, <1>3, <1>4, <1>7, <2>1, <2>2, <2>4
  <2>6. Publishing' = Publishing /\ (~ring'.is_sq_poll => s = stranded' + Publishing)
    BY <1>1, <1>5, <2>2
  <2> QED
    BY <2>3, <2>5, <2>6, StrandedMove
<1>10. Latest'
  BY <1>1, <1>8 DEF IInv, Latest
<1>11. Rooms'
  BY <1>1, <1>3, <1>4 DEF IInv, Rooms, sqVars
<1>12. Step'
  BY <1>1, <1>3, <1>8 DEF IInv, Step, sqVars
<1>13. TypeOK'
  <2>1. inflight' \subseteq Reqs
    BY <1>1, <1>2 DEF Kept
  <2> QED
    BY <1>1, <1>2, <1>4, <2>1, Typed DEF Kept, sqVars
<1> QED
  BY <1>3, <1>8, <1>9, <1>10, <1>11, <1>12, <1>13 DEF IInv

LEMMA StepFlushOverflow ==
    ASSUME IInv, FlushOverflow
    PROVE  IInv'
<1>1. /\ UNCHANGED <<sqVars, cqHead, kernelVars, app, req>>
      /\ UNCHANGED <<ring, free, owed, latest, failures, stranded>>
      /\ app = "wait"
  BY DEF FlushOverflow, callerVars
<1>2. Kept /\ TypeOK
  BY KeptIs DEF IInv
<1>3. Submitted' = Submitted /\ Entries' = Entries /\ CqEntries' = CqEntries /\ Named'
  BY <1>1, SameSubmitted DEF sqVars, IInv, CqEntries, Entries
<1>4. /\ Completed' = Completed /\ overflow' \in Seq(Reqs)
      /\ cqTail' \in 0..(W - 1) /\ cqes' \in [0..(CqEntries - 1) -> Values]
      /\ Between(cqHead', cqTail') <= CqEntries
  BY Flushed
<1>5. NoRequestLost' /\ StrandedStay' /\ Latest' /\ InPlay' = InPlay
  <2>1. Pushing' = Pushing /\ Publishing' = Publishing
    BY <1>1 DEF Pushing, Publishing
  <2> QED
    BY <1>1, <1>3, <1>4, <2>1, Quiet DEF kernelVars
<1>6. Rooms'
  BY <1>1, <1>3, <1>4 DEF IInv, Rooms, sqVars
<1>7. Step'
  BY <1>1, <1>5 DEF IInv, Step
<1>8. TypeOK'
  BY <1>1, <1>2, <1>4, Typed DEF Kept, sqVars, kernelVars
<1> QED
  BY <1>3, <1>5, <1>6, <1>7, <1>8 DEF IInv

LEMMA StepPopReap ==
    ASSUME IInv, PopReap
    PROVE  IInv'
<1>1. /\ UNCHANGED <<sqVars, cqTail, cqes, overflow, kernelVars, req, ring,
                     failures, stranded>>
      /\ app = "reap" /\ app' = "idle" /\ latest' = NULL /\ owed' = owed - 1
  BY ReapIs
<1>2. Kept /\ TypeOK /\ owed > 0
  BY <1>1, KeptIs DEF IInv, Step
<1>3. Submitted' = Submitted /\ Entries' = Entries /\ CqEntries' = CqEntries /\ Named'
  BY <1>1, SameSubmitted DEF sqVars, IInv, CqEntries, Entries
<1>4. /\ Len(Completed) > 0 /\ Completed' = Tail(Completed)
      /\ free' = free \cup {Completed[1]}
      /\ cqHead' \in 0..(W - 1) /\ Between(cqHead', cqTail') <= CqEntries
  BY Reaped
<1>5. Pushing' = Pushing /\ Publishing' = 0 /\ Publishing = 0
  BY <1>1 DEF Pushing, Publishing
<1>6. /\ Distinct(Submitted) /\ Distinct(Completed)
      /\ Parted(Range(Submitted), Range(Completed), Pushing, inflight, free)
  BY RequestsAre DEF IInv
<1>7. /\ Len(Tail(Completed)) = Len(Completed) - 1
      /\ Completed[1] \in Range(Completed) /\ Completed[1] \in Reqs
      /\ Range(Tail(Completed)) = Range(Completed) \ {Completed[1]}
      /\ Distinct(Tail(Completed))
  BY <1>4, <1>6, RingSequences, DroppedOne
<1>8. NoRequestLost'
  <2> DEFINE A == Range(Submitted)
             B == Range(Completed)
  <2>1. PICK x : x = Completed[1] /\ x \in B
    BY <1>7
  <2>2. Parted(A, B, Pushing, inflight, free)
    BY <1>6
  <2>3. Range(Tail(Completed)) = B \ {x}
    BY <1>7, <2>1
  <2> HIDE DEF A, B
  <2>4. Parted(A, B \ {x}, Pushing, inflight, free \cup {x})
    BY <2>1, <2>2 DEF Parted
  <2>5. Parted(Range(Submitted), Range(Tail(Completed)), Pushing, inflight, free \cup {x})
    BY <2>3, <2>4 DEF A
  <2>6. /\ Submitted' = Submitted /\ Completed' = Tail(Completed)
        /\ Pushing' = Pushing /\ inflight' = inflight /\ free' = free \cup {x}
        /\ Distinct(Submitted) /\ Distinct(Tail(Completed))
    BY <1>1, <1>3, <1>4, <1>5, <1>6, <1>7, <2>1 DEF kernelVars
  <2> QED
    BY <2>5, <2>6, RequestsMove
<1>9. StrandedStay'
  <2>1. PICK s \in Nat, k \in Nat, c \in Nat, o \in Nat, t \in Nat :
          /\ s = Len(Submitted) /\ k = Cardinality(inflight) /\ c = Len(Completed)
          /\ o = owed /\ t = stranded
    <3>1. owed \in Nat /\ stranded \in Nat
      BY <1>2 DEF Kept
    <3>2. /\ Len(Submitted) \in Nat /\ Len(Completed) \in Nat
          /\ Cardinality(inflight) \in Nat
      BY Counts
    <3> QED
      BY <3>1, <3>2
  <2>2. s + k + c = o + t + 0 /\ (~ring.is_sq_poll => s = t + 0)
    BY <1>5, <2>1, StrandedIs DEF IInv
  <2>3. s + k + (c - 1) = (o - 1) + t + 0
    BY <2>2
  <2>4. /\ Len(Submitted') = s /\ Len(Completed') = c - 1 /\ Cardinality(inflight') = k
        /\ owed' = o - 1 /\ stranded' = t
    BY <1>1, <1>3, <1>4, <1>7, <2>1 DEF kernelVars
  <2> QED
    BY <1>1, <1>5, <2>2, <2>3, <2>4, StrandedMove
<1>10. Latest'
  BY <1>1 DEF Latest
<1>11. Rooms'
  BY <1>1, <1>3, <1>4 DEF IInv, Rooms, sqVars
<1>12. Step'
  BY <1>1 DEF Step
<1>13. TypeOK'
  <2>1. free' \subseteq Reqs
    BY <1>2, <1>4, <1>7 DEF Kept
  <2>2. owed' \in 0..Cardinality(Reqs) /\ latest' \in Values
    BY <1>1, <1>2 DEF Kept, Values
  <2> QED
    BY <1>1, <1>2, <1>4, <2>1, <2>2, Typed DEF Kept, sqVars, kernelVars
<1> QED
  BY <1>3, <1>8, <1>9, <1>10, <1>11, <1>12, <1>13 DEF IInv

-----------------------------------------------------------------------------
(* The invariant *)

LEMMA InitHolds == Init => IInv
<1> SUFFICES ASSUME Init PROVE IInv
  OBVIOUS
<1>1. PICK c \in Created : ring = [is_sq_poll |-> c[1], sq_mask |-> c[2] - 1]
  BY DEF Init
<1>2. /\ c[1] \in BOOLEAN /\ c[2] \in Nat /\ c[2] >= 1 /\ W >= 4 * c[2]
      /\ W \in Nat /\ MaxFailures \in Nat /\ Cardinality(Reqs) \in Nat
  BY CreatedAssumption, BoundsAssumption, FS_CardinalityType
<1>3. Entries = c[2] /\ CqEntries = 2 * c[2]
  BY <1>1, <1>2 DEF Entries, CqEntries
<1>4. /\ sqHead = 0 /\ sqTail = 0 /\ seenTail = 0 /\ cqHead = 0 /\ cqTail = 0
      /\ sqes = [i \in 0..(Entries - 1) |-> NULL]
      /\ sqArray = [i \in 0..(Entries - 1) |-> 0]
      /\ cqes = [i \in 0..(CqEntries - 1) |-> NULL]
      /\ needWakeup = FALSE /\ poller = "run" /\ inflight = {} /\ overflow = <<>>
      /\ app = "idle" /\ req = NULL /\ free = Reqs
      /\ owed = 0 /\ latest = NULL /\ failures = 0 /\ stranded = 0
  BY DEF Init
<1>5. TypeOK
  <2>1. ring \in [is_sq_poll : BOOLEAN, sq_mask : {d[2] - 1 : d \in Created}]
    BY <1>1, <1>2
  <2>2. 0 \in 0..(W - 1) /\ 0 \in 0..(Entries - 1) /\ 0 \in 0..Cardinality(Reqs)
        /\ 0 \in 0..MaxFailures /\ 0 \in 0..0
    BY <1>2, <1>3
  <2>3. /\ sqes \in [0..(Entries - 1) -> Reqs \cup {NULL}]
        /\ sqArray \in [0..(Entries - 1) -> 0..(Entries - 1)]
        /\ cqes \in [0..(CqEntries - 1) -> Reqs \cup {NULL}]
    BY <1>4, <2>2
  <2>4. overflow \in Seq(Reqs)
    BY <1>4, EmptySeq
  <2>5. /\ {sqHead, sqTail, seenTail, cqHead, cqTail} \subseteq 0..(W - 1)
        /\ owed \in 0..Cardinality(Reqs) /\ failures \in 0..MaxFailures
        /\ stranded \in 0..failures
    BY <1>4, <2>2
  <2>6. /\ needWakeup \in BOOLEAN /\ poller \in {"run", "arm", "asleep"}
        /\ inflight \subseteq Reqs /\ free \subseteq Reqs
        /\ app \in {"idle", "fill", "publish", "flags", "wake", "enter", "wait", "reap"}
        /\ {req, latest} \subseteq Reqs \cup {NULL}
    BY <1>4
  <2> QED
    BY <2>1, <2>3, <2>4, <2>5, <2>6 DEF TypeOK
<1>6. Between(sqHead, sqTail) = 0 /\ Between(sqHead, seenTail) = 0 /\ Between(cqHead, cqTail) = 0
  BY <1>2, <1>4, Behind
<1>7. Rooms
  BY <1>2, <1>3, <1>4, <1>6 DEF Rooms
<1>8. Named
  BY <1>6 DEF Named
<1>9. Submitted = <<>> /\ Completed = <<>>
  <2>1. EntryOK(Slots, Entries, Values) /\ EntryOK(cqes, CqEntries, Values)
    BY <1>5, RingTypes, EntryIs
  <2>2. /\ Submitted \in Seq(Values) /\ Len(Submitted) = 0
        /\ Arrived \in Seq(Values) /\ Len(Arrived) = 0
    <3>1. /\ sqHead \in 0..(W - 1) /\ sqTail \in 0..(W - 1)
          /\ cqHead \in 0..(W - 1) /\ cqTail \in 0..(W - 1)
      BY <1>5, RingTypes
    <3>2. /\ Entry(Slots, Entries, sqHead, sqTail) \in Seq(Values)
          /\ Len(Entry(Slots, Entries, sqHead, sqTail)) = 0
      BY <1>6, <2>1, <3>1 DEF EntryOK
    <3>3. Arrived \in Seq(Values) /\ Len(Arrived) = 0
      BY <1>6, <2>1, <3>1 DEF EntryOK, Arrived
    <3>4. Submitted = Entry(Slots, Entries, sqHead, sqTail)
      BY <1>5, RingTypes
    <3> QED
      BY <3>2, <3>3, <3>4
  <2>3. \A q \in Seq(Values) : Len(q) = 0 => q = <<>>
    BY EmptySeq
  <2>4. Submitted = <<>> /\ Arrived = <<>>
    BY <2>2, <2>3
  <2>5. <<>> \o <<>> = <<>>
    BY ConcatEmptySeq
  <2> QED
    BY <1>4, <2>4, <2>5 DEF Completed, Arrived
<1>10. Len(<<>>) = 0 /\ Range(<<>>) = {} /\ Distinct(<<>>)
  BY DEF Range, Distinct
<1>11. NoRequestLost
  <2>1. Pushing = {}
    BY <1>4 DEF Pushing
  <2>2. Parted({}, {}, {}, {}, Reqs)
    BY DEF Parted
  <2> QED
    BY <1>4, <1>9, <1>10, <2>1, <2>2, RequestsAre
<1>12. StrandedStay
  <2>1. Publishing = 0 /\ Cardinality(inflight) = 0
    BY <1>4, FS_EmptySet DEF Publishing
  <2> QED
    BY <1>4, <1>9, <1>10, <2>1, StrandedIs
<1>13. Step /\ Latest
  BY <1>4 DEF Step, Latest
<1> QED
  BY <1>5, <1>7, <1>8, <1>11, <1>12, <1>13 DEF IInv

LEMMA StepHolds == IInv /\ [Next]_vars => IInv'
<1> SUFFICES ASSUME IInv, [Next]_vars PROVE IInv'
  OBVIOUS
<1>1. CASE PushSlot
  BY <1>1, StepPushSlot
<1>2. CASE PushStep
  BY <1>2, StepPushFill, StepPushPublish, StepPushWake, StepPushEnter, QuietSteps DEF PushStep
<1>3. CASE PushFails
  BY <1>3, StepPushFails
<1>4. CASE PopCall \/ PopStep \/ PopFails \/ TailVisible
  BY <1>4, StepPopReap, QuietSteps DEF PopStep
<1>5. CASE \E r \in Reqs : Complete(r)
  BY <1>5, StepComplete
<1>6. CASE FlushOverflow
  BY <1>6, StepFlushOverflow
<1>7. CASE Poller
  BY <1>7, StepPollTake, QuietSteps DEF Poller
<1>8. CASE UNCHANGED vars
  BY <1>8, StepQuiet, KeptIs
     DEF vars, sqVars, kernelVars, callerVars, QuietMove, Kept
<1> QED
  BY <1>1, <1>2, <1>3, <1>4, <1>5, <1>6, <1>7, <1>8 DEF Next

\* The rings hold no more than they have room for, every entry is named by its own
\* slot, and each request is in one place, in every reachable state.
THEOREM Invariant == Spec => []IInv
BY InitHolds, StepHolds, PTL DEF Spec

\* Indices stay below the width of u32 and slots inside the arrays; no more pushes
\* are owed than there are requests.
THEOREM TypeCorrect == Spec => []TypeOK
<1>1. IInv => TypeOK
  BY DEF IInv
<1> QED
  BY <1>1, Invariant, PTL

\* A request handed to a push is in one place until a pop returns it: no entry is
\* reused before the kernel took it and no completion is lost or returned twice.
THEOREM NoRequestIsLost == Spec => []NoRequestLost
<1>1. IInv => NoRequestLost
  BY DEF IInv
<1> QED
  BY <1>1, Invariant, PTL

\* What was published and not popped is what the caller is owed and the pushes that
\* returned WakeFailed; without a submission thread those stay in the ring.
THEOREM StrandedStayInPlay == Spec => []StrandedStay
<1>1. IInv => StrandedStay
  BY DEF IInv
<1> QED
  BY <1>1, Invariant, PTL

\* With no failed call the one push owed is the only request in play, and a pop
\* that found a completion found that request's.
LEMMA LatestIsFirst ==
    ASSUME IInv, app = "reap", latest # NULL, failures = 0, Len(Completed) > 0
    PROVE  latest = Completed[1]
<1>1. /\ Len(Submitted) + Cardinality(inflight) + Len(Completed) = 1
      /\ latest \in InPlay
  <2>1. Publishing = 0 /\ owed = 1 /\ stranded = 0 /\ latest \in InPlay
    BY KeptIs DEF Publishing, Kept, IInv, Latest
  <2> QED
    BY <2>1, StrandedIs DEF IInv
<1>2. Len(Submitted) = 0 /\ Cardinality(inflight) = 0 /\ Len(Completed) = 1
  <2>1. PICK s \in Nat, k \in Nat, c \in Nat :
          s = Len(Submitted) /\ k = Cardinality(inflight) /\ c = Len(Completed)
    BY Counts
  <2>2. s + k + c = 1 /\ c > 0
    BY <1>1, <2>1
  <2> QED
    BY <2>1, <2>2
<1>3. Range(Submitted) = {} /\ inflight = {}
  <2>1. DOMAIN Submitted = 1..0
    BY <1>2, RingSequences, LenProperties
  <2>2. inflight = {}
    BY <1>2, Counts, FS_EmptySet
  <2> QED
    BY <2>1, <2>2 DEF Range
<1>4. DOMAIN Completed = 1..1
  BY <1>2, RingSequences, LenProperties
<1>5. latest \in Range(Completed)
  BY <1>1, <1>3 DEF InPlay
<1> QED
  BY <1>4, <1>5 DEF Range

\* A caller that keeps one push outstanding pops that push, until a call fails.
THEOREM InOrder == Spec => InOrderUntilFailure
<1>1. IInv /\ [Next]_vars
        => [app = "reap" /\ app' = "idle" /\ latest # NULL /\ failures = 0
              => latest \in free']_vars
  <2> SUFFICES ASSUME IInv, [Next]_vars, app = "reap", app' = "idle", latest # NULL,
                      failures = 0
               PROVE  latest \in free'
    OBVIOUS
  <2>1. PopReap
    BY DEF Next, PushSlot, PushStep, PushFill, PushPublish, PushFlags, PushWake, PushEnter,
           PushFails, PopCall, PopStep, PopWait, PopFails, Complete, FlushOverflow,
           Poller, PollTake, PollArm, PollRecheck, TailVisible, vars
  <2>2. Len(Completed) > 0 /\ free' = free \cup {Completed[1]}
    BY <2>1, Reaped
  <2> QED
    BY <2>2, LatestIsFirst
<1> QED
  BY <1>1, Invariant, PTL DEF Spec, InOrderUntilFailure
=============================================================================
