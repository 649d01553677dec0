--------------------------- MODULE EngineLocksProofs ---------------------------
(***************************************************************************)
(* Proofs about the locks of the engine.  The lock operations a thread has *)
(* still to do determine the locks it holds: those whose next operation is *)
(* an unlock.  So discipline is a property of paths: every lock taken is   *)
(* released, and locks are taken in the order of their ranks.  It is shown *)
(* for the paths of the code by composition, and for the rest of a path in *)
(* every state; a ring of waiting threads would need ever higher ranks.    *)
(***************************************************************************)
EXTENDS EngineLocks, SequenceTheorems, TLAPS

USE LockAssumption

Op == [do : {"read", "write", "unlock"}, lock : Locks] \cup {Enter, Leave}

Asks(o) == o.do \in {"read", "write"}

\* Lock l is held before operation i of path p: its next operation unlocks it.
HeldAt(p, l, i) ==
  \E j \in 1 .. Len(p) : /\ i <= j
                         /\ p[j] = U(l)
                         /\ \A h \in i .. j - 1 : p[h].lock # l

\* A lock is taken when it is not held and held from then on; an unlock ends
\* that; and the merge flag is taken with no lock held.
Disciplined(p) ==
  \A i \in 1 .. Len(p) :
    /\ Asks(p[i]) => /\ p[i].lock \in Locks
                     /\ ~HeldAt(p, p[i].lock, i)
                     /\ HeldAt(p, p[i].lock, i + 1)
    /\ p[i].do = "unlock" => p[i].lock \in Locks /\ ~HeldAt(p, p[i].lock, i + 1)
    /\ p[i].do = "enter" => \A l \in Locks : ~HeldAt(p, l, i)

Rank == [l \in Locks |-> CASE l = "active" -> 0
                           [] l = "reclaim" -> 0
                           [] l = "file_ids" -> 1
                           [] l = "older" -> 2
                           [] l = "index" -> 3]

\* Locks are taken in the order of their ranks, except for those of free.
Ordered(p, free) ==
  \A i \in 1 .. Len(p), l \in Locks :
    Asks(p[i]) /\ HeldAt(p, l, i) =>
      Rank[l] < Rank[p[i].lock] \/ p[i].lock \in free

Closed(p) == \A l \in Locks : ~HeldAt(p, l, 1)

\* A path of a call, from its start.
Good(p, free) == p \in Seq(Op) /\ Disciplined(p) /\ Ordered(p, free) /\ Closed(p)

-------------------------------------------------------------------------------
(***************************************************************************)
(* Paths.                                                                  *)
(***************************************************************************)

\* What is held along the first of two paths, if it releases it itself.
LEMMA HeldFirst ==
  ASSUME NEW p \in Seq(Op), NEW q \in Seq(Op), NEW l, ~HeldAt(q, l, 1),
         NEW i \in 1 .. Len(p) + 1
  PROVE  HeldAt(p \o q, l, i) <=> HeldAt(p, l, i)
<1> DEFINE s == p \o q
<1>1. /\ s \in Seq(Op) /\ Len(s) = Len(p) + Len(q)
      /\ \A j \in 1 .. Len(p) : s[j] = p[j]
      /\ \A j \in 1 .. Len(q) : s[Len(p) + j] = q[j]
      /\ Len(p) \in Nat /\ Len(q) \in Nat
  OBVIOUS
<1> HIDE DEF s
<1>2. ASSUME HeldAt(p, l, i) PROVE HeldAt(s, l, i)
  <2>1. PICK j \in 1 .. Len(p) : i <= j /\ p[j] = U(l) /\ \A h \in i .. j - 1 : p[h].lock # l
    BY <1>2 DEF HeldAt
  <2>2. j \in 1 .. Len(s) /\ s[j] = U(l)
    BY <1>1, <2>1
  <2>3. ASSUME NEW h \in i .. j - 1 PROVE s[h].lock # l
    <3>1. h \in 1 .. Len(p)
      BY <1>1, <2>1
    <3> QED
      BY <1>1, <2>1, <3>1
  <2> QED
    BY <2>1, <2>2, <2>3 DEF HeldAt
<1>3. ASSUME HeldAt(s, l, i) PROVE HeldAt(p, l, i)
  <2>1. PICK j \in 1 .. Len(s) : i <= j /\ s[j] = U(l) /\ \A h \in i .. j - 1 : s[h].lock # l
    BY <1>3 DEF HeldAt
  <2>2. CASE j <= Len(p)
    <3>1. j \in 1 .. Len(p) /\ p[j] = U(l)
      BY <1>1, <2>1, <2>2
    <3>2. ASSUME NEW h \in i .. j - 1 PROVE p[h].lock # l
      <4>1. h \in 1 .. Len(p)
        BY <1>1, <2>1, <2>2
      <4> QED
        BY <1>1, <2>1, <4>1
    <3> QED
      BY <2>1, <3>1, <3>2 DEF HeldAt
  <2>3. CASE j > Len(p)
    <3>1. PICK m \in 1 .. Len(q) : j = Len(p) + m
      <4>1. j - Len(p) \in 1 .. Len(q) /\ j = Len(p) + (j - Len(p))
        BY <1>1, <2>1, <2>3
      <4> QED
        BY <4>1
    <3>2. q[m] = U(l)
      BY <1>1, <2>1, <3>1
    <3>3. ASSUME NEW h \in 1 .. m - 1 PROVE q[h].lock # l
      <4>1. Len(p) + h \in i .. j - 1 /\ h \in 1 .. Len(q)
        BY <1>1, <3>1
      <4> QED
        BY <1>1, <2>1, <4>1
    <3>4. HeldAt(q, l, 1)
      BY <3>1, <3>2, <3>3 DEF HeldAt
    <3> QED
      BY <3>4
  <2>4. j <= Len(p) \/ j > Len(p)
    BY <1>1, <2>1
  <2> QED
    BY <2>2, <2>3, <2>4
<1> QED
  BY <1>2, <1>3 DEF s

\* What is held along the second of two paths.
LEMMA HeldSecond ==
  ASSUME NEW p \in Seq(Op), NEW q \in Seq(Op), NEW l, NEW i \in 1 .. Len(q) + 1
  PROVE  HeldAt(p \o q, l, Len(p) + i) <=> HeldAt(q, l, i)
<1> DEFINE s == p \o q
<1>1. /\ s \in Seq(Op) /\ Len(s) = Len(p) + Len(q)
      /\ \A j \in 1 .. Len(q) : s[Len(p) + j] = q[j]
      /\ Len(p) \in Nat /\ Len(q) \in Nat
  OBVIOUS
<1> HIDE DEF s
<1>2. ASSUME HeldAt(q, l, i) PROVE HeldAt(s, l, Len(p) + i)
  <2>1. PICK j \in 1 .. Len(q) : i <= j /\ q[j] = U(l) /\ \A h \in i .. j - 1 : q[h].lock # l
    BY <1>2 DEF HeldAt
  <2>2. ASSUME NEW h \in Len(p) + i .. (Len(p) + j) - 1 PROVE s[h].lock # l
    <3>1. h - Len(p) \in i .. j - 1 /\ h - Len(p) \in 1 .. Len(q) /\ Len(p) + (h - Len(p)) = h
      BY <1>1, <2>1
    <3> QED
      BY <1>1, <2>1, <3>1
  <2>3. Len(p) + j \in 1 .. Len(s) /\ Len(p) + i <= Len(p) + j /\ s[Len(p) + j] = U(l)
    BY <1>1, <2>1
  <2> QED
    BY <2>2, <2>3 DEF HeldAt
<1>3. ASSUME HeldAt(s, l, Len(p) + i) PROVE HeldAt(q, l, i)
  <2>1. PICK j \in 1 .. Len(s) : /\ Len(p) + i <= j /\ s[j] = U(l)
                                 /\ \A h \in Len(p) + i .. j - 1 : s[h].lock # l
    BY <1>3 DEF HeldAt
  <2>2. j - Len(p) \in 1 .. Len(q) /\ i <= j - Len(p) /\ q[j - Len(p)] = U(l)
    BY <1>1, <2>1
  <2>3. ASSUME NEW h \in i .. (j - Len(p)) - 1 PROVE q[h].lock # l
    <3>1. Len(p) + h \in Len(p) + i .. j - 1 /\ h \in 1 .. Len(q)
      BY <1>1, <2>1
    <3> QED
      BY <1>1, <2>1, <3>1
  <2> QED
    BY <2>2, <2>3 DEF HeldAt
<1> QED
  BY <1>2, <1>3 DEF s

\* Two good paths one after the other make a good path.
LEMMA GoodConcat ==
  ASSUME NEW p, NEW q, NEW free, Good(p, free), Good(q, free)
  PROVE  Good(p \o q, free)
<1> DEFINE s == p \o q
<1>1. /\ p \in Seq(Op) /\ q \in Seq(Op) /\ Closed(p) /\ Closed(q)
      /\ Disciplined(p) /\ Disciplined(q) /\ Ordered(p, free) /\ Ordered(q, free)
  BY DEF Good
<1>2. /\ s \in Seq(Op) /\ Len(s) = Len(p) + Len(q)
      /\ \A j \in 1 .. Len(p) : s[j] = p[j]
      /\ \A j \in 1 .. Len(q) : s[Len(p) + j] = q[j]
      /\ Len(p) \in Nat /\ Len(q) \in Nat
  BY <1>1
<1>3. ASSUME NEW i \in 1 .. Len(p) + 1, NEW l \in Locks
      PROVE  HeldAt(s, l, i) <=> HeldAt(p, l, i)
  BY <1>1, <1>3, HeldFirst DEF Closed
<1>4. ASSUME NEW i \in 1 .. Len(q) + 1, NEW l \in Locks
      PROVE  HeldAt(s, l, Len(p) + i) <=> HeldAt(q, l, i)
  BY <1>1, <1>4, HeldSecond
<1> HIDE DEF s
<1>5. ASSUME NEW i \in 1 .. Len(s)
      PROVE  \/ i \in 1 .. Len(p)
             \/ \E j \in 1 .. Len(q) : i = Len(p) + j
  <2>1. i \in 1 .. Len(p) \/ (i - Len(p) \in 1 .. Len(q) /\ i = Len(p) + (i - Len(p)))
    BY <1>2
  <2> QED
    BY <2>1
<1>6. Disciplined(s)
  <2> SUFFICES ASSUME NEW i \in 1 .. Len(s)
               PROVE  /\ Asks(s[i]) => /\ s[i].lock \in Locks
                                       /\ ~HeldAt(s, s[i].lock, i)
                                       /\ HeldAt(s, s[i].lock, i + 1)
                      /\ s[i].do = "unlock" => s[i].lock \in Locks /\ ~HeldAt(s, s[i].lock, i + 1)
                      /\ s[i].do = "enter" => \A l \in Locks : ~HeldAt(s, l, i)
    BY DEF Disciplined
  <2>1. CASE i \in 1 .. Len(p)
    <3>1. s[i] = p[i] /\ i \in 1 .. Len(p) + 1 /\ i + 1 \in 1 .. Len(p) + 1
      BY <1>2, <2>1
    <3> QED
      BY <1>1, <1>3, <2>1, <3>1 DEF Disciplined
  <2>2. ASSUME NEW j \in 1 .. Len(q), i = Len(p) + j
        PROVE  /\ Asks(s[i]) => /\ s[i].lock \in Locks
                                /\ ~HeldAt(s, s[i].lock, i)
                                /\ HeldAt(s, s[i].lock, i + 1)
               /\ s[i].do = "unlock" => s[i].lock \in Locks /\ ~HeldAt(s, s[i].lock, i + 1)
               /\ s[i].do = "enter" => \A l \in Locks : ~HeldAt(s, l, i)
    <3>1. /\ s[i] = q[j] /\ i + 1 = Len(p) + (j + 1)
          /\ j \in 1 .. Len(q) + 1 /\ j + 1 \in 1 .. Len(q) + 1
      BY <1>2, <2>2
    <3> QED
      BY <1>1, <1>4, <2>2, <3>1 DEF Disciplined
  <2> QED
    BY <1>5, <2>1, <2>2
<1>7. Ordered(s, free)
  <2> SUFFICES ASSUME NEW i \in 1 .. Len(s), NEW l \in Locks, Asks(s[i]), HeldAt(s, l, i)
               PROVE  Rank[l] < Rank[s[i].lock] \/ s[i].lock \in free
    BY DEF Ordered
  <2>1. CASE i \in 1 .. Len(p)
    <3>1. s[i] = p[i] /\ i \in 1 .. Len(p) + 1
      BY <1>2, <2>1
    <3> QED
      BY <1>1, <1>3, <2>1, <3>1 DEF Ordered
  <2>2. ASSUME NEW j \in 1 .. Len(q), i = Len(p) + j
        PROVE  Rank[l] < Rank[s[i].lock] \/ s[i].lock \in free
    <3>1. s[i] = q[j] /\ j \in 1 .. Len(q) + 1
      BY <1>2, <2>2
    <3> QED
      BY <1>1, <1>4, <2>2, <3>1 DEF Ordered
  <2> QED
    BY <1>5, <2>1, <2>2
<1>8. Closed(s)
  <2>1. 1 \in 1 .. Len(p) + 1
    BY <1>2
  <2> QED
    BY <1>1, <1>3, <2>1 DEF Closed
<1> QED
  BY <1>2, <1>6, <1>7, <1>8 DEF Good, s

\* All operations of p are on locks of L.
Uses(p, L) ==
  \A i \in 1 .. Len(p) : p[i].lock \in L /\ p[i].do \in {"read", "write", "unlock"}

\* A piece of a path that takes and releases the locks of L.
Block(p, L, free) == Good(p, free) /\ Uses(p, L) /\ L \subseteq Locks

LEMMA BlockConcat ==
  ASSUME NEW p, NEW q, NEW L, NEW M, NEW free, Block(p, L, free), Block(q, M, free)
  PROVE  Block(p \o q, L \cup M, free)
<1> DEFINE s == p \o q
<1>1. p \in Seq(Op) /\ q \in Seq(Op) /\ Good(s, free)
  BY GoodConcat DEF Block, Good
<1>2. /\ Len(s) = Len(p) + Len(q)
      /\ \A j \in 1 .. Len(p) : s[j] = p[j]
      /\ \A j \in 1 .. Len(q) : s[Len(p) + j] = q[j]
      /\ Len(p) \in Nat /\ Len(q) \in Nat
  BY <1>1
<1> HIDE DEF s
<1>3. ASSUME NEW i \in 1 .. Len(s)
      PROVE  s[i].lock \in L \cup M /\ s[i].do \in {"read", "write", "unlock"}
  <2>1. CASE i \in 1 .. Len(p)
    BY <1>2, <2>1 DEF Block, Uses
  <2>2. CASE i \notin 1 .. Len(p)
    <3>1. i - Len(p) \in 1 .. Len(q) /\ i = Len(p) + (i - Len(p))
      BY <1>2, <2>2
    <3>2. s[i] = q[i - Len(p)]
      BY <1>2, <3>1
    <3> QED
      BY <3>1, <3>2 DEF Block, Uses
  <2> QED
    BY <2>1, <2>2
<1> QED
  BY <1>1, <1>3 DEF Block, Uses, s

\* A block under a guard of a lock of lower rank.
LEMMA BlockWhile ==
  ASSUME NEW p, NEW L, NEW free, Block(p, L, free), NEW l \in Locks, l \notin L,
         \A m \in L : Rank[l] < Rank[m] \/ m \in free,
         NEW o \in {R(l), W(l)}
  PROVE  Block(<<o>> \o p \o <<U(l)>>, L \cup {l}, free)
<1> DEFINE n == Len(p)
           x == p \o <<U(l)>>
           s == <<o>> \o x
<1>1. p \in Seq(Op) /\ o \in Op /\ U(l) \in Op /\ n \in Nat
  BY DEF Block, Good, R, W, U, Op
<1>2. <<o>> \o p \o <<U(l)>> = s
  BY <1>1
<1>3. /\ s \in Seq(Op) /\ Len(s) = n + 2
      /\ s[1] = o /\ s[n + 2] = U(l) /\ \A i \in 1 .. n : s[i + 1] = p[i]
      /\ x \in Seq(Op) /\ Len(x) = n + 1 /\ <<o>> \in Seq(Op) /\ Len(<<o>>) = 1
      /\ <<U(l)>> \in Seq(Op)
  BY <1>1
<1> HIDE DEF s
<1>4. ASSUME NEW m \in Locks \ {l}, NEW i \in 1 .. n + 1 PROVE HeldAt(s, m, i + 1) <=> HeldAt(p, m, i)
  <2>1. ~HeldAt(<<U(l)>>, m, 1)
    BY DEF HeldAt, U
  <2>2. HeldAt(x, m, i) <=> HeldAt(p, m, i)
    BY <1>1, <1>3, <2>1, HeldFirst
  <2>3. HeldAt(<<o>> \o x, m, Len(<<o>>) + i) <=> HeldAt(x, m, i)
    <3>1. i \in 1 .. Len(x) + 1
      BY <1>1, <1>3
    <3> HIDE DEF x, n
    <3> QED
      BY ONLY <1>3, <3>1, HeldSecond, m \in Locks
  <2> QED
    BY <1>1, <1>3, <2>2, <2>3 DEF s
<1> HIDE DEF x
<1>5. ASSUME NEW i \in 2 .. n + 2 PROVE HeldAt(s, l, i)
  <2>1. ASSUME NEW h \in i .. (n + 2) - 1 PROVE s[h].lock # l
    <3>1. h - 1 \in 1 .. n /\ h = (h - 1) + 1
      BY <1>1
    <3>2. s[h] = p[h - 1]
      BY <1>3, <3>1
    <3> QED
      BY <3>1, <3>2 DEF Block, Uses
  <2>2. n + 2 \in 1 .. Len(s) /\ i <= n + 2
    BY <1>1, <1>3
  <2> QED
    BY <1>3, <2>1, <2>2 DEF HeldAt
<1>6. ~HeldAt(s, l, 1)
  <2> SUFFICES ASSUME NEW j \in 1 .. Len(s), s[j] = U(l), \A h \in 1 .. j - 1 : s[h].lock # l
               PROVE  FALSE
    BY DEF HeldAt
  <2>1. s[1].lock = l /\ s[1] # U(l)
    BY <1>3 DEF R, W, U
  <2>2. j # 1 /\ 1 \in 1 .. j - 1
    BY <1>1, <1>3, <2>1
  <2> QED
    BY <2>1, <2>2
<1>7. ASSUME NEW m, NEW i \in Nat, i > n + 2 PROVE ~HeldAt(s, m, i)
  BY <1>1, <1>3, <1>7 DEF HeldAt
<1>8. ASSUME NEW m \in Locks \ {l} PROVE ~HeldAt(s, m, 1)
  <2>1. ~HeldAt(s, m, 2)
    <3>1. 1 \in 1 .. n + 1 /\ ~HeldAt(p, m, 1)
      BY <1>1 DEF Block, Good, Closed
    <3> QED
      BY <1>4, <3>1
  <2> SUFFICES ASSUME NEW j \in 1 .. Len(s), s[j] = U(m), \A h \in 1 .. j - 1 : s[h].lock # m
               PROVE  FALSE
    BY DEF HeldAt
  <2>2. s[1] # U(m)
    BY <1>3 DEF R, W, U
  <2>3. 2 <= j /\ \A h \in 2 .. j - 1 : h \in 1 .. j - 1
    BY <1>1, <1>3, <2>2
  <2> QED
    BY <2>1, <2>3 DEF HeldAt
<1>9. ASSUME NEW i \in 1 .. Len(s) PROVE i = 1 \/ i = n + 2 \/ \E h \in 1 .. n : i = h + 1
  <2>1. i = 1 \/ i = n + 2 \/ (i - 1 \in 1 .. n /\ i = (i - 1) + 1)
    BY <1>1, <1>3
  <2> QED
    BY <2>1
<1>10. /\ Asks(s[1]) /\ s[1].do # "enter" /\ s[1].do # "unlock" /\ s[1].lock = l
       /\ ~Asks(s[n + 2]) /\ s[n + 2].do = "unlock" /\ s[n + 2].lock = l
  BY <1>3 DEF Asks, R, W, U
<1>11. Closed(s)
  BY <1>6, <1>8 DEF Closed
<1>12. Disciplined(s)
  <2> SUFFICES ASSUME NEW i \in 1 .. Len(s)
               PROVE  /\ Asks(s[i]) => /\ s[i].lock \in Locks
                                       /\ ~HeldAt(s, s[i].lock, i)
                                       /\ HeldAt(s, s[i].lock, i + 1)
                      /\ s[i].do = "unlock" => s[i].lock \in Locks /\ ~HeldAt(s, s[i].lock, i + 1)
                      /\ s[i].do = "enter" => \A m \in Locks : ~HeldAt(s, m, i)
    BY DEF Disciplined
  <2>1. CASE i = 1
    <3>1. 2 \in 2 .. n + 2 /\ i + 1 = 2
      BY <1>1, <2>1
    <3> QED
      BY <1>5, <1>6, <1>10, <2>1, <3>1
  <2>2. CASE i = n + 2
    <3>1. i + 1 \in Nat /\ i + 1 > n + 2
      BY <1>1, <2>2
    <3> QED
      BY <1>7, <1>10, <2>2, <3>1 DEF Asks
  <2>3. ASSUME NEW h \in 1 .. n, i = h + 1
        PROVE  /\ Asks(s[i]) => /\ s[i].lock \in Locks
                                /\ ~HeldAt(s, s[i].lock, i)
                                /\ HeldAt(s, s[i].lock, i + 1)
               /\ s[i].do = "unlock" => s[i].lock \in Locks /\ ~HeldAt(s, s[i].lock, i + 1)
               /\ s[i].do = "enter" => \A m \in Locks : ~HeldAt(s, m, i)
    <3>1. s[i] = p[h] /\ s[i].lock \in Locks \ {l} /\ s[i].do \in {"read", "write", "unlock"}
      BY <1>3, <2>3 DEF Block, Uses
    <3>2. h \in 1 .. n + 1 /\ h + 1 \in 1 .. n + 1 /\ i + 1 = (h + 1) + 1
      BY <1>1, <2>3
    <3>3. /\ HeldAt(s, s[i].lock, i) <=> HeldAt(p, p[h].lock, h)
          /\ HeldAt(s, s[i].lock, i + 1) <=> HeldAt(p, p[h].lock, h + 1)
      BY <1>4, <2>3, <3>1, <3>2
    <3>4. Disciplined(p)
      BY DEF Block, Good
    <3> QED
      BY <3>1, <3>3, <3>4 DEF Disciplined
  <2> QED
    BY <1>9, <2>1, <2>2, <2>3
<1>13. Ordered(s, free)
  <2> SUFFICES ASSUME NEW i \in 1 .. Len(s), NEW m \in Locks, Asks(s[i]), HeldAt(s, m, i)
               PROVE  Rank[m] < Rank[s[i].lock] \/ s[i].lock \in free
    BY DEF Ordered
  <2>1. i # 1 /\ i # n + 2
    BY <1>6, <1>8, <1>10
  <2>2. PICK h \in 1 .. n : i = h + 1
    BY <1>9, <2>1
  <2>3. s[i] = p[h] /\ s[i].lock \in L /\ h \in 1 .. n + 1
    BY <1>1, <1>3, <2>2 DEF Block, Uses
  <2>4. CASE m = l
    BY <2>3, <2>4
  <2>5. CASE m # l
    <3>1. HeldAt(p, m, h)
      BY <1>4, <2>2, <2>3, <2>5
    <3> QED
      BY <2>2, <2>3, <3>1 DEF Block, Good, Ordered
  <2> QED
    BY <2>4, <2>5
<1>14. Uses(s, L \cup {l})
  <2> SUFFICES ASSUME NEW i \in 1 .. Len(s)
               PROVE  s[i].lock \in L \cup {l} /\ s[i].do \in {"read", "write", "unlock"}
    BY DEF Uses
  <2>1. ASSUME NEW h \in 1 .. n, i = h + 1 PROVE s[i].lock \in L /\ s[i].do \in {"read", "write", "unlock"}
    BY <1>3, <2>1 DEF Block, Uses
  <2> QED
    BY <1>9, <1>10, <2>1 DEF Asks
<1> QED
  BY <1>2, <1>3, <1>11, <1>12, <1>13, <1>14 DEF Block, Good

-------------------------------------------------------------------------------
(***************************************************************************)
(* The paths of the code, from inside out.                                 *)
(***************************************************************************)
LEMMA BlockEmpty == ASSUME NEW free PROVE Block(<<>>, {}, free)
<1>1. <<>> \in Seq(Op) /\ Len(<<>>) = 0
  OBVIOUS
<1> QED
  BY <1>1 DEF Block, Good, Disciplined, Ordered, Closed, Uses, HeldAt

LEMMA BlockMore ==
  ASSUME NEW p, NEW L, NEW M \in SUBSET Locks, NEW free,
         L \subseteq M, Block(p, L, free)
  PROVE  Block(p, M, free)
BY DEF Block, Uses

\* What keeps to the order for all locks does for some.
LEMMA BlockFree ==
  ASSUME NEW p, NEW L, NEW free, Block(p, L, {})
  PROVE  Block(p, L, free)
BY DEF Block, Good, Ordered

LEMMA BlockWhileReading ==
  ASSUME NEW p, NEW L, NEW free, Block(p, L, free), NEW l \in Locks, l \notin L,
         \A m \in L : Rank[l] < Rank[m] \/ m \in free
  PROVE  /\ Block(WhileReading(l, p), L \cup {l}, free)
         /\ Block(WhileWriting(l, p), L \cup {l}, free)
<1>1. Block(<<R(l)>> \o p \o <<U(l)>>, L \cup {l}, free)
  BY BlockWhile
<1>2. Block(<<W(l)>> \o p \o <<U(l)>>, L \cup {l}, free)
  BY BlockWhile
<1> QED
  BY <1>1, <1>2 DEF WhileReading, WhileWriting

LEMMA BlockOne ==
  ASSUME NEW l \in Locks, NEW free
  PROVE  Block(Reading(l), {l}, free) /\ Block(Writing(l), {l}, free)
<1>1. Block(WhileReading(l, <<>>), {} \cup {l}, free) /\ Block(WhileWriting(l, <<>>), {} \cup {l}, free)
  BY BlockEmpty, BlockWhileReading
<1> QED
  BY <1>1 DEF Reading, Writing

LEMMA BlockFlag ==
  ASSUME NEW free
  PROVE  Good(<<Enter>>, free) /\ Good(<<Leave>>, free)
<1> SUFFICES ASSUME NEW o \in {Enter, Leave} PROVE Good(<<o>>, free)
  OBVIOUS
<1> DEFINE s == <<o>>
<1>1. s \in Seq(Op) /\ Len(s) = 1 /\ s[1] = o /\ o.do \in {"enter", "leave"}
  BY DEF Enter, Leave, Op
<1> HIDE DEF s
<1>2. ASSUME NEW l, NEW i PROVE ~HeldAt(s, l, i)
  BY <1>1 DEF HeldAt, U
<1>3. ~Asks(s[1]) /\ s[1].do # "unlock"
  BY <1>1 DEF Asks
<1>4. \A i \in 1 .. Len(s) : i = 1
  BY <1>1
<1>5. Disciplined(s)
  BY <1>2, <1>3, <1>4 DEF Disciplined
<1>6. Ordered(s, free)
  BY <1>3, <1>4 DEF Ordered
<1> QED
  BY <1>1, <1>2, <1>5, <1>6 DEF Good, Closed, s

EnsureLocks == {"active", "file_ids", "older"}

LEMMA BlockEnsure ==
  ASSUME NEW e \in {Ensured, Reensured, Rotated}
  PROVE  Block(e, EnsureLocks, {})
<1> USE DEF EnsureLocks
<1>1. /\ Block(Reading("active"), {"active"}, {}) /\ Block(Writing("active"), {"active"}, {})
      /\ Block(Reading("file_ids"), {"file_ids"}, {}) /\ Block(Writing("file_ids"), {"file_ids"}, {})
      /\ Block(Writing("older"), {"older"}, {})
  BY BlockOne DEF Locks
<1>2. Block(Ensured, EnsureLocks, {})
  BY <1>1, BlockMore DEF Ensured, Locks
<1>3. Block(Reensured, EnsureLocks, {})
  <2>1. Block(Reensured, {"active"} \cup {"active"}, {})
    BY <1>1, BlockConcat DEF Reensured
  <2> QED
    BY <2>1, BlockMore DEF Locks
<1>4. Block(Rotated, EnsureLocks, {})
  <2> DEFINE inner == Reading("file_ids") \o Writing("older") \o Writing("file_ids")
             L == ({"file_ids"} \cup {"older"}) \cup {"file_ids"}
  <2>1. Block(inner, L, {})
    <3>1. Block(Reading("file_ids") \o Writing("older"), {"file_ids"} \cup {"older"}, {})
      BY <1>1, BlockConcat
    <3> QED
      BY <1>1, <3>1, BlockConcat
  <2> HIDE DEF inner
  <2>2. "active" \in Locks /\ "active" \notin L /\ \A m \in L : Rank["active"] < Rank[m]
    BY DEF Rank, Locks
  <2>3. Block(WhileWriting("active", inner), L \cup {"active"}, {})
    BY <2>1, <2>2, BlockWhileReading
  <2>4. Block(Reading("active") \o WhileWriting("active", inner), {"active"} \cup (L \cup {"active"}), {})
    BY <1>1, <2>3, BlockConcat
  <2>5. {"active"} \cup (L \cup {"active"}) = EnsureLocks
    OBVIOUS
  <2> QED
    BY <2>4, <2>5 DEF Rotated, inner
<1> QED
  BY <1>2, <1>3, <1>4

GetLocks == {"index", "active", "older"}

LEMMA BlockGet ==
  ASSUME NEW p \in {GetActive, GetOlder}
  PROVE  Block(p, GetLocks, {})
<1>1. /\ Block(Reading("active"), {"active"}, {}) /\ Block(Reading("older"), {"older"}, {})
      /\ Block(Reading("index"), {"index"}, {})
  BY BlockOne DEF Locks
<1>2. Block(GetActive, {"index"} \cup {"active"}, {})
  BY <1>1, BlockConcat DEF GetActive
<1>3. Block(WhileReading("active", Reading("older")), {"older"} \cup {"active"}, {})
  <2>1. "active" \in Locks /\ "active" \notin {"older"} /\ \A m \in {"older"} : Rank["active"] < Rank[m]
    BY DEF Rank, Locks
  <2> QED
    BY <1>1, <2>1, BlockWhileReading
<1>4. Block(GetOlder, {"index"} \cup ({"older"} \cup {"active"}), {})
  BY <1>1, <1>3, BlockConcat DEF GetOlder
<1>5. GetLocks \in SUBSET Locks
  BY DEF GetLocks, Locks
<1>6. {"index"} \cup {"active"} \subseteq GetLocks /\ {"index"} \cup ({"older"} \cup {"active"}) \subseteq GetLocks
  BY DEF GetLocks
<1>7. Block(GetActive, GetLocks, {})
  BY <1>2, <1>5, <1>6, BlockMore
<1>8. Block(GetOlder, GetLocks, {})
  BY <1>4, <1>5, <1>6, BlockMore
<1> QED
  BY <1>7, <1>8

LEMMA BlockCandidates == Block(Candidates, Locks, {})
<1>1. Block(Reading("older"), {"older"}, {})
  BY BlockOne DEF Locks
<1>2. "reclaim" \in Locks /\ "reclaim" \notin {"older"} /\ \A m \in {"older"} : Rank["reclaim"] < Rank[m]
  BY DEF Rank, Locks
<1>3. Block(Candidates, {"older"} \cup {"reclaim"}, {})
  BY <1>1, <1>2, BlockWhileReading DEF Candidates
<1> QED
  BY <1>3, BlockMore DEF Locks

\* A concatenation of blocks on any locks.
LEMMA BlockPair ==
  ASSUME NEW p, NEW q, NEW free, Block(p, Locks, free), Block(q, Locks, free)
  PROVE  Block(p \o q, Locks, free)
BY BlockConcat

LEMMA BlockWrite ==
  ASSUME NEW p \in Put \cup Delete
  PROVE  Block(p, Locks, {})
<1>1. ASSUME NEW l \in Locks
      PROVE  Block(Reading(l), Locks, {}) /\ Block(Writing(l), Locks, {})
  <2>1. Block(Reading(l), {l}, {}) /\ Block(Writing(l), {l}, {}) /\ {l} \subseteq Locks
    BY BlockOne
  <2> QED
    BY <2>1, BlockMore
<1>2. ASSUME NEW e \in Spaces PROVE Block(e, Locks, {})
  BY BlockEnsure, BlockMore DEF EnsureLocks, Locks, Spaces
<1>3. ASSUME NEW g \in Counts PROVE Block(g, Locks, {})
  <2>1. Block(<<>>, Locks, {})
    <3>1. Block(<<>>, {}, {}) /\ {} \subseteq Locks
      BY BlockEmpty
    <3> QED
      BY <3>1, BlockMore
  <2>2. Block(Writing("reclaim"), Locks, {})
    BY <1>1 DEF Locks
  <2> QED
    BY <2>1, <2>2 DEF Counts
<1>4. {"active", "index"} \subseteq Locks
  BY DEF Locks
<1>5. ASSUME NEW e \in Spaces, NEW g \in Counts
      PROVE  Block(e \o Writing("active") \o Reading("index") \o g \o Writing("index") \o Candidates,
                   Locks, {})
  <2>1. Block(e \o Writing("active"), Locks, {})
    BY <1>1, <1>2, <1>4, BlockPair
  <2>2. Block(e \o Writing("active") \o Reading("index"), Locks, {})
    BY <1>1, <1>4, <2>1, BlockPair
  <2>3. Block(e \o Writing("active") \o Reading("index") \o g, Locks, {})
    BY <1>3, <2>2, BlockPair
  <2>4. Block(e \o Writing("active") \o Reading("index") \o g \o Writing("index"), Locks, {})
    BY <1>1, <1>4, <2>3, BlockPair
  <2> QED
    BY <2>4, BlockCandidates, BlockPair
<1>6. ASSUME NEW e \in Spaces, NEW g \in Counts
      PROVE  Block(Reading("index") \o Reading("index") \o g \o e \o Writing("active")
                     \o Writing("index") \o Candidates, Locks, {})
  <2>1. Block(Reading("index") \o Reading("index"), Locks, {})
    BY <1>1, <1>4, BlockPair
  <2>2. Block(Reading("index") \o Reading("index") \o g, Locks, {})
    BY <1>3, <2>1, BlockPair
  <2>3. Block(Reading("index") \o Reading("index") \o g \o e, Locks, {})
    BY <1>2, <2>2, BlockPair
  <2>4. Block(Reading("index") \o Reading("index") \o g \o e \o Writing("active"), Locks, {})
    BY <1>1, <1>4, <2>3, BlockPair
  <2>5. Block(Reading("index") \o Reading("index") \o g \o e \o Writing("active") \o Writing("index"),
              Locks, {})
    BY <1>1, <1>4, <2>4, BlockPair
  <2> QED
    BY <2>5, BlockCandidates, BlockPair
<1>7. ASSUME NEW e \in Spaces, NEW g \in Counts
      PROVE  Block(PutPath(e, g), Locks, {}) /\ Block(DeletePath(e, g), Locks, {})
  BY <1>5, <1>6 DEF PutPath, DeletePath
<1>8. ASSUME NEW q \in Put PROVE Block(q, Locks, {})
  BY <1>7 DEF Put
<1>9. ASSUME NEW q \in Delete PROVE Block(q, Locks, {})
  BY <1>7 DEF Delete
<1> QED
  BY <1>8, <1>9

\* A merge keeps the order of the ranks but for the reclaim lock.
LEMMA GoodMerge ==
  ASSUME NEW p \in Merge
  PROVE  Good(p, {"reclaim"})
<1>1. ASSUME NEW l \in Locks
      PROVE  Block(Reading(l), {l}, {"reclaim"}) /\ Block(Writing(l), {l}, {"reclaim"})
  BY BlockOne
<1>2. Block(Scan, {"index"} \cup {"older"}, {"reclaim"})
  <2>1. "older" \in Locks /\ "older" \notin {"index"} /\ \A m \in {"index"} : Rank["older"] < Rank[m]
    BY DEF Rank, Locks
  <2>2. Block(Reading("index"), {"index"}, {"reclaim"})
    BY <1>1 DEF Locks
  <2> QED
    BY <2>1, <2>2, BlockWhileReading DEF Scan
<1>3. Block(Commit, Locks, {"reclaim"})
  <2> DEFINE inner == Reading("index") \o Writing("index") \o Writing("reclaim")
             L1 == ({"index"} \cup {"index"}) \cup {"reclaim"}
             L2 == L1 \cup {"older"}
             L3 == L2 \cup {"file_ids"}
  <2>1. /\ Block(Reading("index"), {"index"}, {"reclaim"}) /\ Block(Writing("index"), {"index"}, {"reclaim"})
        /\ Block(Writing("reclaim"), {"reclaim"}, {"reclaim"})
    BY <1>1 DEF Locks
  <2>2. Block(inner, L1, {"reclaim"})
    <3>1. Block(Reading("index") \o Writing("index"), {"index"} \cup {"index"}, {"reclaim"})
      BY <2>1, BlockConcat
    <3> QED
      BY <2>1, <3>1, BlockConcat
  <2> HIDE DEF inner
  <2>3. Block(WhileWriting("older", inner), L2, {"reclaim"})
    <3>1. "older" \in Locks /\ "older" \notin L1 /\ \A m \in L1 : Rank["older"] < Rank[m] \/ m = "reclaim"
      BY DEF Rank, Locks
    <3> QED
      BY <2>2, <3>1, BlockWhileReading
  <2>4. Block(WhileWriting("file_ids", WhileWriting("older", inner)), L3, {"reclaim"})
    <3>1. "file_ids" \in Locks /\ "file_ids" \notin L2
      BY DEF Locks
    <3>2. \A m \in L2 : Rank["file_ids"] < Rank[m] \/ m = "reclaim"
      BY DEF Rank, Locks
    <3> QED
      BY <2>3, <3>1, <3>2, BlockWhileReading
  <2>5. Block(Commit, L3 \cup {"active"}, {"reclaim"})
    <3>1. "active" \in Locks /\ "active" \notin L3
      BY DEF Locks
    <3>2. \A m \in L3 : Rank["active"] < Rank[m] \/ m = "reclaim"
      BY DEF Rank, Locks
    <3> QED
      BY <2>4, <3>1, <3>2, BlockWhileReading DEF Commit, inner
  <2> QED
    BY <2>5, BlockMore DEF Locks
<1>4. Block(Candidates, Locks, {"reclaim"}) /\ Block(Scan, Locks, {"reclaim"}) /\ Block(<<>>, Locks, {"reclaim"})
  <2>1. Block(Candidates, Locks, {"reclaim"})
    BY BlockCandidates, BlockFree
  <2>2. Block(Scan, Locks, {"reclaim"})
    <3>1. {"index"} \cup {"older"} \subseteq Locks
      BY DEF Locks
    <3> QED
      BY <1>2, <3>1, BlockMore
  <2>3. Block(<<>>, Locks, {"reclaim"})
    <3>1. Block(<<>>, {}, {"reclaim"}) /\ {} \subseteq Locks
      BY BlockEmpty
    <3> QED
      BY <3>1, BlockMore
  <2> QED
    BY <2>1, <2>2, <2>3
<1>5. ASSUME NEW m \in {<<>>, Scan \o Commit} PROVE Good(<<Enter>> \o Candidates \o m \o <<Leave>>, {"reclaim"})
  <2>1. Good(m, {"reclaim"}) /\ Good(Candidates, {"reclaim"})
    <3>1. Block(Scan \o Commit, Locks, {"reclaim"})
      BY <1>3, <1>4, BlockPair
    <3>2. Block(m, Locks, {"reclaim"})
      BY <1>4, <3>1
    <3> QED
      BY <1>4, <3>2 DEF Block
  <2>2. Good(<<Enter>> \o Candidates, {"reclaim"})
    BY <2>1, BlockFlag, GoodConcat
  <2>3. Good(<<Enter>> \o Candidates \o m, {"reclaim"})
    BY <2>1, <2>2, GoodConcat
  <2> QED
    BY <2>3, BlockFlag, GoodConcat
<1> QED
  BY <1>5 DEF Merge

\* A merge takes the reclaim lock last, whatever its rank.
Free(t) == IF "merge" \in mix[t] THEN {"reclaim"} ELSE {}

\* Every path of a call is good; only a thread that merges may take the reclaim
\* lock out of order, and a get does not take it.
LEMMA PathsGood ==
  ASSUME NEW t \in Threads, mix \in Mixes, NEW p \in Paths(t)
  PROVE  /\ Good(p, Free(t))
         /\ mix[t] \subseteq {"get"} => Uses(p, GetLocks)
<1>1. ASSUME p \in {GetActive, GetOlder}
      PROVE  Good(p, Free(t)) /\ Uses(p, GetLocks)
  <2>1. Block(p, GetLocks, {})
    BY <1>1, BlockGet
  <2>2. Block(p, GetLocks, Free(t))
    BY <2>1, BlockFree
  <2> QED
    BY <2>2 DEF Block
<1>2. ASSUME NEW w \in Put \cup Delete, NEW free PROVE Good(w, free)
  <2>1. Block(w, Locks, free)
    BY BlockWrite, BlockFree
  <2> QED
    BY <2>1 DEF Block
<1>3. ASSUME p \in Put \cup Delete, "put" \in mix[t] \/ "delete" \in mix[t]
      PROVE  Good(p, Free(t)) /\ ~(mix[t] \subseteq {"get"})
  <2>1. Good(p, Free(t))
    BY <1>2, <1>3
  <2> QED
    BY <1>3, <2>1
<1>4. ASSUME NEW w \in Put \cup Delete, NEW m \in Merge, p = w \o m, "merge" \in mix[t]
      PROVE  Good(p, Free(t)) /\ ~(mix[t] \subseteq {"get"})
  <2>1. Good(w, {"reclaim"}) /\ Good(m, {"reclaim"})
    BY <1>2, GoodMerge
  <2>2. Good(w \o m, {"reclaim"})
    BY <2>1, GoodConcat
  <2> QED
    BY <1>4, <2>2 DEF Free
<1>5. \/ p \in {GetActive, GetOlder}
      \/ p \in Put \cup Delete /\ ("put" \in mix[t] \/ "delete" \in mix[t])
      \/ "merge" \in mix[t] /\ \E w \in Put \cup Delete, m \in Merge : p = w \o m
  <2>1. CASE p \in (IF "put" \in mix[t] THEN Put ELSE {}) \cup (IF "delete" \in mix[t] THEN Delete ELSE {})
    BY <2>1
  <2>2. CASE p \in (IF "get" \in mix[t] THEN {GetActive, GetOlder} ELSE {})
    BY <2>2
  <2>3. CASE /\ "merge" \in mix[t]
             /\ \E w \in (IF "put" \in mix[t] THEN Put ELSE {}) \cup (IF "delete" \in mix[t] THEN Delete ELSE {}),
                  m \in Merge : p = w \o m
    BY <2>3
  <2> QED
    BY <2>1, <2>2, <2>3 DEF Paths
<1> QED
  BY <1>1, <1>3, <1>4, <1>5

-------------------------------------------------------------------------------
(***************************************************************************)
(* The rest of a path after its first operation.                           *)
(***************************************************************************)
LEMMA HeldTail ==
  ASSUME NEW p \in Seq(Op), p # <<>>, NEW l, NEW i \in Nat \ {0}
  PROVE  HeldAt(Tail(p), l, i) <=> HeldAt(p, l, i + 1)
<1> DEFINE q == Tail(p)
<1>1. /\ q \in Seq(Op) /\ Len(q) \in Nat /\ Len(p) = Len(q) + 1
      /\ \A j \in 1 .. Len(q) : q[j] = p[j + 1]
  OBVIOUS
<1> HIDE DEF q
<1>2. ASSUME HeldAt(q, l, i) PROVE HeldAt(p, l, i + 1)
  <2>1. PICK j \in 1 .. Len(q) : i <= j /\ q[j] = U(l) /\ \A h \in i .. j - 1 : q[h].lock # l
    BY <1>2 DEF HeldAt
  <2>2. ASSUME NEW h \in i + 1 .. (j + 1) - 1 PROVE p[h].lock # l
    <3>1. h - 1 \in i .. j - 1 /\ h - 1 \in 1 .. Len(q) /\ h = (h - 1) + 1
      BY <1>1, <2>1
    <3>2. q[h - 1] = p[h]
      BY <1>1, <3>1
    <3> QED
      BY <2>1, <3>1, <3>2
  <2>3. j + 1 \in 1 .. Len(p) /\ i + 1 <= j + 1 /\ p[j + 1] = U(l)
    BY <1>1, <2>1
  <2> QED
    BY <2>2, <2>3 DEF HeldAt
<1>3. ASSUME HeldAt(p, l, i + 1) PROVE HeldAt(q, l, i)
  <2>1. PICK k \in 1 .. Len(p) : i + 1 <= k /\ p[k] = U(l) /\ \A h \in i + 1 .. k - 1 : p[h].lock # l
    BY <1>3 DEF HeldAt
  <2>2. PICK j \in 1 .. Len(q) : k = j + 1
    <3>1. k - 1 \in 1 .. Len(q) /\ k = (k - 1) + 1
      BY <1>1, <2>1
    <3> QED
      BY <3>1
  <2>3. ASSUME NEW h \in i .. j - 1 PROVE q[h].lock # l
    <3>1. h + 1 \in i + 1 .. k - 1 /\ h \in 1 .. Len(q)
      BY <1>1, <2>1, <2>2
    <3> QED
      BY <1>1, <2>1, <3>1
  <2>4. i <= j /\ q[j] = U(l)
    BY <1>1, <2>1, <2>2
  <2> QED
    BY <2>3, <2>4 DEF HeldAt
<1> QED
  BY <1>2, <1>3 DEF q

\* An operation on one lock changes nothing for the others.
LEMMA HeldNext ==
  ASSUME NEW p \in Seq(Op), p # <<>>, NEW l, p[1].lock # l
  PROVE  HeldAt(Tail(p), l, 1) <=> HeldAt(p, l, 1)
<1>1. Len(p) \in Nat /\ 1 \in 1 .. Len(p)
  OBVIOUS
<1>2. ASSUME HeldAt(p, l, 1) PROVE HeldAt(p, l, 2)
  <2>1. PICK j \in 1 .. Len(p) : p[j] = U(l) /\ \A h \in 1 .. j - 1 : p[h].lock # l
    BY <1>2 DEF HeldAt
  <2>2. j # 1
    BY <2>1 DEF U
  <2>3. 2 <= j /\ \A h \in 2 .. j - 1 : h \in 1 .. j - 1
    BY <1>1, <2>2
  <2> QED
    BY <2>1, <2>3 DEF HeldAt
<1>3. ASSUME HeldAt(p, l, 2) PROVE HeldAt(p, l, 1)
  <2>1. PICK j \in 1 .. Len(p) : 2 <= j /\ p[j] = U(l) /\ \A h \in 2 .. j - 1 : p[h].lock # l
    BY <1>3 DEF HeldAt
  <2>2. 1 <= j /\ \A h \in 1 .. j - 1 : h = 1 \/ h \in 2 .. j - 1
    BY <1>1, <2>1
  <2> QED
    BY <2>1, <2>2 DEF HeldAt
<1>4. HeldAt(Tail(p), l, 1) <=> HeldAt(p, l, 1 + 1)
  BY HeldTail
<1> QED
  BY <1>2, <1>3, <1>4

LEMMA TailGood ==
  ASSUME NEW p \in Seq(Op), p # <<>>, NEW free, Disciplined(p), Ordered(p, free)
  PROVE  /\ Tail(p) \in Seq(Op) /\ Disciplined(Tail(p)) /\ Ordered(Tail(p), free)
         /\ \A L : Uses(p, L) => Uses(Tail(p), L)
<1> DEFINE q == Tail(p)
<1>1. /\ q \in Seq(Op) /\ Len(q) \in Nat /\ Len(p) = Len(q) + 1
      /\ \A j \in 1 .. Len(q) : q[j] = p[j + 1]
  OBVIOUS
<1>2. ASSUME NEW l, NEW i \in 1 .. Len(q) + 1 PROVE HeldAt(q, l, i) <=> HeldAt(p, l, i + 1)
  BY <1>1, HeldTail
<1> HIDE DEF q
<1>3. \A j \in 1 .. Len(q) : /\ j + 1 \in 1 .. Len(p) /\ j \in 1 .. Len(q) + 1
                             /\ j + 1 \in 1 .. Len(q) + 1
  BY <1>1
<1>4. Disciplined(q)
  <2> SUFFICES ASSUME NEW j \in 1 .. Len(q)
               PROVE  /\ Asks(q[j]) => /\ q[j].lock \in Locks
                                       /\ ~HeldAt(q, q[j].lock, j)
                                       /\ HeldAt(q, q[j].lock, j + 1)
                      /\ q[j].do = "unlock" => q[j].lock \in Locks /\ ~HeldAt(q, q[j].lock, j + 1)
                      /\ q[j].do = "enter" => \A l \in Locks : ~HeldAt(q, l, j)
    BY DEF Disciplined
  <2>1. q[j] = p[j + 1] /\ j + 1 \in 1 .. Len(p)
    BY <1>1, <1>3
  <2>2. /\ HeldAt(q, q[j].lock, j) <=> HeldAt(p, p[j + 1].lock, j + 1)
        /\ HeldAt(q, q[j].lock, j + 1) <=> HeldAt(p, p[j + 1].lock, (j + 1) + 1)
        /\ \A l : HeldAt(q, l, j) <=> HeldAt(p, l, j + 1)
    BY <1>2, <1>3, <2>1
  <2> QED
    BY <2>1, <2>2 DEF Disciplined
<1>5. Ordered(q, free)
  <2> SUFFICES ASSUME NEW j \in 1 .. Len(q), NEW l \in Locks, Asks(q[j]), HeldAt(q, l, j)
               PROVE  Rank[l] < Rank[q[j].lock] \/ q[j].lock \in free
    BY DEF Ordered
  <2>1. q[j] = p[j + 1] /\ j + 1 \in 1 .. Len(p) /\ HeldAt(p, l, j + 1)
    BY <1>1, <1>2, <1>3
  <2> QED
    BY <2>1 DEF Ordered
<1>6. ASSUME NEW L, Uses(p, L) PROVE Uses(q, L)
  BY <1>1, <1>3, <1>6 DEF Uses
<1> QED
  BY <1>1, <1>4, <1>5, <1>6 DEF q

-------------------------------------------------------------------------------
(***************************************************************************)
(* The state: a thread holds the locks that its path says it does.         *)
(***************************************************************************)
Holds(t, l) == t \in readers[l] \/ (writer[l] = t /\ waiting[t] # l)

LockTypes ==
  /\ mix \in Mixes
  /\ readers \in [Locks -> SUBSET Threads]
  /\ writer \in [Locks -> Threads \cup {None}]
  /\ running \in BOOLEAN
  /\ path \in [Threads -> Seq(Op)]
  /\ waiting \in [Threads -> Locks \cup {None}]

PathsOK ==
  \A t \in Threads :
    /\ Disciplined(path[t]) /\ Ordered(path[t], Free(t))
    /\ mix[t] \subseteq {"get"} => Uses(path[t], GetLocks)

HoldsOK == \A t \in Threads, l \in Locks : Holds(t, l) <=> HeldAt(path[t], l, 1)

\* A thread that has announced a write has not done it yet.
WaitsOK ==
  \A t \in Threads : waiting[t] # None =>
    /\ path[t] # <<>> /\ path[t][1].do = "write" /\ path[t][1].lock = waiting[t]
    /\ writer[waiting[t]] = t

LockInv == LockTypes /\ PathsOK /\ HoldsOK /\ WaitsOK

LEMMA NothingHeld == \A l, i : ~HeldAt(<<>>, l, i)
<1>1. Len(<<>>) = 0
  OBVIOUS
<1> QED
  BY <1>1 DEF HeldAt

LEMMA EmptyGood == <<>> \in Seq(Op) /\ \A free : Disciplined(<<>>) /\ Ordered(<<>>, free)
<1>1. <<>> \in Seq(Op) /\ Len(<<>>) = 0
  OBVIOUS
<1> QED
  BY <1>1 DEF Disciplined, Ordered

LEMMA LockInit == Init => LockInv
<1> SUFFICES ASSUME Init PROVE LockInv
  OBVIOUS
<1> USE DEF Init
<1>1. <<>> \in Seq(Op) /\ Len(<<>>) = 0
  OBVIOUS
<1>2. LockTypes
  BY <1>1 DEF LockTypes
<1>3. PathsOK
  BY <1>1 DEF PathsOK, Disciplined, Ordered, Uses
<1>4. HoldsOK
  BY <1>1, NothingHeld DEF HoldsOK, Holds
<1>5. WaitsOK
  BY DEF WaitsOK
<1> QED
  BY <1>2, <1>3, <1>4, <1>5 DEF LockInv

\* What a thread's next operation is, in terms of its path.
LEMMA NextOp ==
  ASSUME LockInv, NEW t \in Threads, path[t] # <<>>
  PROVE  /\ path[t] \in Seq(Op) /\ Step(t) = path[t][1] /\ 1 \in 1 .. Len(path[t])
         /\ Disciplined(path[t]) /\ Ordered(path[t], Free(t))
         /\ Asks(Step(t)) => /\ Step(t).lock \in Locks
                             /\ ~HeldAt(path[t], Step(t).lock, 1)
                             /\ HeldAt(Tail(path[t]), Step(t).lock, 1)
         /\ Step(t).do = "unlock" => Step(t).lock \in Locks /\ ~HeldAt(Tail(path[t]), Step(t).lock, 1)
         /\ Step(t).do = "enter" => \A l \in Locks : ~HeldAt(path[t], l, 1)
         /\ \A l : l # Step(t).lock => (HeldAt(Tail(path[t]), l, 1) <=> HeldAt(path[t], l, 1))
<1>1. path[t] \in Seq(Op) /\ Disciplined(path[t]) /\ Ordered(path[t], Free(t))
  BY DEF LockInv, LockTypes, PathsOK
<1>2. Step(t) = path[t][1] /\ 1 \in 1 .. Len(path[t])
  BY <1>1 DEF Step
<1>3. \A l : HeldAt(Tail(path[t]), l, 1) <=> HeldAt(path[t], l, 1 + 1)
  BY <1>1, HeldTail
<1>4. \A l : l # Step(t).lock => (HeldAt(Tail(path[t]), l, 1) <=> HeldAt(path[t], l, 1))
  BY <1>1, <1>2, HeldNext
<1> QED
  BY <1>1, <1>2, <1>3, <1>4 DEF Disciplined

\* A thread whose path loses its first operation keeps to its discipline.
LEMMA ProceedOK ==
  ASSUME LockInv, NEW t \in Threads, path[t] # <<>>, Proceed(t), mix' = mix
  PROVE  /\ path' \in [Threads -> Seq(Op)] /\ PathsOK'
         /\ path'[t] = Tail(path[t]) /\ \A u \in Threads \ {t} : path'[u] = path[u]
<1>1. path \in [Threads -> Seq(Op)] /\ PathsOK
  BY DEF LockInv, LockTypes
<1>2. path'[t] = Tail(path[t]) /\ \A u \in Threads \ {t} : path'[u] = path[u]
  BY <1>1 DEF Proceed
<1>3. /\ Tail(path[t]) \in Seq(Op) /\ Disciplined(Tail(path[t])) /\ Ordered(Tail(path[t]), Free(t))
      /\ Uses(path[t], GetLocks) => Uses(Tail(path[t]), GetLocks)
  BY <1>1, TailGood DEF PathsOK
<1>4. path' \in [Threads -> Seq(Op)]
  BY <1>1, <1>3 DEF Proceed
<1>5. \A u \in Threads : Free(u)' = Free(u)
  BY DEF Free
<1>6. PathsOK'
  BY <1>1, <1>2, <1>3, <1>5 DEF PathsOK
<1> QED
  BY <1>2, <1>4, <1>6

LEMMA LockStep == LockInv /\ [Next]_vars => LockInv'
<1> SUFFICES ASSUME LockInv, [Next]_vars PROVE LockInv'
  OBVIOUS
<1>1. LockTypes /\ PathsOK /\ HoldsOK /\ WaitsOK
  BY DEF LockInv
<1>2. CASE UNCHANGED vars
  BY <1>1, <1>2 DEF vars, LockInv, LockTypes, PathsOK, HoldsOK, WaitsOK, Holds, Free
<1>3. ASSUME NEW t \in Threads, Call(t) PROVE LockInv'
  <2>1. PICK p \in Paths(t) : path' = [path EXCEPT ![t] = p]
    BY <1>3 DEF Call
  <2>2. path[t] = <<>> /\ UNCHANGED <<mix, readers, writer, running, waiting>>
    BY <1>3 DEF Call
  <2>3. /\ p \in Seq(Op) /\ Disciplined(p) /\ Ordered(p, Free(t)) /\ \A l \in Locks : ~HeldAt(p, l, 1)
        /\ mix[t] \subseteq {"get"} => Uses(p, GetLocks)
    BY <1>1, PathsGood DEF LockTypes, Good, Closed
  <2>4. path'[t] = p /\ \A u \in Threads \ {t} : path'[u] = path[u]
    BY <1>1, <2>1 DEF LockTypes
  <2>5. LockTypes'
    BY <1>1, <2>1, <2>2, <2>3 DEF LockTypes
  <2>6. PathsOK'
    BY <1>1, <2>2, <2>3, <2>4 DEF PathsOK, Free
  <2>7. HoldsOK'
    <3>1. \A l \in Locks : ~Holds(t, l)
      BY <1>1, <2>2, NothingHeld DEF HoldsOK
    <3>2. \A u, l : Holds(u, l)' = Holds(u, l)
      BY <2>2 DEF Holds
    <3> QED
      BY <1>1, <2>3, <2>4, <3>1, <3>2 DEF HoldsOK
  <2>8. WaitsOK'
    BY <1>1, <2>2, <2>4 DEF WaitsOK
  <2> QED
    BY <2>5, <2>6, <2>7, <2>8 DEF LockInv
<1>4. ASSUME NEW t \in Threads, Read(t) PROVE LockInv'
  <2>0. PICK l : l = Step(t).lock
    OBVIOUS
  <2>1. path[t] # <<>> /\ Proceed(t) /\ UNCHANGED <<mix, writer, running, waiting>> /\ Asks(Step(t))
        /\ writer[l] = None /\ readers' = [readers EXCEPT ![l] = @ \cup {t}] /\ waiting[t] = None
    BY <1>4, <2>0 DEF Read, Doing, Asks
  <2>2. /\ path' \in [Threads -> Seq(Op)] /\ PathsOK'
        /\ path'[t] = Tail(path[t]) /\ \A u \in Threads \ {t} : path'[u] = path[u]
    BY <2>1, ProceedOK
  <2>3. /\ l \in Locks /\ HeldAt(Tail(path[t]), l, 1)
        /\ \A m : m # l => (HeldAt(Tail(path[t]), m, 1) <=> HeldAt(path[t], m, 1))
    BY <2>0, <2>1, NextOp
  <2>4. LockTypes'
    BY <1>1, <2>1, <2>2, <2>3 DEF LockTypes
  <2>5. HoldsOK'
    <3>1. Holds(t, l)' /\ \A u \in Threads, m \in Locks : (u # t \/ m # l) => (Holds(u, m)' <=> Holds(u, m))
      BY <1>1, <2>1, <2>3 DEF Holds, LockTypes
    <3> QED
      BY <1>1, <2>2, <2>3, <3>1 DEF HoldsOK
  <2>6. WaitsOK'
    BY <1>1, <2>1, <2>2 DEF WaitsOK
  <2> QED
    BY <2>2, <2>4, <2>5, <2>6 DEF LockInv
<1>5. ASSUME NEW t \in Threads, Announce(t) PROVE LockInv'
  <2>0. PICK l : l = Step(t).lock
    OBVIOUS
  <2>1. path[t] # <<>> /\ UNCHANGED <<mix, readers, running, path>> /\ Asks(Step(t)) /\ Step(t).do = "write"
        /\ writer[l] = None /\ writer' = [writer EXCEPT ![l] = t]
        /\ waiting' = [waiting EXCEPT ![t] = l] /\ waiting[t] = None
    BY <1>5, <2>0 DEF Announce, Doing, Asks
  <2>2. l \in Locks /\ path[t][1] = Step(t) /\ ~HeldAt(path[t], l, 1)
    BY <2>0, <2>1, NextOp
  <2>3. path[t][1].lock = l
    BY <2>0, <2>2
  <2>4. LockTypes'
    BY <1>1, <2>1, <2>2 DEF LockTypes
  <2>5. PathsOK'
    BY <1>1, <2>1 DEF PathsOK, Free
  <2>6. HoldsOK'
    <3>1. \A u \in Threads, m \in Locks : Holds(u, m)' <=> Holds(u, m)
      <4> SUFFICES ASSUME NEW u \in Threads, NEW m \in Locks PROVE Holds(u, m)' <=> Holds(u, m)
        OBVIOUS
      <4>1. m # None
        BY <1>1, <2>1, <2>2, LockAssumption DEF Locks, LockTypes
      <4> QED
        BY <1>1, <2>1, <2>2, <4>1 DEF Holds, LockTypes
    <3> QED
      BY <1>1, <2>1, <3>1 DEF HoldsOK
  <2>7. WaitsOK'
    BY <1>1, <2>1, <2>2, <2>3 DEF WaitsOK, LockTypes
  <2> QED
    BY <2>4, <2>5, <2>6, <2>7 DEF LockInv
<1>6. ASSUME NEW t \in Threads, Write(t) PROVE LockInv'
  <2>0. PICK l : l = waiting[t]
    OBVIOUS
  <2>1. l # None /\ readers[l] = {} /\ waiting' = [waiting EXCEPT ![t] = None] /\ Proceed(t)
        /\ UNCHANGED <<mix, readers, writer, running>>
    BY <1>6, <2>0 DEF Write
  <2>2. l \in Locks /\ path[t] # <<>> /\ path[t][1].do = "write" /\ path[t][1].lock = l /\ writer[l] = t
    BY <1>1, <2>0, <2>1 DEF LockTypes, WaitsOK
  <2>3. /\ path' \in [Threads -> Seq(Op)] /\ PathsOK'
        /\ path'[t] = Tail(path[t]) /\ \A u \in Threads \ {t} : path'[u] = path[u]
    BY <2>1, <2>2, ProceedOK
  <2>4. /\ HeldAt(Tail(path[t]), l, 1)
        /\ \A m : m # l => (HeldAt(Tail(path[t]), m, 1) <=> HeldAt(path[t], m, 1))
    BY <2>0, <2>2, NextOp DEF Asks
  <2>5. LockTypes'
    BY <1>1, <2>1, <2>2, <2>3 DEF LockTypes
  <2>7. HoldsOK'
    <3>1. Holds(t, l)' /\ \A u \in Threads, m \in Locks : (u # t \/ m # l) => (Holds(u, m)' <=> Holds(u, m))
      <4>1. ASSUME NEW m \in Locks PROVE m # None \/ writer[m] # t
        BY <2>1
      <4> QED
        BY <1>1, <2>1, <2>2, <2>0 DEF Holds, LockTypes
    <3> QED
      BY <1>1, <2>3, <2>4, <3>1 DEF HoldsOK
  <2>8. WaitsOK'
    BY <1>1, <2>1, <2>3 DEF WaitsOK, LockTypes
  <2> QED
    BY <2>3, <2>5, <2>7, <2>8 DEF LockInv
<1>7. ASSUME NEW t \in Threads, Unlock(t) PROVE LockInv'
  <2>0. PICK l : l = Step(t).lock
    OBVIOUS
  <2>1. path[t] # <<>> /\ Proceed(t) /\ UNCHANGED <<mix, running, waiting>> /\ Step(t).do = "unlock"
        /\ waiting[t] = None /\ readers' = [readers EXCEPT ![l] = @ \ {t}]
        /\ writer' = [writer EXCEPT ![l] = IF @ = t THEN None ELSE @]
    BY <1>7, <2>0 DEF Unlock, Doing
  <2>2. /\ path' \in [Threads -> Seq(Op)] /\ PathsOK'
        /\ path'[t] = Tail(path[t]) /\ \A u \in Threads \ {t} : path'[u] = path[u]
    BY <2>1, ProceedOK
  <2>3. /\ l \in Locks /\ ~HeldAt(Tail(path[t]), l, 1)
        /\ \A m : m # l => (HeldAt(Tail(path[t]), m, 1) <=> HeldAt(path[t], m, 1))
    BY <2>0, <2>1, NextOp
  <2>4. LockTypes'
    BY <1>1, <2>1, <2>2, <2>3 DEF LockTypes
  <2>5. HoldsOK'
    <3>1. /\ ~Holds(t, l)'
          /\ \A u \in Threads, m \in Locks : (u # t \/ m # l) => (Holds(u, m)' <=> Holds(u, m))
      BY <1>1, <2>1, <2>3, LockAssumption DEF Holds, LockTypes
    <3> QED
      BY <1>1, <2>2, <2>3, <3>1 DEF HoldsOK
  <2>6. WaitsOK'
    <3>1. ASSUME NEW u \in Threads, waiting[u] # None PROVE u # t /\ writer'[waiting[u]] = u
      BY <1>1, <2>1, <2>3, <3>1 DEF WaitsOK, LockTypes
    <3> QED
      BY <1>1, <2>1, <2>2, <3>1 DEF WaitsOK
  <2> QED
    BY <2>2, <2>4, <2>5, <2>6 DEF LockInv
<1>8. ASSUME NEW t \in Threads, EnterMerge(t) PROVE LockInv'
  <2>1. path[t] # <<>> /\ UNCHANGED <<mix, readers, writer, waiting>> /\ Step(t).do = "enter"
        /\ waiting[t] = None /\ running' = TRUE
    BY <1>8 DEF EnterMerge, Doing
  <2>2. \A l \in Locks : ~HeldAt(path[t], l, 1)
    BY <2>1, NextOp
  <2>3. \A u, m : Holds(u, m)' <=> Holds(u, m)
    BY <2>1 DEF Holds
  <2>4. CASE running
    <3>1. path' = [path EXCEPT ![t] = <<>>]
      BY <1>8, <2>4 DEF EnterMerge
    <3>2. path'[t] = <<>> /\ \A u \in Threads \ {t} : path'[u] = path[u]
      BY <1>1, <3>1 DEF LockTypes
    <3>3. LockTypes'
      BY <1>1, <2>1, <3>1, EmptyGood DEF LockTypes
    <3>4. PathsOK'
      <4>1. \A L : Uses(<<>>, L)
        BY DEF Uses
      <4> QED
        BY <1>1, <2>1, <3>2, <4>1, EmptyGood DEF PathsOK, Free
    <3>5. HoldsOK'
      BY <1>1, <2>2, <2>3, <3>2, NothingHeld DEF HoldsOK
    <3>6. WaitsOK'
      BY <1>1, <2>1, <3>2 DEF WaitsOK
    <3> QED
      BY <3>3, <3>4, <3>5, <3>6 DEF LockInv
  <2>5. CASE ~running
    <3>1. Proceed(t)
      BY <1>8, <2>5 DEF EnterMerge
    <3>2. /\ path' \in [Threads -> Seq(Op)] /\ PathsOK'
          /\ path'[t] = Tail(path[t]) /\ \A u \in Threads \ {t} : path'[u] = path[u]
      BY <2>1, <3>1, ProceedOK
    <3>3. \A m \in Locks : HeldAt(Tail(path[t]), m, 1) <=> HeldAt(path[t], m, 1)
      <4>1. ASSUME NEW m \in Locks PROVE m # Step(t).lock
        BY <2>1, NextOp DEF Op, Enter, Leave, Locks
      <4> QED
        BY <2>1, <4>1, NextOp
    <3>4. LockTypes'
      BY <1>1, <2>1, <3>2 DEF LockTypes
    <3>5. HoldsOK'
      BY <1>1, <2>3, <3>2, <3>3 DEF HoldsOK
    <3>6. WaitsOK'
      BY <1>1, <2>1, <3>2 DEF WaitsOK
    <3> QED
      BY <3>2, <3>4, <3>5, <3>6 DEF LockInv
  <2> QED
    BY <2>4, <2>5
<1>9. ASSUME NEW t \in Threads, LeaveMerge(t) PROVE LockInv'
  <2>1. path[t] # <<>> /\ UNCHANGED <<mix, readers, writer, waiting>> /\ Step(t).do = "leave"
        /\ waiting[t] = None /\ running' = FALSE /\ Proceed(t)
    BY <1>9 DEF LeaveMerge, Doing
  <2>2. /\ path' \in [Threads -> Seq(Op)] /\ PathsOK'
        /\ path'[t] = Tail(path[t]) /\ \A u \in Threads \ {t} : path'[u] = path[u]
    BY <2>1, ProceedOK
  <2>3. \A m \in Locks : HeldAt(Tail(path[t]), m, 1) <=> HeldAt(path[t], m, 1)
    <3>1. ASSUME NEW m \in Locks PROVE m # Step(t).lock
      BY <2>1, NextOp DEF Op, Enter, Leave, Locks
    <3> QED
      BY <2>1, <3>1, NextOp
  <2>4. \A u, m : Holds(u, m)' <=> Holds(u, m)
    BY <2>1 DEF Holds
  <2>5. LockTypes'
    BY <1>1, <2>1, <2>2 DEF LockTypes
  <2>6. HoldsOK'
    BY <1>1, <2>2, <2>3, <2>4 DEF HoldsOK
  <2>7. WaitsOK'
    BY <1>1, <2>1, <2>2 DEF WaitsOK
  <2> QED
    BY <2>2, <2>5, <2>6, <2>7 DEF LockInv
<1> QED
  BY <1>2, <1>3, <1>4, <1>5, <1>6, <1>7, <1>8, <1>9 DEF Next, Advance

-------------------------------------------------------------------------------
(***************************************************************************)
(* The theorems.                                                           *)
(***************************************************************************)
LEMMA LockInvariant == Spec => []LockInv
<1>1. Init => LockInv
  BY LockInit
<1>2. LockInv /\ [Next]_vars => LockInv'
  BY LockStep
<1> QED
  BY <1>1, <1>2, PTL DEF Spec

LEMMA SeqMore == ASSUME NEW S, NEW T, S \subseteq T, NEW p \in Seq(S) PROVE p \in Seq(T)
<1>1. /\ Len(p) \in Nat /\ p = [i \in 1 .. Len(p) |-> p[i]]
      /\ \A i \in 1 .. Len(p) : p[i] \in T
  OBVIOUS
<1> QED
  BY <1>1, IsASeq

\* Whatever calls the threads run, a thread between two calls has dropped every
\* guard, and so the locks it took on an early return of a merge as well.
THEOREM LocksTyped == Spec => []TypeOK
<1>1. LockInv => TypeOK
  <2> SUFFICES ASSUME LockInv PROVE TypeOK
    OBVIOUS
  <2> DEFINE AnyOp == [do : {"read", "write", "unlock", "enter", "leave"},
                       lock : Locks \cup {"merge_running"}]
  <2>1. path \in [Threads -> Seq(AnyOp)]
    <3>1. Op \subseteq AnyOp
      BY DEF Op, Enter, Leave
    <3>2. path \in [Threads -> Seq(Op)]
      BY DEF LockInv, LockTypes
    <3> HIDE DEF AnyOp
    <3>3. \A t \in Threads : path[t] \in Seq(AnyOp)
      BY <3>1, <3>2, SeqMore
    <3> QED
      BY <3>2, <3>3
  <2>2. ASSUME NEW t \in Threads, NEW l \in Locks, path[t] = <<>>
        PROVE  t \notin readers[l] /\ writer[l] # t
    <3>1. waiting[t] = None /\ ~Holds(t, l)
      BY <2>2, NothingHeld DEF LockInv, HoldsOK, WaitsOK
    <3>2. l # None \/ writer[l] # t
      BY <2>2, <3>1 DEF Holds
    <3> QED
      BY <3>1, <3>2 DEF Holds
  <2> QED
    BY <2>1, <2>2 DEF TypeOK, LockInv, LockTypes
<1> QED
  BY <1>1, LockInvariant, PTL

\* The lock that t asks for or has announced to write.
Asked(t) == IF waiting[t] # None THEN waiting[t] ELSE Step(t).lock

\* Grows along WaitsFor.
Key(t) == 2 * Rank[Asked(t)] + IF waiting[t] # None THEN 1 ELSE 0

LEMMA Blocked ==
  ASSUME LockInv, NEW t \in Threads, NEW u \in WaitsFor(t)
  PROVE  /\ path[t] # <<>> /\ Asks(Step(t)) /\ Step(t).lock = Asked(t) /\ Asked(t) \in Locks
         /\ Key(t) \in 0 .. 7
<1>1. path[t] # <<>> /\ (waiting[t] # None \/ Doing(t, "read") \/ Doing(t, "write"))
  BY DEF WaitsFor, Doing, LockInv, WaitsOK
<1>2. path[t] \in Seq(Op) /\ Step(t) = path[t][1]
  BY <1>1, NextOp
<1>3. Asks(Step(t)) /\ Step(t).lock = Asked(t)
  BY <1>1, <1>2 DEF Doing, LockInv, WaitsOK, Asked, Asks
<1>4. Asked(t) \in Locks
  BY <1>1, <1>3, NextOp
<1>5. Rank[Asked(t)] \in 0 .. 3
  BY <1>4 DEF Rank, Locks
<1> QED
  BY <1>1, <1>3, <1>4, <1>5 DEF Key

\* If t waits for u and u for another then u asks for a lock of higher rank,
\* or has announced what t asks for, or merges and asks for the reclaim lock.
LEMMA KeyGrows ==
  ASSUME LockInv, NEW t \in Threads, NEW u \in WaitsFor(t), u \in Threads, NEW v \in WaitsFor(u)
  PROVE  Key(t) < Key(u) \/ Asked(u) \in Free(u)
<1> DEFINE l == Asked(t)
<1>1. /\ path[t] # <<>> /\ Asks(Step(t)) /\ Step(t).lock = l /\ l \in Locks
      /\ path[u] # <<>> /\ Asks(Step(u)) /\ Step(u).lock = Asked(u) /\ Asked(u) \in Locks
  BY Blocked
<1>2. \A m \in Locks : Rank[m] \in 0 .. 3
  BY DEF Rank, Locks
<1>3. CASE Holds(u, l)
  <2>1. HeldAt(path[u], l, 1)
    BY <1>1, <1>3 DEF LockInv, HoldsOK
  <2>2. Ordered(path[u], Free(u)) /\ 1 \in 1 .. Len(path[u]) /\ path[u][1] = Step(u)
    BY <1>1, NextOp
  <2>3. Rank[l] < Rank[Asked(u)] \/ Asked(u) \in Free(u)
    BY <1>1, <2>1, <2>2 DEF Ordered
  <2> QED
    BY <1>1, <1>2, <2>3 DEF Key
<1>4. CASE ~Holds(u, l)
  <2>1. waiting[t] = None
    BY <1>4 DEF WaitsFor, Holds, Asked
  <2>2. writer[l] = u
    BY <2>1 DEF WaitsFor, Asked
  <2>3. waiting[u] = l
    BY <1>4, <2>2 DEF Holds
  <2>4. waiting[u] # None /\ Asked(u) = l
    BY <1>1, <2>3, LockAssumption DEF Asked
  <2> QED
    BY <1>1, <1>2, <2>1, <2>4 DEF Key
<1> QED
  BY <1>3, <1>4

\* No infinite ascent: a set of threads that wait for each other contains one
\* that merges and asks for the reclaim lock.
LEMMA RingAsksReclaim ==
  ASSUME LockInv, NEW S \in SUBSET Threads, S # {}, \A t \in S : WaitsFor(t) \cap S # {}
  PROVE  \E u \in S : Asked(u) \in Free(u)
<1> SUFFICES ASSUME \A u \in S : Asked(u) \notin Free(u) PROVE FALSE
  OBVIOUS
<1>1. ASSUME NEW t \in S PROVE Key(t) \in 0 .. 7 /\ \E u \in S : Key(t) < Key(u) /\ Key(u) \in 0 .. 7
  <2>1. PICK u \in S : u \in WaitsFor(t)
    OBVIOUS
  <2>2. PICK v \in S : v \in WaitsFor(u)
    OBVIOUS
  <2>3. Key(t) \in 0 .. 7 /\ Key(u) \in 0 .. 7
    BY <2>1, <2>2, Blocked
  <2>4. Key(t) < Key(u)
    BY <2>1, <2>2, KeyGrows
  <2> QED
    BY <2>3, <2>4
<1>2. PICK t0 \in S : Key(t0) \in 0 .. 7
  BY <1>1
<1>3. PICK t1 \in S : Key(t0) < Key(t1) /\ Key(t1) \in 0 .. 7
  BY <1>1
<1>4. PICK t2 \in S : Key(t1) < Key(t2) /\ Key(t2) \in 0 .. 7
  BY <1>1
<1>5. PICK t3 \in S : Key(t2) < Key(t3) /\ Key(t3) \in 0 .. 7
  BY <1>1
<1>6. PICK t4 \in S : Key(t3) < Key(t4) /\ Key(t4) \in 0 .. 7
  BY <1>1
<1>7. PICK t5 \in S : Key(t4) < Key(t5) /\ Key(t5) \in 0 .. 7
  BY <1>1
<1>8. PICK t6 \in S : Key(t5) < Key(t6) /\ Key(t6) \in 0 .. 7
  BY <1>1
<1>9. PICK t7 \in S : Key(t6) < Key(t7) /\ Key(t7) \in 0 .. 7
  BY <1>1
<1>10. PICK t8 \in S : Key(t7) < Key(t8) /\ Key(t8) \in 0 .. 7
  BY <1>1
<1>11. Key(t0) + 8 <= Key(t8)
  BY <1>2, <1>3, <1>4, <1>5, <1>6, <1>7, <1>8, <1>9, <1>10
<1> QED
  BY <1>2, <1>10, <1>11

\* Whatever calls the threads run and however many of them merge, threads can
\* wait for each other in a ring only if one of them is at the last lock of the
\* commit of a merge, file_reclaim_size.
RingsNeedMerger ==
  \A S \in (SUBSET Threads) \ {{}} :
    \/ \E t \in S : WaitsFor(t) \cap S = {}
    \/ \E t \in S : "merge" \in mix[t] /\ Asked(t) = "reclaim"

THEOREM OnlyMergersBlock == Spec => []RingsNeedMerger
<1>1. LockInv => RingsNeedMerger
  <2> SUFFICES ASSUME LockInv, NEW S \in (SUBSET Threads) \ {{}}, \A t \in S : WaitsFor(t) \cap S # {}
               PROVE  \E t \in S : "merge" \in mix[t] /\ Asked(t) = "reclaim"
    BY DEF RingsNeedMerger
  <2>1. PICK u \in S : Asked(u) \in Free(u)
    <3>1. S \in SUBSET Threads /\ S # {}
      OBVIOUS
    <3> QED
      BY <3>1, RingAsksReclaim
  <2> QED
    BY <2>1 DEF Free
<1> QED
  BY <1>1, LockInvariant, PTL

\* If a thread that merges is the only one that writes, the threads never wait
\* for each other in a ring: get takes its locks in an order that no write can
\* block for good, nor a merge.
THEOREM NoRing == ASSUME MergerWritesAlone PROVE Spec => []NoCircularWait
<1>1. LockInv => NoCircularWait
  <2> SUFFICES ASSUME LockInv, NEW S \in (SUBSET Threads) \ {{}}, \A t \in S : WaitsFor(t) \cap S # {}
               PROVE  FALSE
    BY DEF NoCircularWait
  <2>1. PICK t \in S : Asked(t) \in Free(t)
    <3>1. S \in SUBSET Threads /\ S # {}
      OBVIOUS
    <3> QED
      BY <3>1, RingAsksReclaim
  <2>2. PICK u \in S : u \in WaitsFor(t)
    OBVIOUS
  <2>3. PICK v \in S : v \in WaitsFor(u)
    OBVIOUS
  <2>4. "merge" \in mix[t] /\ Asked(t) = "reclaim"
    BY <2>1 DEF Free
  <2>5. /\ path[t] # <<>> /\ Asks(Step(t)) /\ Step(t).lock = "reclaim" /\ "reclaim" \in Locks
        /\ path[u] # <<>> /\ Step(u).lock = Asked(u)
    BY <2>2, <2>3, <2>4, Blocked
  <2>6. Holds(u, "reclaim") \/ Asked(u) = "reclaim"
    BY <2>2, <2>4, <2>5 DEF WaitsFor, Holds, Asked
  <2>7. u # t
    <3>1. ~HeldAt(path[t], "reclaim", 1) /\ ~Holds(t, "reclaim")
      BY <2>5, NextOp DEF LockInv, HoldsOK
    <3>2. ASSUME t \in WaitsFor(t) PROVE Holds(t, "reclaim")
      <4>1. CASE waiting[t] = None
        BY <2>4, <3>2, <4>1, LockAssumption DEF WaitsFor, Holds, Asked, Locks
      <4>2. CASE waiting[t] # None
        BY <2>4, <3>2, <4>2 DEF WaitsFor, Holds, Asked
      <4> QED
        BY <4>1, <4>2
    <3> QED
      BY <2>2, <3>1, <3>2
  <2>8. mix[u] \subseteq {"get"}
    BY <2>4, <2>7 DEF MergerWritesAlone, LockInv, LockTypes
  <2>9. Uses(path[u], GetLocks) /\ 1 \in 1 .. Len(path[u]) /\ path[u][1] = Step(u)
    BY <2>5, <2>8, NextOp DEF LockInv, PathsOK
  <2>10. Asked(u) # "reclaim"
    BY <2>5, <2>9 DEF Uses, GetLocks
  <2>11. ~HeldAt(path[u], "reclaim", 1)
    BY <2>9 DEF HeldAt, Uses, GetLocks, U
  <2> QED
    BY <2>5, <2>6, <2>10, <2>11 DEF LockInv, HoldsOK
<1> QED
  BY <1>1, LockInvariant, PTL
===============================================================================
