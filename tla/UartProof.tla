------------------------------ MODULE UartProof ------------------------------
(***************************************************************************)
(* The UART driver keeps every byte: what is transmitted leaves the device *)
(* once and in order, what arrives is received once and in order or was    *)
(* lost, and a flush waits for the last byte, for every size of the FIFOs  *)
(* and any number of bytes.                                                *)
(***************************************************************************)
EXTENDS UartDriver, SequenceTheorems, TLAPS
-----------------------------------------------------------------------------
(* indices of the ring buffer *)

\* The remainder of every index the driver computes, and of every difference of
\* two.
LEMMA Remainder ==
  ASSUME NEW a \in Int
  PROVE  /\ a \in 0 .. Size - 1 => a % Size = a
         /\ a \in Size .. 2 * Size - 1 => a % Size = a - Size
         /\ a \in 1 - Size .. -1 => a % Size = a + Size
BY SizeAssumption

\* The length of a FIFO's contents, by cases.
LEMMA Distance ==
  ASSUME NEW a \in 0 .. Size - 1, NEW b \in 0 .. Size - 1
  PROVE  (b - a) % Size = (IF a <= b THEN b - a ELSE b - a + Size)
<1>1. CASE a <= b
  <2>1. b - a \in Int /\ b - a \in 0 .. Size - 1
    BY <1>1, SizeAssumption
  <2> QED  BY <1>1, <2>1, Remainder
<1>2. CASE a > b
  <2>1. b - a \in Int /\ b - a \in 1 - Size .. -1
    BY <1>2, SizeAssumption
  <2> QED  BY <1>2, <2>1, Remainder
<1> QED  BY <1>1, <1>2, SizeAssumption

\* The place in the buffer that is n after a.
LEMMA Place ==
  ASSUME NEW a \in 0 .. Size - 1, NEW n \in 0 .. Size
  PROVE  /\ (a + n) % Size = (IF a + n < Size THEN a + n ELSE a + n - Size)
         /\ (a + n) % Size \in 0 .. Size - 1
<1>1. CASE a + n < Size
  <2>1. a + n \in Int /\ a + n \in 0 .. Size - 1
    BY <1>1, SizeAssumption
  <2> QED  BY <1>1, <2>1, Remainder
<1>2. CASE a + n >= Size
  <2>1. a + n \in Int /\ a + n \in Size .. 2 * Size - 1
    BY <1>2, SizeAssumption
  <2> QED  BY <1>2, <2>1, Remainder, SizeAssumption
<1> QED  BY <1>1, <1>2, SizeAssumption

\* The place after a.
LEMMA NextPlace ==
  ASSUME NEW a \in 0 .. Size - 1
  PROVE  /\ (a + 1) % Size = (IF a + 1 = Size THEN 0 ELSE a + 1)
         /\ (a + 1) % Size \in 0 .. Size - 1
<1>1. CASE a + 1 = Size
  <2>1. a + 1 \in Int /\ a + 1 \in Size .. 2 * Size - 1
    BY <1>1, SizeAssumption
  <2> QED  BY <1>1, <2>1, Remainder, SizeAssumption
<1>2. CASE a + 1 # Size
  <2>1. a + 1 \in Int /\ a + 1 \in 0 .. Size - 1
    BY <1>2, SizeAssumption
  <2> QED  BY <1>2, <2>1, Remainder
<1> QED  BY <1>1, <1>2

\* How many places lie between two indices, the second after the first.
Between(s, p) == IF s <= p THEN p - s ELSE p - s + Size

\* The distance grows with the second index, and shrinks with the first.
LEMMA BetweenNext ==
  ASSUME NEW s \in 0 .. Size - 1, NEW p \in 0 .. Size - 1,
         NEW q \in 0 .. Size - 1
  PROVE  /\ q = (IF p + 1 = Size THEN 0 ELSE p + 1) /\ s # q =>
               Between(s, p) \in 0 .. Size - 2 /\ Between(s, q) = Between(s, p) + 1
         /\ q = (IF s + 1 = Size THEN 0 ELSE s + 1) /\ s # p =>
               Between(s, p) \in 1 .. Size - 1 /\ Between(q, p) = Between(s, p) - 1
BY SizeAssumption DEF Between

\* The places between two indices, and the same ones counted from the next index.
LEMMA PlacesBetween ==
  ASSUME NEW s \in 0 .. Size - 1, NEW p \in 0 .. Size - 1, NEW i \in 1 .. Between(s, p),
         NEW x, x = (IF s + (i - 1) < Size THEN s + (i - 1) ELSE s + (i - 1) - Size)
  PROVE  x # p /\ x \in 0 .. Size - 1
<1>1. i \in Int /\ s \in Int /\ p \in Int /\ Size \in Int
  BY SizeAssumption DEF Between
<1>2. CASE s <= p
  BY <1>1, <1>2, SizeAssumption DEF Between
<1>3. CASE p < s
  BY <1>1, <1>3, SizeAssumption DEF Between
<1> QED  BY <1>1, <1>2, <1>3

LEMMA PlacesAfter ==
  ASSUME NEW s \in 0 .. Size - 1, NEW i \in 1 .. Size - 1,
         NEW q, q = (IF s + 1 = Size THEN 0 ELSE s + 1)
  PROVE  (IF q + (i - 1) < Size THEN q + (i - 1) ELSE q + (i - 1) - Size)
            = (IF s + i < Size THEN s + i ELSE s + i - Size)
<1>1. i \in Int /\ s \in Int /\ Size \in Int
  BY SizeAssumption
<1>2. CASE s + 1 = Size
  BY <1>1, <1>2, SizeAssumption
<1>3. CASE s + 1 # Size
  BY <1>1, <1>3, SizeAssumption
<1> QED  BY <1>2, <1>3

\* The parts of a FIFO.
LEMMA FifoParts ==
  ASSUME NEW B, NEW f \in Fifo(B)
  PROVE  /\ f.start \in 0 .. Size - 1
         /\ f.pos \in 0 .. Size - 1
         /\ f.buffer \in [0 .. Size - 1 -> B]
BY DEF Fifo

\* What a FIFO holds is a sequence of bytes, one place shorter than its buffer
\* at most.
LEMMA ContentsType ==
  ASSUME NEW B, NEW f \in Fifo(B)
  PROVE  /\ Contents(f) \in Seq(B)
         /\ Len(Contents(f)) = Between(f.start, f.pos)
         /\ Len(Contents(f)) \in 0 .. Size - 1
         /\ \A i \in 1 .. Len(Contents(f)) :
               Contents(f)[i] = f.buffer[(f.start + (i - 1)) % Size]
<1> DEFINE n == (f.pos - f.start) % Size
<1>1. f.start \in 0 .. Size - 1 /\ f.pos \in 0 .. Size - 1 /\ f.buffer \in [0 .. Size - 1 -> B]
  BY FifoParts
<1>2. n = Between(f.start, f.pos)
  BY <1>1, Distance DEF Between
<1>3. Contents(f) = [i \in 1 .. n |-> f.buffer[(f.start + i - 1) % Size]]
  BY DEF Contents
<1> HIDE DEF n
<1>4. n \in 0 .. Size - 1
  BY <1>1, <1>2, SizeAssumption DEF Between
<1>5. ASSUME NEW i \in 1 .. n
      PROVE  /\ f.start + i - 1 = f.start + (i - 1)
             /\ f.buffer[(f.start + i - 1) % Size] \in B
  <2>1. i - 1 \in 0 .. Size /\ f.start + i - 1 = f.start + (i - 1)
    BY <1>1, <1>4, SizeAssumption
  <2>2. (f.start + (i - 1)) % Size \in 0 .. Size - 1
    BY <1>1, <2>1, Place
  <2> QED  BY <1>1, <2>1, <2>2
<1>6. Contents(f) \in [1 .. n -> B]
  BY <1>3, <1>5
<1>7. Contents(f) \in Seq(B) /\ Len(Contents(f)) = n
  BY <1>4, <1>6
<1>8. ASSUME NEW i \in 1 .. n
      PROVE  Contents(f)[i] = f.buffer[(f.start + (i - 1)) % Size]
  BY <1>3, <1>5
<1> QED  BY <1>2, <1>4, <1>7, <1>8

\* A FIFO is empty when its indices are equal.
LEMMA ContentsEmpty ==
  ASSUME NEW B, NEW f \in Fifo(B)
  PROVE  fifo_empty(f) <=> Contents(f) = <<>>
<1>1. Len(Contents(f)) = 0 <=> f.start = f.pos
  BY FifoParts, ContentsType, SizeAssumption DEF Between
<1> QED  BY <1>1, ContentsType, EmptySeq DEF fifo_empty

\* fifo_push() appends its byte to a FIFO that is not full.
LEMMA ContentsPush ==
  ASSUME NEW B, NEW f \in Fifo(B), NEW b \in B, ~ fifo_full(f)
  PROVE  /\ fifo_push(f, b) \in Fifo(B)
         /\ Contents(fifo_push(f, b)) = Append(Contents(f), b)
<1> DEFINE g == fifo_push(f, b)
           n == Len(Contents(f))
           next == (f.pos + 1) % Size
           at(i) == (f.start + (i - 1)) % Size
<1>1. f.start \in 0 .. Size - 1 /\ f.pos \in 0 .. Size - 1 /\ f.buffer \in [0 .. Size - 1 -> B]
  BY FifoParts
<1>2. next = (IF f.pos + 1 = Size THEN 0 ELSE f.pos + 1) /\ next \in 0 .. Size - 1
  BY <1>1, NextPlace
<1>3. f.start # next
  BY DEF fifo_full
<1>4. g = [start |-> f.start, pos |-> next, buffer |-> [f.buffer EXCEPT ![f.pos] = b]]
  BY DEF fifo_push, Fifo
<1>5. n = Between(f.start, f.pos) /\ n \in 0 .. Size - 1
  BY ContentsType
<1>6. Contents(f) \in Seq(B) /\ \A i \in 1 .. n : Contents(f)[i] = f.buffer[at(i)]
  BY ContentsType
<1>7. ASSUME NEW i \in 1 .. n + 1
      PROVE  /\ at(i) = (IF f.start + (i - 1) < Size THEN f.start + (i - 1)
                                                     ELSE f.start + (i - 1) - Size)
             /\ at(i) \in 0 .. Size - 1
  <2> HIDE DEF n
  <2>1. i - 1 \in 0 .. Size
    BY <1>5, SizeAssumption
  <2> QED  BY <1>1, <2>1, Place
<1> HIDE DEF next, n, at
<1>8. g \in Fifo(B)
  BY <1>1, <1>2, <1>4 DEF Fifo
<1>9. Contents(g) \in Seq(B) /\ \A i \in 1 .. Len(Contents(g)) : Contents(g)[i] = g.buffer[at(i)]
  <2>1. g.start = f.start
    BY <1>4
  <2>2. Contents(g) \in Seq(B)
        /\ \A i \in 1 .. Len(Contents(g)) : Contents(g)[i] = g.buffer[(g.start + (i - 1)) % Size]
    BY <1>8, ContentsType
  <2> QED  BY <2>1, <2>2 DEF at
<1>10. Len(Contents(g)) = Between(f.start, next)
  BY <1>4, <1>8, ContentsType
<1> HIDE DEF g
<1>11. n \in 0 .. Size - 2 /\ Len(Contents(g)) = n + 1
  BY <1>1, <1>2, <1>3, <1>5, <1>10, BetweenNext
<1>12. at(n + 1) = f.pos
  <2>1. n + 1 \in 1 .. n + 1 /\ (n + 1) - 1 = n
    BY <1>11
  <2>2. at(n + 1) = (IF f.start + n < Size THEN f.start + n ELSE f.start + n - Size)
    BY <1>7, <2>1
  <2> QED  BY <1>1, <1>5, <2>2, SizeAssumption DEF Between
<1>13. ASSUME NEW i \in 1 .. n
       PROVE  at(i) # f.pos /\ at(i) \in 0 .. Size - 1
  <2>1. i \in 1 .. n + 1
    BY <1>11
  <2>2. at(i) = (IF f.start + (i - 1) < Size THEN f.start + (i - 1)
                                             ELSE f.start + (i - 1) - Size)
    BY <1>7, <2>1
  <2> QED  BY <1>1, <1>5, <2>2, PlacesBetween
<1>14. Append(Contents(f), b) \in Seq(B) /\ Len(Append(Contents(f), b)) = n + 1
  BY <1>6, AppendProperties DEF n
<1>15. ASSUME NEW i \in 1 .. n + 1
       PROVE  Contents(g)[i] = Append(Contents(f), b)[i]
  <2>1. Contents(g)[i] = [f.buffer EXCEPT ![f.pos] = b][at(i)]
    BY <1>4, <1>9, <1>11
  <2>2. CASE i = n + 1
    <3>1. Contents(g)[i] = b
      BY <1>1, <1>12, <2>1, <2>2
    <3> QED  BY <1>6, <2>2, <3>1, AppendProperties DEF n
  <2>3. CASE i \in 1 .. n
    <3>1. Contents(g)[i] = f.buffer[at(i)]
      BY <1>1, <1>13, <2>1, <2>3
    <3> QED  BY <1>6, <2>3, <3>1, AppendProperties DEF n
  <2>4. i = n + 1 \/ i \in 1 .. n
    BY <1>11, SizeAssumption
  <2> QED  BY <2>2, <2>3, <2>4
<1>16. Contents(g) = Append(Contents(f), b)
  BY <1>9, <1>11, <1>14, <1>15, SeqEqual
<1> QED  BY <1>8, <1>16 DEF g

\* fifo_pop() returns the first byte of a FIFO that is not empty, and leaves the
\* others.
LEMMA ContentsPop ==
  ASSUME NEW B, NEW f \in Fifo(B), ~ fifo_empty(f)
  PROVE  /\ fifo_pop(f) \in Fifo(B)
         /\ Contents(f) # <<>>
         /\ fifo_front(f) = Head(Contents(f))
         /\ Contents(fifo_pop(f)) = Tail(Contents(f))
<1> DEFINE g == fifo_pop(f)
           n == Len(Contents(f))
           next == (f.start + 1) % Size
           at(i) == (f.start + (i - 1)) % Size
           gat(i) == (next + (i - 1)) % Size
<1>1. f.start \in 0 .. Size - 1 /\ f.pos \in 0 .. Size - 1 /\ f.buffer \in [0 .. Size - 1 -> B]
  BY FifoParts
<1>2. next = (IF f.start + 1 = Size THEN 0 ELSE f.start + 1) /\ next \in 0 .. Size - 1
  BY <1>1, NextPlace
<1>3. g = [start |-> next, pos |-> f.pos, buffer |-> f.buffer]
  BY DEF fifo_pop, Fifo
<1>4. n = Between(f.start, f.pos) /\ n \in 0 .. Size - 1
  BY ContentsType
<1>5. Contents(f) \in Seq(B) /\ \A i \in 1 .. n : Contents(f)[i] = f.buffer[at(i)]
  BY ContentsType
<1>6. Contents(f) # <<>>
  BY ContentsEmpty
<1>7. f.start # f.pos
  BY DEF fifo_empty
<1>8. ASSUME NEW i \in 1 .. n
      PROVE  at(i) = (IF f.start + (i - 1) < Size THEN f.start + (i - 1)
                                                  ELSE f.start + (i - 1) - Size)
  <2> HIDE DEF n
  <2>1. i - 1 \in 0 .. Size
    BY <1>4, SizeAssumption
  <2> QED  BY <1>1, <2>1, Place
<1>9. ASSUME NEW i \in 1 .. n
      PROVE  gat(i) = (IF next + (i - 1) < Size THEN next + (i - 1)
                                                ELSE next + (i - 1) - Size)
  <2> HIDE DEF n, next
  <2>1. i - 1 \in 0 .. Size
    BY <1>4, SizeAssumption
  <2> QED  BY <1>2, <2>1, Place
<1> HIDE DEF n, at
<1>10. g \in Fifo(B)
  <2> HIDE DEF next
  <2> QED  BY <1>1, <1>2, <1>3 DEF Fifo
<1>11. /\ Contents(g) \in Seq(B)
       /\ Len(Contents(g)) = Between(next, f.pos)
       /\ \A i \in 1 .. Len(Contents(g)) : Contents(g)[i] = f.buffer[gat(i)]
  <2>1. g.start = next /\ g.pos = f.pos /\ g.buffer = f.buffer
    BY <1>3
  <2> QED  BY <1>10, <2>1, ContentsType
<1> HIDE DEF g, next, gat
<1>12. n \in 1 .. Size - 1 /\ Len(Contents(g)) = n - 1
  BY <1>1, <1>2, <1>4, <1>7, <1>11, BetweenNext
<1>13. /\ Tail(Contents(f)) \in Seq(B)
       /\ Len(Tail(Contents(f))) = n - 1
       /\ \A i \in 1 .. n - 1 : Tail(Contents(f))[i] = Contents(f)[i + 1]
  BY <1>5, <1>6, HeadTailProperties DEF n
<1>14. ASSUME NEW i \in 1 .. n - 1
       PROVE  Contents(g)[i] = Tail(Contents(f))[i]
  <2>1. i \in 1 .. n /\ i + 1 \in 1 .. n /\ (i + 1) - 1 = i
    BY <1>12
  <2>2. at(i + 1) = (IF f.start + i < Size THEN f.start + i ELSE f.start + i - Size)
    BY <1>8, <2>1
  <2>3. gat(i) = at(i + 1)
    <3>1. gat(i) = (IF next + (i - 1) < Size THEN next + (i - 1)
                                             ELSE next + (i - 1) - Size)
      BY <1>9, <2>1
    <3>2. i \in 1 .. Size - 1
      BY <1>12, SizeAssumption
    <3> QED  BY <1>1, <1>2, <2>2, <3>1, <3>2, PlacesAfter
  <2> QED  BY <1>5, <1>11, <1>12, <1>13, <2>1, <2>3
<1>15. Contents(g) = Tail(Contents(f))
  BY <1>11, <1>12, <1>13, <1>14, SeqEqual
<1>16. fifo_front(f) = Head(Contents(f))
  <2>1. 1 \in 1 .. n
    BY <1>12
  <2>2. at(1) = f.start
    BY <1>1, <1>8, <2>1, SizeAssumption
  <2>3. Contents(f)[1] = f.buffer[f.start]
    BY <1>5, <2>1, <2>2
  <2> QED  BY <1>5, <1>6, <2>3 DEF fifo_front
<1> QED  BY <1>6, <1>10, <1>15, <1>16 DEF g
-----------------------------------------------------------------------------
(* bytes that move from one sequence to the next *)

\* The first byte of a sequence moves to the empty one before it.
LEMMA MoveHead ==
  ASSUME NEW S, NEW p \in Seq(S), NEW s \in Seq(S), s # <<>>
  PROVE  /\ <<Head(s)>> \in Seq(S)
         /\ p \o s = (p \o <<Head(s)>>) \o Tail(s)
<1>1. Head(s) \in S /\ Tail(s) \in Seq(S) /\ Len(Tail(s)) = Len(s) - 1
      /\ \A i \in 1 .. Len(Tail(s)) : Tail(s)[i] = s[i + 1]
  BY HeadTailProperties
<1>2. <<Head(s)>> \in Seq(S) /\ Len(<<Head(s)>>) = 1 /\ <<Head(s)>>[1] = Head(s)
  BY <1>1
<1>3. Len(s) \in Nat /\ Len(s) >= 1 /\ Head(s) = s[1]
  BY EmptySeq
<1>4. s = <<Head(s)>> \o Tail(s)
  <2>1. <<Head(s)>> \o Tail(s) \in Seq(S)
        /\ Len(<<Head(s)>> \o Tail(s)) = Len(s)
        /\ \A i \in 1 .. Len(s) : (<<Head(s)>> \o Tail(s))[i]
              = (IF i <= 1 THEN <<Head(s)>>[i] ELSE Tail(s)[i - 1])
    BY <1>1, <1>2, <1>3, ConcatProperties
  <2>2. ASSUME NEW i \in 1 .. Len(s) PROVE (<<Head(s)>> \o Tail(s))[i] = s[i]
    <3>1. CASE i = 1
      BY <1>2, <1>3, <2>1, <3>1
    <3>2. CASE i # 1
      <4>1. i - 1 \in 1 .. Len(Tail(s)) /\ (i - 1) + 1 = i
        BY <1>1, <1>3, <3>2
      <4> QED  BY <1>1, <1>3, <2>1, <3>2, <4>1
    <3> QED  BY <3>1, <3>2
  <2> QED  BY <2>1, <2>2, SeqEqual
<1> QED  BY <1>1, <1>2, <1>4, ConcatAssociative

\* The last byte of a sequence moves to the end of the one before it.
LEMMA MoveLast ==
  ASSUME NEW S, NEW p \in Seq(S), NEW s \in Seq(S), NEW b \in S
  PROVE  /\ <<b>> \in Seq(S) /\ p \o s \in Seq(S)
         /\ (p \o s) \o <<b>> = p \o Append(s, b)
         /\ Append(p \o s, b) = p \o Append(s, b)
<1>1. <<b>> \in Seq(S)
  OBVIOUS
<1>2. p \o s \in Seq(S) /\ Append(s, b) = s \o <<b>> /\ Append(p \o s, b) = (p \o s) \o <<b>>
  BY ConcatProperties, AppendIsConcat
<1> QED  BY <1>1, <1>2, ConcatAssociative

\* The numbers up to n, in order.
Upto(n) == [i \in 1 .. n |-> i]

LEMMA UptoType ==
  ASSUME NEW n \in Nat
  PROVE  /\ Upto(n) \in Seq(Nat) /\ Len(Upto(n)) = n
         /\ Upto(0) = <<>>
         /\ Upto(n + 1) = Append(Upto(n), n + 1)
<1>1. \A k \in Nat : Upto(k) \in Seq(Nat) /\ Len(Upto(k)) = k /\ \A i \in 1 .. k : Upto(k)[i] = i
  BY DEF Upto
<1>0. n + 1 \in Nat /\ Upto(n) \in Seq(Nat) /\ Len(Upto(n)) = n
  BY <1>1
<1>2. Upto(0) = <<>>
  BY <1>1, EmptySeq
<1>3. Append(Upto(n), n + 1) \in Seq(Nat) /\ Len(Append(Upto(n), n + 1)) = n + 1
      /\ \A i \in 1 .. n : Append(Upto(n), n + 1)[i] = Upto(n)[i]
      /\ Append(Upto(n), n + 1)[n + 1] = n + 1
  <2>1. \A i \in 1 .. Len(Upto(n)) : Append(Upto(n), n + 1)[i] = Upto(n)[i]
    BY <1>0, AppendProperties
  <2>2. Append(Upto(n), n + 1)[Len(Upto(n)) + 1] = n + 1
    BY <1>0, AppendProperties
  <2>3. Append(Upto(n), n + 1) \in Seq(Nat) /\ Len(Append(Upto(n), n + 1)) = Len(Upto(n)) + 1
    BY <1>0, AppendProperties
  <2> QED  BY <1>0, <2>1, <2>2, <2>3
<1>4. Upto(n + 1) = Append(Upto(n), n + 1)
  <2>1. Upto(n + 1) \in Seq(Nat) /\ Len(Upto(n + 1)) = n + 1
        /\ \A i \in 1 .. n + 1 : Upto(n + 1)[i] = i
    BY <1>1, <1>0
  <2>2. \A i \in 1 .. n : Upto(n)[i] = i
    BY <1>1
  <2>3. ASSUME NEW i \in 1 .. n + 1 PROVE Upto(n + 1)[i] = Append(Upto(n), n + 1)[i]
    <3>1. i \in 1 .. n \/ i = n + 1
      OBVIOUS
    <3> QED  BY <1>3, <2>1, <2>2, <3>1
  <2> QED  BY <1>3, <2>1, <2>3, SeqEqual
<1> QED  BY <1>1, <1>2, <1>4

\* A sequence that ends what counts up to n has only numbers up to n.
LEMMA UptoParts ==
  ASSUME NEW n \in Nat, NEW p \in Seq(Nat), NEW s \in Seq(Nat), NEW t \in Seq(Nat),
         (p \o s) \o t = Upto(n)
  PROVE  /\ \A i \in 1 .. Len(s) : s[i] \in 1 .. n
         /\ \A i \in 1 .. Len(t) : t[i] \in 1 .. n
<1>1. p \o s \in Seq(Nat) /\ Len(p \o s) = Len(p) + Len(s)
      /\ \A i \in 1 .. Len(p) + Len(s) : (p \o s)[i] = (IF i <= Len(p) THEN p[i] ELSE s[i - Len(p)])
  BY ConcatProperties
<1>2. Len((p \o s) \o t) = Len(p \o s) + Len(t)
      /\ \A i \in 1 .. Len(p \o s) + Len(t) :
            ((p \o s) \o t)[i] = (IF i <= Len(p \o s) THEN (p \o s)[i] ELSE t[i - Len(p \o s)])
  <2>1. p \o s \in Seq(Nat)
    BY <1>1
  <2> QED  BY <2>1, ConcatProperties
<1>3. Len(p) \in Nat /\ Len(s) \in Nat /\ Len(t) \in Nat
  BY LenProperties
<1>4. n = Len(p) + Len(s) + Len(t)
  BY <1>1, <1>2, <1>3, UptoType
<1>5. ASSUME NEW i \in 1 .. Len(s) PROVE s[i] \in 1 .. n
  <2>1. Len(p) + i \in 1 .. n /\ Len(p) + i \in 1 .. Len(p) + Len(s)
        /\ Len(p) + i \in 1 .. Len(p \o s) + Len(t)
        /\ ~ (Len(p) + i <= Len(p)) /\ (Len(p) + i) - Len(p) = i /\ Len(p) + i <= Len(p \o s)
    BY <1>1, <1>3, <1>4
  <2>2. s[i] = Upto(n)[Len(p) + i]
    BY <1>1, <1>2, <2>1
  <2> QED  BY <2>1, <2>2 DEF Upto
<1>6. ASSUME NEW i \in 1 .. Len(t) PROVE t[i] \in 1 .. n
  <2>1. Len(p \o s) + i \in 1 .. n /\ Len(p \o s) + i \in 1 .. Len(p \o s) + Len(t)
        /\ ~ (Len(p \o s) + i <= Len(p \o s)) /\ (Len(p \o s) + i) - Len(p \o s) = i
    BY <1>1, <1>3, <1>4
  <2>2. t[i] = Upto(n)[Len(p \o s) + i]
    BY <1>2, <2>1
  <2> QED  BY <2>1, <2>2 DEF Upto
<1> QED  BY <1>5, <1>6
-----------------------------------------------------------------------------
(* the inductive invariant *)

\* The program is before the first call it makes to the driver once set up,
Starting == {"init", "init_fcr", "init_ier", "init_enable"}

\* where it lets the handler in,
Open == {"app", "transmit", "receive", "disable", "rx_disable", "flush", "flush_temt", "done"}

\* where it goes only if the driver uses interrupts,
WithIrq ==
    {"disable", "push", "fill_test", "fill", "fill_thr", "enable",
     "rx_disable", "rx_pop", "rx_enable"}

\* and where it goes only if it does not.
Polling == {"thr", "rbr"}

MainPlaces == Starting \cup Open \cup WithIrq \cup Polling
IsrPlaces == {"none", "claim", "iir", "clean", "fill_test", "fill", "fill_thr", "complete"}

PcOK ==
    /\ pc \in [{"main", "isr"} -> MainPlaces \cup IsrPlaces]
    /\ pc["main"] \in MainPlaces
    /\ pc["isr"] \in IsrPlaces

\* The handler runs only where the program does not use what they share, and
\* without interrupts the FIFOs in memory are not used at all.
Exclusion ==
    /\ pc["isr"] # "none" => irqOn
    /\ irqOn => use_irq /\ pc["main"] \in Open
    /\ IF use_irq THEN pc["main"] \notin Polling
       ELSE pc["main"] \notin WithIrq /\ fifo_empty(tx) /\ fifo_empty(rx)

\* A byte is held only between the two steps that move it to the device, and the
\* device has room for all that are still to follow.
Holding ==
    \A c \in {"main", "isr"} :
       /\ hold[c] # <<>> <=> pc[c] = "fill_thr"
       /\ pc[c] \in {"fill", "fill_thr"} => Len(txHw) + Len(hold[c]) + left[c] <= HwSize

\* What the program has found out before it came to where it is still holds,
\* whatever the handler has done since.
StillTrue ==
    /\ pc["main"] \in Starting => byte = 0 /\ got = <<>> /\ fifo_empty(rx)
    /\ pc["main"] \in {"transmit", "disable", "push", "thr"} => byte >= 1
    /\ pc["main"] \in {"disable", "push"} => ~ fifo_full(tx)
    /\ pc["main"] = "thr" => txHw = <<>>
    /\ pc["main"] \in {"rx_disable", "rx_pop"} => ~ fifo_empty(rx)
    /\ pc["main"] = "rbr" => rxHw # <<>>
    /\ pc["main"] \in {"flush", "flush_temt", "done"} => byte = MaxTx
    /\ pc["main"] \in {"flush_temt", "done"} => fifo_empty(tx) /\ hold["isr"] = <<>>
    /\ pc["main"] = "done" => txHw = <<>> /\ shift = 0

\* An invariant that every step preserves.
IInv ==
    /\ TypeOK /\ PcOK /\ Exclusion /\ Holding /\ StillTrue
    /\ TransmitInOrder
    /\ ReceiveInOrder /\ lost \subseteq 1 .. arrived
-----------------------------------------------------------------------------
(* transmission *)

InShift == IF shift = 0 THEN <<>> ELSE <<shift>>

\* The bytes taken over that are not in the driver's FIFO any more, and all.
Popped == sent \o InShift \o txHw \o hold["main"] \o hold["isr"]
OnItsWay == Popped \o Contents(tx)

\* The parts of the way are sequences of bytes.
LEMMA WayTypes ==
  ASSUME TypeOK
  PROVE  /\ sent \in Seq(Nat) /\ InShift \in Seq(Nat) /\ txHw \in Seq(Nat)
         /\ hold["main"] \in Seq(Nat) /\ hold["isr"] \in Seq(Nat)
         /\ Contents(tx) \in Seq(Nat)
         /\ sent \o InShift \in Seq(Nat)
         /\ sent \o InShift \o txHw \in Seq(Nat)
         /\ sent \o InShift \o txHw \o hold["main"] \in Seq(Nat)
         /\ Popped \in Seq(Nat)
         /\ byte \in Nat /\ Taken \in Int
<1>1. sent \in Seq(Nat) /\ txHw \in Seq(Nat)
  <2>1. 1 .. MaxTx \subseteq Nat
    BY BoundAssumption
  <2>2. sent \in Seq(1 .. MaxTx) /\ txHw \in Seq(1 .. MaxTx)
    BY DEF TypeOK
  <2> QED  BY <2>1, <2>2, SeqMonotonic
<1>2. InShift \in Seq(Nat)
  BY DEF TypeOK, InShift
<1>3. \A c \in {"main", "isr"} : hold[c] \in Seq(Nat)
  <2>1. ASSUME NEW c \in {"main", "isr"} PROVE hold[c] \in Seq(Nat)
    <3>1. hold[c] = <<>> \/ \E b \in 1 .. MaxTx : hold[c] = <<b>>
      BY DEF TypeOK
    <3>2. \A b \in 1 .. MaxTx : <<b>> \in Seq(Nat)
      BY BoundAssumption
    <3> QED  BY <3>1, <3>2, EmptySeq
  <2> QED  BY <2>1
<1>4. Contents(tx) \in Seq(Nat)
  <2>1. Contents(tx) \in Seq(0 .. MaxTx)
    BY ContentsType DEF TypeOK
  <2>2. 0 .. MaxTx \subseteq Nat
    BY BoundAssumption
  <2> QED  BY <2>1, <2>2, SeqMonotonic
<1>5. sent \o InShift \in Seq(Nat)
  BY <1>1, <1>2, ConcatProperties
<1>6. sent \o InShift \o txHw \in Seq(Nat)
  BY <1>1, <1>5, ConcatProperties
<1>7. sent \o InShift \o txHw \o hold["main"] \in Seq(Nat)
  BY <1>3, <1>6, ConcatProperties
<1>8. Popped \in Seq(Nat)
  BY <1>3, <1>7, ConcatProperties DEF Popped
<1>9. byte \in Nat /\ Taken \in Int
  BY BoundAssumption DEF TypeOK, Taken
<1> QED  BY <1>1, <1>2, <1>3, <1>4, <1>5, <1>6, <1>7, <1>8, <1>9

\* What the bytes on the way are, and that none are when none are taken over.
LEMMA WayParts ==
  ASSUME TypeOK, TransmitInOrder, Taken \in Nat
  PROVE  /\ \A i \in 1 .. Len(Contents(tx)) : Contents(tx)[i] \in 1 .. Taken
         /\ Taken = 0 => /\ sent = <<>> /\ shift = 0 /\ txHw = <<>>
                         /\ hold["main"] = <<>> /\ hold["isr"] = <<>>
                         /\ Contents(tx) = <<>>
         /\ /\ shift = 0 /\ txHw = <<>> /\ hold["main"] = <<>> /\ hold["isr"] = <<>>
            /\ Contents(tx) = <<>>
            => Len(sent) = Taken
<1> DEFINE C == Contents(tx)
           n2 == sent \o InShift
           n3 == n2 \o txHw
           n4 == n3 \o hold["main"]
<1>1. /\ sent \in Seq(Nat) /\ InShift \in Seq(Nat) /\ txHw \in Seq(Nat)
      /\ hold["main"] \in Seq(Nat) /\ hold["isr"] \in Seq(Nat) /\ C \in Seq(Nat)
      /\ n2 \in Seq(Nat) /\ n3 \in Seq(Nat) /\ n4 \in Seq(Nat)
  BY WayTypes
<1>2. (n4 \o hold["isr"]) \o C = Upto(Taken)
  BY DEF TransmitInOrder, InShift, Upto
<1>3. Len(n2) = Len(sent) + Len(InShift)
  BY <1>1, ConcatProperties
<1>4. Len(n3) = Len(n2) + Len(txHw)
  BY <1>1, ConcatProperties
<1>5. Len(n4) = Len(n3) + Len(hold["main"])
  BY <1>1, ConcatProperties
<1> HIDE DEF C, n2, n3, n4
<1>6. /\ \A i \in 1 .. Len(C) : C[i] \in 1 .. Taken
      /\ Len(n4) + Len(hold["isr"]) + Len(C) = Taken
  <2>1. n4 \o hold["isr"] \in Seq(Nat) /\ Len(n4 \o hold["isr"]) = Len(n4) + Len(hold["isr"])
    BY <1>1, ConcatProperties
  <2>2. Len((n4 \o hold["isr"]) \o C) = Len(n4 \o hold["isr"]) + Len(C)
    BY <1>1, <2>1, ConcatProperties
  <2>3. Len(Upto(Taken)) = Taken
    BY UptoType
  <2> QED  BY <1>1, <1>2, <2>1, <2>2, <2>3, UptoParts
<1>7. Len(sent) + Len(InShift) + Len(txHw) + Len(hold["main"]) + Len(hold["isr"]) + Len(C) = Taken
  BY <1>1, <1>3, <1>4, <1>5, <1>6, LenProperties
<1>8. /\ Len(sent) \in Nat /\ Len(InShift) \in Nat /\ Len(txHw) \in Nat
      /\ Len(hold["main"]) \in Nat /\ Len(hold["isr"]) \in Nat /\ Len(C) \in Nat
  BY <1>1, LenProperties
<1>9. ASSUME Taken = 0
      PROVE  /\ sent = <<>> /\ shift = 0 /\ txHw = <<>>
             /\ hold["main"] = <<>> /\ hold["isr"] = <<>> /\ C = <<>>
  <2>1. (n4 \o hold["isr"]) \o C = <<>>
    BY <1>2, <1>9, UptoType
  <2>3. n4 \o hold["isr"] = <<>> /\ C = <<>>
    <3>1. n4 \o hold["isr"] \in Seq(Nat)
      BY <1>1, ConcatProperties
    <3> QED  BY <1>1, <2>1, <3>1, ConcatEqualIffEmpty
  <2>4. n4 = <<>> /\ hold["isr"] = <<>>
    BY <1>1, <2>3, ConcatEqualIffEmpty
  <2>5. n3 = <<>> /\ hold["main"] = <<>>
    BY <1>1, <2>4, ConcatEqualIffEmpty DEF n4
  <2>6. n2 = <<>> /\ txHw = <<>>
    BY <1>1, <2>5, ConcatEqualIffEmpty DEF n3
  <2>7. sent = <<>> /\ InShift = <<>>
    BY <1>1, <2>6, ConcatEqualIffEmpty DEF n2
  <2>2. InShift = <<>> => shift = 0
    BY DEF InShift
  <2> QED  BY <2>2, <2>3, <2>4, <2>5, <2>6, <2>7
<1>10. ASSUME shift = 0, txHw = <<>>, hold["main"] = <<>>, hold["isr"] = <<>>, C = <<>>
       PROVE  Len(sent) = Taken
  <2>1. InShift = <<>>
    BY <1>10 DEF InShift
  <2>2. Len(InShift) = 0 /\ Len(txHw) = 0 /\ Len(hold["main"]) = 0 /\ Len(hold["isr"]) = 0 /\ Len(C) = 0
    BY <1>10, <2>1, EmptySeq
  <2> QED  BY <1>7, <1>8, <2>2
<1> QED  BY <1>6, <1>9, <1>10 DEF C

\* The number of bytes taken over is one.
LEMMA TakenType ==
  ASSUME IInv
  PROVE  Taken \in Nat
BY DEF IInv, TypeOK, StillTrue, Taken

\* Nothing is transmitted in a step that leaves the way as it is.
LEMMA TransmitStutter ==
  ASSUME TransmitInOrder, Popped' = Popped, Contents(tx)' = Contents(tx), Taken' = Taken
  PROVE  TransmitInOrder'
<1>1. OnItsWay = Upto(Taken)
  BY DEF TransmitInOrder, OnItsWay, Popped, InShift, Upto
<1>2. OnItsWay' = Upto(Taken)'
  BY <1>1 DEF OnItsWay, Upto
<1> QED  BY <1>2 DEF TransmitInOrder, OnItsWay, Popped, InShift, Upto

\* The device moves a byte to its shift register, and out of it.
LEMMA TransmitDevice ==
  ASSUME IInv, ShiftIn \/ ShiftOut
  PROVE  TransmitInOrder'
<1>1. /\ sent \in Seq(Nat) /\ InShift \in Seq(Nat) /\ txHw \in Seq(Nat) /\ shift \in Nat
  BY WayTypes, BoundAssumption DEF IInv, TypeOK
<1>2. Taken' = Taken /\ Contents(tx)' = Contents(tx) /\ hold' = hold
  BY DEF ShiftIn, ShiftOut, software, fifos, Taken, Contents
<1>3. (sent \o InShift \o txHw)' = sent \o InShift \o txHw
  <2>1. CASE ShiftIn
    <3>1. txHw # <<>> /\ InShift = <<>> /\ sent' = sent /\ txHw' = Tail(txHw) /\ shift' = Head(txHw)
      BY <2>1 DEF ShiftIn, InShift, line
    <3>2. Head(txHw) # 0
      <4>1. txHw \in Seq(1 .. MaxTx)
        BY DEF IInv, TypeOK
      <4>2. Head(txHw) \in 1 .. MaxTx
        BY <3>1, <4>1, HeadTailProperties
      <4> QED  BY <4>2, BoundAssumption
    <3>3. InShift' = <<Head(txHw)>>
      BY <3>1, <3>2 DEF InShift
    <3>4. sent \o InShift = sent
      BY <1>1, <3>1, ConcatEmptySeq
    <3> QED  BY <1>1, <3>1, <3>3, <3>4, MoveHead
  <2>2. CASE ShiftOut
    <3>1. InShift = <<shift>> /\ InShift' = <<>> /\ sent' = Append(sent, shift) /\ txHw' = txHw
      BY <2>2 DEF ShiftOut, InShift
    <3>2. sent' = sent \o InShift /\ sent' \in Seq(Nat)
      BY <1>1, <3>1, AppendIsConcat, AppendProperties
    <3>3. sent' \o <<>> = sent'
      BY <3>2, ConcatEmptySeq
    <3> QED  BY <3>1, <3>2, <3>3
  <2> QED  BY <2>1, <2>2
<1>4. Popped' = Popped
  BY <1>2, <1>3 DEF Popped
<1> QED  BY <1>2, <1>4, TransmitStutter DEF IInv

\* fill_tx_fifo() takes a byte out of the driver's FIFO.
LEMMA TransmitFillPop ==
  ASSUME IInv, NEW c \in {"main", "isr"}, NEW after \in {"enable", "flush", "complete"},
         FillPop(c, after)
  PROVE  TransmitInOrder'
<1> DEFINE A == sent \o InShift \o txHw
           C == Contents(tx)
<1>1. A \in Seq(Nat) /\ hold["main"] \in Seq(Nat) /\ hold["isr"] \in Seq(Nat) /\ C \in Seq(Nat)
      /\ A \o hold["main"] \in Seq(Nat) /\ Popped \in Seq(Nat)
  BY WayTypes DEF IInv
<1>2. A' = A /\ Taken' = Taken
  BY DEF FillPop, Step, device, line, InShift, Taken, IInv, PcOK
<1>3. OnItsWay = Upto(Taken) /\ OnItsWay = ((A \o hold["main"]) \o hold["isr"]) \o C
  BY DEF IInv, TransmitInOrder, OnItsWay, Popped, InShift, Upto
<1>4. OnItsWay' = ((A' \o hold'["main"]) \o hold'["isr"]) \o C'
  BY DEF OnItsWay, Popped
<1>5. CASE left[c] > 0 /\ ~ fifo_empty(tx)
  <2>1. C' = Tail(C) /\ hold' = [hold EXCEPT ![c] = <<Head(C)>>] /\ C # <<>>
    <3>1. tx' = fifo_pop(tx) /\ hold' = [hold EXCEPT ![c] = <<fifo_front(tx)>>]
      BY <1>5 DEF FillPop
    <3>2. tx \in Fifo(0 .. MaxTx)
      BY DEF IInv, TypeOK
    <3>3. fifo_front(tx) = Head(C) /\ Contents(fifo_pop(tx)) = Tail(C) /\ C # <<>>
      BY <1>5, <3>2, ContentsPop
    <3>4. C' = Contents(fifo_pop(tx))
      BY <3>1 DEF Contents
    <3> QED  BY <3>1, <3>3, <3>4
  <2>2. hold[c] = <<>> /\ (c = "main" => hold["isr"] = <<>>)
    BY DEF IInv, Holding, Exclusion, Open, FillPop, Step
  <2>3. hold'[c] = <<Head(C)>> /\ \A d \in {"main", "isr"} : d # c => hold'[d] = hold[d]
    BY <2>1 DEF IInv, TypeOK
  <2> HIDE DEF A, C
  <2>4. CASE c = "main"
    <3>1. (A \o <<>>) \o <<>> = A
      BY <1>1, ConcatEmptySeq
    <3>2. OnItsWay = A \o C
      BY <1>3, <2>2, <2>4, <3>1
    <3>3. OnItsWay' = ((A \o <<Head(C)>>) \o <<>>) \o Tail(C)
      BY <1>2, <1>4, <2>1, <2>2, <2>3, <2>4
    <3>4. <<Head(C)>> \in Seq(Nat) /\ A \o C = (A \o <<Head(C)>>) \o Tail(C)
      BY <1>1, <2>1, MoveHead
    <3>5. (A \o <<Head(C)>>) \o <<>> = A \o <<Head(C)>>
      BY <1>1, <3>4, ConcatProperties, ConcatEmptySeq
    <3> QED  BY <1>2, <1>3, <3>2, <3>3, <3>4, <3>5 DEF TransmitInOrder, OnItsWay, Popped, InShift, Upto
  <2>5. CASE c = "isr"
    <3>1. (A \o hold["main"]) \o <<>> = A \o hold["main"]
      BY <1>1, ConcatEmptySeq
    <3>2. OnItsWay = (A \o hold["main"]) \o C
      BY <1>3, <2>2, <2>5, <3>1
    <3>3. OnItsWay' = ((A \o hold["main"]) \o <<Head(C)>>) \o Tail(C)
      BY <1>2, <1>4, <2>1, <2>3, <2>5
    <3>4. OnItsWay' = OnItsWay
      BY <1>1, <2>1, <3>2, <3>3, MoveHead
    <3> QED  BY <1>2, <1>3, <3>4 DEF TransmitInOrder, OnItsWay, Popped, InShift, Upto
  <2> QED  BY <2>4, <2>5
<1>6. CASE ~ (left[c] > 0 /\ ~ fifo_empty(tx))
  <2>1. tx' = tx /\ hold' = hold
    BY <1>6 DEF FillPop
  <2> QED  BY <1>2, <2>1, TransmitStutter DEF IInv, Popped, Contents
<1> QED  BY <1>5, <1>6

\* fill_tx_fifo() writes it to the device, which has room for it.
LEMMA TransmitFillThr ==
  ASSUME IInv, NEW c \in {"main", "isr"}, FillThr(c)
  PROVE  TransmitInOrder'
<1> DEFINE A == sent \o InShift
<1>1. A \in Seq(Nat) /\ txHw \in Seq(Nat) /\ A \o txHw \in Seq(Nat)
  BY WayTypes DEF IInv
<1>2. A' = A /\ Taken' = Taken /\ Contents(tx)' = Contents(tx)
  BY DEF FillThr, Step, fifos, line, InShift, Taken, Contents, IInv, PcOK
<1>3. PICK b \in 1 .. MaxTx : hold[c] = <<b>>
  BY DEF IInv, TypeOK, Holding, FillThr, Step
<1>4. b \in Nat
  BY BoundAssumption
<1>5. txHw' = Append(txHw, b)
  <2>1. Len(txHw) + 1 + left[c] <= HwSize
    BY <1>3 DEF IInv, Holding, FillThr, Step
  <2>2. Len(txHw) \in Nat /\ left[c] \in Nat
    BY <1>1, LenProperties, SizeAssumption DEF IInv, TypeOK
  <2>3. Len(txHw) < HwSize
    BY <2>1, <2>2, SizeAssumption
  <2> QED  BY <1>3, <2>3 DEF FillThr, WriteThr
<1>6. \A d \in {"main", "isr"} : d # c => hold[d] = <<>>
  BY DEF IInv, Holding, Exclusion, Open, FillThr, Step
<1>7. \A d \in {"main", "isr"} : hold'[d] = <<>>
  BY <1>6 DEF IInv, TypeOK, FillThr
<1>8. Popped = (A \o txHw) \o <<b>>
  <2> HIDE DEF A
  <2>1. (A \o txHw) \o <<>> = A \o txHw
    BY <1>1, ConcatEmptySeq
  <2>2. (A \o txHw) \o <<b>> \in Seq(Nat)
    BY <1>1, <1>4, MoveLast, ConcatProperties
  <2>3. ((A \o txHw) \o <<b>>) \o <<>> = (A \o txHw) \o <<b>>
    BY <2>2, ConcatEmptySeq
  <2> QED  BY <1>3, <1>6, <2>1, <2>3 DEF Popped, A
<1>9. Popped' = A \o Append(txHw, b)
  <2>1. Popped' = ((A \o Append(txHw, b)) \o <<>>) \o <<>>
    BY <1>2, <1>5, <1>7 DEF Popped
  <2> HIDE DEF A
  <2>2. A \o Append(txHw, b) \in Seq(Nat)
    BY <1>1, <1>4, AppendProperties, ConcatProperties
  <2> QED  BY <2>1, <2>2, ConcatEmptySeq
<1> HIDE DEF A
<1>10. Popped' = Popped
  BY <1>1, <1>4, <1>8, <1>9, MoveLast
<1> QED  BY <1>2, <1>10, TransmitStutter DEF IInv

\* The empty FIFO.
LEMMA InitFifo ==
  ASSUME NEW n \in Nat
  PROVE  /\ fifo_init \in Fifo(0 .. n)
         /\ fifo_empty(fifo_init) /\ Contents(fifo_init) = <<>>
<1>1. fifo_init \in Fifo(0 .. n)
  BY SizeAssumption DEF fifo_init, Fifo
<1>2. fifo_empty(fifo_init)
  BY DEF fifo_init, fifo_empty
<1> QED  BY <1>1, <1>2, ContentsEmpty

\* bm_uart_init() finds nothing on the way, and leaves nothing.
LEMMA TransmitInit ==
  ASSUME IInv, InitBuffers \/ ResetFifos
  PROVE  TransmitInOrder' /\ Contents(tx) = <<>> /\ txHw = <<>>
<1>1. pc["main"] \in Starting /\ pc'["main"] \in Starting /\ byte' = byte /\ byte = 0
  BY DEF IInv, PcOK, StillTrue, Starting, InitBuffers, ResetFifos, Step
<1>2. Taken = 0 /\ Taken' = 0
  BY <1>1 DEF Taken, Starting
<1>3. /\ sent = <<>> /\ shift = 0 /\ txHw = <<>>
      /\ hold["main"] = <<>> /\ hold["isr"] = <<>> /\ Contents(tx) = <<>>
  BY <1>2, WayParts DEF IInv
<1>4. Contents(tx)' = <<>>
  <2>1. CASE tx' = fifo_init
    <3>1. Contents(fifo_init) = <<>>
      BY InitFifo
    <3> QED  BY <2>1, <3>1 DEF Contents
  <2>2. CASE tx' = tx
    BY <1>3, <2>2 DEF Contents
  <2> QED  BY <2>1, <2>2 DEF InitBuffers, ResetFifos, fifos
<1>5. Popped' = Popped
  BY <1>3 DEF InitBuffers, ResetFifos, device, line, Popped, InShift
<1> QED  BY <1>2, <1>3, <1>4, <1>5, TransmitStutter DEF IInv

\* A byte is taken over: it is appended to what is on the way.
LEMMA TransmitAppend ==
  ASSUME IInv, OnItsWay' = Append(OnItsWay, byte), Taken = byte - 1, Taken' = byte
  PROVE  TransmitInOrder'
<1>1. Taken \in Nat /\ byte = Taken + 1
  BY TakenType, BoundAssumption DEF IInv, TypeOK
<1>2. OnItsWay = Upto(Taken)
  BY DEF IInv, TransmitInOrder, OnItsWay, Popped, InShift, Upto
<1>3. Append(Upto(Taken), Taken + 1) = Upto(Taken + 1)
  BY <1>1, UptoType
<1>4. OnItsWay' = Upto(Taken')
  BY <1>1, <1>2, <1>3
<1> QED  BY <1>4 DEF TransmitInOrder, OnItsWay, Popped, InShift, Upto

\* bm_uart_transmit_byte() puts it in its FIFO, which has room for it,
LEMMA TransmitPush ==
  ASSUME IInv, PushByte
  PROVE  TransmitInOrder'
<1>1. Popped \in Seq(Nat) /\ Contents(tx) \in Seq(Nat) /\ byte \in Nat
  BY WayTypes DEF IInv
<1>2. Taken = byte - 1 /\ Taken' = byte
  BY DEF PushByte, Step, Taken, IInv, PcOK
<1>3. Popped' = Popped
  BY DEF PushByte, Step, device, line, Popped, InShift
<1>4. Contents(tx)' = Append(Contents(tx), byte)
  <2>1. tx \in Fifo(0 .. MaxTx) /\ byte \in 0 .. MaxTx
    BY DEF IInv, TypeOK
  <2>2. ~ fifo_full(tx)
    BY DEF PushByte, Step, IInv, StillTrue
  <2>3. Contents(fifo_push(tx, byte)) = Append(Contents(tx), byte)
    BY <2>1, <2>2, ContentsPush
  <2> QED  BY <2>3 DEF PushByte, Contents
<1>5. OnItsWay' = Append(OnItsWay, byte)
  BY <1>1, <1>3, <1>4, MoveLast DEF OnItsWay
<1> QED  BY <1>2, <1>5, TransmitAppend

\* or, without interrupts, in the device, which has sent all others.
LEMMA TransmitPut ==
  ASSUME IInv, PutThr
  PROVE  TransmitInOrder'
<1> DEFINE A == sent \o InShift
<1>1. A \in Seq(Nat) /\ byte \in Nat
  BY WayTypes DEF IInv
<1>2. Taken = byte - 1 /\ Taken' = byte
  BY DEF PutThr, Step, Taken, IInv, PcOK
<1>3. txHw = <<>> /\ fifo_empty(tx)
      /\ hold["main"] = <<>> /\ hold["isr"] = <<>>
  BY DEF PutThr, Step, IInv, StillTrue, Holding, Exclusion, Polling
<1>4. Contents(tx) = <<>>
  BY <1>3, ContentsEmpty DEF IInv, TypeOK
<1>5. txHw' = <<byte>>
  <2>1. Len(txHw) = 0
    BY <1>3
  <2>2. txHw' = Append(<<>>, byte)
    BY <1>3, <2>1, SizeAssumption DEF PutThr, WriteThr
  <2> QED  BY <2>2
<1>6. A' = A /\ hold' = hold /\ Contents(tx)' = <<>>
  BY <1>4 DEF PutThr, fifos, line, InShift, Contents
<1> HIDE DEF A
<1>7. OnItsWay = A
  <2>1. OnItsWay = (((A \o <<>>) \o <<>>) \o <<>>) \o <<>>
    BY <1>3, <1>4 DEF OnItsWay, Popped, A
  <2> QED  BY <1>1, <2>1, ConcatEmptySeq
<1>8. OnItsWay' = A \o <<byte>>
  <2>1. OnItsWay' = (((A \o <<byte>>) \o <<>>) \o <<>>) \o <<>>
    BY <1>3, <1>5, <1>6 DEF OnItsWay, Popped, A
  <2>2. A \o <<byte>> \in Seq(Nat)
    BY <1>1, ConcatProperties
  <2> QED  BY <2>1, <2>2, ConcatEmptySeq
<1>9. OnItsWay' = Append(OnItsWay, byte)
  BY <1>1, <1>7, <1>8, AppendIsConcat
<1> QED  BY <1>2, <1>9, TransmitAppend

\* Every step keeps the bytes transmitted in order.
LEMMA TransmitStep ==
  ASSUME IInv, [Next]_vars
  PROVE  TransmitInOrder'
<1>1. ASSUME <<sent, shift, txHw, hold, tx>>' = <<sent, shift, txHw, hold, tx>>, Taken' = Taken
      PROVE  TransmitInOrder'
  BY <1>1, TransmitStutter DEF IInv, Popped, InShift, Contents
<1>2. CASE Device
  <2>1. CASE Arrive \/ RaiseRx
    BY <1>1, <2>1 DEF Arrive, RaiseRx, fifos, line, software, Taken
  <2> QED  BY <1>2, <2>1, TransmitDevice DEF Device
<1>3. CASE Latch
  BY <1>1, <1>3 DEF Latch, fifos, device, line, software, Taken
<1>4. CASE Call
  BY <1>1, <1>4 DEF Call, CallTransmit, CallReceive, CallFlush, MainStep, Step,
                    fifos, device, line, Taken, IInv, TypeOK, PcOK
<1>5. CASE InCall
  <2>1. CASE InitIer
    BY <1>1, <2>1 DEF InitIer, Step, fifos, line, Taken, IInv, PcOK
  <2>2. CASE InitEnable
    BY <1>1, <2>2 DEF InitEnable, MainStep, Step, fifos, device, line, Taken, IInv, PcOK
  <2>3. CASE WaitToTransmit
    BY <1>1, <2>3 DEF WaitToTransmit, MainStep, Step, fifos, device, line, Taken, IInv, PcOK
  <2>4. CASE Disable
    BY <1>1, <2>4 DEF Disable, MainStep, Step, fifos, device, line, Taken, IInv, PcOK
  <2>5. CASE Enable
    BY <1>1, <2>5 DEF Enable, MainStep, Step, fifos, device, line, Taken, IInv, PcOK
  <2>6. CASE FillTest("main", AfterFill)
    BY <1>1, <2>6 DEF FillTest, AfterFill, Step, fifos, device, line, Taken, IInv, PcOK
  <2>7. CASE FillPop("main", AfterFill)
    <3>1. AfterFill \in {"enable", "flush", "complete"}
      BY DEF AfterFill
    <3> QED  BY <2>7, <3>1, TransmitFillPop
  <2>8. CASE FillThr("main")
    BY <2>8, TransmitFillThr
  <2>9. CASE TestReceive
    BY <1>1, <2>9 DEF TestReceive, MainStep, Step, fifos, device, line, Taken, IInv, PcOK
  <2>10. CASE GetRbr \/ PopByte
    BY <1>1, <2>10 DEF GetRbr, PopByte, Step, fifos, device, line, Taken, IInv, PcOK
  <2>11. CASE FlushFifo \/ FlushDevice
    BY <1>1, <2>11 DEF FlushFifo, FlushDevice, MainStep, Step, fifos, device, line, Taken, IInv, PcOK
  <2> QED  BY <1>5, <2>1, <2>2, <2>3, <2>4, <2>5, <2>6, <2>7, <2>8, <2>9, <2>10, <2>11,
              TransmitInit, TransmitPush, TransmitPut DEF InCall, Fill
<1>6. CASE Isr
  <2>1. CASE TakeTrap \/ IsrClaim \/ IsrReadIir \/ CleanRxFifo \/ IsrComplete
    BY <1>1, <2>1 DEF TakeTrap, IsrClaim, IsrReadIir, CleanRxFifo, IsrComplete, IsrStep, Step,
                      fifos, device, line, Taken, IInv, PcOK
  <2>2. CASE FillTest("isr", "complete")
    BY <1>1, <2>2 DEF FillTest, Step, fifos, device, line, Taken, IInv, PcOK
  <2>3. CASE FillPop("isr", "complete")
    BY <2>3, TransmitFillPop
  <2>4. CASE FillThr("isr")
    BY <2>4, TransmitFillThr
  <2> QED  BY <1>6, <2>1, <2>2, <2>3, <2>4 DEF Isr, Fill
<1>7. CASE UNCHANGED vars
  BY <1>1, <1>7 DEF vars, fifos, device, line, software, Taken
<1> QED  BY <1>2, <1>3, <1>4, <1>5, <1>6, <1>7 DEF Next
-----------------------------------------------------------------------------
(* reception *)

Increasing(s) == \A i, j \in 1 .. Len(s) : i < j => s[i] < s[j]
Elements(s) == {s[i] : i \in 1 .. Len(s)}

\* A number greater than all of a sequence may be appended to it.
LEMMA AppendGreater ==
  ASSUME NEW s \in Seq(Nat), NEW n \in Nat, Increasing(s), \A x \in Elements(s) : x < n
  PROVE  /\ Increasing(Append(s, n))
         /\ Elements(Append(s, n)) = Elements(s) \cup {n}
<1> DEFINE t == Append(s, n)
           m == Len(s)
<1>1. m \in Nat /\ \A i \in 1 .. m : s[i] \in Nat
  BY LenProperties, ElementOfSeq
<1>2. Len(t) = m + 1 /\ t[m + 1] = n
  BY AppendProperties
<1>3. \A i \in 1 .. m : t[i] = s[i]
  BY AppendProperties
<1>4. \A i \in 1 .. m : s[i] < n
  BY DEF Elements
<1>5. \A i, j \in 1 .. m : i < j => s[i] < s[j]
  BY DEF Increasing
<1> HIDE DEF t, m
<1>6. \A i \in 1 .. m + 1 : i \in 1 .. m \/ i = m + 1
  BY <1>1
<1>7. Increasing(t)
  <2>1. ASSUME NEW i \in 1 .. m + 1, NEW j \in 1 .. m + 1, i < j PROVE t[i] < t[j]
    <3>1. i \in 1 .. m
      BY <1>1, <2>1
    <3>2. CASE j = m + 1
      BY <1>2, <1>3, <1>4, <3>1, <3>2
    <3>3. CASE j \in 1 .. m
      BY <1>3, <1>5, <2>1, <3>1, <3>3
    <3> QED  BY <1>6, <3>2, <3>3
  <2> QED  BY <1>2, <2>1 DEF Increasing
<1>8. Elements(t) = Elements(s) \cup {n}
  <2>1. \A i \in 1 .. m : i \in 1 .. m + 1
    BY <1>1
  <2>2. m + 1 \in 1 .. m + 1
    BY <1>1
  <2> QED  BY <1>2, <1>3, <1>6, <2>1, <2>2 DEF Elements, m
<1> QED  BY <1>7, <1>8 DEF t

\* A sequence that increases still does with one element removed.
LEMMA DropHead ==
  ASSUME NEW p \in Seq(Nat), NEW s \in Seq(Nat), s # <<>>, Increasing(p \o s)
  PROVE  /\ Increasing(p \o Tail(s))
         /\ Elements(p \o Tail(s)) = Elements(p \o s) \ {Head(s)}
<1> DEFINE a == p \o s
           b == p \o Tail(s)
           k == Len(p)
           m == Len(a)
<1>1. Len(p) \in Nat /\ Len(s) \in Nat /\ Len(s) >= 1 /\ Head(s) = s[1]
  BY LenProperties, EmptySeq
<1>2. Tail(s) \in Seq(Nat) /\ Len(Tail(s)) = Len(s) - 1
      /\ \A i \in 1 .. Len(Tail(s)) : Tail(s)[i] = s[i + 1]
  BY HeadTailProperties
<1>3. a \in Seq(Nat) /\ Len(a) = Len(p) + Len(s)
      /\ \A i \in 1 .. Len(p) + Len(s) : a[i] = (IF i <= Len(p) THEN p[i] ELSE s[i - Len(p)])
  BY ConcatProperties
<1>4. b \in Seq(Nat) /\ Len(b) = Len(p) + Len(Tail(s))
      /\ \A i \in 1 .. Len(p) + Len(Tail(s)) :
            b[i] = (IF i <= Len(p) THEN p[i] ELSE Tail(s)[i - Len(p)])
  <2>1. Tail(s) \in Seq(Nat)
    BY <1>2
  <2> QED  BY <2>1, ConcatProperties
<1>5. m \in Nat /\ k \in 0 .. m - 1 /\ Len(b) = m - 1
  BY <1>1, <1>2, <1>3, <1>4
<1>6. a[k + 1] = Head(s)
  <2>1. k + 1 \in 1 .. Len(p) + Len(s) /\ ~ (k + 1 <= Len(p)) /\ (k + 1) - Len(p) = 1
    BY <1>1
  <2> QED  BY <1>1, <1>3, <2>1
<1>7. ASSUME NEW i \in 1 .. m - 1
      PROVE  b[i] = a[IF i <= k THEN i ELSE i + 1]
  <2>1. CASE i <= k
    BY <1>1, <1>2, <1>3, <1>4, <2>1
  <2>2. CASE i > k
    <3>1. i - Len(p) \in 1 .. Len(Tail(s)) /\ i \in 1 .. Len(p) + Len(Tail(s)) /\ ~ (i <= Len(p))
          /\ i + 1 \in 1 .. Len(p) + Len(s) /\ ~ (i + 1 <= Len(p))
          /\ (i - Len(p)) + 1 = (i + 1) - Len(p)
      BY <1>1, <1>2, <1>3, <2>2
    <3>2. b[i] = Tail(s)[i - Len(p)] /\ Tail(s)[i - Len(p)] = s[(i + 1) - Len(p)]
      BY <1>2, <1>4, <3>1
    <3>3. a[i + 1] = s[(i + 1) - Len(p)]
      BY <1>3, <3>1
    <3> QED  BY <2>2, <3>2, <3>3, <1>1
  <2> QED  BY <2>1, <2>2, <1>1
<1>8. \A i, j \in 1 .. m : i < j => a[i] < a[j]
  BY DEF Increasing
<1>9. \A i \in 1 .. m : a[i] \in Nat
  BY <1>3, ElementOfSeq
<1>10. Elements(a) = {a[i] : i \in 1 .. m} /\ Elements(b) = {b[i] : i \in 1 .. m - 1}
  BY <1>5 DEF Elements
<1>11. Increasing(b) <=> \A i, j \in 1 .. m - 1 : i < j => b[i] < b[j]
  BY <1>5 DEF Increasing
<1> HIDE DEF a, b, k, m
<1>12. \A i, j \in 1 .. m - 1 : i < j => b[i] < b[j]
  <2>1. ASSUME NEW i \in 1 .. m - 1, NEW j \in 1 .. m - 1, i < j PROVE b[i] < b[j]
    <3> DEFINE x == IF i <= k THEN i ELSE i + 1
               y == IF j <= k THEN j ELSE j + 1
    <3>1. x \in 1 .. m /\ y \in 1 .. m /\ x < y
      BY <1>5, <2>1
    <3>2. b[i] = a[x] /\ b[j] = a[y]
      BY <1>7
    <3> HIDE DEF x, y
    <3> QED  BY <1>8, <3>1, <3>2
  <2> QED  BY <2>1
<1>13. Elements(b) = Elements(a) \ {Head(s)}
  <2>1. ASSUME NEW i \in 1 .. m - 1 PROVE b[i] \in Elements(a) /\ b[i] # Head(s)
    <3> DEFINE x == IF i <= k THEN i ELSE i + 1
    <3>1. x \in 1 .. m /\ k + 1 \in 1 .. m /\ (x < k + 1 \/ k + 1 < x)
      BY <1>5
    <3>2. b[i] = a[x]
      BY <1>7
    <3> HIDE DEF x
    <3>3. a[x] < a[k + 1] \/ a[k + 1] < a[x]
      BY <1>8, <3>1
    <3>4. a[x] # a[k + 1]
      BY <1>9, <3>1, <3>3
    <3> QED  BY <1>6, <1>10, <3>1, <3>2, <3>4
  <2>2. ASSUME NEW i \in 1 .. m, a[i] # Head(s) PROVE a[i] \in Elements(b)
    <3>1. i # k + 1
      BY <1>6, <2>2
    <3>2. CASE i <= k
      <4>1. i \in 1 .. m - 1
        BY <1>5, <3>2
      <4> QED  BY <1>7, <1>10, <3>2, <4>1
    <3>3. CASE ~ (i <= k)
      <4>1. i - 1 \in 1 .. m - 1 /\ ~ (i - 1 <= k) /\ (i - 1) + 1 = i
        BY <1>5, <3>1, <3>3
      <4>2. b[i - 1] = a[i]
        BY <1>7, <4>1
      <4> QED  BY <1>10, <4>1, <4>2
    <3> QED  BY <3>2, <3>3
  <2> QED  BY <1>10, <2>1, <2>2
<1> QED  BY <1>11, <1>12, <1>13 DEF a, b

\* What has been received, and the driver's part of it, are sequences of bytes.
LEMMA ReceiveTypes ==
  ASSUME TypeOK
  PROVE  /\ got \in Seq(Nat) /\ Contents(rx) \in Seq(Nat) /\ rxHw \in Seq(Nat)
         /\ got \o Contents(rx) \in Seq(Nat) /\ Received \in Seq(Nat)
         /\ arrived \in Nat
<1>1. 1 .. MaxRx \subseteq Nat /\ 0 .. MaxRx \subseteq Nat
  BY BoundAssumption
<1>2. got \in Seq(Nat) /\ rxHw \in Seq(Nat)
  <2>1. got \in Seq(1 .. MaxRx) /\ rxHw \in Seq(1 .. MaxRx)
    BY DEF TypeOK
  <2> QED  BY <1>1, <2>1, SeqMonotonic
<1>3. Contents(rx) \in Seq(Nat)
  <2>1. Contents(rx) \in Seq(0 .. MaxRx)
    BY ContentsType DEF TypeOK
  <2> QED  BY <1>1, <2>1, SeqMonotonic
<1>4. got \o Contents(rx) \in Seq(Nat)
  BY <1>2, <1>3, ConcatProperties
<1>5. Received \in Seq(Nat)
  BY <1>2, <1>4, ConcatProperties DEF Received
<1> QED  BY <1>1, <1>2, <1>3, <1>4, <1>5 DEF TypeOK

\* Everything received has arrived, and is increasing.
LEMMA ReceivedElements ==
  ASSUME IInv
  PROVE  /\ Increasing(Received)
         /\ Elements(Received) = (1 .. arrived) \ lost
         /\ lost \subseteq 1 .. arrived
BY DEF IInv, ReceiveInOrder, Increasing, Elements

\* What remains to be shown of a step.
LEMMA ReceiveGoal ==
  ASSUME Increasing(Received)', Elements(Received)' = ((1 .. arrived) \ lost)'
  PROVE  ReceiveInOrder'
BY DEF ReceiveInOrder, Increasing, Elements

\* Bytes received move, or nothing does.
LEMMA ReceiveStutter ==
  ASSUME IInv, Received' = Received, arrived' = arrived, lost' = lost
  PROVE  ReceiveInOrder' /\ lost' \subseteq 1 .. arrived'
<1>1. Increasing(Received)' /\ Elements(Received)' = ((1 .. arrived) \ lost)'
  BY ReceivedElements DEF Increasing, Elements
<1> QED  BY <1>1, ReceiveGoal, ReceivedElements

\* A byte that arrives is the last of all, or is lost.
LEMMA ReceiveArrive ==
  ASSUME IInv, Arrive
  PROVE  ReceiveInOrder' /\ lost' \subseteq 1 .. arrived'
<1> DEFINE n == arrived + 1
<1>1. n \in Nat /\ arrived \in Nat /\ arrived' = n
  BY ReceiveTypes DEF IInv, Arrive
<1>2. Increasing(Received) /\ Elements(Received) = (1 .. arrived) \ lost /\ lost \subseteq 1 .. arrived
  BY ReceivedElements
<1>3. got' = got /\ Contents(rx)' = Contents(rx)
  BY DEF Arrive, fifos, software, Contents
<1>4. 1 .. n = (1 .. arrived) \cup {n} /\ n \notin 1 .. arrived
  BY <1>1
<1>5. CASE Len(rxHw) < HwSize
  <2>1. rxHw' = Append(rxHw, n) /\ lost' = lost
    BY <1>1, <1>5 DEF Arrive
  <2>2. Received' = Append(Received, n)
    BY <1>1, <1>3, <2>1, ReceiveTypes, MoveLast DEF Received, IInv
  <2>3. \A x \in Elements(Received) : x < n
    BY <1>1, <1>2
  <2> HIDE DEF n
  <2>4. Increasing(Append(Received, n)) /\ Elements(Append(Received, n)) = Elements(Received) \cup {n}
    BY <1>1, <1>2, <2>3, ReceiveTypes, AppendGreater DEF IInv
  <2>5. Elements(Received') = (1 .. n) \ lost
    BY <1>2, <1>4, <2>2, <2>4
  <2> QED  BY <1>1, <1>2, <1>4, <2>1, <2>2, <2>4, <2>5, ReceiveGoal DEF Increasing, Elements
<1>6. CASE ~ (Len(rxHw) < HwSize)
  <2>1. rxHw' = rxHw /\ lost' = lost \cup {n}
    BY <1>1, <1>6 DEF Arrive
  <2>2. Received' = Received
    BY <1>3, <2>1 DEF Received
  <2> HIDE DEF n
  <2>3. Increasing(Received)' /\ Elements(Received)' = ((1 .. arrived) \ lost)'
    BY <1>1, <1>2, <1>4, <2>1, <2>2 DEF Increasing, Elements
  <2> QED  BY <1>1, <1>2, <1>4, <2>1, <2>3, ReceiveGoal
<1> QED  BY <1>5, <1>6

\* bm_uart_init() discards what has arrived before it.
LEMMA ReceiveInit ==
  ASSUME IInv, InitBuffers \/ ResetFifos
  PROVE  ReceiveInOrder' /\ lost' \subseteq 1 .. arrived'
<1>1. got = <<>> /\ fifo_empty(rx) /\ rx \in Fifo(0 .. MaxRx)
  BY DEF IInv, TypeOK, StillTrue, Starting, InitBuffers, ResetFifos, Step
<1>2. Contents(rx) = <<>> /\ Received = rxHw
  <2>1. Contents(rx) = <<>>
    BY <1>1, ContentsEmpty
  <2>2. (<<>> \o <<>>) \o rxHw = rxHw
    BY ReceiveTypes, ConcatEmptySeq DEF IInv
  <2> QED  BY <1>1, <2>1, <2>2 DEF Received
<1>3. CASE InitBuffers
  <2>1. Contents(fifo_init) = <<>>
    BY InitFifo
  <2>2. Contents(rx)' = <<>>
    BY <1>3, <2>1 DEF InitBuffers, Contents
  <2>3. Received' = Received /\ arrived' = arrived /\ lost' = lost
    BY <1>2, <1>3, <2>2 DEF InitBuffers, Received, line, device
  <2> QED  BY <2>3, ReceiveStutter
<1>4. CASE ResetFifos
  <2>1. lost' = lost \cup Elements(rxHw) /\ arrived' = arrived /\ rxHw' = <<>> /\ got' = <<>>
    BY <1>1, <1>4 DEF ResetFifos, Elements
  <2>2. Contents(rx)' = <<>>
    BY <1>2, <1>4 DEF ResetFifos, fifos, Contents
  <2>3. Received' = <<>>
    <3>1. <<>> \in Seq(Nat) /\ <<>> \o <<>> = <<>>
      BY ConcatEmptySeq
    <3> QED  BY <2>1, <2>2, <3>1 DEF Received
  <2>4. lost' = 1 .. arrived
    BY <1>2, <2>1, ReceivedElements
  <2>5. Increasing(Received)' /\ Elements(Received)' = {}
    BY <2>3 DEF Increasing, Elements
  <2> QED  BY <2>1, <2>4, <2>5, ReceiveGoal
<1> QED  BY <1>3, <1>4

\* bm_uart_receive_byte() returns the first byte that waits.
LEMMA ReceiveGet ==
  ASSUME IInv, GetRbr \/ PopByte
  PROVE  ReceiveInOrder' /\ lost' \subseteq 1 .. arrived'
<1> DEFINE C == Contents(rx)
<1>1. got \in Seq(Nat) /\ C \in Seq(Nat) /\ rxHw \in Seq(Nat)
  BY ReceiveTypes DEF IInv
<1>2. arrived' = arrived /\ lost' = lost
  BY DEF GetRbr, PopByte, line
<1>3. rx \in Fifo(0 .. MaxRx)
  BY DEF IInv, TypeOK
<1>4. CASE GetRbr
  <2>1. rxHw # <<>> /\ fifo_empty(rx)
    BY <1>4 DEF GetRbr, Step, IInv, StillTrue, Exclusion, Polling
  <2>2. C = <<>> /\ C' = <<>>
    BY <1>3, <1>4, <2>1, ContentsEmpty DEF GetRbr, fifos, Contents
  <2>3. got' = Append(got, Head(rxHw)) /\ rxHw' = Tail(rxHw)
    BY <1>4 DEF GetRbr, ReadRbr
  <2>4. Head(rxHw) \in Nat
    BY <1>1, <2>1, HeadTailProperties
  <2> HIDE DEF C
  <2>5. got' = got \o <<Head(rxHw)>> /\ got' \in Seq(Nat)
    BY <1>1, <2>3, <2>4, AppendIsConcat, AppendProperties
  <2>6. got \o rxHw = got' \o Tail(rxHw)
    BY <1>1, <2>1, <2>5, MoveHead
  <2>7. got \o <<>> = got /\ got' \o <<>> = got'
    BY <1>1, <2>5, ConcatEmptySeq
  <2>8. Received' = Received
    BY <2>2, <2>3, <2>6, <2>7 DEF Received, C
  <2> QED  BY <1>2, <2>8, ReceiveStutter
<1>5. CASE PopByte
  <2>1. ~ fifo_empty(rx)
    BY <1>5 DEF PopByte, Step, IInv, StillTrue
  <2>2. rx' = fifo_pop(rx) /\ got' = Append(got, fifo_front(rx)) /\ rxHw' = rxHw
    BY <1>5 DEF PopByte, device
  <2>3. C # <<>> /\ fifo_front(rx) = Head(C) /\ Contents(fifo_pop(rx)) = Tail(C)
    BY <1>3, <2>1, ContentsPop
  <2>4. C' = Tail(C)
    BY <2>2, <2>3 DEF Contents
  <2> HIDE DEF C
  <2>5. Head(C) \in Nat
    BY <1>1, <2>3, HeadTailProperties
  <2>6. got' = got \o <<Head(C)>>
    BY <1>1, <2>2, <2>3, <2>5, AppendIsConcat
  <2>7. got \o C = got' \o C'
    BY <1>1, <2>3, <2>4, <2>6, MoveHead
  <2>8. Received' = Received
    BY <2>2, <2>7 DEF Received, C
  <2> QED  BY <1>2, <2>8, ReceiveStutter
<1> QED  BY <1>4, <1>5

\* The handler moves a byte from the device to the driver's FIFO, or drops it.
LEMMA ReceiveClean ==
  ASSUME IInv, CleanRxFifo
  PROVE  ReceiveInOrder' /\ lost' \subseteq 1 .. arrived'
<1> DEFINE C == Contents(rx)
<1>1. got \in Seq(Nat) /\ C \in Seq(Nat) /\ rxHw \in Seq(Nat) /\ got \o C \in Seq(Nat)
  BY ReceiveTypes DEF IInv
<1>2. arrived' = arrived /\ got' = got
  BY DEF CleanRxFifo, IsrStep
<1>3. CASE ~ DR
  <2>1. rx' = rx /\ rxHw' = rxHw /\ lost' = lost
    BY <1>3 DEF CleanRxFifo
  <2> QED  BY <1>2, <2>1, ReceiveStutter DEF Received, Contents
<1>4. CASE DR
  <2>1. rxHw # <<>> /\ rxHw' = Tail(rxHw) /\ rx' = fifo_push(rx, Head(rxHw))
        /\ lost' = IF fifo_full(rx) THEN lost \cup {Head(rxHw)} ELSE lost
    BY <1>4 DEF CleanRxFifo, ReadRbr, DR
  <2>2. rx \in Fifo(0 .. MaxRx)
    BY DEF IInv, TypeOK
  <2>3. Head(rxHw) \in 0 .. MaxRx /\ Head(rxHw) \in Nat
    <3>1. rxHw \in Seq(1 .. MaxRx)
      BY DEF IInv, TypeOK
    <3>2. Head(rxHw) \in 1 .. MaxRx
      BY <2>1, <3>1, HeadTailProperties
    <3> QED  BY <3>2, BoundAssumption
  <2>4. CASE ~ fifo_full(rx)
    <3>1. C' = Append(C, Head(rxHw))
      <4>1. Contents(fifo_push(rx, Head(rxHw))) = Append(C, Head(rxHw))
        BY <2>2, <2>3, <2>4, ContentsPush
      <4> QED  BY <2>1, <4>1 DEF Contents
    <3> HIDE DEF C
    <3>2. (got \o C) \o rxHw = ((got \o C) \o <<Head(rxHw)>>) \o Tail(rxHw)
      BY <1>1, <2>1, MoveHead
    <3>3. (got \o C) \o <<Head(rxHw)>> = got \o C'
      <4>1. (got \o C) \o <<Head(rxHw)>> = got \o Append(C, Head(rxHw))
        <5> DEFINE B == 0 .. MaxRx
        <5>1. got \in Seq(B) /\ C \in Seq(B) /\ Head(rxHw) \in B
          <6>1. got \in Seq(1 .. MaxRx) /\ 1 .. MaxRx \subseteq B
            BY DEF IInv, TypeOK
          <6> QED  BY <2>2, <2>3, <6>1, ContentsType, SeqMonotonic DEF C
        <5> HIDE DEF B
        <5> QED  BY <5>1, MoveLast
      <4> QED  BY <3>1, <4>1
    <3>4. Received' = Received
      BY <1>2, <2>1, <3>2, <3>3 DEF Received, C
    <3> QED  BY <1>2, <2>1, <2>4, <3>4, ReceiveStutter
  <2>5. CASE fifo_full(rx)
    <3>1. rx' = rx
      BY <2>1, <2>5 DEF fifo_push
    <3>2. Received' = (got \o C) \o Tail(rxHw) /\ Received = (got \o C) \o rxHw
      BY <1>2, <2>1, <3>1 DEF Received, Contents
    <3>3. lost' = lost \cup {Head(rxHw)}
      BY <2>1, <2>5
    <3> HIDE DEF C
    <3>4. /\ Increasing(Received)
          /\ Elements(Received) = (1 .. arrived) \ lost
          /\ lost \subseteq 1 .. arrived
      BY ReceivedElements
    <3>5. /\ Increasing(Received')
          /\ Elements(Received') = Elements(Received) \ {Head(rxHw)}
      BY <1>1, <2>1, <3>2, <3>4, DropHead
    <3>6. Head(rxHw) \in 1 .. arrived
      <4>1. /\ Len(Received) = Len(got \o C) + Len(rxHw)
            /\ \A i \in 1 .. Len(got \o C) + Len(rxHw) : Received[i]
                  = (IF i <= Len(got \o C) THEN (got \o C)[i] ELSE rxHw[i - Len(got \o C)])
        BY <1>1, <3>2, ConcatProperties
      <4>2. Len(got \o C) \in Nat /\ Len(rxHw) \in Nat /\ Len(rxHw) >= 1 /\ Head(rxHw) = rxHw[1]
        BY <1>1, <2>1, LenProperties, EmptySeq
      <4>3. /\ Len(got \o C) + 1 \in 1 .. Len(got \o C) + Len(rxHw)
            /\ ~ (Len(got \o C) + 1 <= Len(got \o C))
            /\ (Len(got \o C) + 1) - Len(got \o C) = 1
        BY <4>2
      <4>4. Received[Len(got \o C) + 1] = Head(rxHw)
        BY <4>1, <4>2, <4>3
      <4>5. Head(rxHw) \in Elements(Received)
        BY <4>1, <4>3, <4>4 DEF Elements
      <4> QED  BY <3>4, <4>5
    <3>7. Elements(Received') = (1 .. arrived) \ lost'
      BY <3>3, <3>4, <3>5
    <3>8. Increasing(Received)' /\ Elements(Received)' = ((1 .. arrived) \ lost)'
      BY <1>2, <3>5, <3>7 DEF Increasing, Elements
    <3> QED  BY <1>2, <3>3, <3>4, <3>6, <3>8, ReceiveGoal
  <2> QED  BY <2>4, <2>5
<1> QED  BY <1>3, <1>4

\* Every step keeps the bytes received in order, and loses none silently.
LEMMA ReceiveStep ==
  ASSUME IInv, [Next]_vars
  PROVE  ReceiveInOrder' /\ lost' \subseteq 1 .. arrived'
<1>1. ASSUME <<rx, rxHw, got, arrived, lost>>' = <<rx, rxHw, got, arrived, lost>>
      PROVE  ReceiveInOrder' /\ lost' \subseteq 1 .. arrived'
  BY <1>1, ReceiveStutter DEF Received, Contents
<1>2. CASE Device
  <2>1. CASE ShiftIn \/ ShiftOut \/ RaiseRx
    BY <1>1, <2>1 DEF ShiftIn, ShiftOut, RaiseRx, fifos, line, software
  <2> QED  BY <1>2, <2>1, ReceiveArrive DEF Device
<1>3. CASE Latch
  BY <1>1, <1>3 DEF Latch, fifos, device, line, software
<1>4. CASE Call
  BY <1>1, <1>4 DEF Call, CallTransmit, CallReceive, CallFlush, MainStep, fifos, device, line
<1>5. ASSUME NEW c \in {"main", "isr"}, NEW after, Fill(c, after)
      PROVE  ReceiveInOrder' /\ lost' \subseteq 1 .. arrived'
  BY <1>1, <1>5 DEF Fill, FillTest, FillPop, FillThr, fifos, device, line
<1>6. CASE InCall
  <2>1. CASE InitIer \/ PutThr \/ PushByte
    BY <1>1, <2>1 DEF InitIer, PutThr, PushByte, fifos, device, line
  <2>2. CASE InitEnable \/ WaitToTransmit \/ Disable \/ Enable
    BY <1>1, <2>2 DEF InitEnable, WaitToTransmit, Disable, Enable, MainStep, fifos, device, line
  <2>3. CASE TestReceive \/ FlushFifo \/ FlushDevice
    BY <1>1, <2>3 DEF TestReceive, FlushFifo, FlushDevice, MainStep, fifos, device, line
  <2> QED  BY <1>5, <1>6, <2>1, <2>2, <2>3, ReceiveInit, ReceiveGet DEF InCall
<1>7. CASE Isr
  <2>1. CASE TakeTrap \/ IsrClaim \/ IsrReadIir \/ IsrComplete
    BY <1>1, <2>1 DEF TakeTrap, IsrClaim, IsrReadIir, IsrComplete, IsrStep, fifos, device, line
  <2> QED  BY <1>5, <1>7, <2>1, ReceiveClean DEF Isr
<1>8. CASE UNCHANGED vars
  BY <1>1, <1>8 DEF vars, fifos, device, line, software
<1> QED  BY <1>2, <1>3, <1>4, <1>6, <1>7, <1>8 DEF Next
-----------------------------------------------------------------------------
(* where the program and the handler are *)

\* A FIFO that is not full still is not when a byte leaves it; one to which a
\* byte has been given is not empty.
LEMMA FullAndEmpty ==
  ASSUME NEW B, NEW f \in Fifo(B), NEW b
  PROVE  /\ ~ fifo_full(f) /\ ~ fifo_empty(f) => ~ fifo_full(fifo_pop(f))
         /\ ~ fifo_empty(fifo_push(f, b))
<1>1. f.start \in 0 .. Size - 1 /\ f.pos \in 0 .. Size - 1
  BY FifoParts
<1>2. ASSUME ~ fifo_empty(f)
      PROVE  ~ fifo_full(fifo_pop(f))
  <2>1. fifo_pop(f).start = (f.start + 1) % Size /\ fifo_pop(f).pos = f.pos
    BY DEF fifo_pop, Fifo
  <2>2. f.start # f.pos
    BY <1>2 DEF fifo_empty
  <2>3. (f.start + 1) % Size = (IF f.start + 1 = Size THEN 0 ELSE f.start + 1)
    BY <1>1, NextPlace
  <2>4. (f.pos + 1) % Size = (IF f.pos + 1 = Size THEN 0 ELSE f.pos + 1)
    BY <1>1, NextPlace
  <2>5. (f.start + 1) % Size # (f.pos + 1) % Size
    BY <1>1, <2>2, <2>3, <2>4, SizeAssumption
  <2> QED  BY <2>1, <2>5 DEF fifo_full
<1>3. ~ fifo_empty(fifo_push(f, b))
  <2>1. CASE fifo_full(f)
    <3>1. (f.pos + 1) % Size = (IF f.pos + 1 = Size THEN 0 ELSE f.pos + 1)
      BY <1>1, NextPlace
    <3>2. (f.pos + 1) % Size # f.pos
      BY <1>1, <3>1, SizeAssumption
    <3> QED  BY <2>1, <3>2 DEF fifo_push, fifo_empty, fifo_full
  <2>2. CASE ~ fifo_full(f)
    <3>1. fifo_push(f, b) = [start |-> f.start, pos |-> (f.pos + 1) % Size,
                             buffer |-> [f.buffer EXCEPT ![f.pos] = b]]
      BY <2>2 DEF fifo_push, Fifo
    <3> QED  BY <2>2, <3>1 DEF fifo_empty, fifo_full
  <2> QED  BY <2>1, <2>2
<1> QED  BY <1>2, <1>3

\* Every step leaves the program and the handler where they may be together.
LEMMA ExclusionStep ==
  ASSUME IInv, [Next]_vars
  PROVE  PcOK' /\ Exclusion'
<1> USE DEF Starting, Open, WithIrq, Polling, MainPlaces, IsrPlaces
<1>1. PcOK /\ Exclusion /\ use_irq \in BOOLEAN /\ irqOn \in BOOLEAN
  BY DEF IInv, TypeOK
<1>2. ASSUME <<use_irq, pc, irqOn, tx, rx>>' = <<use_irq, pc, irqOn, tx, rx>>
      PROVE  PcOK' /\ Exclusion'
  BY <1>1, <1>2 DEF PcOK, Exclusion, fifo_empty
<1>3. CASE Device \/ Latch
  BY <1>2, <1>3 DEF Device, ShiftIn, ShiftOut, Arrive, RaiseRx, Latch, fifos, controller, software
<1>4. CASE Call
  BY <1>1, <1>4 DEF Call, CallTransmit, CallReceive, CallFlush, MainStep, Step,
                    fifos, controller, PcOK, Exclusion, fifo_empty
<1>5. CASE InCall
  <2>1. CASE InitBuffers
    BY <1>1, <2>1, InitFifo DEF InitBuffers, Step, controller, PcOK, Exclusion
  <2>2. CASE ResetFifos \/ InitIer \/ PutThr \/ GetRbr
    BY <1>1, <2>2 DEF ResetFifos, InitIer, PutThr, GetRbr, Step, fifos, controller,
                      PcOK, Exclusion, fifo_empty
  <2>3. CASE InitEnable \/ Disable \/ Enable
    BY <1>1, <2>3 DEF InitEnable, Disable, Enable, MainStep, Step, fifos, PcOK, Exclusion, fifo_empty
  <2>4. CASE WaitToTransmit \/ TestReceive
    BY <1>1, <2>4 DEF WaitToTransmit, TestReceive, MainStep, Step, fifos, controller,
                      PcOK, Exclusion, fifo_empty
  <2>5. CASE FlushFifo \/ FlushDevice
    BY <1>1, <2>5 DEF FlushFifo, FlushDevice, MainStep, Step, fifos, controller,
                      PcOK, Exclusion, fifo_empty
  <2>6. CASE PushByte \/ PopByte
    BY <1>1, <2>6 DEF PushByte, PopByte, Step, controller, PcOK, Exclusion
  <2>7. CASE Fill("main", AfterFill)
    BY <1>1, <2>7 DEF Fill, FillTest, FillPop, FillThr, AfterFill, Step, fifos, controller,
                      PcOK, Exclusion
  <2> QED  BY <1>5, <2>1, <2>2, <2>3, <2>4, <2>5, <2>6, <2>7 DEF InCall
<1>6. CASE Isr
  <2>1. irqOn' = irqOn /\ (irqOn => use_irq)
    BY <1>1, <1>6 DEF Isr, TakeTrap, IsrClaim, IsrReadIir, CleanRxFifo, IsrComplete,
                      Fill, FillTest, FillPop, FillThr, Claim, Complete, controller, Exclusion
  <2>2. CASE TakeTrap \/ IsrClaim \/ IsrReadIir \/ CleanRxFifo \/ IsrComplete
    BY <1>1, <2>1, <2>2 DEF TakeTrap, IsrClaim, IsrReadIir, CleanRxFifo, IsrComplete, IsrStep, Step,
                      Claimable, PcOK, Exclusion
  <2>3. CASE Fill("isr", "complete")
    BY <1>1, <2>1, <2>3 DEF Fill, FillTest, FillPop, FillThr, Step, PcOK, Exclusion
  <2> QED  BY <1>6, <2>2, <2>3 DEF Isr
<1>7. CASE UNCHANGED vars
  BY <1>2, <1>7 DEF vars, fifos, controller, software
<1> QED  BY <1>3, <1>4, <1>5, <1>6, <1>7 DEF Next

\* Who uses the device's transmit FIFO keeps the other out.
LEMMA OneFills ==
  ASSUME IInv, NEW c \in {"main", "isr"}, NEW d \in {"main", "isr"}, d # c,
         pc[c] \in {"fill_test", "fill", "fill_thr", "thr"}, c = "main" => pc["isr"] = "none"
  PROVE  pc[d] \notin {"fill", "fill_thr"}
BY DEF IInv, PcOK, Exclusion, Open, IsrPlaces

\* Every step keeps room in the device for the bytes still to be moved to it.
LEMMA HoldingStep ==
  ASSUME IInv, [Next]_vars
  PROVE  Holding'
<1>1. /\ pc \in [{"main", "isr"} -> MainPlaces \cup IsrPlaces]
      /\ left \in [{"main", "isr"} -> 0 .. HwSize]
      /\ hold \in [{"main", "isr"} -> {<<>>} \cup {<<b>> : b \in 1 .. MaxTx}]
      /\ HwSize \in Nat
  BY SizeAssumption DEF IInv, TypeOK, PcOK
<1>2. /\ \A c \in {"main", "isr"} : Len(hold[c]) \in 0 .. 1 /\ left[c] \in 0 .. HwSize
      /\ txHw \in Seq(Nat) /\ Len(txHw) \in Nat
  <2>1. ASSUME NEW c \in {"main", "isr"} PROVE Len(hold[c]) \in 0 .. 1 /\ left[c] \in 0 .. HwSize
    BY <1>1
  <2> QED  BY <2>1, WayTypes, LenProperties DEF IInv
<1>3. Holding
  BY DEF IInv
<1>4. ASSUME hold' = hold, left' = left, Len(txHw') \in Nat, Len(txHw') <= Len(txHw),
             \A c \in {"main", "isr"} :
                pc'[c] = pc[c] \/ {pc[c], pc'[c]} \cap {"fill", "fill_thr"} = {}
      PROVE  Holding'
  <2>1. ASSUME NEW c \in {"main", "isr"}
        PROVE  /\ hold'[c] # <<>> <=> pc'[c] = "fill_thr"
               /\ pc'[c] \in {"fill", "fill_thr"} => Len(txHw') + Len(hold'[c]) + left'[c] <= HwSize
    <3>1. hold'[c] = hold[c] /\ left'[c] = left[c]
      BY <1>4
    <3>2. CASE pc'[c] = pc[c]
      BY <1>2, <1>3, <1>4, <3>1, <3>2, <1>1 DEF Holding
    <3>3. CASE {pc[c], pc'[c]} \cap {"fill", "fill_thr"} = {}
      BY <1>3, <3>1, <3>3 DEF Holding
    <3> QED  BY <1>4, <3>2, <3>3
  <2> QED  BY <2>1 DEF Holding
<1>5. CASE Device
  <2>1. CASE ShiftIn
    <3>1. txHw # <<>> /\ txHw' = Tail(txHw)
      BY <2>1 DEF ShiftIn
    <3>2. Len(txHw') = Len(txHw) - 1 /\ Len(txHw') \in Nat
      BY <1>2, <3>1, HeadTailProperties, LenProperties
    <3> QED  BY <1>2, <1>4, <2>1, <3>2 DEF ShiftIn, software
  <2> QED  BY <1>2, <1>4, <1>5, <2>1 DEF Device, ShiftOut, Arrive, RaiseRx, software
<1>6. CASE Latch
  BY <1>2, <1>4, <1>6 DEF Latch, device, software
<1>7. CASE Call
  BY <1>1, <1>2, <1>4, <1>7 DEF Call, CallTransmit, CallReceive, CallFlush, MainStep, Step, device
<1>8. ASSUME NEW c \in {"main", "isr"}, NEW after \in {"enable", "flush", "complete"}, Fill(c, after)
      PROVE  Holding'
  <2>0. c = "main" => pc["isr"] = "none"
    BY <1>8 DEF Fill, FillTest, FillPop, FillThr, Step
  <2>1. \A d \in {"main", "isr"} : d # c => pc[d] \notin {"fill", "fill_thr"}
    BY <1>8, <2>0, OneFills DEF Fill, FillTest, FillPop, FillThr, Step
  <2>2. \A d \in {"main", "isr"} : d # c => hold'[d] = hold[d] /\ pc'[d] = pc[d]
    BY <1>1, <1>8 DEF Fill, FillTest, FillPop, FillThr, Step
  <2>3. ASSUME hold'[c] # <<>> <=> pc'[c] = "fill_thr",
               pc'[c] \in {"fill", "fill_thr"} => Len(txHw') + Len(hold'[c]) + left'[c] <= HwSize
        PROVE  Holding'
    BY <1>3, <2>1, <2>2, <2>3 DEF Holding
  <2>4. CASE FillTest(c, after)
    <3>1. pc[c] = "fill_test" /\ pc'[c] = IF THRE THEN "fill" ELSE after
      BY <1>1, <2>4 DEF FillTest, Step
    <3>2. hold'[c] = <<>> /\ txHw' = txHw /\ left'[c] = HwSize
      BY <1>1, <1>3, <2>4, <3>1 DEF FillTest, device, Holding
    <3>3. pc'[c] = "fill" => Len(txHw') = 0
      BY <1>8, <3>1, <3>2 DEF THRE
    <3> QED  BY <1>1, <1>8, <2>3, <3>1, <3>2, <3>3
  <2>5. CASE FillPop(c, after)
    <3>1. pc[c] = "fill" /\ hold[c] = <<>> /\ txHw' = txHw
      BY <1>3, <2>5 DEF FillPop, Step, device, Holding
    <3>2. Len(txHw) + left[c] <= HwSize
      BY <1>2, <1>3, <3>1 DEF Holding
    <3>3. CASE left[c] > 0 /\ ~ fifo_empty(tx)
      <4>1. pc'[c] = "fill_thr" /\ hold'[c] = <<fifo_front(tx)>> /\ left'[c] = left[c] - 1
        BY <1>1, <2>5, <3>3 DEF FillPop, Step
      <4>2. hold'[c] # <<>> /\ Len(hold'[c]) = 1
        BY <4>1
      <4>3. Len(txHw') + Len(hold'[c]) + left'[c] <= HwSize
        BY <1>1, <1>2, <3>1, <3>2, <3>3, <4>1, <4>2
      <4> QED  BY <2>3, <4>1, <4>2, <4>3
    <3>4. CASE ~ (left[c] > 0 /\ ~ fifo_empty(tx))
      <4>1. pc'[c] = after /\ hold'[c] = <<>>
        BY <1>1, <2>5, <3>1, <3>4 DEF FillPop, Step
      <4> QED  BY <1>8, <2>3, <4>1
    <3> QED  BY <3>3, <3>4
  <2>6. CASE FillThr(c)
    <3>1. pc[c] = "fill_thr" /\ pc'[c] = "fill" /\ hold'[c] = <<>> /\ left'[c] = left[c]
      BY <1>1, <2>6 DEF FillThr, Step
    <3>2. Len(hold[c]) = 1 /\ Len(txHw) + 1 + left[c] <= HwSize
      <4>1. hold[c] # <<>>
        BY <1>3, <3>1 DEF Holding
      <4>2. Len(hold[c]) = 1
        BY <1>1, <4>1
      <4> QED  BY <1>3, <3>1, <4>2 DEF Holding
    <3>3. PICK b \in 1 .. MaxTx : hold[c] = <<b>>
      BY <1>1, <1>3, <3>1 DEF Holding
    <3>4. Len(txHw') = Len(txHw) + 1
      <4>1. txHw' = IF Len(txHw) < HwSize THEN Append(txHw, b) ELSE txHw
        BY <2>6, <3>3 DEF FillThr, WriteThr
      <4>2. Len(txHw) < HwSize
        BY <1>1, <1>2, <3>2
      <4> QED  BY <1>2, <4>1, <4>2, BoundAssumption, AppendProperties
    <3>5. Len(hold'[c]) = 0
      BY <3>1
    <3> QED  BY <1>2, <2>3, <3>1, <3>2, <3>4, <3>5
  <2> QED  BY <1>8, <2>4, <2>5, <2>6 DEF Fill
<1>9. CASE InCall
  <2>1. CASE InitBuffers \/ InitIer \/ PushByte \/ GetRbr \/ PopByte
    BY <1>1, <1>2, <1>4, <2>1 DEF InitBuffers, InitIer, PushByte, GetRbr, PopByte, ReadRbr, Step, device
  <2>2. CASE ResetFifos
    BY <1>1, <1>2, <1>4, <2>2 DEF ResetFifos, Step
  <2>3. CASE InitEnable \/ WaitToTransmit \/ Disable \/ Enable
    BY <1>1, <1>2, <1>4, <2>3 DEF InitEnable, WaitToTransmit, Disable, Enable, MainStep, Step, device
  <2>4. CASE TestReceive \/ FlushFifo \/ FlushDevice
    BY <1>1, <1>2, <1>4, <2>4 DEF TestReceive, FlushFifo, FlushDevice, MainStep, Step, device
  <2>5. CASE PutThr
    <3>1. \A d \in {"main", "isr"} : pc[d] \notin {"fill", "fill_thr"} /\ pc'[d] \notin {"fill", "fill_thr"}
      BY <1>1, <2>5 DEF PutThr, Step
    <3> QED  BY <1>3, <2>5, <3>1 DEF PutThr, Holding
  <2>6. CASE Fill("main", AfterFill)
    <3>1. AfterFill \in {"enable", "flush", "complete"}
      BY DEF AfterFill
    <3> QED  BY <1>8, <2>6, <3>1
  <2> QED  BY <1>9, <2>1, <2>2, <2>3, <2>4, <2>5, <2>6 DEF InCall
<1>10. CASE Isr
  <2>1. CASE TakeTrap \/ IsrClaim \/ IsrReadIir \/ CleanRxFifo \/ IsrComplete
    BY <1>1, <1>2, <1>4, <2>1 DEF TakeTrap, IsrClaim, IsrReadIir, CleanRxFifo, IsrComplete, IsrStep,
                                  Step, device
  <2> QED  BY <1>8, <1>10, <2>1 DEF Isr
<1>11. CASE UNCHANGED vars
  BY <1>2, <1>4, <1>11 DEF vars, device, software
<1> QED  BY <1>5, <1>6, <1>7, <1>9, <1>10, <1>11 DEF Next

\* What the program has found out is still true after every step of the others.
LEMMA StillTrueStep ==
  ASSUME IInv, [Next]_vars
  PROVE  StillTrue'
<1> USE DEF Starting, Open, WithIrq, Polling, MainPlaces, IsrPlaces
<1>1. /\ PcOK /\ Exclusion /\ Holding /\ StillTrue
      /\ tx \in Fifo(0 .. MaxTx) /\ rx \in Fifo(0 .. MaxRx)
      /\ byte \in 0 .. MaxTx /\ MaxTx \in Nat
  BY BoundAssumption DEF IInv, TypeOK
<1>2. ASSUME <<pc, byte, got, tx, rx, txHw, rxHw, shift, hold>>'
               = <<pc, byte, got, tx, rx, txHw, rxHw, shift, hold>>
      PROVE  StillTrue'
  BY <1>1, <1>2 DEF StillTrue, fifo_empty, fifo_full
<1>3. CASE Device
  <2>1. pc' = pc /\ byte' = byte /\ got' = got /\ tx' = tx /\ rx' = rx /\ hold' = hold
    BY <1>3 DEF Device, ShiftIn, ShiftOut, Arrive, RaiseRx, fifos, software
  <2>2. rxHw # <<>> => rxHw' # <<>>
    BY <1>3 DEF Device, ShiftIn, ShiftOut, Arrive, RaiseRx
  <2>3. txHw = <<>> => txHw' = <<>> /\ (shift = 0 => shift' = 0)
    BY <1>3 DEF Device, ShiftIn, ShiftOut, Arrive, RaiseRx
  <2> QED  BY <1>1, <2>1, <2>2, <2>3 DEF StillTrue, fifo_empty, fifo_full
<1>4. CASE Latch
  BY <1>2, <1>4 DEF Latch, fifos, device, software
<1>5. CASE Call
  BY <1>1, <1>5 DEF Call, CallTransmit, CallReceive, CallFlush, MainStep, Step, PcOK, StillTrue,
                    fifos, device
<1>6. CASE InCall
  <2>1. CASE InitBuffers
    BY <1>1, <2>1, InitFifo DEF InitBuffers, Step, PcOK, StillTrue, device
  <2>2. CASE ResetFifos \/ InitIer \/ InitEnable
    BY <1>1, <2>2 DEF ResetFifos, InitIer, InitEnable, MainStep, Step, PcOK, StillTrue,
                      fifos, fifo_empty
  <2>3. CASE WaitToTransmit
    BY <1>1, <2>3 DEF WaitToTransmit, MainStep, Step, PcOK, StillTrue, fifos, device,
                      fifo_full, THRE
  <2>4. CASE Disable
    BY <1>1, <2>4 DEF Disable, MainStep, Step, PcOK, StillTrue, fifos, device,
                      fifo_empty, fifo_full
  <2>5. CASE PutThr \/ PushByte \/ Enable \/ GetRbr \/ PopByte
    BY <1>1, <2>5 DEF PutThr, PushByte, Enable, GetRbr, PopByte, MainStep, Step, PcOK, StillTrue
  <2>6. CASE TestReceive
    BY <1>1, <2>6 DEF TestReceive, MainStep, Step, PcOK, StillTrue, fifos, device,
                      fifo_empty, DR
  <2>7. CASE FlushFifo
    <3>1. ASSUME pc'["main"] = "flush_temt" PROVE byte' = MaxTx /\ fifo_empty(tx') /\ hold'["isr"] = <<>>
      <4>1. pc["isr"] = "none" /\ fifo_empty(tx)
        BY <1>1, <2>7, <3>1 DEF FlushFifo, MainStep, Step, PcOK
      <4>2. byte = MaxTx
        BY <1>1, <2>7 DEF FlushFifo, MainStep, Step, StillTrue
      <4> QED  BY <1>1, <2>7, <4>1, <4>2 DEF FlushFifo, MainStep, Holding, fifos, fifo_empty
    <3> QED  BY <1>1, <2>7, <3>1 DEF FlushFifo, MainStep, Step, PcOK, StillTrue
  <2>8. CASE FlushDevice
    BY <1>1, <2>8 DEF FlushDevice, MainStep, Step, PcOK, StillTrue, fifos, device, fifo_empty, TEMT
  <2>9. CASE Fill("main", AfterFill)
    BY <1>1, <2>9 DEF Fill, FillTest, FillPop, FillThr, AfterFill, Step, PcOK, Exclusion, StillTrue
  <2> QED  BY <1>6, <2>1, <2>2, <2>3, <2>4, <2>5, <2>6, <2>7, <2>8, <2>9 DEF InCall
<1>7. CASE Isr
  <2>1. pc'["main"] = pc["main"] /\ byte' = byte /\ got' = got /\ shift' = shift
    BY <1>1, <1>7 DEF Isr, TakeTrap, IsrClaim, IsrReadIir, CleanRxFifo, IsrComplete, IsrStep,
                      Fill, FillTest, FillPop, FillThr, Step, PcOK, device
  <2>2. CASE TakeTrap \/ IsrClaim \/ IsrReadIir \/ IsrComplete \/ FillTest("isr", "complete")
    BY <1>1, <2>1, <2>2 DEF TakeTrap, IsrClaim, IsrReadIir, IsrComplete, FillTest, IsrStep,
                            StillTrue, fifos, device, fifo_empty, fifo_full
  <2>3. pc["isr"] # "none" => pc["main"] \in Open
    BY <1>1 DEF Exclusion
  <2>4. CASE CleanRxFifo
    <3>1. pc["main"] \in Open /\ tx' = tx /\ txHw' = txHw /\ hold' = hold
      BY <1>1, <2>3, <2>4 DEF CleanRxFifo, IsrStep, Step
    <3>2. ~ fifo_empty(rx) => ~ fifo_empty(rx')
      BY <1>1, <2>4, FullAndEmpty DEF CleanRxFifo
    <3> QED  BY <1>1, <2>1, <3>1, <3>2 DEF StillTrue, fifo_empty, fifo_full
  <2>5. CASE FillPop("isr", "complete")
    <3>1. pc["main"] \in Open /\ rx' = rx /\ txHw' = txHw
      BY <1>1, <2>3, <2>5 DEF FillPop, Step, device
    <3>2. CASE fifo_empty(tx)
      BY <1>1, <2>1, <2>5, <3>1, <3>2 DEF FillPop, StillTrue, fifo_empty, fifo_full
    <3>3. CASE ~ fifo_empty(tx)
      <4>1. tx' = tx \/ tx' = fifo_pop(tx)
        BY <2>5 DEF FillPop
      <4>2. ~ fifo_full(tx) => ~ fifo_full(tx')
        BY <1>1, <3>3, <4>1, FullAndEmpty
      <4>3. pc["main"] \notin {"flush_temt", "done"}
        BY <1>1, <3>3 DEF StillTrue
      <4> QED  BY <1>1, <2>1, <3>1, <4>2, <4>3 DEF StillTrue, fifo_empty
    <3> QED  BY <3>2, <3>3
  <2>6. CASE FillThr("isr")
    <3>1. pc["main"] \in Open /\ rx' = rx /\ tx' = tx /\ hold["isr"] # <<>>
      BY <1>1, <2>3, <2>6 DEF FillThr, Step, fifos, Holding
    <3>2. pc["main"] \notin {"flush_temt", "done"}
      BY <1>1, <3>1 DEF StillTrue
    <3> QED  BY <1>1, <2>1, <3>1, <3>2 DEF StillTrue, fifo_empty, fifo_full
  <2> QED  BY <1>7, <2>2, <2>4, <2>5, <2>6 DEF Isr, Fill
<1>8. CASE UNCHANGED vars
  BY <1>2, <1>8 DEF vars, fifos, device, software
<1> QED  BY <1>3, <1>4, <1>5, <1>6, <1>7, <1>8 DEF Next
-----------------------------------------------------------------------------
(* types *)

\* The first byte a FIFO returns is one that was given to it.
LEMMA FrontTypes ==
  ASSUME IInv
  PROVE  /\ ~ fifo_empty(tx) => fifo_front(tx) \in 1 .. MaxTx
         /\ ~ fifo_empty(rx) => fifo_front(rx) \in 1 .. MaxRx
<1>1. tx \in Fifo(0 .. MaxTx) /\ rx \in Fifo(0 .. MaxRx)
  BY DEF IInv, TypeOK
<1>2. ASSUME ~ fifo_empty(tx) PROVE fifo_front(tx) \in 1 .. MaxTx
  <2> DEFINE C == Contents(tx)
  <2>1. C # <<>> /\ fifo_front(tx) = Head(C) /\ C \in Seq(Nat)
    BY <1>1, <1>2, ContentsPop, WayTypes DEF IInv
  <2>2. \A i \in 1 .. Len(C) : C[i] \in 1 .. Taken
    BY WayParts, TakenType DEF IInv
  <2>3. Taken \in 0 .. MaxTx
    <3>1. byte \in 0 .. MaxTx
      BY DEF IInv, TypeOK
    <3>2. Taken \in Nat
      BY TakenType
    <3> QED  BY <3>1, <3>2, BoundAssumption DEF Taken
  <2> HIDE DEF C
  <2>4. Len(C) \in Nat /\ Len(C) >= 1 /\ Head(C) = C[1]
    BY <2>1, EmptySeq
  <2>5. C[1] \in 1 .. Taken
    BY <2>2, <2>4
  <2> QED  BY <2>1, <2>3, <2>4, <2>5, BoundAssumption
<1>3. ASSUME ~ fifo_empty(rx) PROVE fifo_front(rx) \in 1 .. MaxRx
  <2> DEFINE C == Contents(rx)
             P == got \o C
  <2>1. C # <<>> /\ fifo_front(rx) = Head(C) /\ C \in Seq(Nat)
        /\ got \in Seq(Nat) /\ rxHw \in Seq(Nat) /\ P \in Seq(Nat)
    BY <1>1, <1>3, ContentsPop, ReceiveTypes DEF IInv
  <2>2. Received = P \o rxHw
    BY DEF Received
  <2>3. /\ Len(P) = Len(got) + Len(C)
        /\ \A i \in 1 .. Len(got) + Len(C) : P[i] = (IF i <= Len(got) THEN got[i] ELSE C[i - Len(got)])
    BY <2>1, ConcatProperties
  <2> HIDE DEF C, P
  <2>4. /\ Len(Received) = Len(P) + Len(rxHw)
        /\ \A i \in 1 .. Len(P) + Len(rxHw) :
              Received[i] = (IF i <= Len(P) THEN P[i] ELSE rxHw[i - Len(P)])
    BY <2>1, <2>2, ConcatProperties
  <2>5. Len(C) \in Nat /\ Len(C) >= 1 /\ Head(C) = C[1] /\ Len(got) \in Nat /\ Len(rxHw) \in Nat
    BY <2>1, LenProperties, EmptySeq
  <2>6. /\ Len(got) + 1 \in 1 .. Len(got) + Len(C) /\ ~ (Len(got) + 1 <= Len(got))
        /\ (Len(got) + 1) - Len(got) = 1
        /\ Len(got) + 1 \in 1 .. Len(P) + Len(rxHw) /\ Len(got) + 1 <= Len(P)
    BY <2>3, <2>5
  <2>7. Received[Len(got) + 1] = Head(C)
    BY <2>3, <2>4, <2>5, <2>6
  <2>8. Head(C) \in Elements(Received)
    BY <2>4, <2>6, <2>7 DEF Elements
  <2>9. Head(C) \in 1 .. arrived /\ arrived \in 0 .. MaxRx
    BY <2>8, ReceivedElements DEF IInv, TypeOK
  <2> QED  BY <2>1, <2>9, BoundAssumption
<1> QED  BY <1>2, <1>3

\* A byte given to a FIFO leaves it one.
LEMMA PushType ==
  ASSUME NEW B, NEW f \in Fifo(B), NEW b \in B
  PROVE  fifo_push(f, b) \in Fifo(B)
<1>1. CASE fifo_full(f)
  BY <1>1 DEF fifo_push
<1> QED  BY <1>1, ContentsPush

\* The device's FIFOs within their depth.
LEMMA DeviceFifo ==
  ASSUME NEW S, NEW s \in Seq(S), Len(s) <= HwSize
  PROVE  /\ \A b \in S : Len(s) < HwSize =>
               Append(s, b) \in Seq(S) /\ Len(Append(s, b)) <= HwSize
         /\ s # <<>> => Head(s) \in S /\ Tail(s) \in Seq(S) /\ Len(Tail(s)) <= HwSize
         /\ <<>> \in Seq(S) /\ Len(<<>>) <= HwSize
<1>1. Len(s) \in Nat /\ HwSize \in Nat
  BY LenProperties, SizeAssumption
<1>2. ASSUME NEW b \in S, Len(s) < HwSize
      PROVE  Append(s, b) \in Seq(S) /\ Len(Append(s, b)) <= HwSize
  BY <1>1, <1>2, AppendProperties
<1>3. ASSUME s # <<>>
      PROVE  Head(s) \in S /\ Tail(s) \in Seq(S) /\ Len(Tail(s)) <= HwSize
  BY <1>1, <1>3, HeadTailProperties
<1>4. <<>> \in Seq(S) /\ Len(<<>>) <= HwSize
  BY <1>1, EmptySeq
<1> QED  BY <1>2, <1>3, <1>4

\* Types of the FIFOs and of the device.
TypeFifos == tx \in Fifo(0 .. MaxTx) /\ rx \in Fifo(0 .. MaxRx)
TypeTransmit == txHw \in Seq(1 .. MaxTx) /\ Len(txHw) <= HwSize
TypeReceive == rxHw \in Seq(1 .. MaxRx) /\ Len(rxHw) <= HwSize
TypeShift == shift \in 0 .. MaxTx /\ sent \in Seq(1 .. MaxTx)
TypeFlags == {use_irq, thri, rxi, ier, irqOn, irqPending, irqActive} \subseteq BOOLEAN
TypeFill ==
    /\ left \in [{"main", "isr"} -> 0 .. HwSize]
    /\ hold \in [{"main", "isr"} -> {<<>>} \cup {<<b>> : b \in 1 .. MaxTx}]
TypeProgram ==
    /\ byte \in 0 .. MaxTx /\ got \in Seq(1 .. MaxRx)
    /\ arrived \in 0 .. MaxRx /\ lost \subseteq 1 .. MaxRx

LEMMA TypeParts ==
  TypeOK <=> /\ TypeFifos /\ TypeTransmit /\ TypeReceive /\ TypeShift
             /\ TypeFlags /\ TypeFill /\ TypeProgram
BY DEF TypeOK, TypeFifos, TypeTransmit, TypeReceive, TypeShift, TypeFlags, TypeFill, TypeProgram

\* Which steps change what.
LEMMA Frame ==
  ASSUME [Next]_vars
  PROVE  /\ \/ <<tx, rx>>' = <<tx, rx>>
            \/ InitBuffers \/ PushByte \/ PopByte \/ CleanRxFifo
            \/ FillPop("main", AfterFill) \/ FillPop("isr", "complete")
         /\ \/ txHw' = txHw
            \/ ShiftIn \/ ResetFifos \/ PutThr \/ FillThr("main") \/ FillThr("isr")
         /\ rxHw' = rxHw \/ Arrive \/ ResetFifos \/ GetRbr \/ CleanRxFifo
         /\ <<shift, sent>>' = <<shift, sent>> \/ ShiftIn \/ ShiftOut
         /\ \/ <<left, hold>>' = <<left, hold>>
            \/ Fill("main", AfterFill) \/ Fill("isr", "complete")
         /\ \/ <<byte, got, arrived, lost>>' = <<byte, got, arrived, lost>>
            \/ CallTransmit \/ GetRbr \/ PopByte \/ Arrive \/ ResetFifos \/ CleanRxFifo
<1>1. CASE Device \/ Latch
  BY <1>1 DEF Device, ShiftIn, ShiftOut, Arrive, RaiseRx, Latch, fifos, device, software, line
<1>2. CASE Call
  BY <1>2 DEF Call, CallTransmit, CallReceive, CallFlush, MainStep, fifos, device, line
<1>3. ASSUME NEW c, NEW after, Fill(c, after)
      PROVE  /\ <<rxHw, shift, sent, byte, got, arrived, lost>>'
                  = <<rxHw, shift, sent, byte, got, arrived, lost>>
             /\ <<tx, rx>>' = <<tx, rx>> \/ FillPop(c, after)
             /\ txHw' = txHw \/ FillThr(c)
  BY <1>3 DEF Fill, FillTest, FillPop, FillThr, fifos, device, line
<1>4. CASE InCall
  <2>1. CASE InitBuffers \/ ResetFifos \/ InitIer \/ PutThr \/ PushByte \/ GetRbr \/ PopByte
    BY <2>1 DEF InitBuffers, ResetFifos, InitIer, PutThr, PushByte, GetRbr, PopByte,
                fifos, device, line
  <2>2. CASE InitEnable \/ WaitToTransmit \/ Disable \/ Enable \/ TestReceive \/ FlushFifo \/ FlushDevice
    BY <2>2 DEF InitEnable, WaitToTransmit, Disable, Enable, TestReceive, FlushFifo, FlushDevice,
                MainStep, fifos, device, line
  <2> QED  BY <1>3, <1>4, <2>1, <2>2 DEF InCall
<1>5. CASE Isr
  <2>1. CASE TakeTrap \/ IsrClaim \/ IsrReadIir \/ CleanRxFifo \/ IsrComplete
    BY <2>1 DEF TakeTrap, IsrClaim, IsrReadIir, CleanRxFifo, IsrComplete, IsrStep,
                fifos, device, line
  <2> QED  BY <1>3, <1>5, <2>1 DEF Isr
<1>6. CASE UNCHANGED vars
  BY <1>6 DEF vars, fifos, device, software, line
<1> QED  BY <1>1, <1>2, <1>4, <1>5, <1>6 DEF Next

\* The flags remain flags.
LEMMA FlagStep ==
  ASSUME TypeFlags, [Next]_vars
  PROVE  TypeFlags'
<1> USE DEF TypeFlags
<1>1. CASE Device \/ Latch
  BY <1>1 DEF Device, ShiftIn, ShiftOut, Arrive, RaiseRx, Latch, device, controller, software
<1>2. CASE Call
  BY <1>2 DEF Call, CallTransmit, CallReceive, CallFlush, MainStep, Step, device, controller
<1>3. ASSUME NEW c, NEW after, Fill(c, after) PROVE TypeFlags'
  BY <1>3 DEF Fill, FillTest, FillPop, FillThr, Step, WriteThr, device, controller
<1>4. CASE InCall
  <2>1. CASE InitBuffers \/ ResetFifos \/ InitIer \/ PutThr \/ PushByte \/ GetRbr \/ PopByte
    BY <2>1 DEF InitBuffers, ResetFifos, InitIer, PutThr, PushByte, GetRbr, PopByte, Step,
                WriteThr, ReadRbr, device, controller
  <2>2. CASE InitEnable \/ WaitToTransmit \/ Disable \/ Enable \/ TestReceive \/ FlushFifo \/ FlushDevice
    BY <2>2 DEF InitEnable, WaitToTransmit, Disable, Enable, TestReceive, FlushFifo, FlushDevice,
                MainStep, Step, device, controller
  <2> QED  BY <1>3, <1>4, <2>1, <2>2 DEF InCall
<1>5. CASE Isr
  <2>1. CASE TakeTrap \/ IsrReadIir \/ CleanRxFifo
    BY <2>1 DEF TakeTrap, IsrReadIir, CleanRxFifo, IsrStep, Step, ReadRbr, device, controller
  <2>2. CASE IsrClaim \/ IsrComplete
    BY <2>2 DEF IsrClaim, IsrComplete, IsrStep, Step, Claim, Complete, Claimable, device
  <2> QED  BY <1>3, <1>5, <2>1, <2>2 DEF Isr
<1>6. CASE UNCHANGED vars
  BY <1>6 DEF vars, device, controller, software
<1> QED  BY <1>1, <1>2, <1>4, <1>5, <1>6 DEF Next

\* Every step leaves everything of its type.
LEMMA TypeStep ==
  ASSUME IInv, [Next]_vars
  PROVE  TypeOK'
<1>1. /\ TypeFifos /\ TypeTransmit /\ TypeReceive /\ TypeShift
      /\ TypeFlags /\ TypeFill /\ TypeProgram
  BY TypeParts DEF IInv
<1>2. MaxTx \in Nat /\ MaxRx \in Nat /\ HwSize \in Nat /\ Len(txHw) \in Nat /\ Len(rxHw) \in Nat
  BY <1>1, BoundAssumption, SizeAssumption, LenProperties DEF TypeTransmit, TypeReceive
<1>3. rxHw # <<>> => Head(rxHw) \in 1 .. MaxRx
  BY <1>1, DeviceFifo DEF TypeReceive
<1>4. CleanRxFifo => \/ <<rx, rxHw, lost>>' = <<rx, rxHw, lost>>
                     \/ /\ rxHw # <<>> /\ rx' = fifo_push(rx, Head(rxHw)) /\ rxHw' = Tail(rxHw)
                        /\ lost' \in {lost, lost \cup {Head(rxHw)}}
  BY DEF CleanRxFifo, ReadRbr, DR
<1>5. TypeFifos'
  <2>1. CASE InitBuffers
    BY <1>2, <2>1, InitFifo DEF InitBuffers, TypeFifos
  <2>2. CASE PushByte
    BY <1>1, <2>2, PushType DEF PushByte, TypeFifos, TypeProgram
  <2>3. CASE PopByte
    <3>1. ~ fifo_empty(rx)
      BY <2>3 DEF PopByte, Step, IInv, StillTrue
    <3> QED  BY <1>1, <2>3, <3>1, ContentsPop DEF PopByte, TypeFifos
  <2>4. CASE CleanRxFifo
    <3>1. tx' = tx
      BY <2>4 DEF CleanRxFifo
    <3>2. rxHw # <<>> => Head(rxHw) \in 0 .. MaxRx
      BY <1>2, <1>3
    <3> QED  BY <1>1, <1>4, <2>4, <3>1, <3>2, PushType DEF TypeFifos
  <2>5. ASSUME NEW c, NEW after, FillPop(c, after) PROVE TypeFifos'
    BY <1>1, <2>5, ContentsPop DEF FillPop, TypeFifos
  <2>6. CASE <<tx, rx>>' = <<tx, rx>>
    BY <1>1, <2>6 DEF TypeFifos
  <2> QED  BY <2>1, <2>2, <2>3, <2>4, <2>5, <2>6, Frame
<1>6. TypeTransmit'
  <2>1. ASSUME NEW b \in 1 .. MaxTx, WriteThr(b) PROVE TypeTransmit'
    BY <1>1, <2>1, DeviceFifo DEF WriteThr, TypeTransmit
  <2>2. CASE ShiftIn \/ ResetFifos
    BY <1>1, <2>2, DeviceFifo DEF ShiftIn, ResetFifos, TypeTransmit
  <2>3. CASE PutThr
    <3>1. byte \in 1 .. MaxTx
      BY <1>1, <2>3 DEF PutThr, Step, IInv, StillTrue, TypeProgram
    <3> QED  BY <2>1, <2>3, <3>1 DEF PutThr
  <2>4. ASSUME NEW c \in {"main", "isr"}, FillThr(c) PROVE TypeTransmit'
    <3>1. PICK b \in 1 .. MaxTx : hold[c] = <<b>>
      BY <1>1, <2>4 DEF IInv, Holding, FillThr, Step, TypeFill
    <3> QED  BY <2>1, <2>4, <3>1 DEF FillThr
  <2>5. CASE txHw' = txHw
    BY <1>1, <2>5 DEF TypeTransmit
  <2> QED  BY <2>2, <2>3, <2>4, <2>5, Frame
<1>7. TypeReceive'
  <2>1. CASE Arrive
    <3>1. arrived + 1 \in 1 .. MaxRx
      BY <1>1, <1>2, <2>1 DEF Arrive, TypeProgram
    <3> QED  BY <1>1, <2>1, <3>1, DeviceFifo DEF Arrive, TypeReceive
  <2>2. CASE ResetFifos
    BY <1>1, <2>2, DeviceFifo DEF ResetFifos, TypeReceive
  <2>3. CASE GetRbr
    <3>1. rxHw # <<>> /\ rxHw' = Tail(rxHw)
      BY <2>3 DEF GetRbr, ReadRbr, Step, IInv, StillTrue
    <3> QED  BY <1>1, <3>1, DeviceFifo DEF TypeReceive
  <2>4. CASE CleanRxFifo
    BY <1>1, <1>4, <2>4, DeviceFifo DEF TypeReceive
  <2>5. CASE rxHw' = rxHw
    BY <1>1, <2>5 DEF TypeReceive
  <2> QED  BY <2>1, <2>2, <2>3, <2>4, <2>5, Frame
<1>8. TypeShift'
  <2>1. CASE ShiftIn
    <3>1. Head(txHw) \in 1 .. MaxTx
      BY <1>1, <2>1, DeviceFifo DEF ShiftIn, TypeTransmit
    <3> QED  BY <1>1, <2>1, <3>1 DEF ShiftIn, line, TypeShift
  <2>2. CASE ShiftOut
    <3>1. shift \in 1 .. MaxTx
      BY <1>1, <1>2, <2>2 DEF ShiftOut, TypeShift
    <3>2. Append(sent, shift) \in Seq(1 .. MaxTx)
      BY <1>1, <3>1, AppendProperties DEF TypeShift
    <3> QED  BY <1>2, <2>2, <3>2 DEF ShiftOut, TypeShift
  <2>3. CASE <<shift, sent>>' = <<shift, sent>>
    BY <1>1, <2>3 DEF TypeShift
  <2> QED  BY <2>1, <2>2, <2>3, Frame
<1>9. TypeFlags'
  BY <1>1, FlagStep
<1>10. TypeFill'
  <2>1. ASSUME NEW c \in {"main", "isr"}, NEW after, Fill(c, after) PROVE TypeFill'
    <3>1. CASE FillTest(c, after) \/ FillThr(c)
      BY <1>1, <1>2, <3>1 DEF FillTest, FillThr, TypeFill
    <3>2. CASE FillPop(c, after)
      <4>1. CASE left[c] > 0 /\ ~ fifo_empty(tx)
        <5>1. fifo_front(tx) \in 1 .. MaxTx
          BY <4>1, FrontTypes
        <5>2. left[c] - 1 \in 0 .. HwSize
          BY <1>1, <1>2, <4>1 DEF TypeFill
        <5> QED  BY <1>1, <3>2, <4>1, <5>1, <5>2 DEF FillPop, TypeFill
      <4>2. CASE ~ (left[c] > 0 /\ ~ fifo_empty(tx))
        BY <1>1, <3>2, <4>2 DEF FillPop, TypeFill
      <4> QED  BY <4>1, <4>2
    <3> QED  BY <2>1, <3>1, <3>2 DEF Fill
  <2>2. CASE <<left, hold>>' = <<left, hold>>
    BY <1>1, <2>2 DEF TypeFill
  <2> QED  BY <2>1, <2>2, Frame
<1>11. TypeProgram'
  <2>1. CASE CallTransmit
    BY <1>1, <1>2, <2>1 DEF CallTransmit, MainStep, line, TypeProgram
  <2>2. CASE GetRbr
    <3>1. rxHw # <<>>
      BY <2>2 DEF GetRbr, Step, IInv, StillTrue
    <3> QED  BY <1>1, <1>3, <2>2, <3>1, AppendProperties DEF GetRbr, line, TypeProgram
  <2>3. CASE PopByte
    <3>1. fifo_front(rx) \in 1 .. MaxRx
      BY <2>3, FrontTypes DEF PopByte, Step, IInv, StillTrue
    <3> QED  BY <1>1, <2>3, <3>1, AppendProperties DEF PopByte, line, TypeProgram
  <2>4. CASE Arrive
    BY <1>1, <1>2, <2>4 DEF Arrive, software, TypeProgram
  <2>5. CASE ResetFifos
    <3>1. \A i \in 1 .. Len(rxHw) : rxHw[i] \in 1 .. MaxRx
      BY <1>1, ElementOfSeq DEF TypeReceive
    <3> QED  BY <1>1, <2>5, <3>1 DEF ResetFifos, TypeProgram
  <2>6. CASE CleanRxFifo
    <3>1. byte' = byte /\ got' = got /\ arrived' = arrived
      BY <2>6 DEF CleanRxFifo, IsrStep
    <3> QED  BY <1>1, <1>3, <1>4, <2>6, <3>1 DEF TypeProgram
  <2>7. CASE <<byte, got, arrived, lost>>' = <<byte, got, arrived, lost>>
    BY <1>1, <2>7 DEF TypeProgram
  <2> QED  BY <2>1, <2>2, <2>3, <2>4, <2>5, <2>6, <2>7, Frame
<1>12. TypeOK' <=> (TypeFifos /\ TypeTransmit /\ TypeReceive /\ TypeShift
                     /\ TypeFlags /\ TypeFill /\ TypeProgram)'
  BY DEF TypeOK, TypeFifos, TypeTransmit, TypeReceive, TypeShift, TypeFlags, TypeFill, TypeProgram
<1> QED  BY <1>5, <1>6, <1>7, <1>8, <1>9, <1>10, <1>11, <1>12
-----------------------------------------------------------------------------
\* The driver, the device and the program start in order.
LEMMA InitIInv == Init => IInv
<1> SUFFICES ASSUME Init PROVE IInv
  OBVIOUS
<1> USE DEF Init
<1>1. MaxTx \in Nat /\ MaxRx \in Nat /\ HwSize \in Nat
  BY BoundAssumption, SizeAssumption
<1>2. /\ tx \in Fifo(0 .. MaxTx) /\ fifo_empty(tx) /\ Contents(tx) = <<>>
      /\ rx \in Fifo(0 .. MaxRx) /\ fifo_empty(rx) /\ Contents(rx) = <<>>
  BY <1>1, InitFifo
<1>3. TypeOK
  <2>1. <<>> \in Seq(1 .. MaxTx) /\ <<>> \in Seq(1 .. MaxRx) /\ Len(<<>>) = 0
    BY EmptySeq
  <2>2. TypeTransmit /\ TypeReceive /\ TypeShift /\ TypeProgram
    BY <1>1, <2>1 DEF TypeTransmit, TypeReceive, TypeShift, TypeProgram
  <2>3. TypeFlags
    BY DEF TypeFlags
  <2>4. TypeFill
    BY <1>1 DEF TypeFill
  <2> QED  BY <1>2, <2>2, <2>3, <2>4, TypeParts DEF TypeFifos
<1>4. PcOK /\ Exclusion
  BY <1>2 DEF PcOK, Exclusion, MainPlaces, IsrPlaces, Starting, Open, WithIrq, Polling
<1>5. Holding /\ StillTrue
  BY <1>2 DEF Holding, StillTrue, Starting
<1>6. <<>> \in Seq(Nat) /\ <<>> \o <<>> = <<>>
  BY ConcatEmptySeq
<1>7. TransmitInOrder
  <2>1. OnItsWay = <<>>
    BY <1>2, <1>6 DEF OnItsWay, Popped, InShift
  <2>2. Taken = 0
    BY DEF Taken
  <2>3. OnItsWay = Upto(Taken)
    BY <2>1, <2>2, UptoType
  <2> QED  BY <2>3 DEF TransmitInOrder, OnItsWay, Popped, InShift, Upto
<1>8. ReceiveInOrder /\ lost \subseteq 1 .. arrived
  <2>1. Received = <<>>
    BY <1>2, <1>6 DEF Received
  <2> QED  BY <2>1 DEF ReceiveInOrder
<1> QED  BY <1>3, <1>4, <1>5, <1>7, <1>8 DEF IInv

\* Every step of the program, the handler and the device preserves the invariant.
LEMMA StepIInv == IInv /\ [Next]_vars => IInv'
BY TypeStep, ExclusionStep, HoldingStep, StillTrueStep, TransmitStep, ReceiveStep DEF IInv

\* When bm_uart_flush() has returned, all bytes are in the line's history.
LEMMA FlushFromIInv == IInv => FlushIsComplete
<1> SUFFICES ASSUME IInv, pc["main"] = "done" PROVE Len(sent) = MaxTx
  BY DEF FlushIsComplete
<1>1. /\ shift = 0 /\ txHw = <<>> /\ fifo_empty(tx) /\ hold["isr"] = <<>> /\ byte = MaxTx
      /\ hold["main"] = <<>>
  BY DEF IInv, StillTrue, Holding
<1>2. Contents(tx) = <<>>
  BY <1>1, ContentsEmpty DEF IInv, TypeOK
<1>3. Taken = MaxTx /\ Taken \in Nat
  BY <1>1, TakenType DEF Taken
<1> QED  BY <1>1, <1>2, <1>3, WayParts DEF IInv

\* The inductive invariant holds in every behaviour of the driver.
LEMMA Invariance == Spec => []IInv
BY InitIInv, StepIInv, PTL DEF Spec

\* The FIFOs' indices stay in their buffers, the device's FIFOs within its depth.
THEOREM UartTypeOK == Spec => []TypeOK
<1>1. IInv => TypeOK
  BY DEF IInv
<1> QED  BY <1>1, Invariance, PTL

\* Every byte passed to bm_uart_transmit_byte() leaves the device, once and in
\* order, however the handler's fill_tx_fifo() interleaves with the program's.
THEOREM TransmitsInOrder == Spec => []TransmitInOrder
<1>1. IInv => TransmitInOrder
  BY DEF IInv
<1> QED  BY <1>1, Invariance, PTL

\* bm_uart_receive_byte() returns what arrives once and in order; what it does
\* not return is still to come, or was lost where there was no room for it.
THEOREM ReceivesInOrder == Spec => []ReceiveInOrder
<1>1. IInv => ReceiveInOrder
  BY DEF IInv
<1> QED  BY <1>1, Invariance, PTL

\* bm_uart_flush() returns only when the last byte has left the shift register.
THEOREM FlushCompletes == Spec => []FlushIsComplete
BY FlushFromIInv, Invariance, PTL
=============================================================================
