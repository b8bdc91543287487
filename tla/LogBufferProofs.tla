-------------------------- MODULE LogBufferProofs --------------------------
(***************************************************************************)
(* Proofs about the build-log buffer, for every limit and every sequence   *)
(* of writes: its parts are the two ends of the log, and String keeps the  *)
(* promise of LogWindow.  Everything rests on the algebra of Bytes.        *)
(***************************************************************************)
EXTENDS LogBuffer, SequenceTheorems, TLAPS

\* Bytes(a, b) is the sequence of the positions after a, up to b.
LEMMA BytesSeq ==
  ASSUME NEW a \in Nat, NEW b \in Nat, a <= b
  PROVE  /\ Bytes(a, b) \in Seq(Nat)
         /\ Len(Bytes(a, b)) = b - a
         /\ \A i \in 1..(b - a) : Bytes(a, b)[i] = a + i
<1>1. b - a \in Nat
  OBVIOUS
<1>2. Bytes(a, b) \in [1..(b - a) -> Nat]
  BY <1>1 DEF Bytes
<1>3. QED
  BY <1>1, <1>2 DEF Bytes

\* Two stretches of the log that meet make one.
LEMMA BytesConcat ==
  ASSUME NEW a \in Nat, NEW b \in Nat, NEW c \in Nat, a <= b, b <= c
  PROVE  Bytes(a, b) \o Bytes(b, c) = Bytes(a, c)
<1> DEFINE s == Bytes(a, b)
           t == Bytes(b, c)
           u == Bytes(a, c)
<1>1. s \in Seq(Nat) /\ Len(s) = b - a /\ \A i \in 1..(b - a) : s[i] = a + i
  BY BytesSeq
<1>2. t \in Seq(Nat) /\ Len(t) = c - b /\ \A i \in 1..(c - b) : t[i] = b + i
  BY BytesSeq
<1>3. a <= c
  OBVIOUS
<1>4. u \in Seq(Nat) /\ Len(u) = c - a /\ \A i \in 1..(c - a) : u[i] = a + i
  BY <1>3, BytesSeq
<1> HIDE DEF s, t, u
<1>5. /\ s \o t \in Seq(Nat)
      /\ Len(s \o t) = Len(s) + Len(t)
      /\ \A i \in 1..(Len(s) + Len(t)) :
           (s \o t)[i] = IF i <= Len(s) THEN s[i] ELSE t[i - Len(s)]
  BY <1>1, <1>2, ConcatProperties
<1>6. Len(s \o t) = Len(u)
  BY <1>1, <1>2, <1>4, <1>5
<1>7. ASSUME NEW i \in 1..Len(s \o t) PROVE (s \o t)[i] = u[i]
  <2>1. i \in 1..(c - a) /\ u[i] = a + i
    BY <1>4, <1>6
  <2>2. (s \o t)[i] = IF i <= b - a THEN s[i] ELSE t[i - (b - a)]
    BY <1>1, <1>5
  <2>3. CASE i <= b - a
    BY <1>1, <2>1, <2>2, <2>3
  <2>4. CASE ~(i <= b - a)
    <3>1. i - (b - a) \in 1..(c - b)
      BY <2>1, <2>4
    <3>2. t[i - (b - a)] = b + (i - (b - a))
      BY <1>2, <3>1
    <3>3. QED
      BY <2>1, <2>2, <2>4, <3>2
  <2>5. QED
    BY <2>3, <2>4
<1>8. s \o t = u
  BY <1>4, <1>5, <1>6, <1>7, SeqEqual
<1>9. QED
  BY <1>8 DEF s, t, u

\* A stretch that ends where it starts is empty, wherever that is.
LEMMA BytesEmpty ==
  ASSUME NEW a \in Nat
  PROVE  Bytes(a, a) = << >>
<1>1. Bytes(a, a) \in Seq(Nat) /\ Len(Bytes(a, a)) = 0
  BY BytesSeq
<1>2. QED
  BY <1>1, EmptySeq

\* A slice of a stretch is a stretch.
LEMMA BytesSlice ==
  ASSUME NEW a \in Nat, NEW b \in Nat, a <= b,
         NEW i \in 1..(b - a + 1), NEW j \in (i - 1)..(b - a)
  PROVE  SubSeq(Bytes(a, b), i, j) = Bytes(a + i - 1, a + j)
<1> DEFINE s == Bytes(a, b)
           u == Bytes(a + i - 1, a + j)
<1>1. s \in Seq(Nat) /\ Len(s) = b - a /\ \A k \in 1..(b - a) : s[k] = a + k
  BY BytesSeq
<1>2. /\ a + i - 1 \in Nat /\ a + j \in Nat /\ a + i - 1 <= a + j
      /\ (a + j) - (a + i - 1) = j - i + 1
  OBVIOUS
<1>3. u \in Seq(Nat) /\ Len(u) = j - i + 1 /\ \A k \in 1..(j - i + 1) : u[k] = a + i - 1 + k
  BY <1>2, BytesSeq
<1> HIDE DEF s, u
<1>4. /\ SubSeq(s, i, j) \in Seq(Nat)
      /\ Len(SubSeq(s, i, j)) = j - i + 1
      /\ \A k \in 1..(j - i + 1) : SubSeq(s, i, j)[k] = s[i + k - 1]
  BY <1>1
<1>5. \A k \in 1..(j - i + 1) : SubSeq(s, i, j)[k] = u[k]
  <2> SUFFICES ASSUME NEW k \in 1..(j - i + 1) PROVE SubSeq(s, i, j)[k] = u[k]
    OBVIOUS
  <2>1. i + k - 1 \in 1..(b - a)
    OBVIOUS
  <2>2. QED
    BY <1>1, <1>3, <1>4, <2>1
<1>6. SubSeq(s, i, j) = u
  BY <1>3, <1>4, <1>5
<1>7. QED
  BY <1>6 DEF s, u

\* A stretch cut at its end, and one cut at its beginning.
LEMMA BytesPrefix ==
  ASSUME NEW a \in Nat, NEW b \in Nat, a <= b, NEW k \in Nat, k <= b - a
  PROVE  SubSeq(Bytes(a, b), 1, k) = Bytes(a, a + k)
<1>1. 1 \in 1..(b - a + 1) /\ k \in (1 - 1)..(b - a) /\ a + 1 - 1 = a
  OBVIOUS
<1>2. QED
  BY <1>1, BytesSlice

\* The last bytes of a piece of the log are a piece of it.
LEMMA BytesSuffix ==
  ASSUME NEW a \in Nat, NEW b \in Nat, a <= b, NEW d \in Nat, d <= b - a
  PROVE  SubSeq(Bytes(a, b), d + 1, b - a) = Bytes(a + d, b)
<1> DEFINE i == d + 1
           j == b - a
<1>1. i \in 1..(b - a + 1) /\ j \in (i - 1)..(b - a) /\ a + i - 1 = a + d /\ a + j = b
  OBVIOUS
<1> HIDE DEF i, j
<1>2. SubSeq(Bytes(a, b), i, j) = Bytes(a + i - 1, a + j)
  BY <1>1, BytesSlice
<1>3. QED
  BY <1>1, <1>2 DEF i, j

\* The split of the limit by newBoundedLogBuffer.
LEMMA Caps ==
  ASSUME limit \in Nat
  PROVE  /\ HeadCap \in Nat
         /\ TailCap \in Nat
         /\ HeadCap + TailCap = limit
         /\ TailCap = 0 => HeadCap = 0
BY DEF HeadCap, TailCap

-----------------------------------------------------------------------------
\* The type of the scalars and the two ends: what every write preserves.
BufferInv ==
  /\ limit \in Limits
  /\ total \in 0..MaxTotal
  /\ KeepsBothEnds

\* Where head ends, for a log of n bytes.
HeadEnd(n) == IF n <= HeadCap THEN n ELSE HeadCap

\* Where tail starts, for a log of n bytes.
StartOf(n) ==
  IF n <= HeadCap THEN n
  ELSE IF n - TailCap <= HeadCap THEN HeadCap ELSE n - TailCap

\* The bytes Write appends to head extend the beginning of the log.
LEMMA HeadStep ==
  ASSUME limit \in Nat, total \in Nat, NEW n \in Nat,
         head = Bytes(0, HeadEnd(total))
  PROVE  /\ Take(n) \in 0..n
         /\ Take(n) > 0 => total < HeadCap
         /\ Take(n) < n => total + Take(n) >= HeadCap
         /\ total < HeadCap => total + Take(n) <= HeadCap
         /\ head \o SubSeq(Bytes(total, total + n), 1, Take(n))
              = Bytes(0, HeadEnd(total + n))
<1> DEFINE h == HeadCap
           k == Take(n)
<1>1. h \in Nat
  BY Caps
<1>2. HeadEnd(total) \in Nat /\ HeadEnd(total) = IF total <= h THEN total ELSE h
  BY <1>1 DEF HeadEnd
<1>3. head \in Seq(Nat) /\ Len(head) = HeadEnd(total)
  <2>1. 0 \in Nat /\ HeadEnd(total) \in Nat /\ 0 <= HeadEnd(total)
    BY <1>2
  <2>2. head \in Seq(Nat) /\ Len(head) = HeadEnd(total) - 0
    BY <2>1, BytesSeq, Zenon
  <2>3. QED
    BY <2>1, <2>2
<1>4. k = IF h - HeadEnd(total) <= 0 THEN 0
          ELSE IF h - HeadEnd(total) < n THEN h - HeadEnd(total) ELSE n
  BY <1>3 DEF Take
<1> HIDE DEF h, k
<1>5. /\ k \in 0..n
      /\ k > 0 => total < h
      /\ k < n => total + k >= h
      /\ total < h => total + k <= h
      /\ k = 0 => HeadEnd(total) = (IF total + n <= h THEN total + n ELSE h)
      /\ k > 0 => (IF total + n <= h THEN total + n ELSE h) = total + k
      /\ k > 0 => HeadEnd(total) = total
  BY <1>1, <1>2, <1>4
<1>6. HeadEnd(total + n) = IF total + n <= h THEN total + n ELSE h
  BY DEF HeadEnd, h
<1>7. SubSeq(Bytes(total, total + n), 1, k) = Bytes(total, total + k)
  <2>1. total + n \in Nat /\ total <= total + n /\ k \in Nat /\ k <= total + n - total
    BY <1>5
  <2>2. \A e \in Nat : total <= e /\ k <= e - total
                     => SubSeq(Bytes(total, e), 1, k) = Bytes(total, total + k)
    BY <2>1, BytesPrefix, Zenon
  <2>3. QED
    BY <2>1, <2>2
<1>8. head \o Bytes(total, total + k) = Bytes(0, HeadEnd(total + n))
  <2>1. CASE k = 0
    <3>1. Bytes(total, total + k) = << >>
      BY <2>1, BytesEmpty
    <3>3. head \o << >> = head
      BY <1>3, ConcatEmptySeq
    <3>4. QED
      BY <1>5, <1>6, <2>1, <3>1, <3>3
  <2>2. CASE k > 0
    <3>1. head = Bytes(0, total)
      BY <1>5, <2>2
    <3>2. 0 \in Nat /\ total + k \in Nat /\ 0 <= total /\ total <= total + k
      BY <1>5
    <3>3. Bytes(0, total) \o Bytes(total, total + k) = Bytes(0, total + k)
      BY <3>2, BytesConcat, Zenon
    <3>4. QED
      BY <1>5, <1>6, <2>2, <3>1, <3>3
  <2>3. QED
    BY <1>5, <2>1, <2>2
<1>9. QED
  BY <1>5, <1>7, <1>8 DEF h, k

\* Whatever the length of the write, the new tail is the newest bytes behind
\* the head that fit its capacity.
LEMMA TailStep ==
  ASSUME limit \in Nat, total \in Nat, NEW n \in Nat, NEW k \in 0..n,
         k > 0 => total < HeadCap,
         k < n => total + k >= HeadCap,
         total < HeadCap => total + k <= HeadCap,
         tail = Bytes(StartOf(total), total)
  PROVE  NewTail(SubSeq(Bytes(total, total + n), k + 1, n))
           = Bytes(StartOf(total + n), total + n)
<1> DEFINE h == HeadCap
           c == TailCap
           e == total + n
           m == total + k
           s == StartOf(total)
           r == StartOf(e)
           q == Bytes(m, e)
<1>1. h \in Nat /\ c \in Nat /\ (c = 0 => h = 0)
  BY Caps
<1>2. /\ s = IF total <= h THEN total ELSE IF total - c <= h THEN h ELSE total - c
      /\ r = IF e <= h THEN e ELSE IF e - c <= h THEN h ELSE e - c
  BY DEF StartOf
<1>3. e \in Nat /\ m \in Nat /\ total <= m /\ m <= e
  OBVIOUS
<1>4. SubSeq(Bytes(total, total + n), k + 1, n) = q
  <2>1. total <= e /\ k \in Nat /\ k <= e - total /\ e - total = n /\ e \in Nat
    OBVIOUS
  <2>2. SubSeq(Bytes(total, e), k + 1, e - total) = Bytes(total + k, e)
    <3> HIDE DEF e
    <3> QED
      BY <2>1, BytesSuffix, Zenon
  <2>3. QED
    BY <2>1, <2>2
<1>5. k > 0 => total < h
  OBVIOUS
<1>6. k < n => m >= h
  OBVIOUS
<1>7. total < h => m <= h
  OBVIOUS
<1>8. /\ (k = n) <=> (m = e)
      /\ (k = 0) <=> (m = total)
  OBVIOUS
<1>9. tail = Bytes(s, total)
  OBVIOUS
<1> HIDE DEF h, c, e, m, s, r
<1>10. s \in Nat /\ s <= total /\ r \in Nat /\ r <= e
  BY <1>1, <1>2, <1>3
<1>11. tail \in Seq(Nat) /\ Len(tail) = total - s
  BY <1>9, <1>10, BytesSeq, Zenon
<1>12. q \in Seq(Nat) /\ Len(q) = e - m
  BY <1>3, BytesSeq, Zenon
<1>13. (q = << >>) <=> (m = e)
  <2>1. m = e => q = << >>
    BY <1>3, BytesEmpty, Zenon
  <2>2. q = << >> => e - m = 0
    BY <1>12
  <2>3. QED
    BY <1>3, <2>1, <2>2
<1>14. NewTail(q) =
         IF q = << >> \/ c = 0 THEN tail
         ELSE IF Len(q) >= c THEN SubSeq(q, Len(q) - c + 1, Len(q))
         ELSE IF Len(tail) + Len(q) - c > 0
              THEN SubSeq(tail, Len(tail) + Len(q) - c + 1, Len(tail)) \o q
              ELSE tail \o q
  BY DEF NewTail, c
<1> SUFFICES NewTail(q) = Bytes(r, e)
  BY <1>4 DEF r, e
<1> HIDE DEF q
<1>15. CASE m = e
  <2>1. NewTail(q) = tail
    BY <1>13, <1>14, <1>15
  <2>2. CASE e <= h
    <3>1. s = total /\ r = e
      BY <1>1, <1>2, <1>3, <2>2
    <3>2. Bytes(s, total) = << >> /\ Bytes(r, e) = << >>
      BY <3>1, <1>3, BytesEmpty
    <3>3. QED
      BY <2>1, <3>2, <1>9
  <2>3. CASE ~(e <= h)
    <3>1. total = e
      BY <1>1, <1>3, <1>7, <1>5, <1>8, <1>15, <2>3
    <3>2. s = r
      BY <3>1, <1>2
    <3>3. QED
      BY <2>1, <3>1, <3>2, <1>9
  <2>4. QED
    BY <2>2, <2>3
<1>16. CASE m < e /\ c = 0
  <2>1. NewTail(q) = tail /\ h = 0
    BY <1>1, <1>14, <1>16
  <2>2. s = total /\ r = e
    BY <1>1, <1>2, <1>3, <1>16, <2>1
  <2>3. Bytes(s, total) = << >> /\ Bytes(r, e) = << >>
    BY <2>2, <1>3, BytesEmpty
  <2>4. QED
    BY <2>1, <2>3, <1>9
<1>17. CASE m < e /\ c > 0 /\ e - m >= c
  <2>1. NewTail(q) = SubSeq(q, e - m - c + 1, e - m)
    BY <1>1, <1>3, <1>12, <1>13, <1>14, <1>17
  <2>2. e - m - c \in Nat /\ e - m - c <= e - m /\ m + (e - m - c) = e - c
    BY <1>1, <1>3, <1>17
  <2>3. SubSeq(Bytes(m, e), (e - m - c) + 1, e - m) = Bytes(m + (e - m - c), e)
    BY <1>3, <2>2, BytesSuffix, Zenon
  <2>4. r = e - c
    BY <1>1, <1>2, <1>3, <1>6, <1>8, <1>17
  <2>5. QED
    BY <2>1, <2>2, <2>3, <2>4 DEF q
<1>18. CASE m < e /\ c > 0 /\ e - m < c
  <2>1. total >= h \/ s = total
    BY <1>1, <1>2, <1>3
  <2>2. CASE total - s + (e - m) - c > 0
    <3>1. m = total /\ h <= total
      BY <1>1, <1>2, <1>3, <1>5, <1>6, <1>8, <1>18, <2>2
    <3>2. NewTail(q) = SubSeq(tail, (total - s + (e - m) - c) + 1, total - s) \o q
      BY <1>1, <1>3, <1>10, <1>11, <1>12, <1>13, <1>14, <1>18, <2>2
    <3>3. /\ total - s + (e - m) - c \in Nat
          /\ total - s + (e - m) - c <= total - s
          /\ s + (total - s + (e - m) - c) = e - c
          /\ e - c \in Nat /\ e - c <= total
          /\ r = e - c
      BY <1>1, <1>2, <1>3, <1>10, <1>18, <2>2, <3>1
    <3>4. SubSeq(Bytes(s, total), (total - s + (e - m) - c) + 1, total - s)
            = Bytes(s + (total - s + (e - m) - c), total)
      BY <1>10, <3>3, BytesSuffix, Zenon
    <3>5. Bytes(e - c, total) \o Bytes(total, e) = Bytes(e - c, e)
      BY <1>3, <3>1, <3>3, BytesConcat, Zenon
    <3>6. QED
      BY <1>9, <3>1, <3>2, <3>3, <3>4, <3>5 DEF q
  <2>3. CASE ~(total - s + (e - m) - c > 0)
    <3>1. NewTail(q) = tail \o q
      BY <1>1, <1>3, <1>10, <1>11, <1>12, <1>13, <1>14, <1>18, <2>3
    <3>2. CASE k = 0
      <4>1. m = total /\ r = s
        BY <1>1, <1>2, <1>3, <1>6, <1>8, <1>18, <2>3, <3>2
      <4>2. Bytes(s, total) \o Bytes(total, e) = Bytes(s, e)
        BY <1>3, <1>10, <4>1, BytesConcat, Zenon
      <4>3. QED
        BY <1>9, <3>1, <4>1, <4>2 DEF q
    <3>3. CASE k > 0
      <4>1. m = h /\ r = m /\ s = total
        BY <1>1, <1>2, <1>3, <1>5, <1>6, <1>7, <1>8, <1>18, <3>3
      <4>2. tail = << >>
        BY <1>9, <4>1, BytesEmpty
      <4>3. << >> \o q = q
        BY <1>12, ConcatEmptySeq
      <4>4. QED
        BY <3>1, <4>1, <4>2, <4>3 DEF q
    <3>4. QED
      BY <3>2, <3>3
  <2>4. QED
    BY <2>2, <2>3
<1>19. QED
  BY <1>1, <1>3, <1>15, <1>16, <1>17, <1>18

-----------------------------------------------------------------------------
\* One Write, whatever its length, keeps both ends of the log.
LEMMA WriteStep ==
  ASSUME BufferInv, NEW n \in 0..MaxTotal, Write(n)
  PROVE  BufferInv'
<1>1. /\ limit \in Limits /\ limit \in Nat /\ total \in Nat /\ n \in Nat
      /\ MaxTotal \in Nat
  BY BufferAssumption DEF BufferInv
<1>2. /\ total' = total + n /\ total + n <= MaxTotal /\ limit' = limit
      /\ head' = head \o SubSeq(Bytes(total, total + n), 1, Take(n))
      /\ tail' = NewTail(SubSeq(Bytes(total, total + n), Take(n) + 1, n))
  BY DEF Write
<1>3. head = Bytes(0, HeadEnd(total)) /\ tail = Bytes(StartOf(total), total)
  BY DEF BufferInv, KeepsBothEnds, HeadEnd, StartOf, TailStart
<1>4. /\ Take(n) \in 0..n
      /\ Take(n) > 0 => total < HeadCap
      /\ Take(n) < n => total + Take(n) >= HeadCap
      /\ total < HeadCap => total + Take(n) <= HeadCap
      /\ head' = Bytes(0, HeadEnd(total + n))
  BY <1>1, <1>2, <1>3, HeadStep
<1>5. tail' = Bytes(StartOf(total + n), total + n)
  BY <1>1, <1>2, <1>3, <1>4, TailStep
<1>6. HeadCap' = HeadCap /\ TailCap' = TailCap
  BY <1>2 DEF HeadCap, TailCap
<1>7. /\ (IF total' <= HeadCap' THEN total' ELSE HeadCap') = HeadEnd(total + n)
      /\ TailStart' = StartOf(total + n)
  BY <1>2, <1>6 DEF HeadEnd, StartOf, TailStart
<1>8. head' = Bytes(0, IF total' <= HeadCap' THEN total' ELSE HeadCap')
  BY <1>4, <1>7
<1>9. tail' = Bytes(TailStart', total')
  BY <1>2, <1>5, <1>7
<1>10. limit' \in Limits /\ total' \in 0..MaxTotal
  BY <1>1, <1>2
<1>11. QED
  BY <1>8, <1>9, <1>10 DEF BufferInv, KeepsBothEnds

\* BufferInv is an invariant of the buffer, for every limit and every way to
\* cut the log into writes.
THEOREM BufferInvariant == BufferSpec => []BufferInv
<1>1. BufferInit => BufferInv
  <2> SUFFICES ASSUME BufferInit PROVE BufferInv
    OBVIOUS
  <2>1. limit \in Nat /\ HeadCap \in Nat /\ total = 0 /\ TailStart = 0
    BY BufferAssumption, Caps DEF BufferInit, TailStart
  <2>2. Bytes(0, 0) = << >>
    BY BytesEmpty
  <2>3. (IF total <= HeadCap THEN total ELSE HeadCap) = 0
    BY <2>1
  <2>4. QED
    BY <2>1, <2>2, <2>3, BufferAssumption DEF BufferInit, BufferInv, KeepsBothEnds
<1>2. BufferInv /\ [BufferNext]_bufferVars => BufferInv'
  <2> SUFFICES ASSUME BufferInv, [BufferNext]_bufferVars PROVE BufferInv'
    OBVIOUS
  <2>1. CASE BufferNext
    BY <2>1, WriteStep DEF BufferNext
  <2>2. CASE UNCHANGED bufferVars
    BY <2>2 DEF bufferVars, BufferInv, KeepsBothEnds, TailStart, HeadCap, TailCap
  <2>3. QED
    BY <2>1, <2>2
<1>3. QED
  BY <1>1, <1>2, PTL DEF BufferSpec

\* head is the beginning of the log and tail its end, in every state.
THEOREM BufferKeepsBothEnds == BufferSpec => []KeepsBothEnds
<1>1. BufferInv => KeepsBothEnds
  BY DEF BufferInv
<1>2. QED
  BY <1>1, BufferInvariant, PTL

\* In a state of the invariant, where the two parts lie and how long they are.
LEMMA PartsOf ==
  ASSUME BufferInv
  PROVE  /\ limit \in Nat /\ total \in Nat /\ HeadCap \in Nat /\ TailCap \in Nat
         /\ HeadCap + TailCap = limit
         /\ HeadEnd(total) \in Nat /\ HeadEnd(total) <= HeadCap /\ HeadEnd(total) <= total
         /\ TailStart \in Nat /\ TailStart <= total /\ total - TailStart <= TailCap
         /\ head = Bytes(0, HeadEnd(total))
         /\ tail = Bytes(TailStart, total)
<1>1. limit \in Nat /\ total \in Nat
  BY BufferAssumption DEF BufferInv
<1>2. HeadCap \in Nat /\ TailCap \in Nat /\ HeadCap + TailCap = limit
  BY <1>1, Caps
<1>3. QED
  BY <1>1, <1>2 DEF BufferInv, KeepsBothEnds, HeadEnd, TailStart

\* The buffer never outgrows the two capacities it was allocated with.
THEOREM BufferTypeCorrect == BufferSpec => []BufferTypeOK
<1>1. BufferInv => BufferTypeOK
  <2> SUFFICES ASSUME BufferInv PROVE BufferTypeOK
    OBVIOUS
  <2>1. ASSUME NEW a \in Nat, NEW b \in Nat, a <= b, b <= total
        PROVE  Bytes(a, b) \in Seq(1..total) /\ Len(Bytes(a, b)) = b - a
    <3>1. b - a \in Nat /\ total \in Nat
      BY <2>1, PartsOf
    <3>2. Bytes(a, b) \in [1..(b - a) -> 1..total]
      BY <2>1, <3>1 DEF Bytes
    <3>3. QED
      BY <3>1, <3>2
  <2>2. head \in Seq(1..total) /\ Len(head) = HeadEnd(total) - 0
    <3>1. 0 \in Nat /\ 0 <= HeadEnd(total)
      BY PartsOf
    <3>2. QED
      BY <2>1, <3>1, PartsOf, Zenon
  <2>3. tail \in Seq(1..total) /\ Len(tail) = total - TailStart
    <3>1. total <= total
      BY PartsOf
    <3>2. QED
      BY <2>1, <3>1, PartsOf, Zenon
  <2>4. Len(head) <= HeadCap /\ Len(tail) <= TailCap
    BY <2>2, <2>3, PartsOf
  <2>5. QED
    BY <2>2, <2>3, <2>4 DEF BufferTypeOK, BufferInv
<1>2. QED
  BY <1>1, BufferInvariant, PTL

\* String shows what LogWindow promises: the whole log while it fits, and the
\* two ends around the notice once it does not.
LEMMA StringShown ==
  ASSUME BufferInv
  PROVE  String = Window!Shown(total)
<1> USE DEF Window!HeadCap, Window!TailCap, Window!Bytes
<1>1. Window!Shown(total) =
        IF total <= limit THEN Bytes(0, total)
        ELSE Bytes(0, HeadCap) \o <<Cut>> \o Bytes(total - TailCap, total)
  BY DEF Window!Shown, HeadCap, TailCap, Bytes
<1>2. CASE total <= limit
  <2>1. TailStart = HeadEnd(total)
    BY <1>2, PartsOf DEF TailStart, HeadEnd
  <2>2. 0 \in Nat /\ 0 <= HeadEnd(total)
    BY PartsOf
  <2>3. Bytes(0, HeadEnd(total)) \o Bytes(HeadEnd(total), total) = Bytes(0, total)
    BY <2>2, PartsOf, BytesConcat, Zenon
  <2>4. String = head \o tail
    BY <1>2 DEF String
  <2>5. QED
    BY <1>1, <1>2, <2>1, <2>3, <2>4, PartsOf
<1>3. CASE ~(total <= limit)
  <2>1. HeadEnd(total) = HeadCap /\ TailStart = total - TailCap
    BY <1>3, PartsOf DEF TailStart, HeadEnd
  <2>2. String = head \o <<Cut>> \o tail
    BY <1>3 DEF String
  <2>3. QED
    BY <1>1, <1>3, <2>1, <2>2, PartsOf
<1>4. QED
  BY <1>2, <1>3

\* The buffer implements LogWindow: nothing is lost while the log fits the
\* limit, and from then on only the middle, with the notice in its place.
THEOREM BufferImplementsWindow == BufferSpec => KeepsPromise
<1> DEFINE Shows == String = Window!Shown(total)
<1>1. BufferInv => Shows
  BY StringShown
<1> HIDE DEF Shows
<1>2. BufferSpec => []Shows
  BY <1>1, BufferInvariant, PTL
<1>3. BufferInit => Window!WindowInit
  <2> SUFFICES ASSUME BufferInit PROVE Window!WindowInit
    OBVIOUS
  <2>1. limit \in Nat /\ total <= limit
    BY BufferAssumption DEF BufferInit
  <2>2. String = << >>
    BY <2>1 DEF BufferInit, String
  <2>3. QED
    BY <2>2 DEF BufferInit, Window!WindowInit
<1>4. Shows' /\ [BufferNext]_bufferVars
        => [\E n \in 0..MaxTotal : Window!Extend(n)]_(Window!windowVars)
  <2> SUFFICES ASSUME Shows', [BufferNext]_bufferVars
               PROVE  [\E n \in 0..MaxTotal : Window!Extend(n)]_(Window!windowVars)
    OBVIOUS
  <2>1. CASE BufferNext
    <3>1. PICK n \in 0..MaxTotal : Write(n)
      BY <2>1 DEF BufferNext
    <3>2. total' = total + n /\ total + n <= MaxTotal /\ limit' = limit
      BY <3>1 DEF Write
    <3>3. String' = Window!Shown(total + n)
      BY <3>2 DEF Shows, Window!Shown, Window!HeadCap, Window!TailCap, Window!Bytes
    <3>4. QED
      BY <3>2, <3>3 DEF Window!Extend
  <2>2. CASE UNCHANGED bufferVars
    BY <2>2 DEF bufferVars, Window!windowVars, String, HeadCap, TailCap
  <2>3. QED
    BY <2>1, <2>2
<1>5. QED
  BY <1>2, <1>3, <1>4, PTL DEF BufferSpec, KeepsPromise, Window!WindowSpec
=============================================================================
