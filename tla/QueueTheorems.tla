--------------------------- MODULE QueueTheorems ----------------------------
(* Facts about queues without duplicates, which the kernel's Fifo and         *)
(* Double_list are (an element has one link, so it is queued once).           *)
EXTENDS SequencesExt, SequenceTheorems, TLAPS

Distinct(q) == \A i, j \in DOMAIN q : q[i] = q[j] => i = j

\* Taking an element out of a sequence closes the gap.
LEMMA RemoveAtElements ==
  ASSUME NEW S, NEW q \in Seq(S), NEW i \in 1 .. Len(q)
  PROVE  /\ RemoveAt(q, i) \in Seq(S)
         /\ Len(RemoveAt(q, i)) = Len(q) - 1
         /\ \A j \in 1 .. Len(q) - 1 :
               RemoveAt(q, i)[j] = IF j < i THEN q[j] ELSE q[j + 1]
<1> DEFINE a == SubSeq(q, 1, i - 1)
           b == SubSeq(q, i + 1, Len(q))
<1>1. a \in Seq(S) /\ Len(a) = i - 1 /\ \A j \in 1 .. i - 1 : a[j] = q[j]
  OBVIOUS
<1>2. b \in Seq(S) /\ Len(b) = Len(q) - i /\ \A j \in 1 .. Len(q) - i : b[j] = q[i + j]
  OBVIOUS
<1>3. RemoveAt(q, i) = a \o b
  BY DEF RemoveAt
<1> HIDE DEF a, b
<1>4. /\ a \o b \in Seq(S)
      /\ Len(a \o b) = Len(a) + Len(b)
      /\ \A j \in 1 .. Len(a) + Len(b) :
            (a \o b)[j] = IF j <= Len(a) THEN a[j] ELSE b[j - Len(a)]
  BY <1>1, <1>2, ConcatProperties
<1>5. Len(a) + Len(b) = Len(q) - 1
  BY <1>1, <1>2
<1>6. ASSUME NEW j \in 1 .. Len(q) - 1
      PROVE  (a \o b)[j] = IF j < i THEN q[j] ELSE q[j + 1]
  <2>1. CASE j < i
    BY <2>1, <1>1, <1>4, <1>5
  <2>2. CASE ~(j < i)
    <3>1. (a \o b)[j] = b[j - (i - 1)] /\ j - (i - 1) \in 1 .. Len(q) - i
      BY <2>2, <1>1, <1>2, <1>4, <1>5
    <3> QED
      BY <2>2, <3>1, <1>2
  <2> QED
    BY <2>1, <2>2
<1> QED
  BY <1>3, <1>4, <1>5, <1>6

\* A queue from which the one occurrence of an element was taken.
LEMMA RemovedElements ==
  ASSUME NEW S, NEW q \in Seq(S), Distinct(q), NEW e \in ToSet(q)
  PROVE  LET r == RemoveAt(q, CHOOSE i \in DOMAIN q : q[i] = e) IN
         /\ r \in Seq(S)
         /\ Distinct(r)
         /\ \A u : u \in ToSet(r) <=> u \in ToSet(q) /\ u # e
         /\ q # <<>> /\ Head(q) # e => r # <<>> /\ Head(r) = Head(q)
<1> DEFINE i == CHOOSE k \in DOMAIN q : q[k] = e
           r == RemoveAt(q, i)
<1>1. i \in 1 .. Len(q) /\ q[i] = e
  BY DEF ToSet
<1> HIDE DEF i
<1>2. /\ r \in Seq(S)
      /\ Len(r) = Len(q) - 1
      /\ \A j \in 1 .. Len(q) - 1 : r[j] = IF j < i THEN q[j] ELSE q[j + 1]
  BY <1>1, RemoveAtElements
<1> HIDE DEF r
<1>3. Distinct(r)
  <2>1. SUFFICES ASSUME NEW j \in 1 .. Len(q) - 1, NEW k \in 1 .. Len(q) - 1, r[j] = r[k]
                 PROVE  j = k
    BY <1>2 DEF Distinct
  <2>2. \A m, n \in 1 .. Len(q) : q[m] = q[n] => m = n
    BY DEF Distinct
  <2>3. j + 1 \in 1 .. Len(q) /\ k + 1 \in 1 .. Len(q) /\ j \in 1 .. Len(q) /\ k \in 1 .. Len(q)
    OBVIOUS
  <2>4. r[j] = (IF j < i THEN q[j] ELSE q[j + 1]) /\ r[k] = (IF k < i THEN q[k] ELSE q[k + 1])
    BY <1>2
  <2>5. CASE j < i
    <3>1. k < i \/ j = k + 1
      BY <2>1, <2>2, <2>3, <2>4, <2>5
    <3>2. k < i
      BY <2>5, <3>1, <1>1
    <3> QED
      BY <2>1, <2>2, <2>3, <2>4, <2>5, <3>2
  <2>6. CASE ~(j < i)
    <3>1. ~(k < i) \/ j + 1 = k
      BY <2>1, <2>2, <2>3, <2>4, <2>6
    <3>2. ~(k < i)
      BY <2>6, <3>1, <1>1
    <3>3. j + 1 = k + 1
      BY <2>1, <2>2, <2>3, <2>4, <2>6, <3>2
    <3> QED
      BY <3>3
  <2> QED
    BY <2>5, <2>6
<1>4. ASSUME NEW u, u \in ToSet(r)
      PROVE  u \in ToSet(q) /\ u # e
  BY <1>1, <1>2, <1>4 DEF Distinct, ToSet
<1>5. ASSUME NEW u, u \in ToSet(q), u # e
      PROVE  u \in ToSet(r)
  <2>1. PICK k \in 1 .. Len(q) : q[k] = u
    BY <1>5 DEF ToSet
  <2>2. CASE k < i
    BY <2>1, <2>2, <1>1, <1>2 DEF ToSet
  <2>3. CASE k > i
    <3>1. k - 1 \in 1 .. Len(r) /\ r[k - 1] = u
      BY <2>1, <2>3, <1>1, <1>2
    <3> QED
      BY <3>1, <1>2 DEF ToSet
  <2> QED
    BY <2>1, <2>2, <2>3, <1>1, <1>5
<1>6. ASSUME q # <<>>, Head(q) # e
      PROVE  r # <<>> /\ Head(r) = Head(q)
  <2>1. i # 1 /\ Len(q) > 1
    BY <1>1, <1>6
  <2> QED
    BY <2>1, <1>1, <1>2, <1>6
<1> QED
  BY <1>2, <1>3, <1>4, <1>5, <1>6 DEF r, i

\* A queue with a new element at its end.
LEMMA AppendedElements ==
  ASSUME NEW S, NEW q \in Seq(S), Distinct(q), NEW e \in S, e \notin ToSet(q)
  PROVE  LET r == Append(q, e) IN
         /\ r \in Seq(S)
         /\ Distinct(r)
         /\ \A u : u \in ToSet(r) <=> u \in ToSet(q) \/ u = e
         /\ r # <<>>
         /\ Head(r) = IF q = <<>> THEN e ELSE Head(q)
<1> DEFINE r == Append(q, e)
<1>1. /\ r \in Seq(S)
      /\ Len(r) = Len(q) + 1
      /\ \A j \in 1 .. Len(q) : r[j] = q[j]
      /\ r[Len(q) + 1] = e
  OBVIOUS
<1> HIDE DEF r
<1>2. Distinct(r)
  BY <1>1 DEF Distinct, ToSet
<1>3. \A u : u \in ToSet(r) <=> u \in ToSet(q) \/ u = e
  BY <1>1 DEF ToSet
<1>4. r # <<>> /\ Head(r) = IF q = <<>> THEN e ELSE Head(q)
  BY <1>1
<1> QED
  BY <1>1, <1>2, <1>3, <1>4 DEF r

\* A queue without its first element.
LEMMA TailElements ==
  ASSUME NEW S, NEW q \in Seq(S), Distinct(q), q # <<>>
  PROVE  /\ Tail(q) \in Seq(S)
         /\ Distinct(Tail(q))
         /\ \A u : u \in ToSet(Tail(q)) <=> u \in ToSet(q) /\ u # Head(q)
         /\ Head(q) \in S
         /\ Head(q) \in ToSet(q)
<1> DEFINE r == Tail(q)
<1>1. /\ r \in Seq(S)
      /\ Len(r) = Len(q) - 1
      /\ \A j \in 1 .. Len(q) - 1 : r[j] = q[j + 1]
      /\ Head(q) = q[1]
      /\ 1 \in 1 .. Len(q)
  OBVIOUS
<1> HIDE DEF r
<1>2. Distinct(r)
  BY <1>1 DEF Distinct
<1>3. ASSUME NEW u, u \in ToSet(r)
      PROVE  u \in ToSet(q) /\ u # Head(q)
  BY <1>1, <1>3 DEF ToSet, Distinct
<1>4. ASSUME NEW u, u \in ToSet(q), u # Head(q)
      PROVE  u \in ToSet(r)
  <2>1. PICK k \in 1 .. Len(q) : q[k] = u
    BY <1>4 DEF ToSet
  <2>2. k - 1 \in 1 .. Len(r) /\ r[k - 1] = u
    BY <2>1, <1>1, <1>4
  <2> QED
    BY <2>2, <1>1 DEF ToSet
<1>5. Head(q) \in S /\ Head(q) \in ToSet(q)
  BY <1>1 DEF ToSet
<1> QED
  BY <1>1, <1>2, <1>3, <1>4, <1>5 DEF r

\* A queue with a new element at its front.
LEMMA PrependedElements ==
  ASSUME NEW S, NEW q \in Seq(S), Distinct(q), NEW e \in S, e \notin ToSet(q)
  PROVE  LET r == <<e>> \o q IN
         /\ r \in Seq(S)
         /\ Distinct(r)
         /\ \A u : u \in ToSet(r) <=> u \in ToSet(q) \/ u = e
         /\ Len(r) = Len(q) + 1
         /\ r[1] = e
         /\ \A j \in 1 .. Len(q) : r[j + 1] = q[j]
<1> DEFINE r == <<e>> \o q
<1>1. /\ r \in Seq(S)
      /\ Len(r) = Len(q) + 1
      /\ r[1] = e
      /\ \A j \in 1 .. Len(q) : r[j + 1] = q[j]
  OBVIOUS
<1> HIDE DEF r
<1>2. \A j \in 2 .. Len(r) : r[j] = q[j - 1] /\ j - 1 \in 1 .. Len(q)
  <2> TAKE j \in 2 .. Len(r)
  <2>1. j - 1 \in 1 .. Len(q) /\ (j - 1) + 1 = j
    BY <1>1
  <2> QED
    BY <1>1, <2>1
<1>3. \A j \in 1 .. Len(r) : j = 1 \/ j \in 2 .. Len(r)
  BY <1>1
<1>4. \A j \in 1 .. Len(q) : q[j] # e
  BY DEF ToSet
<1>5. Distinct(r)
  <2>1. SUFFICES ASSUME NEW j \in 1 .. Len(r), NEW k \in 1 .. Len(r), r[j] = r[k]
                 PROVE  j = k
    BY <1>1 DEF Distinct
  <2>2. \A m, n \in 1 .. Len(q) : q[m] = q[n] => m = n
    BY DEF Distinct
  <2>3. CASE j = 1 \/ k = 1
    BY <2>1, <2>3, <1>1, <1>2, <1>3, <1>4
  <2>4. CASE j # 1 /\ k # 1
    <3>1. j - 1 = k - 1
      BY <2>1, <2>2, <2>4, <1>2, <1>3
    <3> QED
      BY <3>1
  <2> QED
    BY <2>3, <2>4
<1>6. \A u : u \in ToSet(r) <=> u \in ToSet(q) \/ u = e
  <2>1. ASSUME NEW u, u \in ToSet(r) PROVE u \in ToSet(q) \/ u = e
    <3>1. PICK k \in 1 .. Len(r) : r[k] = u
      BY <2>1, <1>1 DEF ToSet
    <3>2. CASE k = 1
      BY <3>1, <3>2, <1>1
    <3>3. CASE k # 1
      <4>1. k - 1 \in 1 .. Len(q) /\ q[k - 1] = u
        BY <3>1, <3>3, <1>2, <1>3
      <4> QED
        BY <4>1 DEF ToSet
    <3> QED
      BY <3>2, <3>3
  <2>2. ASSUME NEW u, u \in ToSet(q) PROVE u \in ToSet(r)
    <3>1. PICK k \in 1 .. Len(q) : q[k] = u
      BY <2>2 DEF ToSet
    <3>2. k + 1 \in 1 .. Len(r) /\ r[k + 1] = u
      BY <3>1, <1>1
    <3> QED
      BY <3>2, <1>1 DEF ToSet
  <2>3. e \in ToSet(r)
    BY <1>1 DEF ToSet
  <2> QED
    BY <2>1, <2>2, <2>3
<1> QED
  BY <1>1, <1>5, <1>6 DEF r

\* The first n elements of a queue and the rest share none and have them all.
LEMMA SplitElements ==
  ASSUME NEW S, NEW q \in Seq(S), Distinct(q), NEW n \in 0 .. Len(q)
  PROVE  LET a == SubSeq(q, 1, n)
             b == SubSeq(q, n + 1, Len(q))
         IN /\ a \in Seq(S) /\ b \in Seq(S)
            /\ Len(a) = n /\ Len(b) = Len(q) - n
            /\ Distinct(b)
            /\ \A u : u \in ToSet(q) <=> u \in ToSet(a) \/ u \in ToSet(b)
            /\ \A u : ~(u \in ToSet(a) /\ u \in ToSet(b))
            /\ n = Len(q) => b = <<>>
<1> DEFINE a == SubSeq(q, 1, n)
           b == SubSeq(q, n + 1, Len(q))
<1>1. a \in Seq(S) /\ Len(a) = n /\ \A j \in 1 .. n : a[j] = q[j]
  OBVIOUS
<1>2. b \in Seq(S) /\ Len(b) = Len(q) - n /\ \A j \in 1 .. Len(q) - n : b[j] = q[n + j]
  OBVIOUS
<1> HIDE DEF a, b
<1>3. Distinct(b)
  <2>1. SUFFICES ASSUME NEW j \in 1 .. Len(q) - n, NEW k \in 1 .. Len(q) - n, b[j] = b[k]
                 PROVE  j = k
    BY <1>2 DEF Distinct
  <2>2. \A m, l \in 1 .. Len(q) : q[m] = q[l] => m = l
    BY DEF Distinct
  <2>3. n + j \in 1 .. Len(q) /\ n + k \in 1 .. Len(q)
    OBVIOUS
  <2>4. q[n + j] = q[n + k]
    BY <2>1, <1>2
  <2>5. n + j = n + k
    BY <2>2, <2>3, <2>4
  <2> QED
    BY <2>5
<1>4. ASSUME NEW u, u \in ToSet(q)
      PROVE  u \in ToSet(a) \/ u \in ToSet(b)
  <2>1. PICK k \in 1 .. Len(q) : q[k] = u
    BY <1>4 DEF ToSet
  <2>2. CASE k <= n
    BY <2>1, <2>2, <1>1 DEF ToSet
  <2>3. CASE k > n
    <3>1. k - n \in 1 .. Len(b) /\ b[k - n] = u
      BY <2>1, <2>3, <1>2
    <3> QED
      BY <3>1, <1>2 DEF ToSet
  <2> QED
    BY <2>1, <2>2, <2>3
<1>5. ASSUME NEW u, u \in ToSet(a)
      PROVE  \E k \in 1 .. n : q[k] = u
  BY <1>1, <1>5 DEF ToSet
<1>6. ASSUME NEW u, u \in ToSet(b)
      PROVE  \E k \in 1 .. Len(q) : k > n /\ q[k] = u
  BY <1>2, <1>6 DEF ToSet
<1>7. ASSUME NEW u, u \in ToSet(a) \/ u \in ToSet(b)
      PROVE  u \in ToSet(q)
  <2>1. PICK k \in 1 .. Len(q) : q[k] = u
    BY <1>5, <1>6, <1>7
  <2> QED
    BY <2>1 DEF ToSet
<1>8. \A u : ~(u \in ToSet(a) /\ u \in ToSet(b))
  BY <1>5, <1>6 DEF Distinct
<1>9. n = Len(q) => b = <<>>
  BY <1>2
<1> QED
  BY <1>1, <1>2, <1>3, <1>4, <1>7, <1>8, <1>9 DEF a, b
\* A queue with a new element behind the first n.
LEMMA InsertedElements ==
  ASSUME NEW S, NEW q \in Seq(S), Distinct(q), NEW e \in S, e \notin ToSet(q), NEW n \in 0 .. Len(q)
  PROVE  LET r == InsertAt(q, n + 1, e) IN
         /\ r \in Seq(S)
         /\ Distinct(r)
         /\ \A u : u \in ToSet(r) <=> u \in ToSet(q) \/ u = e
         /\ Len(r) = Len(q) + 1
         /\ \A j \in 1 .. Len(q) + 1 : r[j] = IF j < n + 1 THEN q[j]
                                              ELSE IF j = n + 1 THEN e ELSE q[j - 1]
<1> DEFINE a == SubSeq(q, 1, n)
           b == SubSeq(q, n + 1, Len(q))
           c == a \o <<e>>
           r == InsertAt(q, n + 1, e)
<1>1. a \in Seq(S) /\ Len(a) = n /\ \A j \in 1 .. n : a[j] = q[j]
  OBVIOUS
<1>2. b \in Seq(S) /\ Len(b) = Len(q) - n /\ \A j \in 1 .. Len(q) - n : b[j] = q[n + j]
  OBVIOUS
<1>3. r = c \o b
  <2>1. (n + 1) - 1 = n
    OBVIOUS
  <2>2. QED
    BY <2>1 DEF InsertAt
<1> HIDE DEF a, b, r
<1>4. c \in Seq(S) /\ Len(c) = n + 1 /\ (\A j \in 1 .. n : c[j] = q[j]) /\ c[n + 1] = e
  BY <1>1
<1> HIDE DEF c
<1>5. /\ c \o b \in Seq(S)
      /\ Len(c \o b) = Len(c) + Len(b)
      /\ \A j \in 1 .. Len(c) + Len(b) :
            (c \o b)[j] = IF j <= Len(c) THEN c[j] ELSE b[j - Len(c)]
  BY <1>2, <1>4, ConcatProperties
<1>6. Len(r) = Len(q) + 1 /\ r \in Seq(S)
  BY <1>2, <1>3, <1>4, <1>5
<1>7. ASSUME NEW j \in 1 .. Len(q) + 1
      PROVE  r[j] = IF j < n + 1 THEN q[j] ELSE IF j = n + 1 THEN e ELSE q[j - 1]
  <2>1. CASE j < n + 1
    BY <2>1, <1>2, <1>3, <1>4, <1>5
  <2>2. CASE j = n + 1
    BY <2>2, <1>2, <1>3, <1>4, <1>5
  <2>3. CASE j > n + 1
    <3>1. r[j] = b[j - (n + 1)] /\ j - (n + 1) \in 1 .. Len(q) - n
      BY <2>3, <1>2, <1>3, <1>4, <1>5
    <3>2. n + (j - (n + 1)) = j - 1
      OBVIOUS
    <3> QED
      BY <2>3, <3>1, <3>2, <1>2
  <2> QED
    BY <2>1, <2>2, <2>3
<1>8. \A j \in 1 .. Len(q) : q[j] # e
  BY DEF ToSet
<1>9. Distinct(r)
  <2> SUFFICES ASSUME NEW j \in 1 .. Len(q) + 1, NEW k \in 1 .. Len(q) + 1, r[j] = r[k]
               PROVE  j = k
    BY <1>6 DEF Distinct
  <2>1. \A m, l \in 1 .. Len(q) : q[m] = q[l] => m = l
    BY DEF Distinct
  <2>2. /\ j < n + 1 => r[j] = q[j] /\ j \in 1 .. Len(q)
        /\ j = n + 1 => r[j] = e
        /\ j > n + 1 => r[j] = q[j - 1] /\ j - 1 \in 1 .. Len(q)
    BY <1>7
  <2>3. /\ k < n + 1 => r[k] = q[k] /\ k \in 1 .. Len(q)
        /\ k = n + 1 => r[k] = e
        /\ k > n + 1 => r[k] = q[k - 1] /\ k - 1 \in 1 .. Len(q)
    BY <1>7
  <2>4. CASE j = n + 1 \/ k = n + 1
    BY <1>8, <2>2, <2>3, <2>4
  <2>5. CASE j < n + 1 /\ k # n + 1
    BY <2>1, <2>2, <2>3, <2>5
  <2>6. CASE j > n + 1 /\ k # n + 1
    BY <2>1, <2>2, <2>3, <2>6
  <2> QED
    BY <2>4, <2>5, <2>6
<1>10. \A u : u \in ToSet(r) <=> u \in ToSet(q) \/ u = e
  <2>1. ASSUME NEW u, u \in ToSet(r) PROVE u \in ToSet(q) \/ u = e
    <3>1. PICK k \in 1 .. Len(q) + 1 : r[k] = u
      BY <2>1, <1>6 DEF ToSet
    <3>2. u = e \/ \E m \in 1 .. Len(q) : q[m] = u
      BY <3>1, <1>7
    <3> QED
      BY <3>2 DEF ToSet
  <2>2. ASSUME NEW u, u \in ToSet(q) PROVE u \in ToSet(r)
    <3>1. PICK k \in 1 .. Len(q) : q[k] = u
      BY <2>2 DEF ToSet
    <3>2. CASE k < n + 1
      <4>1. k \in 1 .. Len(r) /\ r[k] = u
        BY <3>1, <3>2, <1>6, <1>7
      <4> QED
        BY <4>1, <1>6 DEF ToSet
    <3>3. CASE k >= n + 1
      <4>1. k + 1 \in 1 .. Len(q) + 1 /\ (k + 1) - 1 = k /\ k + 1 > n + 1
        BY <3>3
      <4>2. k + 1 \in 1 .. Len(r) /\ r[k + 1] = u
        BY <3>1, <4>1, <1>6, <1>7
      <4> QED
        BY <4>2, <1>6 DEF ToSet
    <3> QED
      BY <3>2, <3>3
  <2>3. e \in ToSet(r)
    <3>1. n + 1 \in 1 .. Len(r) /\ r[n + 1] = e
      BY <1>6, <1>7
    <3> QED
      BY <3>1, <1>6 DEF ToSet
  <2> QED
    BY <2>1, <2>2, <2>3
<1> QED
  BY <1>6, <1>7, <1>9, <1>10 DEF r


=============================================================================
