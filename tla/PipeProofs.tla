----------------------------- MODULE PipeProofs -----------------------------
(***************************************************************************)
(* Proofs about Pipe, for any number of processes and threads, any         *)
(* PIPESIZE, any width of the counters, and reads and writes of any length *)
(* but 0: bytes arrive in order, nobody sleeps without a reason, a read    *)
(* that returns nothing has met the end of the file, and, when a process   *)
(* has one thread, the page is freed once and not while it is in use.      *)
(***************************************************************************)
EXTENDS Pipe, FiniteSetTheorems, TLAPS

-----------------------------------------------------------------------------
(***************************************************************************)
(* The arithmetic of the counters.                                         *)
(***************************************************************************)
\* The size of the ring divides the number of values of a counter.
LEMMA Sizes ==
    /\ PIPESIZE \in Nat /\ PIPESIZE > 0 /\ UINT \in Nat /\ UINT > PIPESIZE
    /\ UINT \div PIPESIZE \in Int /\ UINT = PIPESIZE * (UINT \div PIPESIZE)
BY PipeAssumption

\* A remainder is the only one.
LEMMA ModUnique ==
    ASSUME NEW P \in Nat, P > 0, NEW m \in Int, NEW r \in 0 .. P - 1
    PROVE  (P * m + r) % P = r
OBVIOUS

\* Quotient and remainder.
LEMMA Division ==
    ASSUME NEW P \in Nat, P > 0, NEW x \in Nat
    PROVE  \E j \in Int, r \in 0 .. P - 1 : r = x % P /\ x = (P * j) + r
<1>1. x = (P * (x \div P)) + (x % P) /\ x \div P \in Int /\ x % P \in 0 .. P - 1
  OBVIOUS
<1> QED
  BY Zenon, <1>1

\* A multiple of P is 0 or less, or P or more.
LEMMA Multiples ==
    ASSUME NEW P \in Nat, NEW d \in Int
    PROVE  P * d <= 0 \/ P * d >= P
<1>1. CASE d <= 0
  BY <1>1
<1>2. CASE d >= 1
  BY <1>2
<1> QED
  BY <1>1, <1>2

\* Multiplication distributes over addition.
LEMMA DistributesPlus ==
    ASSUME NEW P \in Int, NEW U \in Int, NEW k \in Int, U = P * k,
           NEW q \in Int, NEW j \in Int, NEW r \in Int
    PROVE  (U * q) + ((P * j) + r) = (P * ((k * q) + j)) + r /\ (k * q) + j \in Int
OBVIOUS

\* The remainder of a number that is r more than multiples of UINT and of
\* PIPESIZE.
LEMMA Wraps ==
    \A q, j \in Int, r \in 0 .. PIPESIZE - 1 : ((UINT * q) + ((PIPESIZE * j) + r)) % PIPESIZE = r
<1> SUFFICES ASSUME NEW q \in Int, NEW j \in Int, NEW r \in 0 .. PIPESIZE - 1
             PROVE  ((UINT * q) + ((PIPESIZE * j) + r)) % PIPESIZE = r
  BY Zenon
<1> DEFINE k == UINT \div PIPESIZE
<1>1. PIPESIZE \in Int /\ UINT \in Int /\ k \in Int /\ UINT = PIPESIZE * k /\ r \in Int
  BY Sizes
<1> HIDE DEF k
<1>2. (UINT * q) + ((PIPESIZE * j) + r) = (PIPESIZE * ((k * q) + j)) + r /\ (k * q) + j \in Int
  BY <1>1, DistributesPlus
<1>3. \A m \in Int : ((PIPESIZE * m) + r) % PIPESIZE = r
  BY Sizes, ModUnique
<1> QED
  BY Zenon, <1>2, <1>3

\* Multiplication distributes over subtraction.
LEMMA DistributesMinus ==
    \A P, e, d \in Int :
        (P * e) - (P * d) = P * (e - d) /\ e - d \in Int /\ P * e \in Int /\ P * d \in Int
OBVIOUS

\* Two numbers less than P apart have different remainders.
LEMMA ModDistinct ==
    ASSUME NEW P \in Nat, P > 0, NEW a \in Nat, NEW b \in Nat, a < b, b < a + P
    PROVE  a % P # b % P
<1> DEFINE d == a \div P
           e == b \div P
<1>1. /\ a = P * d + (a % P) /\ d \in Int /\ a % P \in Int
      /\ b = P * e + (b % P) /\ e \in Int /\ b % P \in Int
  OBVIOUS
<1> HIDE DEF d, e
<1> P \in Int
  OBVIOUS
<1>2. (P * e) - (P * d) = P * (e - d) /\ e - d \in Int /\ P * e \in Int /\ P * d \in Int
  BY Zenon, <1>1, DistributesMinus
<1>3. P * (e - d) <= 0 \/ P * (e - d) >= P
  BY Zenon, <1>2, Multiples
<1> QED
  BY <1>1, <1>2, <1>3

\* The counters wrap at a multiple of PIPESIZE: the cell of a byte does not
\* depend on how often they have.
LEMMA CellMod ==
    ASSUME NEW n \in Nat
    PROVE  Cell(n) = n % PIPESIZE /\ Cell(n) \in Index
<1>1. UINT > 0 /\ UINT \in Int /\ \A u \in 0 .. UINT - 1 : u \in Nat
  BY Sizes
<1>2. PICK q \in Int, u \in 0 .. UINT - 1 : u = n % UINT /\ n = (UINT * q) + u
  BY Zenon, Sizes, <1>1, Division
<1>3. PICK j \in Int, r \in 0 .. PIPESIZE - 1 : r = u % PIPESIZE /\ u = (PIPESIZE * j) + r
  BY Zenon, Sizes, <1>1, Division
<1>4. n = (UINT * q) + ((PIPESIZE * j) + r)
  BY Zenon, <1>2, <1>3
<1>5. n % PIPESIZE = r
  <2>1. ((UINT * q) + ((PIPESIZE * j) + r)) % PIPESIZE = r
    BY Zenon, Wraps
  <2> QED
    BY Zenon, <2>1, <1>4
<1> QED
  BY Zenon, <1>2, <1>3, <1>5 DEF Cell, Index

\* Wrapping a counter does not move the cells that follow it.
LEMMA CellShift ==
    ASSUME NEW a \in Nat, NEW i \in Nat
    PROVE  Cell((a % UINT) + i) = Cell(a + i)
<1>1. UINT > 0 /\ UINT \in Int
  BY Sizes
<1>2. PICK q \in Int, u \in 0 .. UINT - 1 : u = a % UINT /\ a = (UINT * q) + u
  BY Zenon, Sizes, <1>1, Division
<1>3. UINT * q \in Int /\ u + i \in Nat /\ a + i \in Nat
  BY Sizes
<1>4. PICK j \in Int, r \in 0 .. PIPESIZE - 1 :
         r = (u + i) % PIPESIZE /\ u + i = (PIPESIZE * j) + r
  BY Zenon, Sizes, <1>3, Division
<1>5. a + i = (UINT * q) + (u + i)
  BY <1>2, <1>3
<1>6. a + i = (UINT * q) + ((PIPESIZE * j) + r)
  BY Zenon, <1>4, <1>5
<1>7. (a + i) % PIPESIZE = r
  <2>1. ((UINT * q) + ((PIPESIZE * j) + r)) % PIPESIZE = r
    BY Zenon, Wraps
  <2> QED
    BY Zenon, <2>1, <1>6
<1> QED
  BY Zenon, <1>2, <1>4, <1>3, <1>7, CellMod

\* The cells of PIPESIZE bytes in a row are different.
LEMMA CellDistinct ==
    ASSUME NEW a \in Nat, NEW b \in Nat, a < b, b < a + PIPESIZE
    PROVE  Cell(a) # Cell(b)
BY Zenon, Sizes, CellMod, ModDistinct

\* A sum and a difference in the arithmetic of uint.
LEMMA SumMod ==
    ASSUME NEW x \in 0 .. UINT - 1, NEW k \in 0 .. UINT - 1
    PROVE  /\ (x + k) % UINT = (IF x + k < UINT THEN x + k ELSE x + k - UINT)
           /\ (x - k) % UINT = (IF x >= k THEN x - k ELSE x - k + UINT)
           /\ (x + k) % UINT \in 0 .. UINT - 1 /\ (x - k) % UINT \in 0 .. UINT - 1
BY Sizes

\* What the difference of two counters says of them.
LEMMA Difference ==
    ASSUME NEW r \in 0 .. UINT - 1, NEW w \in 0 .. UINT - 1
    PROVE  /\ (w - r) % UINT \in 0 .. UINT - 1
           /\ w = (r + ((w - r) % UINT)) % UINT
           /\ (w - r) % UINT = 0 <=> r = w
           /\ (w - r) % UINT = PIPESIZE <=> w = (r + PIPESIZE) % UINT
<1> DEFINE d == (w - r) % UINT
           e == (r + d) % UINT
           f == (r + PIPESIZE) % UINT
<1>1. d = (IF w >= r THEN w - r ELSE w - r + UINT) /\ d \in 0 .. UINT - 1
  BY Zenon, SumMod
<1> HIDE DEF d
<1>2. PIPESIZE \in 0 .. UINT - 1
  BY Sizes
<1>3. /\ e = (IF r + d < UINT THEN r + d ELSE r + d - UINT)
      /\ f = (IF r + PIPESIZE < UINT THEN r + PIPESIZE ELSE r + PIPESIZE - UINT)
  BY Zenon, <1>1, <1>2, SumMod
<1> HIDE DEF e, f
<1>4. w = e /\ (d = 0 <=> r = w) /\ (d = PIPESIZE <=> w = f)
  BY <1>1, <1>2, <1>3, Sizes
<1> QED
  BY Zenon, <1>1, <1>4 DEF d, e, f

\* Advancing one of the counters.
LEMMA Advance ==
    ASSUME NEW r \in 0 .. UINT - 1, NEW w \in 0 .. UINT - 1, NEW n \in 0 .. UINT - 1
    PROVE  /\ (r + n) % UINT \in 0 .. UINT - 1
           /\ ((w - r) % UINT) + n < UINT => (((w + n) % UINT) - r) % UINT = ((w - r) % UINT) + n
           /\ n <= (w - r) % UINT => (w - ((r + n) % UINT)) % UINT = ((w - r) % UINT) - n
<1> DEFINE d == (w - r) % UINT
           e == (r + n) % UINT
           f == (w + n) % UINT
           g == (f - r) % UINT
           h == (w - e) % UINT
<1>1. /\ d = (IF w >= r THEN w - r ELSE w - r + UINT)
      /\ e = (IF r + n < UINT THEN r + n ELSE r + n - UINT) /\ e \in 0 .. UINT - 1
      /\ f = (IF w + n < UINT THEN w + n ELSE w + n - UINT) /\ f \in 0 .. UINT - 1
  BY Zenon, SumMod
<1> HIDE DEF e, f
<1>2. /\ g = (IF f >= r THEN f - r ELSE f - r + UINT)
      /\ h = (IF w >= e THEN w - e ELSE w - e + UINT)
  BY Zenon, <1>1, SumMod
<1> HIDE DEF d, g, h
<1>3. /\ d + n < UINT => g = d + n
      /\ n <= d => h = d - n
  BY <1>1, <1>2, Sizes
<1> QED
  BY Zenon, <1>1, <1>3 DEF d, e, f, g, h

\* The smaller of two numbers.
LEMMA MinPair ==
    ASSUME NEW a \in Nat, NEW b \in Nat
    PROVE  Min({a, b}) = IF a <= b THEN a ELSE b
BY DEF Min

\* A function on 1 .. n is a sequence.
LEMMA FunctionSeq ==
    ASSUME NEW S, NEW n \in Nat, NEW s \in [1 .. n -> S]
    PROVE  s \in Seq(S) /\ Len(s) = n
OBVIOUS

\* The elements of a concatenation.
LEMMA Concatenation ==
    ASSUME NEW S, NEW a \in Seq(S), NEW b \in Seq(S)
    PROVE  /\ a \o b \in Seq(S) /\ Len(a \o b) = Len(a) + Len(b)
           /\ \A i \in 1 .. Len(a) : (a \o b)[i] = a[i]
           /\ \A i \in 1 .. Len(b) : (a \o b)[Len(a) + i] = b[i]
OBVIOUS

\* The elements of what is left of a sequence.
LEMMA Rest ==
    ASSUME NEW S, NEW a \in Seq(S), NEW n \in 0 .. Len(a)
    PROVE  LET b == SubSeq(a, n + 1, Len(a))
           IN  /\ b \in Seq(S) /\ Len(b) = Len(a) - n
               /\ \A i \in 1 .. Len(a) - n : b[i] = a[n + i]
OBVIOUS

-----------------------------------------------------------------------------
(***************************************************************************)
(* The ring.                                                               *)
(***************************************************************************)
\* The ring holds at most PIPESIZE bytes, and they are the ones in transit.
RingInv ==
    /\ nread \in 0 .. UINT - 1 /\ nwrite \in 0 .. UINT - 1
    /\ data \in [Index -> Byte] /\ flight \in Seq(Byte)
    /\ Used <= PIPESIZE /\ Len(flight) = Used
    /\ \A i \in 1 .. Len(flight) : flight[i] = data[Cell(nread + i - 1)]

\* The counters, as long as the ring is right.
LEMMA RingCounts ==
    ASSUME RingInv
    PROVE  /\ Used \in 0 .. PIPESIZE
           /\ Used = 0 <=> Empty
           /\ Used = PIPESIZE <=> Full
           /\ Used = 0 <=> flight = <<>>
           /\ nwrite = (nread + Used) % UINT
<1>1. /\ Used \in 0 .. UINT - 1
      /\ Used = 0 <=> Empty
      /\ Used = PIPESIZE <=> Full
      /\ nwrite = (nread + Used) % UINT
  BY Zenon, Difference DEF RingInv, Used, Empty, Full
<1>2. Used = 0 <=> flight = <<>>
  BY DEF RingInv
<1>3. Used \in 0 .. PIPESIZE
  BY <1>1, Sizes DEF RingInv
<1> QED
  BY Zenon, <1>1, <1>2, <1>3

\* The bytes of a write go behind the ones in the ring, into cells that hold
\* none of them.
LEMMA StoreStep ==
    ASSUME RingInv, NEW n \in Nat, n <= PIPESIZE - Used, NEW s \in [1 .. n -> Byte],
           Store(s, n), nread' = nread
    PROVE  RingInv' /\ Used' = Used + n
<1>1. Used \in 0 .. PIPESIZE /\ nwrite = (nread + Used) % UINT
  BY Zenon, RingCounts
<1>2. /\ nread \in 0 .. UINT - 1 /\ nwrite \in 0 .. UINT - 1
      /\ data \in [Index -> Byte] /\ flight \in Seq(Byte) /\ Len(flight) = Used
  BY Zenon DEF RingInv
<1>3. n \in 0 .. UINT - 1 /\ Used + n < UINT /\ n <= PIPESIZE /\ Used + n <= PIPESIZE
  BY <1>1, Sizes
<1>4. nwrite' \in 0 .. UINT - 1 /\ Used' = Used + n
  <2>1. nwrite' = (nwrite + n) % UINT
    BY Zenon DEF Store
  <2> QED
    BY Zenon, <1>2, <1>3, <2>1, Advance DEF Used
<1>5. \A i \in 1 .. n : Cell(nwrite + i - 1) = Cell(nread + Used + i - 1) /\ Cell(nwrite + i - 1) \in Index
  <2> SUFFICES ASSUME NEW i \in 1 .. n
               PROVE  Cell(nwrite + i - 1) = Cell(nread + Used + i - 1) /\ Cell(nwrite + i - 1) \in Index
    BY Zenon
  <2>1. /\ nread + Used \in Nat /\ i - 1 \in Nat /\ nwrite \in Int
        /\ nwrite + i - 1 = nwrite + (i - 1) /\ nwrite + (i - 1) \in Nat
        /\ nread + Used + i - 1 = (nread + Used) + (i - 1)
    BY <1>1, <1>2
  <2>2. Cell(((nread + Used) % UINT) + (i - 1)) = Cell((nread + Used) + (i - 1))
    BY Zenon, <2>1, CellShift
  <2> QED
    BY Zenon, <1>1, <2>1, <2>2, CellMod
<1>6. \A i, j \in 1 .. Used + n : Cell(nread + i - 1) = Cell(nread + j - 1) => i = j
  <2> SUFFICES ASSUME NEW i \in 1 .. Used + n, NEW j \in 1 .. Used + n, i < j
               PROVE  Cell(nread + i - 1) # Cell(nread + j - 1)
    BY <1>1
  <2>1. /\ nread + i - 1 \in Nat /\ nread + j - 1 \in Nat
        /\ nread + i - 1 < nread + j - 1 /\ nread + j - 1 < nread + i - 1 + PIPESIZE
    BY <1>1, <1>2, <1>3, Sizes
  <2> QED
    BY Zenon, <2>1, CellDistinct
<1> DEFINE at(c) == {i \in 1 .. n : Cell(nwrite + i - 1) = c}
<1>7. data' = [c \in Index |-> IF at(c) = {} THEN data[c] ELSE s[Max(at(c))]]
  BY Zenon DEF Store
<1>8. \A i \in 1 .. Used : LET c == Cell(nread + i - 1) IN c \in Index /\ at(c) = {}
  <2> SUFFICES ASSUME NEW i \in 1 .. Used
               PROVE  Cell(nread + i - 1) \in Index /\ at(Cell(nread + i - 1)) = {}
    BY Zenon
  <2>1. nread + i - 1 \in Nat
    BY <1>1, <1>2
  <2>2. ASSUME NEW k \in 1 .. n PROVE Cell(nwrite + k - 1) # Cell(nread + i - 1)
    <3>1. /\ Used + k \in 1 .. Used + n /\ i \in 1 .. Used + n /\ Used + k # i
          /\ nread + (Used + k) - 1 = nread + Used + k - 1
      BY <1>1, <1>2
    <3> QED
      BY Zenon, <1>5, <1>6, <3>1
  <2> QED
    BY Zenon, <2>1, <2>2, CellMod
<1>9. \A i \in 1 .. n : LET c == Cell(nread + (Used + i) - 1)
                        IN  c \in Index /\ at(c) = {i} /\ Max(at(c)) = i
  <2> SUFFICES ASSUME NEW i \in 1 .. n
               PROVE  LET c == Cell(nread + (Used + i) - 1)
                      IN  c \in Index /\ at(c) = {i} /\ Max(at(c)) = i
    BY Zenon
  <2>1. \A k \in 1 .. n : /\ Used + k \in 1 .. Used + n /\ (Used + k = Used + i <=> k = i)
                          /\ nread + (Used + k) - 1 = nread + Used + k - 1
    BY <1>1, <1>2
  <2>2. \A k \in 1 .. n : Cell(nwrite + k - 1) = Cell(nread + (Used + i) - 1) <=> k = i
    <3> SUFFICES ASSUME NEW k \in 1 .. n
                 PROVE  Cell(nwrite + k - 1) = Cell(nread + (Used + i) - 1) <=> k = i
      BY Zenon
    <3>1. Cell(nwrite + k - 1) = Cell(nread + (Used + k) - 1)
      BY Zenon, <1>5, <2>1
    <3>2. Cell(nread + (Used + k) - 1) = Cell(nread + (Used + i) - 1) => Used + k = Used + i
      BY Zenon, <1>6, <2>1
    <3> QED
      BY Zenon, <2>1, <3>1, <3>2
  <2>3. at(Cell(nread + (Used + i) - 1)) = {i}
    BY Zenon, <2>2
  <2>4. Max({i}) = i
    BY DEF Max
  <2>5. Cell(nread + (Used + i) - 1) \in Index
    BY Zenon, <1>5, <2>2
  <2> QED
    BY Zenon, <2>3, <2>4, <2>5
<1>10. data' \in [Index -> Byte]
  <2> SUFFICES ASSUME NEW c \in Index
               PROVE  (IF at(c) = {} THEN data[c] ELSE s[Max(at(c))]) \in Byte
    BY Zenon, <1>7
  <2>1. CASE at(c) = {}
    BY Zenon, <1>2, <2>1
  <2>2. ASSUME NEW i \in at(c) PROVE s[Max(at(c))] \in Byte
    <3>1. i \in 1 .. n /\ c = Cell(nread + (Used + i) - 1)
      <4>1. i \in 1 .. n /\ Cell(nwrite + i - 1) = c
        BY Zenon, <2>2
      <4>2. nread + (Used + i) - 1 = nread + Used + i - 1
        BY <1>1, <1>2, <4>1
      <4> QED
        BY Zenon, <1>5, <4>1, <4>2
    <3> QED
      BY Zenon, <1>9, <3>1
  <2> QED
    BY Zenon, <2>1, <2>2
<1> HIDE DEF at
<1>11. /\ s \in Seq(Byte) /\ Len(s) = n
  BY FunctionSeq
<1>12. /\ flight' \in Seq(Byte) /\ Len(flight') = Used'
       /\ \A i \in 1 .. Used : flight'[i] = flight[i]
       /\ \A i \in 1 .. n : flight'[Used + i] = s[i]
  <2>1. flight' = flight \o s
    BY Zenon DEF Store
  <2>2. /\ flight \o s \in Seq(Byte) /\ Len(flight \o s) = Len(flight) + Len(s)
        /\ \A i \in 1 .. Len(flight) : (flight \o s)[i] = flight[i]
        /\ \A i \in 1 .. Len(s) : (flight \o s)[Len(flight) + i] = s[i]
    <3>1. flight \in Seq(Byte) /\ s \in Seq(Byte)
      BY Zenon, <1>2, <1>11
    <3> QED
      BY ONLY <3>1, Concatenation
  <2> QED
    BY Zenon, <1>2, <1>4, <1>11, <2>1, <2>2
<1>13. ASSUME NEW i \in 1 .. Len(flight') PROVE flight'[i] = data'[Cell(nread' + i - 1)]
  <2>1. CASE i \in 1 .. Used
    BY Zenon, <2>1, <1>2, <1>7, <1>8, <1>12 DEF RingInv
  <2>2. CASE i \notin 1 .. Used
    <3>1. i - Used \in 1 .. n /\ Used + (i - Used) = i
      BY <1>1, <1>3, <1>4, <1>12, <2>2
    <3>2. at(Cell(nread + i - 1)) # {} /\ Cell(nread + i - 1) \in Index
          /\ Max(at(Cell(nread + i - 1))) = i - Used
      BY Zenon, <1>9, <3>1
    <3> QED
      BY Zenon, <1>7, <1>12, <3>1, <3>2
  <2> QED
    BY Zenon, <2>1, <2>2
<1> QED
  BY Zenon, <1>2, <1>3, <1>4, <1>10, <1>12, <1>13 DEF RingInv

\* A read takes bytes from the front and leaves the others where they are.
LEMMA ReadStep ==
    ASSUME RingInv, NEW n \in Nat, n <= Used,
           nread' = (nread + n) % UINT, flight' = SubSeq(flight, n + 1, Len(flight)),
           UNCHANGED <<nwrite, data>>
    PROVE  RingInv' /\ Used' = Used - n
<1>1. Used \in 0 .. PIPESIZE
  BY Zenon, RingCounts
<1>2. /\ nread \in 0 .. UINT - 1 /\ nwrite \in 0 .. UINT - 1
      /\ data \in [Index -> Byte] /\ flight \in Seq(Byte) /\ Len(flight) = Used
  BY Zenon DEF RingInv
<1>3. n \in 0 .. UINT - 1 /\ n \in 0 .. Len(flight) /\ Used - n <= PIPESIZE
  BY <1>1, <1>2, Sizes
<1>4. nread' \in 0 .. UINT - 1 /\ Used' = Used - n
  <2>1. /\ (nread + n) % UINT \in 0 .. UINT - 1
        /\ n <= (nwrite - nread) % UINT =>
              (nwrite - ((nread + n) % UINT)) % UINT = ((nwrite - nread) % UINT) - n
    BY <1>2, <1>3, Advance
  <2> QED
    BY Zenon, <2>1 DEF Used
<1>5. /\ flight' \in Seq(Byte) /\ Len(flight') = Used - n
      /\ \A i \in 1 .. Used - n : flight'[i] = flight[n + i]
  BY Zenon, <1>2, <1>3, Rest
<1>6. ASSUME NEW i \in 1 .. Len(flight') PROVE flight'[i] = data'[Cell(nread' + i - 1)]
  <2>1. /\ i \in 1 .. Used - n /\ n + i \in 1 .. Len(flight) /\ i - 1 \in Nat /\ nread + n \in Nat
        /\ nread' + i - 1 = ((nread + n) % UINT) + (i - 1)
        /\ nread + (n + i) - 1 = (nread + n) + (i - 1)
    <3>1. nread \in Nat /\ nread' \in Nat /\ n \in Nat /\ Used \in Nat /\ n <= Used /\ i \in 1 .. Used - n
      BY <1>1, <1>2, <1>3, <1>4, <1>5
    <3>2. nread' = (nread + n) % UINT /\ Len(flight) = Used
      BY Zenon, <1>1, <1>2, <1>3
    <3>3. /\ n + i \in 1 .. Used /\ i - 1 \in Nat /\ nread + n \in Nat
          /\ nread' + i - 1 = nread' + (i - 1)
          /\ nread + (n + i) - 1 = (nread + n) + (i - 1)
      BY ONLY <3>1
    <3> QED
      BY Zenon, <3>1, <3>2, <3>3
  <2>2. Cell(nread' + i - 1) = Cell(nread + (n + i) - 1)
    BY Zenon, <2>1, CellShift
  <2>3. flight[n + i] = data[Cell(nread + (n + i) - 1)]
    BY Zenon, <2>1 DEF RingInv
  <2> QED
    BY Zenon, <1>5, <2>1, <2>2, <2>3
<1> QED
  BY Zenon, <1>2, <1>3, <1>4, <1>5, <1>6 DEF RingInv

-----------------------------------------------------------------------------
(***************************************************************************)
(* The calls in progress.                                                  *)
(***************************************************************************)
\* A call in piperead or pipewrite has bytes left to read or to write.
CallInv ==
    /\ pc \in [Thread -> PC] /\ count \in [Thread -> Nat]
    /\ \A t \in Thread : pc[t] \in {"call", "sleep"} \X {"read"} => count[t] > 0

StreamInv == RingInv /\ CallInv /\ SleepsForAReason

\* Places are different when their steps are.
LEMMA Places ==
    /\ \A a, e, b, f : <<a, e>> = <<b, f>> => a = b /\ e = f
    /\ \A a \in {"call", "sleep", "fileclose", "pipeclose"}, e \in End : <<a, e>> \in PC /\ <<a, e>> # Out
    /\ Out \in PC
BY DEF PC, Out

\* What Go does to the places.
LEMMA GoPlaces ==
    ASSUME pc \in [Thread -> PC], NEW t \in Thread, NEW e \in End,
           NEW a \in {"out", "call", "sleep", "fileclose", "pipeclose"}
    PROVE  /\ Go(t, a, e) \in [Thread -> PC]
           /\ Go(t, a, e)[t] = (IF a = "out" THEN Out ELSE <<a, e>>)
           /\ \A u \in Thread : u # t => Go(t, a, e)[u] = pc[u]
<1>1. (IF a = "out" THEN Out ELSE <<a, e>>) \in PC
  BY Zenon, Places
<1> QED
  BY Zenon, <1>1 DEF Go

\* What Wakeup does to the places.
LEMMA WakeupPlaces ==
    ASSUME NEW p \in [Thread -> PC], NEW f \in End
    PROVE  /\ Wakeup(p, f) \in [Thread -> PC]
           /\ \A u \in Thread :
                 Wakeup(p, f)[u] = (IF p[u] = <<"sleep", f>> THEN <<"call", f>> ELSE p[u])
<1>1. <<"call", f>> \in PC
  BY Zenon, Places
<1> QED
  BY Zenon, <1>1 DEF Wakeup

\* A step that leaves the ring alone.
LEMMA RingKept ==
    ASSUME RingInv, UNCHANGED <<nread, nwrite, data, flight>>
    PROVE  RingInv' /\ Used' = Used
BY Zenon DEF RingInv, Used

\* A step that puts nobody to sleep, and changes nothing that sleepers wait for.
LEMMA SleepsKept ==
    ASSUME SleepsForAReason, UNCHANGED <<nread, nwrite, open, gaveUp>>,
           \A u \in Thread, e \in End : pc'[u] = <<"sleep", e>> => pc'[u] = pc[u]
    PROVE  SleepsForAReason'
BY Zenon DEF SleepsForAReason, Full, Empty, End

\* A step of t that starts no call: nobody else is moved, but for a wakeup.
LEMMA CallsKept ==
    ASSUME CallInv, pc' \in [Thread -> PC], count' \in [Thread -> Nat],
           \A u \in Thread : pc'[u] \in {"call", "sleep"} \X {"read"} =>
               pc[u] \in {"call", "sleep"} \X {"read"} /\ count'[u] = count[u]
    PROVE  CallInv'
BY Zenon DEF CallInv

\* The first state.
LEMMA StreamInit == Init => StreamInv
<1> SUFFICES ASSUME Init PROVE StreamInv
  BY Zenon
<1>1. RingInv
  <2>1. nread = 0 /\ nwrite = 0 /\ flight = <<>> /\ data \in [Index -> Byte]
    BY Zenon DEF Init
  <2>2. Used = 0
    BY Sizes, <2>1 DEF Used
  <2> QED
    BY Sizes, <2>1, <2>2 DEF RingInv
<1>2. CallInv
  BY Places DEF Init, CallInv, Out
<1>3. SleepsForAReason
  BY DEF Init, SleepsForAReason, Out
<1> QED
  BY Zenon, <1>1, <1>2, <1>3 DEF StreamInv

\* pipealloc: a new pipe is empty, and nobody uses it.
LEMMA StreamAlloc ==
    ASSUME StreamInv, NEW t \in Thread, PipeAlloc(t)
    PROVE  StreamInv'
<1>1. /\ nread' = 0 /\ nwrite' = 0 /\ flight' = <<>> /\ data' = data /\ pc' = pc /\ count' = count
      /\ \A u \in Thread : pc[u] = Out
  BY Zenon DEF PipeAlloc
<1>2. RingInv'
  <2>1. data' \in [Index -> Byte]
    BY Zenon, <1>1 DEF StreamInv, RingInv
  <2>2. Used' = 0
    BY Sizes, <1>1 DEF Used
  <2> QED
    BY Sizes, <1>1, <2>1, <2>2 DEF RingInv
<1>3. CallInv'
  BY Zenon, <1>1 DEF StreamInv, CallInv
<1>4. SleepsForAReason'
  BY <1>1 DEF SleepsForAReason, Out
<1> QED
  BY Zenon, <1>2, <1>3, <1>4 DEF StreamInv

\* fork and the steps of close before pipeclose do not touch the ring.
LEMMA StreamAside ==
    ASSUME StreamInv, NEW t \in Thread, NEW e \in End,
           \/ \E q \in Process : Fork(t, q)
           \/ Close(t, e) \/ FileClose(t, e)
    PROVE  StreamInv'
<1>1. /\ UNCHANGED <<nread, nwrite, data, flight, open, gaveUp, count>>
      /\ \/ pc' = pc
         \/ \E a \in {"out", "fileclose", "pipeclose"} : pc' = Go(t, a, e)
  BY Zenon DEF Fork, Close, FileClose, pipe
<1>2. /\ pc' \in [Thread -> PC]
      /\ \A u \in Thread : \/ pc'[u] = pc[u]
                           \/ pc'[u] \in {Out} \union ({"fileclose", "pipeclose"} \X {e})
  <2>1. pc \in [Thread -> PC]
    BY Zenon DEF StreamInv, CallInv
  <2>2. CASE pc' = pc
    BY Zenon, <2>1, <2>2
  <2>3. ASSUME NEW a \in {"out", "fileclose", "pipeclose"}, pc' = Go(t, a, e)
        PROVE  <1>2
    <3>1. /\ Go(t, a, e) \in [Thread -> PC]
          /\ Go(t, a, e)[t] = (IF a = "out" THEN Out ELSE <<a, e>>)
          /\ \A u \in Thread : u # t => Go(t, a, e)[u] = pc[u]
      <4>1. a \in {"out", "call", "sleep", "fileclose", "pipeclose"}
        BY <2>3
      <4> QED
        BY Zenon, <2>1, <4>1, GoPlaces
    <3>2. a # "out" => <<a, e>> \in {"fileclose", "pipeclose"} \X {e}
      BY <2>3
    <3> QED
      BY Zenon, <2>3, <3>1, <3>2
  <2> QED
    BY Zenon, <1>1, <2>2, <2>3
<1>3. \A u \in Thread : pc'[u] \in {"call", "sleep"} \X End => pc'[u] = pc[u]
  BY <1>2 DEF Out
<1>4. SleepsForAReason'
  <2>1. \A u \in Thread, f \in End : pc'[u] = <<"sleep", f>> => pc'[u] = pc[u]
    BY <1>3
  <2> QED
    BY Zenon, <1>1, <2>1, SleepsKept DEF StreamInv
<1>5. CallInv'
  <2>1. \A u \in Thread : pc'[u] \in {"call", "sleep"} \X {"read"} => pc'[u] = pc[u]
    BY <1>3 DEF End
  <2> QED
    BY Zenon, <1>1, <1>2, <2>1 DEF StreamInv, CallInv
<1> QED
  BY Zenon, <1>1, <1>4, <1>5, RingKept DEF StreamInv

\* sys_read and sys_write start with bytes to move.
LEMMA StreamCall ==
    ASSUME StreamInv, NEW t \in Thread, NEW e \in End, Call(t, e)
    PROVE  StreamInv'
<1>1. /\ UNCHANGED <<nread, nwrite, data, flight, open, gaveUp>> /\ pc' = Go(t, "call", e)
  BY Zenon DEF Call, pipe
<1>2. PICK n \in ReadCounts \union WriteCounts : count' = [count EXCEPT ![t] = n]
  BY Zenon DEF Call
<1>3. pc \in [Thread -> PC] /\ count \in [Thread -> Nat]
  BY Zenon DEF StreamInv, CallInv
<1>4. pc' \in [Thread -> PC] /\ pc'[t] = <<"call", e>> /\ \A u \in Thread : u # t => pc'[u] = pc[u]
  BY Zenon, <1>1, <1>3, GoPlaces, "call" # "out"
<1>5. n \in Nat /\ n > 0
  BY PipeAssumption
<1>6. count' \in [Thread -> Nat] /\ count'[t] > 0 /\ \A u \in Thread : u # t => count'[u] = count[u]
  BY <1>2, <1>3, <1>5
<1>7. SleepsForAReason'
  <2>1. \A u \in Thread, f \in End : pc'[u] = <<"sleep", f>> => pc'[u] = pc[u]
    BY Zenon, <1>4, Places, "call" # "sleep"
  <2> QED
    BY Zenon, <1>1, <2>1, SleepsKept DEF StreamInv
<1>8. CallInv'
  BY Zenon, <1>4, <1>6 DEF StreamInv, CallInv
<1> QED
  BY Zenon, <1>1, <1>7, <1>8, RingKept DEF StreamInv

\* pipewrite: what fits is stored; whoever sleeps or is done wakes the readers,
\* and who sleeps has filled the ring.
LEMMA StreamWrite ==
    ASSUME StreamInv, NEW t \in Thread, PipeWrite(t)
    PROVE  StreamInv'
<1> DEFINE n == Min({count[t], PIPESIZE - Used})
           done == n = count[t]
           giveUp == ~done /\ ("read" \notin open \/ ProcOf[t] \in killed)
<1>1. RingInv /\ CallInv /\ SleepsForAReason /\ pc \in [Thread -> PC] /\ count \in [Thread -> Nat]
  BY Zenon DEF StreamInv, CallInv
<1>2. Used \in 0 .. PIPESIZE /\ (Used = 0 <=> Empty) /\ (Used = PIPESIZE <=> Full)
  BY Zenon, <1>1, RingCounts
<1>3. /\ n \in Nat /\ n <= count[t] /\ n <= PIPESIZE - Used
      /\ ~done => n = PIPESIZE - Used
  <2>1. count[t] \in Nat /\ PIPESIZE - Used \in Nat
    BY <1>1, <1>2, Sizes
  <2>2. n = IF count[t] <= PIPESIZE - Used THEN count[t] ELSE PIPESIZE - Used
    BY Zenon, <2>1, MinPair
  <2> HIDE DEF n
  <2> QED
    BY <2>1, <2>2
<1>4. /\ pc[t] = <<"call", "write">>
      /\ \E s \in [1 .. n -> Byte] : Store(s, n)
      /\ count' = [count EXCEPT ![t] = IF giveUp THEN 0 ELSE @ - n]
      /\ pc' = IF done THEN Wakeup(Go(t, "out", "write"), "read")
               ELSE IF giveUp THEN Go(t, "out", "write")
               ELSE Wakeup(Go(t, "sleep", "write"), "read")
      /\ gaveUp' = giveUp
      /\ nread' = nread /\ open' = open
  BY Zenon DEF PipeWrite
<1> HIDE DEF n, done, giveUp
<1>5. RingInv' /\ Used' = Used + n
  BY Zenon, <1>1, <1>3, <1>4, StoreStep
<1>6. (Used' = 0 <=> Empty') /\ (Used' = PIPESIZE <=> Full')
  BY Zenon, <1>5, Difference DEF RingInv, Used, Empty, Full
<1>7. count' \in [Thread -> Nat] /\ \A u \in Thread : u # t => count'[u] = count[u]
  <2>1. (IF giveUp THEN 0 ELSE count[t] - n) \in Nat
    BY <1>1, <1>3
  <2> QED
    BY Zenon, <1>1, <1>4, <2>1
<1>8. /\ pc' \in [Thread -> PC]
      /\ pc'[t] \in {Out, <<"sleep", "write">>}
      /\ pc'[t] = <<"sleep", "write">> => ~done /\ ~giveUp
      /\ \A u \in Thread : u # t => pc'[u] = pc[u] \/ (pc[u] = <<"sleep", "read">> /\ pc'[u] = <<"call", "read">>)
      /\ \A u \in Thread : pc'[u] = <<"sleep", "read">> => giveUp
  <2> DEFINE out == Go(t, "out", "write")
             asleep == Go(t, "sleep", "write")
  <2>1. /\ out \in [Thread -> PC] /\ out[t] = Out /\ \A u \in Thread : u # t => out[u] = pc[u]
        /\ asleep \in [Thread -> PC] /\ asleep[t] = <<"sleep", "write">>
        /\ \A u \in Thread : u # t => asleep[u] = pc[u]
    BY Zenon, <1>1, GoPlaces, "sleep" # "out" DEF End
  <2> HIDE DEF out, asleep
  <2>2. "read" \in End /\ <<"sleep", "write">> # <<"sleep", "read">> /\ Out # <<"sleep", "read">>
        /\ <<"call", "read">> # <<"sleep", "read">> /\ Out # <<"sleep", "write">>
    BY DEF End, Out
  <2>3. CASE done
    <3>1. pc' = Wakeup(out, "read")
      BY Zenon, <1>4, <2>3 DEF out
    <3>2. /\ pc' \in [Thread -> PC]
          /\ \A u \in Thread :
                pc'[u] = (IF out[u] = <<"sleep", "read">> THEN <<"call", "read">> ELSE out[u])
      BY Zenon, <2>1, <2>2, <3>1, WakeupPlaces
    <3> QED
      BY Zenon, <2>1, <2>2, <2>3, <3>2
  <2>4. CASE ~done /\ giveUp
    <3>1. pc' = out
      BY Zenon, <1>4, <2>4 DEF out
    <3> QED
      BY Zenon, <2>1, <2>2, <2>4, <3>1
  <2>5. CASE ~done /\ ~giveUp
    <3>1. pc' = Wakeup(asleep, "read")
      BY Zenon, <1>4, <2>5 DEF asleep
    <3>2. /\ pc' \in [Thread -> PC]
          /\ \A u \in Thread :
                pc'[u] = (IF asleep[u] = <<"sleep", "read">> THEN <<"call", "read">> ELSE asleep[u])
      BY Zenon, <2>1, <2>2, <3>1, WakeupPlaces
    <3> QED
      BY Zenon, <2>1, <2>2, <2>5, <3>2
  <2> QED
    BY Zenon, <2>3, <2>4, <2>5
<1>9. CallInv'
  <2>1. \A u \in Thread : pc'[u] \in {"call", "sleep"} \X {"read"} =>
           pc[u] \in {"call", "sleep"} \X {"read"} /\ count'[u] = count[u]
    <3>1. /\ Out \notin {"call", "sleep"} \X {"read"}
          /\ <<"sleep", "write">> \notin {"call", "sleep"} \X {"read"}
          /\ <<"sleep", "read">> \in {"call", "sleep"} \X {"read"}
      BY DEF Out
    <3> QED
      BY Zenon, <1>7, <1>8, <3>1
  <2> QED
    BY Zenon, <1>1, <1>7, <1>8, <2>1, CallsKept
<1>10. ASSUME NEW u \in Thread, pc'[u] = <<"sleep", "read">>
       PROVE  "write" \in open' /\ (Empty' \/ gaveUp')
  <2>1. u # t /\ pc[u] = <<"sleep", "read">> /\ giveUp
    BY <1>8, <1>10 DEF Out
  <2> QED
    BY Zenon, <1>1, <1>4, <2>1 DEF SleepsForAReason
<1>11. ASSUME NEW u \in Thread, pc'[u] = <<"sleep", "write">>
       PROVE  "read" \in open' /\ Full'
  <2>1. CASE u = t
    <3>1. ~done /\ "read" \in open
      BY Zenon, <1>8, <1>11, <2>1 DEF giveUp
    <3>2. Used' = PIPESIZE
      BY <1>2, <1>3, <1>5, <3>1, Sizes
    <3> QED
      BY Zenon, <1>4, <1>6, <3>1, <3>2
  <2>2. CASE u # t
    <3>1. pc[u] = <<"sleep", "write">>
      BY <1>8, <1>11, <2>2
    <3>2. "read" \in open /\ Used = PIPESIZE
      BY Zenon, <1>1, <1>2, <3>1 DEF SleepsForAReason
    <3>3. Used' = PIPESIZE
      BY <1>2, <1>3, <1>5, <3>2, Sizes
    <3> QED
      BY Zenon, <1>4, <1>6, <3>2, <3>3
  <2> QED
    BY Zenon, <2>1, <2>2
<1>12. SleepsForAReason'
  BY Zenon, <1>10, <1>11 DEF SleepsForAReason
<1> QED
  BY Zenon, <1>5, <1>9, <1>12 DEF StreamInv

\* piperead, up to its sleep: the ring is empty and a writer is left.
LEMMA StreamReadSleep ==
    ASSUME StreamInv, NEW t \in Thread, PipeReadSleep(t)
    PROVE  StreamInv'
<1>1. RingInv /\ CallInv /\ SleepsForAReason /\ pc \in [Thread -> PC] /\ count \in [Thread -> Nat]
  BY Zenon DEF StreamInv, CallInv
<1>2. /\ pc[t] = <<"call", "read">> /\ Empty /\ "write" \in open
      /\ pc' = Go(t, IF ProcOf[t] \in killed THEN "out" ELSE "sleep", "read")
      /\ count' = [count EXCEPT ![t] = IF ProcOf[t] \in killed THEN 0 ELSE count[t]]
      /\ UNCHANGED <<nread, nwrite, data, flight, open, gaveUp>>
  BY Zenon DEF PipeReadSleep, pipe
<1>3. /\ pc' \in [Thread -> PC]
      /\ pc'[t] = (IF ProcOf[t] \in killed THEN Out ELSE <<"sleep", "read">>)
      /\ \A u \in Thread : u # t => pc'[u] = pc[u]
  <2>1. "read" \in End /\ "sleep" # "out"
    BY DEF End
  <2>2. CASE ProcOf[t] \in killed
    BY Zenon, <1>1, <1>2, <2>1, <2>2, GoPlaces
  <2>3. CASE ProcOf[t] \notin killed
    <3>1. pc' = Go(t, "sleep", "read")
      BY Zenon, <1>2, <2>3
    <3>2. /\ Go(t, "sleep", "read") \in [Thread -> PC]
          /\ Go(t, "sleep", "read")[t] = (IF "sleep" = "out" THEN Out ELSE <<"sleep", "read">>)
          /\ \A u \in Thread : u # t => Go(t, "sleep", "read")[u] = pc[u]
      BY Zenon, <1>1, <2>1, GoPlaces
    <3> QED
      BY Zenon, <2>1, <2>3, <3>1, <3>2
  <2> QED
    BY Zenon, <2>2, <2>3
<1>4. /\ count' \in [Thread -> Nat]
      /\ ProcOf[t] \notin killed => count'[t] = count[t]
      /\ \A u \in Thread : u # t => count'[u] = count[u]
  BY <1>1, <1>2
<1>5. /\ Out \notin {"call", "sleep"} \X {"read"} /\ <<"call", "read">> \in {"call", "sleep"} \X {"read"}
      /\ Out # <<"sleep", "read">> /\ Out # <<"sleep", "write">>
      /\ <<"sleep", "read">> # <<"sleep", "write">>
  BY DEF Out
<1>6. CallInv'
  <2>1. \A u \in Thread : pc'[u] \in {"call", "sleep"} \X {"read"} =>
           pc[u] \in {"call", "sleep"} \X {"read"} /\ count'[u] = count[u]
    BY Zenon, <1>2, <1>3, <1>4, <1>5
  <2> QED
    BY Zenon, <1>1, <1>3, <1>4, <2>1, CallsKept
<1>7. SleepsForAReason'
  <2>1. (Empty' <=> Empty) /\ (Full' <=> Full)
    BY Zenon, <1>2 DEF Empty, Full
  <2> QED
    BY Zenon, <1>1, <1>2, <1>3, <1>5, <2>1 DEF SleepsForAReason
<1> QED
  BY Zenon, <1>1, <1>2, <1>6, <1>7, RingKept DEF StreamInv

\* piperead, the copy: it wakes the writers, and takes nothing when the ring is
\* empty, so that readers who sleep still have a reason.
LEMMA StreamRead ==
    ASSUME StreamInv, NEW t \in Thread, PipeRead(t)
    PROVE  /\ StreamInv'
           /\ flight' = flight => flight = <<>> /\ "write" \notin open
<1> DEFINE n == Min({count[t], Used})
<1>1. RingInv /\ CallInv /\ SleepsForAReason /\ pc \in [Thread -> PC] /\ count \in [Thread -> Nat]
  BY Zenon DEF StreamInv, CallInv
<1>2. Used \in 0 .. PIPESIZE /\ (Used = 0 <=> Empty) /\ (Used = 0 <=> flight = <<>>)
  BY Zenon, <1>1, RingCounts
<1>3. n \in Nat /\ n <= Used /\ n = IF count[t] <= Used THEN count[t] ELSE Used
  <2>1. count[t] \in Nat /\ Used \in Nat
    BY <1>1, <1>2, Sizes
  <2>2. n = IF count[t] <= Used THEN count[t] ELSE Used
    BY Zenon, <2>1, MinPair
  <2> HIDE DEF n
  <2> QED
    BY <2>1, <2>2
<1>4. /\ pc[t] = <<"call", "read">>
      /\ ~(Empty /\ "write" \in open)
      /\ nread' = (nread + n) % UINT
      /\ flight' = SubSeq(flight, n + 1, Len(flight))
      /\ count' = [count EXCEPT ![t] = 0]
      /\ pc' = Wakeup(Go(t, "out", "read"), "write")
      /\ UNCHANGED <<nwrite, data, open, gaveUp>>
  BY Zenon DEF PipeRead
<1> HIDE DEF n
<1>5. RingInv' /\ Used' = Used - n
  BY Zenon, <1>1, <1>3, <1>4, ReadStep
<1>6. Used' = 0 <=> Empty'
  BY Zenon, <1>5, Difference DEF RingInv, Used, Empty, Full
<1>7. /\ pc' \in [Thread -> PC] /\ pc'[t] = Out
      /\ \A u \in Thread : u # t =>
            pc'[u] = (IF pc[u] = <<"sleep", "write">> THEN <<"call", "write">> ELSE pc[u])
  <2> DEFINE out == Go(t, "out", "read")
  <2>1. /\ out \in [Thread -> PC] /\ out[t] = Out /\ \A u \in Thread : u # t => out[u] = pc[u]
    BY Zenon, <1>1, GoPlaces DEF End
  <2>2. pc' = Wakeup(out, "write") /\ "write" \in End
    BY Zenon, <1>4 DEF End
  <2> HIDE DEF out
  <2>3. /\ pc' \in [Thread -> PC]
        /\ \A u \in Thread :
              pc'[u] = (IF out[u] = <<"sleep", "write">> THEN <<"call", "write">> ELSE out[u])
    BY Zenon, <2>1, <2>2, WakeupPlaces
  <2>4. Out # <<"sleep", "write">>
    BY DEF Out
  <2> QED
    BY Zenon, <2>1, <2>3, <2>4
<1>8. /\ Out \notin {"call", "sleep"} \X {"read"} /\ <<"call", "write">> \notin {"call", "sleep"} \X {"read"}
      /\ Out # <<"sleep", "read">> /\ Out # <<"sleep", "write">>
      /\ <<"call", "write">> # <<"sleep", "read">> /\ <<"call", "write">> # <<"sleep", "write">>
      /\ <<"call", "read">> \in {"call", "sleep"} \X {"read"}
  BY DEF Out
<1>9. count' \in [Thread -> Nat] /\ \A u \in Thread : u # t => count'[u] = count[u]
  BY <1>1, <1>4
<1>10. CallInv'
  <2>1. \A u \in Thread : pc'[u] \in {"call", "sleep"} \X {"read"} =>
           pc[u] \in {"call", "sleep"} \X {"read"} /\ count'[u] = count[u]
    BY Zenon, <1>7, <1>8, <1>9
  <2> QED
    BY Zenon, <1>1, <1>7, <1>9, <2>1, CallsKept
<1>11. Empty => Empty'
  BY <1>2, <1>3, <1>5, <1>6
<1>12. SleepsForAReason'
  BY Zenon, <1>1, <1>4, <1>7, <1>8, <1>11 DEF SleepsForAReason
<1>13. ASSUME flight' = flight PROVE flight = <<>> /\ "write" \notin open
  <2>1. Used' = Used
    BY Zenon, <1>1, <1>5, <1>13 DEF RingInv
  <2>2. n = 0
    BY <1>2, <1>3, <1>5, <2>1
  <2>3. count[t] > 0 /\ count[t] \in Nat
    BY Zenon, <1>1, <1>4, <1>8 DEF CallInv
  <2>4. Used = 0
    BY <1>2, <1>3, <2>2, <2>3
  <2> QED
    BY Zenon, <1>2, <1>4, <2>4
<1> QED
  BY Zenon, <1>5, <1>10, <1>12, <1>13 DEF StreamInv

\* pipeclose wakes whoever sleeps for the end that it closes.
LEMMA StreamPipeClose ==
    ASSUME StreamInv, NEW t \in Thread, NEW e \in End, PipeClose(t, e)
    PROVE  StreamInv'
<1>1. RingInv /\ CallInv /\ SleepsForAReason /\ pc \in [Thread -> PC] /\ count \in [Thread -> Nat]
  BY Zenon DEF StreamInv, CallInv
<1>2. /\ open' = open \ {e} /\ pc' = Wakeup(Go(t, "out", e), Other(e))
      /\ UNCHANGED <<data, nread, nwrite, flight, count, gaveUp>>
  BY Zenon DEF PipeClose
<1>3. Other(e) \in End /\ \A f \in End : f # Other(e) => f = e
  BY DEF Other, End
<1>4. /\ pc' \in [Thread -> PC] /\ pc'[t] = Out
      /\ \A u \in Thread : u # t =>
            pc'[u] = (IF pc[u] = <<"sleep", Other(e)>> THEN <<"call", Other(e)>> ELSE pc[u])
  <2> DEFINE out == Go(t, "out", e)
  <2>1. /\ out \in [Thread -> PC] /\ out[t] = Out /\ \A u \in Thread : u # t => out[u] = pc[u]
    BY Zenon, <1>1, GoPlaces
  <2> HIDE DEF out
  <2>2. /\ pc' \in [Thread -> PC]
        /\ \A u \in Thread :
              pc'[u] = (IF out[u] = <<"sleep", Other(e)>> THEN <<"call", Other(e)>> ELSE out[u])
    BY Zenon, <1>2, <1>3, <2>1, WakeupPlaces DEF out
  <2>3. Out # <<"sleep", Other(e)>>
    BY DEF Out
  <2> QED
    BY Zenon, <2>1, <2>2, <2>3
<1>5. /\ \A u \in Thread : pc'[u] \in {"call", "sleep"} \X {"read"} =>
             pc[u] \in {"call", "sleep"} \X {"read"} /\ count'[u] = count[u]
      /\ \A u \in Thread, f \in End : pc'[u] = <<"sleep", f>> => pc[u] = <<"sleep", f>> /\ f = e
  BY <1>2, <1>3, <1>4 DEF Out
<1>6. CallInv'
  BY Zenon, <1>1, <1>2, <1>4, <1>5, CallsKept
<1>7. SleepsForAReason'
  <2>1. (Empty' <=> Empty) /\ (Full' <=> Full)
    BY Zenon, <1>2 DEF Empty, Full
  <2>2. "read" # "write" /\ "read" \in End /\ "write" \in End
    BY DEF End
  <2>3. ASSUME NEW u \in Thread, pc'[u] = <<"sleep", "read">>
        PROVE  "write" \in open' /\ (Empty' \/ gaveUp')
    <3>1. pc[u] = <<"sleep", "read">> /\ e = "read"
      BY Zenon, <1>5, <2>2, <2>3
    <3> QED
      BY Zenon, <1>1, <1>2, <2>1, <2>2, <3>1 DEF SleepsForAReason
  <2>4. ASSUME NEW u \in Thread, pc'[u] = <<"sleep", "write">>
        PROVE  "read" \in open' /\ Full'
    <3>1. pc[u] = <<"sleep", "write">> /\ e = "write"
      BY Zenon, <1>5, <2>2, <2>4
    <3> QED
      BY Zenon, <1>1, <1>2, <2>1, <2>2, <3>1 DEF SleepsForAReason
  <2> QED
    BY Zenon, <2>3, <2>4 DEF SleepsForAReason
<1> QED
  BY Zenon, <1>1, <1>2, <1>6, <1>7, RingKept DEF StreamInv

\* Every step keeps the stream right.
LEMMA StreamStep == StreamInv /\ [Next]_vars => StreamInv'
<1> SUFFICES ASSUME StreamInv, [Next]_vars PROVE StreamInv'
  BY Zenon
<1>1. CASE UNCHANGED vars \/ \E q \in Process : Kill(q)
  <2>1. UNCHANGED <<nread, nwrite, data, flight, open, gaveUp, pc, count>>
    BY Zenon, <1>1 DEF vars, pipe, Kill
  <2> QED
    BY Zenon, <2>1, RingKept, SleepsKept DEF StreamInv, CallInv
<1>2. CASE \E t \in Thread : PipeAlloc(t) \/ PipeWrite(t) \/ PipeReadSleep(t) \/ PipeRead(t)
  BY Zenon, <1>2, StreamAlloc, StreamWrite, StreamReadSleep, StreamRead
<1>3. CASE \E t \in Thread, q \in Process : Fork(t, q)
  <2>1. "read" \in End
    BY Zenon DEF End
  <2> QED
    BY Zenon, <1>3, <2>1, StreamAside
<1>4. CASE \E t \in Thread, e \in End : Call(t, e) \/ Close(t, e) \/ FileClose(t, e) \/ PipeClose(t, e)
  BY Zenon, <1>4, StreamAside, StreamCall, StreamPipeClose
<1> QED
  BY Zenon, <1>1, <1>2, <1>3, <1>4 DEF Next

\* The stream is right in every reachable state.
THEOREM StreamInvariant == Spec => []StreamInv
BY StreamInit, StreamStep, PTL DEF Spec

\* InOrder: piperead takes the bytes in the order in which pipewrite stored
\* them, none lost, overwritten or read twice, also when the counters wrap.
THEOREM BytesInOrder == Spec => []InOrder
<1>1. StreamInv => InOrder
  <2> SUFFICES ASSUME RingInv PROVE Content = flight
    BY Zenon DEF StreamInv, InOrder
  <2>1. flight \in Seq(Byte) /\ Len(flight) = Used
    BY Zenon DEF RingInv
  <2>2. \A i \in 1 .. Used : flight[i] = data[Cell(nread + i - 1)]
    BY Zenon, <2>1 DEF RingInv
  <2>3. flight = [i \in 1 .. Used |-> flight[i]]
    BY <2>1
  <2> QED
    BY Zenon, <2>2, <2>3 DEF Content
<1> QED
  BY <1>1, StreamInvariant, PTL

\* SleepsForAReason: nobody sleeps in piperead or pipewrite who could go on,
\* but for readers passed over by a killed writer.
THEOREM SleepIsJustified == Spec => []SleepsForAReason
<1>1. StreamInv => SleepsForAReason
  BY Zenon DEF StreamInv
<1> QED
  BY <1>1, StreamInvariant, PTL

\* Nobody else ends the call of a reader.
LEMMA OwnReturn ==
    ASSUME StreamInv, Next, NEW t \in Thread, pc[t] = <<"call", "read">>, pc'[t] = Out
    PROVE  PipeRead(t) \/ PipeReadSleep(t)
<1>1. pc \in [Thread -> PC]
  BY Zenon DEF StreamInv, CallInv
<1>2. /\ Out # <<"call", "read">> /\ \A f \in End : <<"call", "read">> # <<"sleep", f>>
      /\ <<"call", "read">> # <<"call", "write">>
      /\ \A e \in End, a \in {"fileclose", "pipeclose"} : <<"call", "read">> # <<a, e>>
  BY DEF Out
<1>3. pc'[t] # pc[t]
  BY Zenon, <1>2
<1>4. ASSUME NEW u \in Thread, u # t, NEW e \in End,
             NEW a \in {"out", "call", "sleep", "fileclose", "pipeclose"}
      PROVE  pc' # Go(u, a, e) /\ \A f \in End : pc' # Wakeup(Go(u, a, e), f)
  <2>1. Go(u, a, e) \in [Thread -> PC] /\ Go(u, a, e)[t] = pc[t]
    <3>1. Go(u, a, e) \in [Thread -> PC] /\ \A v \in Thread : v # u => Go(u, a, e)[v] = pc[v]
      BY <1>1, <1>4, GoPlaces
    <3> QED
      BY Zenon, <1>4, <3>1
  <2>2. \A f \in End : Wakeup(Go(u, a, e), f)[t] = pc[t]
    <3> DEFINE g == Go(u, a, e)
    <3>1. g \in [Thread -> PC] /\ g[t] = <<"call", "read">>
      BY Zenon, <2>1
    <3> HIDE DEF g
    <3>2. \A f \in End : Wakeup(g, f)[t] = (IF g[t] = <<"sleep", f>> THEN <<"call", f>> ELSE g[t])
      BY Zenon, <3>1, WakeupPlaces
    <3> QED
      BY Zenon, <1>2, <3>1, <3>2 DEF g
  <2> QED
    BY Zenon, <1>3, <2>1, <2>2
<1>5. "read" \in End /\ "write" \in End /\ \A e \in End : Other(e) \in End
  BY DEF End, Other
<1>6. ASSUME NEW u \in Thread, PipeWrite(u) \/ PipeReadSleep(u) \/ PipeRead(u) PROVE u = t
  BY Zenon, <1>4, <1>5, <1>6 DEF PipeWrite, PipeReadSleep, PipeRead
<1>7. ASSUME NEW u \in Thread, NEW e \in End, Call(u, e) \/ Close(u, e) \/ FileClose(u, e) \/ PipeClose(u, e)
      PROVE  u = t
  BY Zenon, <1>4, <1>5, <1>7 DEF Call, Close, FileClose, PipeClose
<1>8. ~PipeWrite(t) /\ \A e \in End : ~(Call(t, e) \/ Close(t, e) \/ FileClose(t, e) \/ PipeClose(t, e))
  BY Zenon, <1>2 DEF PipeWrite, Call, Close, FileClose, PipeClose
<1>9. /\ \A u \in Thread : ~PipeAlloc(u) /\ \A q \in Process : ~Fork(u, q)
      /\ \A q \in Process : ~Kill(q)
  BY Zenon, <1>3 DEF PipeAlloc, Fork, Kill
<1> QED
  BY Zenon, <1>6, <1>7, <1>8, <1>9 DEF Next

\* EndOfFile: piperead returns 0 to a process that is not killed only when no
\* writer is left and every byte has been read.
THEOREM EmptyReadIsTheEnd == Spec => EndOfFile
<1>1. ASSUME StreamInv, Next, NEW t \in Thread, pc[t] = <<"call", "read">>, pc'[t] = Out,
             flight' = flight, ProcOf[t] \notin killed
      PROVE  "write" \notin open /\ flight = <<>>
  <2>1. CASE PipeRead(t)
    BY Zenon, <1>1, <2>1, StreamRead
  <2>2. CASE PipeReadSleep(t)
    <3>1. pc' = Go(t, "sleep", "read") /\ pc \in [Thread -> PC]
      BY Zenon, <1>1, <2>2 DEF PipeReadSleep, StreamInv, CallInv
    <3>2. pc'[t] = <<"sleep", "read">>
      BY Zenon, <3>1, GoPlaces, "sleep" # "out" DEF End
    <3> QED
      BY <1>1, <3>2 DEF Out
  <2> QED
    BY Zenon, <1>1, <2>1, <2>2, OwnReturn
<1>2. StreamInv /\ [Next]_vars =>
        [\A t \in Thread :
           /\ pc[t] = <<"call", "read">> /\ pc'[t] = Out
           /\ flight' = flight /\ ProcOf[t] \notin killed
           => "write" \notin open /\ flight = <<>>]_vars
  BY Zenon, <1>1
<1> QED
  BY <1>2, StreamInvariant, PTL DEF Spec, EndOfFile

-----------------------------------------------------------------------------
(***************************************************************************)
(* The page.  The threads of a process share its descriptors, and a call   *)
(* takes no reference of its own: what follows needs a process to have one *)
(* thread, for a sibling could close the descriptor of a call in progress. *)
(***************************************************************************)
OneThreaded == \A t, u \in Thread : ProcOf[t] = ProcOf[u] => t = u

Holders(e) == {p \in Process : e \in ofile[p]}

FileTypes ==
    /\ live \in BOOLEAN /\ open \subseteq End /\ ofile \in [Process -> SUBSET End]
    /\ ref \in [End -> Nat] /\ killed \subseteq Process /\ gaveUp \in BOOLEAN

\* The counts of the struct files are exact.
RefsRight == \A e \in End : ref[e] = Cardinality(Holders(e))

\* Whoever is in a call has the descriptor.
CallsHold ==
    \A t \in Thread, e \in End :
        pc[t] \in {<<"call", e>>, <<"sleep", e>>, <<"fileclose", e>>} => e \in ofile[ProcOf[t]]

\* One thread closes an end, when the last descriptor is gone.
ClosersRight ==
    /\ \A t \in Thread, e \in End : pc[t] = <<"pipeclose", e>> => e \in open /\ Holders(e) = {}
    /\ \A t, u \in Thread, e \in End :
           pc[t] = <<"pipeclose", e>> /\ pc[u] = <<"pipeclose", e>> => t = u

\* An end is open as long as somebody has a descriptor of it or is about to
\* close it, and the page is there as long as an end is open.
OpenRight ==
    /\ \A e \in End : Holders(e) # {} => e \in open
    /\ \A e \in open : Holders(e) # {} \/ \E t \in Thread : pc[t] = <<"pipeclose", e>>
    /\ live <=> open # {}

PageInv == FileTypes /\ RefsRight /\ CallsHold /\ ClosersRight /\ OpenRight

\* A step that leaves the files alone, and nobody's pipeclose begins or ends.
LEMMA PageKept ==
    ASSUME PageInv, UNCHANGED <<live, open, ref, ofile>>, killed' \subseteq Process, gaveUp' \in BOOLEAN,
           \A t \in Thread, e \in End :
               /\ pc'[t] \in {<<"call", e>>, <<"sleep", e>>, <<"fileclose", e>>} => e \in ofile[ProcOf[t]]
               /\ pc'[t] = <<"pipeclose", e>> <=> pc[t] = <<"pipeclose", e>>
    PROVE  PageInv'
<1>1. \A e : Holders(e)' = Holders(e)
  BY Zenon DEF Holders
<1>2. FileTypes'
  BY Zenon DEF PageInv, FileTypes
<1>3. open \subseteq End
  BY Zenon DEF PageInv, FileTypes
<1>4. RefsRight' /\ CallsHold'
  BY Zenon, <1>1 DEF PageInv, RefsRight, CallsHold
<1>5. ClosersRight'
  BY Zenon, <1>1 DEF PageInv, ClosersRight
<1>6. OpenRight'
  BY Zenon, <1>1, <1>3 DEF PageInv, OpenRight
<1> QED
  BY Zenon, <1>2, <1>4, <1>5, <1>6 DEF PageInv

\* A set of processes and its size.
LEMMA HolderSets ==
    ASSUME NEW S \in SUBSET Process
    PROVE  /\ IsFiniteSet(S) /\ Cardinality(S) \in Nat /\ Cardinality(S) <= Cardinality(Process)
           /\ Cardinality(Process) \in Nat
           /\ Cardinality(S) = 0 <=> S = {}
           /\ \A p \in Process : p \notin S => Cardinality(S \union {p}) = Cardinality(S) + 1
           /\ \A p \in S : Cardinality(S \ {p}) = Cardinality(S) - 1
<1>1. IsFiniteSet(Process)
  BY Zenon, PipeAssumption
<1>2. IsFiniteSet(S) /\ Cardinality(S) <= Cardinality(Process)
  BY Zenon, <1>1, FS_Subset
<1>3. Cardinality(S) \in Nat /\ (Cardinality(S) = 0 <=> S = {}) /\ Cardinality(Process) \in Nat
  BY Zenon, <1>1, <1>2, FS_CardinalityType, FS_EmptySet
<1>4. \A p \in Process : p \notin S => Cardinality(S \union {p}) = Cardinality(S) + 1
  BY Zenon, <1>2, FS_AddElement
<1>5. \A p \in S : Cardinality(S \ {p}) = Cardinality(S) - 1
  BY Zenon, <1>2, FS_RemoveElement
<1> QED
  BY Zenon, <1>2, <1>3, <1>4, <1>5

\* The process of a thread.
LEMMA Owner == \A t \in Thread : ProcOf[t] \in Process
BY Zenon, PipeAssumption

\* No two places are the same.
LEMMA Apart ==
    \A e, f \in End :
        /\ Out \notin {<<"call", e>>, <<"sleep", e>>, <<"fileclose", e>>, <<"pipeclose", e>>}
        /\ <<"pipeclose", e>> \notin {<<"call", f>>, <<"sleep", f>>, <<"fileclose", f>>}
        /\ <<"call", e>> # <<"sleep", f>> /\ <<"fileclose", e>> \notin {<<"call", f>>, <<"sleep", f>>}
        /\ <<"pipeclose", e>> = <<"pipeclose", f>> => e = f
        /\ <<"call", e>> = <<"call", f>> => e = f
        /\ <<"sleep", e>> = <<"sleep", f>> => e = f
        /\ <<"fileclose", e>> = <<"fileclose", f>> => e = f
BY DEF Out

\* The first state.
LEMMA PageInit == Init => PageInv
<1> SUFFICES ASSUME Init PROVE PageInv
  BY Zenon
<1>1. \A e \in End : Holders(e) = {} /\ Cardinality(Holders(e)) = 0
  BY Zenon, FS_EmptySet DEF Init, Holders
<1>2. FileTypes
  BY Zenon DEF Init, FileTypes
<1> QED
  BY Zenon, <1>1, <1>2, Apart DEF Init, PageInv, RefsRight, CallsHold, ClosersRight, OpenRight

\* pipealloc: there is no page, so nobody has a descriptor of it.
LEMMA PageAlloc ==
    ASSUME PageInv, NEW t \in Thread, PipeAlloc(t)
    PROVE  PageInv'
<1> DEFINE p == ProcOf[t]
<1>1. /\ ~live /\ \A u \in Thread : pc[u] = Out
      /\ live' = TRUE /\ open' = End /\ ref' = [e \in End |-> 1]
      /\ ofile' = [ofile EXCEPT ![p] = End] /\ gaveUp' = FALSE /\ UNCHANGED <<killed, pc>>
  BY Zenon DEF PipeAlloc
<1>2. p \in Process /\ ofile \in [Process -> SUBSET End] /\ killed \subseteq Process
  BY Zenon, Owner DEF PageInv, FileTypes
<1>3. \A e \in End : Holders(e) = {}
  BY Zenon, <1>1 DEF PageInv, OpenRight
<1>4. \A e \in End : Holders(e)' = {p}
  BY Zenon, <1>1, <1>2, <1>3 DEF Holders
<1>5. Cardinality({p}) = 1
  BY Zenon, FS_Singleton
<1>6. FileTypes'
  <2>1. 1 \in Nat /\ End # {}
    BY DEF End
  <2> QED
    BY Zenon, <1>1, <1>2, <2>1 DEF FileTypes
<1>7. End # {} /\ \A e \in End : ref'[e] = 1
  BY Zenon, <1>1 DEF End
<1> QED
  BY Zenon, <1>1, <1>4, <1>5, <1>6, <1>7, Apart DEF PageInv, RefsRight, CallsHold, ClosersRight, OpenRight

\* fork: the child has the descriptors that its parent has.
LEMMA PageFork ==
    ASSUME PageInv, NEW t \in Thread, NEW q \in Process, Fork(t, q)
    PROVE  PageInv'
<1> DEFINE p == ProcOf[t]
<1>1. /\ q # p /\ ofile[q] = {} /\ \A u \in Thread : ProcOf[u] = q => pc[u] = Out
      /\ ofile' = [ofile EXCEPT ![q] = ofile[p]]
      /\ ref' = [e \in End |-> IF e \in ofile[p] THEN ref[e] + 1 ELSE ref[e]]
      /\ killed' = killed \ {q} /\ UNCHANGED <<live, open, pc, gaveUp>>
  BY Zenon DEF Fork, pipe
<1>2. /\ p \in Process /\ ofile \in [Process -> SUBSET End] /\ killed \subseteq Process
      /\ ref \in [End -> Nat] /\ open \subseteq End /\ \A e \in End : ref[e] = Cardinality(Holders(e))
  BY Zenon, Owner DEF PageInv, FileTypes, RefsRight
<1>3. ASSUME NEW e \in End, e \in ofile[p]
      PROVE  /\ Holders(e)' = Holders(e) \union {q} /\ q \notin Holders(e) /\ Holders(e) # {}
             /\ ref'[e] = ref[e] + 1
  <2>1. p \in Holders(e) /\ q \notin Holders(e) /\ ref'[e] = ref[e] + 1
    BY Zenon, <1>1, <1>2, <1>3 DEF Holders
  <2>2. Holders(e)' = Holders(e) \union {q}
    BY Zenon, <1>1, <1>2, <1>3 DEF Holders
  <2> QED
    BY Zenon, <2>1, <2>2
<1>4. ASSUME NEW e \in End, e \notin ofile[p] PROVE Holders(e)' = Holders(e) /\ ref'[e] = ref[e]
  BY Zenon, <1>1, <1>2, <1>4 DEF Holders
<1>5. \A e \in End : ref'[e] \in Nat /\ ref'[e] = Cardinality(Holders(e)')
  <2> SUFFICES ASSUME NEW e \in End PROVE ref'[e] \in Nat /\ ref'[e] = Cardinality(Holders(e)')
    BY Zenon
  <2>1. Holders(e) \in SUBSET Process /\ ref[e] \in Nat /\ ref[e] + 1 \in Nat
    BY <1>2 DEF Holders
  <2>2. CASE e \in ofile[p]
    <3>1. Cardinality(Holders(e) \union {q}) = Cardinality(Holders(e)) + 1
      BY Zenon, <1>3, <2>1, <2>2, HolderSets
    <3> QED
      BY Zenon, <1>2, <1>3, <2>1, <2>2, <3>1
  <2>3. CASE e \notin ofile[p]
    BY Zenon, <1>2, <1>4, <2>1, <2>3
  <2> QED
    BY Zenon, <2>2, <2>3
<1>6. \A e \in End : (Holders(e)' # {} <=> Holders(e) # {}) /\ \A u \in Process : u # q => ofile'[u] = ofile[u]
  BY Zenon, <1>1, <1>2, <1>3, <1>4
<1>7. FileTypes'
  <2>1. ofile' \in [Process -> SUBSET End] /\ killed' \subseteq Process
    BY Zenon, <1>1, <1>2
  <2>2. ref' \in [End -> Nat]
    BY Zenon, <1>1, <1>5
  <2> QED
    BY Zenon, <1>1, <2>1, <2>2 DEF PageInv, FileTypes
<1>8. ASSUME NEW u \in Thread, NEW e \in End,
             pc'[u] \in {<<"call", e>>, <<"sleep", e>>, <<"fileclose", e>>}
      PROVE  e \in ofile'[ProcOf[u]]
  <2>1. ProcOf[u] # q
    BY Zenon, <1>1, <1>8, Apart
  <2> QED
    BY Zenon, <1>1, <1>6, <1>8, <2>1, Owner DEF PageInv, CallsHold
<1>9. ClosersRight'
  BY Zenon, <1>1, <1>6 DEF PageInv, ClosersRight
<1>10. OpenRight'
  BY Zenon, <1>1, <1>2, <1>6 DEF PageInv, OpenRight
<1> QED
  BY Zenon, <1>5, <1>7, <1>8, <1>9, <1>10 DEF PageInv, RefsRight, CallsHold

\* fileclose: the thread is the only one of its process, so it still has the
\* descriptor and the count is at least 1; whoever drops the last reference
\* goes on to pipeclose.
LEMMA PageFileClose ==
    ASSUME PageInv, pc \in [Thread -> PC], OneThreaded, NEW t \in Thread, NEW e \in End, FileClose(t, e)
    PROVE  PageInv'
<1> DEFINE p == ProcOf[t]
<1>1. /\ pc[t] = <<"fileclose", e>>
      /\ ofile' = [ofile EXCEPT ![p] = @ \ {e}] /\ ref' = [ref EXCEPT ![e] = @ - 1]
      /\ pc' = IF ref[e] = 1 THEN Go(t, "pipeclose", e) ELSE Go(t, "out", e)
      /\ UNCHANGED <<live, open, killed, gaveUp>>
  BY Zenon DEF FileClose, pipe
<1>2. /\ p \in Process /\ ofile \in [Process -> SUBSET End] /\ ref \in [End -> Nat] /\ open \subseteq End
      /\ e \in ofile[p] /\ \A f \in End : ref[f] = Cardinality(Holders(f))
  BY Zenon, <1>1, Owner DEF PageInv, FileTypes, CallsHold, RefsRight
<1>3. p \in Holders(e) /\ Holders(e)' = Holders(e) \ {p} /\ \A f \in End : f # e => Holders(f)' = Holders(f)
  BY Zenon, <1>1, <1>2 DEF Holders
<1>4. /\ Cardinality(Holders(e) \ {p}) = ref[e] - 1 /\ ref[e] \in Nat /\ ref[e] - 1 \in Nat
      /\ ref[e] = 1 <=> Holders(e)' = {}
  <2>1. Holders(e) \in SUBSET Process /\ Holders(e) \ {p} \in SUBSET Process
    BY Zenon DEF Holders
  <2>2. /\ Cardinality(Holders(e) \ {p}) \in Nat
        /\ Cardinality(Holders(e) \ {p}) = 0 <=> Holders(e) \ {p} = {}
    BY Zenon, <2>1, HolderSets
  <2>3. Cardinality(Holders(e) \ {p}) = ref[e] - 1 /\ ref[e] \in Nat
    <3>1. Cardinality(Holders(e) \ {p}) = Cardinality(Holders(e)) - 1
      BY Zenon, <1>3, <2>1, HolderSets
    <3> QED
      BY Zenon, <1>2, <3>1
  <2> QED
    BY <1>3, <2>2, <2>3
<1>5. RefsRight' /\ ref' \in [End -> Nat]
  <2>1. \A f \in End : ref'[f] = IF f = e THEN ref[e] - 1 ELSE ref[f]
    BY Zenon, <1>1, <1>2
  <2>2. ref' \in [End -> Nat]
    BY Zenon, <1>1, <1>2, <1>4
  <2> QED
    BY Zenon, <1>2, <1>3, <1>4, <2>1, <2>2 DEF RefsRight
<1>6. FileTypes'
  <2>1. ofile' \in [Process -> SUBSET End]
    BY Zenon, <1>1, <1>2
  <2> QED
    BY Zenon, <1>1, <1>5, <2>1 DEF PageInv, FileTypes
<1>7. /\ pc'[t] = (IF ref[e] = 1 THEN <<"pipeclose", e>> ELSE Out)
      /\ \A u \in Thread : u # t => pc'[u] = pc[u]
  <2>1. CASE ref[e] = 1
    BY Zenon, <1>1, <2>1, GoPlaces, "pipeclose" # "out"
  <2>2. CASE ref[e] # 1
    BY Zenon, <1>1, <2>2, GoPlaces
  <2> QED
    BY Zenon, <2>1, <2>2
<1>8. CallsHold'
  <2> SUFFICES ASSUME NEW u \in Thread, NEW f \in End,
                      pc'[u] \in {<<"call", f>>, <<"sleep", f>>, <<"fileclose", f>>}
               PROVE  f \in ofile'[ProcOf[u]]
    BY Zenon DEF CallsHold
  <2>1. u # t
    BY Zenon, <1>7, Apart
  <2>2. ProcOf[u] # p /\ ProcOf[u] \in Process
    BY Zenon, <2>1, Owner DEF OneThreaded
  <2>3. f \in ofile[ProcOf[u]]
    BY Zenon, <1>7, <2>1 DEF PageInv, CallsHold
  <2> QED
    BY Zenon, <1>1, <1>2, <2>2, <2>3
<1>9. \A u \in Thread : pc[u] # <<"pipeclose", e>>
  BY Zenon, <1>3 DEF PageInv, ClosersRight
<1>10. /\ \A u \in Thread : pc'[u] = <<"pipeclose", e>> <=> u = t /\ ref[e] = 1
       /\ \A u \in Thread, f \in End : f # e => (pc'[u] = <<"pipeclose", f>> <=> pc[u] = <<"pipeclose", f>>)
  BY Zenon, <1>1, <1>7, <1>9, Apart
<1>11. e \in open
  BY Zenon, <1>3 DEF PageInv, OpenRight
<1>12. ClosersRight'
  <2>1. ASSUME NEW u \in Thread, NEW f \in End, pc'[u] = <<"pipeclose", f>>
        PROVE  f \in open' /\ Holders(f)' = {}
    <3>1. CASE f = e
      BY Zenon, <1>1, <1>4, <1>10, <1>11, <2>1, <3>1
    <3>2. CASE f # e
      BY Zenon, <1>1, <1>3, <1>10, <2>1, <3>2 DEF PageInv, ClosersRight
    <3> QED
      BY Zenon, <3>1, <3>2
  <2>2. ASSUME NEW u \in Thread, NEW v \in Thread, NEW f \in End,
               pc'[u] = <<"pipeclose", f>>, pc'[v] = <<"pipeclose", f>>
        PROVE  u = v
    <3>1. CASE f = e
      BY Zenon, <1>10, <2>2, <3>1
    <3>2. CASE f # e
      <4>1. pc[u] = <<"pipeclose", f>> /\ pc[v] = <<"pipeclose", f>>
        BY Zenon, <1>10, <2>2, <3>2
      <4> QED
        BY Zenon, <4>1 DEF PageInv, ClosersRight
    <3> QED
      BY Zenon, <3>1, <3>2
  <2> QED
    BY Zenon, <2>1, <2>2 DEF ClosersRight
<1>13. OpenRight'
  <2>1. ASSUME NEW f \in End, Holders(f)' # {} PROVE f \in open'
    BY Zenon, <1>1, <1>3, <1>11, <2>1 DEF PageInv, OpenRight
  <2>2. ASSUME NEW f \in open' PROVE Holders(f)' # {} \/ \E u \in Thread : pc'[u] = <<"pipeclose", f>>
    <3>1. CASE f = e
      BY Zenon, <1>4, <1>10, <3>1
    <3>2. CASE f # e
      BY Zenon, <1>1, <1>2, <1>3, <1>10, <2>2, <3>2 DEF PageInv, OpenRight
    <3> QED
      BY Zenon, <3>1, <3>2
  <2> QED
    BY Zenon, <1>1, <2>1, <2>2 DEF PageInv, OpenRight
<1> QED
  BY Zenon, <1>5, <1>6, <1>8, <1>12, <1>13 DEF PageInv

\* pipeclose: the end is closed, and with the second one the page is freed.
LEMMA PagePipeClose ==
    ASSUME PageInv, pc \in [Thread -> PC], NEW t \in Thread, NEW e \in End, PipeClose(t, e)
    PROVE  PageInv'
<1>1. /\ pc[t] = <<"pipeclose", e>> /\ open' = open \ {e} /\ live' = (open' # {})
      /\ pc' = Wakeup(Go(t, "out", e), Other(e)) /\ UNCHANGED <<ref, ofile, killed, gaveUp>>
  BY Zenon DEF PipeClose, files
<1>2. /\ pc'[t] = Out
      /\ \A u \in Thread : u # t =>
            pc'[u] = (IF pc[u] = <<"sleep", Other(e)>> THEN <<"call", Other(e)>> ELSE pc[u])
  <2> DEFINE out == Go(t, "out", e)
  <2>1. /\ out \in [Thread -> PC] /\ out[t] = Out /\ \A u \in Thread : u # t => out[u] = pc[u]
    BY Zenon, GoPlaces
  <2>2. Other(e) \in End
    BY DEF Other, End
  <2> HIDE DEF out
  <2>3. \A u \in Thread : pc'[u] = (IF out[u] = <<"sleep", Other(e)>> THEN <<"call", Other(e)>> ELSE out[u])
    BY Zenon, <1>1, <2>1, <2>2, WakeupPlaces DEF out
  <2> QED
    BY Zenon, <2>1, <2>2, <2>3, Apart
<1>3. \A f : Holders(f)' = Holders(f)
  BY Zenon, <1>1 DEF Holders
<1>4. Other(e) \in End /\ open \subseteq End /\ Holders(e) = {} /\ e \in open
  <2>1. Other(e) \in End
    BY DEF Other, End
  <2> QED
    BY Zenon, <1>1, <2>1 DEF PageInv, FileTypes, ClosersRight
<1>5. FileTypes' /\ RefsRight'
  BY Zenon, <1>1, <1>3, <1>4 DEF PageInv, FileTypes, RefsRight
<1>6. \A u \in Thread, f \in End :
         pc'[u] = <<"pipeclose", f>> <=> u # t /\ f # e /\ pc[u] = <<"pipeclose", f>>
  <2>1. \A u \in Thread : pc[u] = <<"pipeclose", e>> => u = t
    BY Zenon, <1>1 DEF PageInv, ClosersRight
  <2> QED
    BY Zenon, <1>1, <1>2, <1>4, <2>1, Apart
<1>7. CallsHold'
  <2> SUFFICES ASSUME NEW u \in Thread, NEW f \in End,
                      pc'[u] \in {<<"call", f>>, <<"sleep", f>>, <<"fileclose", f>>}
               PROVE  f \in ofile[ProcOf[u]]
    BY Zenon, <1>1 DEF CallsHold
  <2>1. u # t /\ pc[u] \in {<<"call", f>>, <<"sleep", f>>, <<"fileclose", f>>}
    BY Zenon, <1>2, <1>4, Apart
  <2> QED
    BY Zenon, <2>1 DEF PageInv, CallsHold
<1>8. ClosersRight'
  BY Zenon, <1>1, <1>3, <1>6 DEF PageInv, ClosersRight
<1>9. OpenRight'
  <2>1. ASSUME NEW f \in open' PROVE Holders(f)' # {} \/ \E u \in Thread : pc'[u] = <<"pipeclose", f>>
    <3>1. f \in open /\ f # e /\ f \in End
      BY Zenon, <1>1, <1>4, <2>1
    <3>2. CASE Holders(f) # {}
      BY Zenon, <1>3, <3>2
    <3>3. ASSUME NEW u \in Thread, pc[u] = <<"pipeclose", f>> PROVE pc'[u] = <<"pipeclose", f>>
      BY Zenon, <1>1, <1>4, <1>6, <3>1, <3>3, Apart
    <3> QED
      BY Zenon, <3>1, <3>2, <3>3 DEF PageInv, OpenRight
  <2>2. ASSUME NEW f \in End, Holders(f)' # {} PROVE f \in open'
    BY Zenon, <1>1, <1>3, <1>4, <2>2 DEF PageInv, OpenRight
  <2> QED
    BY Zenon, <1>1, <2>1, <2>2 DEF OpenRight
<1> QED
  BY Zenon, <1>5, <1>7, <1>8, <1>9 DEF PageInv

\* A step of thread t in its calls: it leaves the descriptors alone, and so do
\* the wakeups.
LEMMA PageAside ==
    ASSUME PageInv, StreamInv, NEW t \in Thread,
           \/ PipeWrite(t) \/ PipeReadSleep(t) \/ PipeRead(t)
           \/ \E e \in End : Call(t, e) \/ Close(t, e)
    PROVE  PageInv'
<1>1. /\ UNCHANGED <<live, open, ref, ofile, killed>>
      /\ \/ gaveUp' = gaveUp
         \/ \E n, m : gaveUp' = (~(n = m) /\ ("read" \notin open \/ ProcOf[t] \in killed))
  BY Zenon DEF PipeWrite, PipeReadSleep, PipeRead, Call, Close, pipe, files
<1>2. killed' \subseteq Process /\ gaveUp' \in BOOLEAN
  BY Zenon, <1>1 DEF PageInv, FileTypes
<1>3. pc \in [Thread -> PC]
  BY Zenon DEF StreamInv, CallInv
<1>4. "read" \in End /\ "write" \in End
  BY Zenon DEF End
<1>5. PICK e \in End, a \in {"out", "call", "sleep", "fileclose"} :
         /\ e \in ofile[ProcOf[t]] /\ \A f \in End : pc[t] # <<"pipeclose", f>>
         /\ pc' = Go(t, a, e) \/ \E w \in End : pc' = Wakeup(Go(t, a, e), w)
  <2>1. CASE PipeWrite(t)
    <3>1. /\ pc[t] = <<"call", "write">>
          /\ \/ pc' = Go(t, "out", "write")
             \/ pc' = Wakeup(Go(t, "out", "write"), "read") \/ pc' = Wakeup(Go(t, "sleep", "write"), "read")
      BY Zenon, <2>1 DEF PipeWrite
    <3>2. "write" \in ofile[ProcOf[t]] /\ \A f \in End : pc[t] # <<"pipeclose", f>>
      BY Zenon, <1>4, <3>1, Apart DEF PageInv, CallsHold
    <3> QED
      BY Zenon, <1>4, <3>1, <3>2
  <2>2. CASE PipeReadSleep(t) \/ PipeRead(t)
    <3>1. /\ pc[t] = <<"call", "read">>
          /\ \/ pc' = Go(t, "out", "read") \/ pc' = Go(t, "sleep", "read")
             \/ pc' = Wakeup(Go(t, "out", "read"), "write")
      BY Zenon, <2>2 DEF PipeReadSleep, PipeRead
    <3>2. "read" \in ofile[ProcOf[t]] /\ \A f \in End : pc[t] # <<"pipeclose", f>>
      BY Zenon, <1>4, <3>1, Apart DEF PageInv, CallsHold
    <3> QED
      BY Zenon, <1>4, <3>1, <3>2
  <2>3. CASE \E e \in End : Call(t, e) \/ Close(t, e)
    BY Zenon, <2>3, Apart DEF Call, Close
  <2> QED
    BY Zenon, <2>1, <2>2, <2>3
<1>6. /\ Go(t, a, e) \in [Thread -> PC]
      /\ \A f \in End : /\ Go(t, a, e)[t] \in {<<"call", f>>, <<"sleep", f>>, <<"fileclose", f>>} => f = e
                        /\ Go(t, a, e)[t] # <<"pipeclose", f>>
      /\ \A u \in Thread : u # t => Go(t, a, e)[u] = pc[u]
  <2>1. (IF a = "out" THEN Out ELSE <<a, e>>) \in PC
    BY Zenon, Places
  <2>2. /\ Go(t, a, e) \in [Thread -> PC] /\ Go(t, a, e)[t] = (IF a = "out" THEN Out ELSE <<a, e>>)
        /\ \A u \in Thread : u # t => Go(t, a, e)[u] = pc[u]
    BY Zenon, <1>3, <2>1 DEF Go
  <2>3. \A f \in End : /\ Go(t, a, e)[t] \in {<<"call", f>>, <<"sleep", f>>, <<"fileclose", f>>} => f = e
                       /\ Go(t, a, e)[t] # <<"pipeclose", f>>
    BY Zenon, <2>2, Apart
  <2> QED
    BY Zenon, <2>2, <2>3
<1>7. \A u \in Thread, f \in End :
         /\ pc'[u] \in {<<"call", f>>, <<"sleep", f>>, <<"fileclose", f>>} =>
               Go(t, a, e)[u] \in {<<"call", f>>, <<"sleep", f>>, <<"fileclose", f>>}
         /\ pc'[u] = <<"pipeclose", f>> <=> Go(t, a, e)[u] = <<"pipeclose", f>>
  <2> DEFINE g == Go(t, a, e)
  <2>1. CASE pc' = g
    BY Zenon, <2>1
  <2>2. ASSUME NEW w \in End, pc' = Wakeup(g, w)
        PROVE  \A u \in Thread, f \in End :
                  /\ pc'[u] \in {<<"call", f>>, <<"sleep", f>>, <<"fileclose", f>>} =>
                        g[u] \in {<<"call", f>>, <<"sleep", f>>, <<"fileclose", f>>}
                  /\ pc'[u] = <<"pipeclose", f>> <=> g[u] = <<"pipeclose", f>>
    <3>1. g \in [Thread -> PC]
      BY Zenon, <1>6
    <3> HIDE DEF g
    <3>2. \A u \in Thread : pc'[u] = (IF g[u] = <<"sleep", w>> THEN <<"call", w>> ELSE g[u])
      BY Zenon, <2>2, <3>1, WakeupPlaces
    <3> QED
      BY Zenon, <3>2, Apart
  <2> QED
    BY Zenon, <1>5, <2>1, <2>2
<1>8. \A u \in Thread, f \in End :
         /\ pc'[u] \in {<<"call", f>>, <<"sleep", f>>, <<"fileclose", f>>} => f \in ofile[ProcOf[u]]
         /\ pc'[u] = <<"pipeclose", f>> <=> pc[u] = <<"pipeclose", f>>
  <2> SUFFICES ASSUME NEW u \in Thread, NEW f \in End
               PROVE  /\ pc'[u] \in {<<"call", f>>, <<"sleep", f>>, <<"fileclose", f>>} => f \in ofile[ProcOf[u]]
                      /\ pc'[u] = <<"pipeclose", f>> <=> pc[u] = <<"pipeclose", f>>
    BY Zenon
  <2>1. CASE u = t
    BY Zenon, <1>5, <1>6, <1>7, <2>1
  <2>2. CASE u # t
    <3>1. Go(t, a, e)[u] = pc[u]
      BY Zenon, <1>6, <2>2
    <3>2. pc[u] \in {<<"call", f>>, <<"sleep", f>>, <<"fileclose", f>>} => f \in ofile[ProcOf[u]]
      BY Zenon DEF PageInv, CallsHold
    <3> QED
      BY Zenon, <1>7, <3>1, <3>2
  <2> QED
    BY Zenon, <2>1, <2>2
<1> QED
  BY Zenon, <1>1, <1>2, <1>8, PageKept

\* Every step keeps PageInv.
LEMMA PageStep == OneThreaded /\ StreamInv /\ PageInv /\ [Next]_vars => PageInv'
<1> SUFFICES ASSUME OneThreaded, StreamInv, PageInv, [Next]_vars PROVE PageInv'
  BY Zenon
<1>1. pc \in [Thread -> PC]
  BY Zenon DEF StreamInv, CallInv
<1>2. CASE UNCHANGED vars \/ \E q \in Process : Kill(q)
  <2>1. UNCHANGED <<live, open, ref, ofile, pc, gaveUp>> /\ killed' \subseteq Process /\ gaveUp' \in BOOLEAN
    BY Zenon, <1>2 DEF vars, pipe, files, Kill, PageInv, FileTypes
  <2>2. \A t \in Thread, e \in End :
           /\ pc'[t] \in {<<"call", e>>, <<"sleep", e>>, <<"fileclose", e>>} => e \in ofile[ProcOf[t]]
           /\ pc'[t] = <<"pipeclose", e>> <=> pc[t] = <<"pipeclose", e>>
    BY Zenon, <2>1 DEF PageInv, CallsHold
  <2> QED
    BY Zenon, <2>1, <2>2, PageKept
<1>3. CASE \E t \in Thread : PipeAlloc(t)
  BY Zenon, <1>1, <1>3, PageAlloc
<1>4. CASE \E t \in Thread, q \in Process : Fork(t, q)
  BY Zenon, <1>1, <1>4, PageFork
<1>5. CASE \E t \in Thread : PipeWrite(t) \/ PipeReadSleep(t) \/ PipeRead(t)
  BY Zenon, <1>5, PageAside
<1>6. CASE \E t \in Thread, e \in End : Call(t, e) \/ Close(t, e)
  BY Zenon, <1>6, PageAside
<1>7. CASE \E t \in Thread, e \in End : FileClose(t, e) \/ PipeClose(t, e)
  BY Zenon, <1>1, <1>7, PageFileClose, PagePipeClose
<1> QED
  BY Zenon, <1>2, <1>3, <1>4, <1>5, <1>6, <1>7 DEF Next

\* The counts of an end are right in every reachable state.
THEOREM PageInvariant ==
    ASSUME OneThreaded
    PROVE  Spec => []PageInv
<1>1. StreamInv /\ PageInv /\ [Next]_vars => PageInv'
  BY Zenon, PageStep
<1> QED
  BY <1>1, PageInit, StreamInvariant, PTL DEF Spec

\* PageLifetime: nobody is in piperead, pipewrite or pipeclose of a page that
\* has been freed, and with the last descriptor of the second end it is freed:
\* the counts of fileclose and the two flags of pipeclose agree.
THEOREM PageFreedOnce ==
    ASSUME OneThreaded
    PROVE  Spec => []PageLifetime
<1>1. ASSUME StreamInv, PageInv PROVE PageLifetime
  <2>1. FileTypes /\ RefsRight /\ CallsHold /\ ClosersRight /\ OpenRight
    BY Zenon, <1>1 DEF PageInv
  <2>2. RingInv /\ CallInv
    BY Zenon, <1>1 DEF StreamInv
  <2>3. \A e \in End : /\ ref[e] \in 0 .. 2 * Cardinality(Process)
                       /\ ref[e] = 0 <=> Holders(e) = {}
    <3>1. ASSUME NEW e \in End PROVE /\ ref[e] \in 0 .. 2 * Cardinality(Process)
                                     /\ ref[e] = 0 <=> Holders(e) = {}
      <4>1. Holders(e) \in SUBSET Process /\ ref[e] = Cardinality(Holders(e))
        BY Zenon, <2>1 DEF RefsRight, Holders
      <4>2. /\ ref[e] \in Nat /\ ref[e] <= Cardinality(Process) /\ Cardinality(Process) \in Nat
            /\ ref[e] = 0 <=> Holders(e) = {}
        BY Zenon, <4>1, HolderSets
      <4> QED
        BY <4>2
    <3> QED
      BY Zenon, <3>1
  <2>4. TypeOK
    <3>1. ref \in [End -> 0 .. 2 * Cardinality(Process)]
      BY Zenon, <2>1, <2>3 DEF FileTypes
    <3> QED
      BY Zenon, <2>1, <2>2, <3>1 DEF TypeOK, FileTypes, RingInv, CallInv
  <2>5. PageInUse
    <3> SUFFICES ASSUME NEW t \in Thread, pc[t][1] \in {"call", "sleep", "pipeclose"} PROVE live
      BY Zenon DEF PageInUse
    <3>1. pc[t] \in PC
      BY Zenon, <2>2 DEF CallInv
    <3>2. PICK e \in End : pc[t] \in {<<"call", e>>, <<"sleep", e>>, <<"pipeclose", e>>}
      BY <3>1 DEF PC, Out
    <3>3. CASE pc[t] = <<"pipeclose", e>>
      BY Zenon, <2>1, <3>3 DEF ClosersRight, OpenRight
    <3>4. CASE pc[t] \in {<<"call", e>>, <<"sleep", e>>}
      <4>1. e \in ofile[ProcOf[t]]
        BY Zenon, <2>1, <3>4 DEF CallsHold
      <4>2. Holders(e) # {}
        BY Zenon, <4>1, Owner DEF Holders
      <4> QED
        BY Zenon, <2>1, <4>2 DEF OpenRight
    <3> QED
      BY Zenon, <3>2, <3>3, <3>4
  <2>6. PageFreed
    <3> SUFFICES ASSUME \A e \in End : ref[e] = 0, \A t \in Thread : pc[t] = Out PROVE ~live
      BY Zenon DEF PageFreed
    <3>1. open \subseteq End
      BY Zenon, <2>1 DEF FileTypes
    <3>2. \A e \in End : Holders(e) = {} /\ \A t \in Thread : pc[t] # <<"pipeclose", e>>
      BY Zenon, <2>3, Apart
    <3> QED
      BY Zenon, <2>1, <3>1, <3>2 DEF OpenRight
  <2> QED
    BY Zenon, <2>4, <2>5, <2>6 DEF PageLifetime
<1> QED
  BY <1>1, StreamInvariant, PageInvariant, PTL

\* fileclose does not panic: who has come to it holds a descriptor that is
\* counted.
THEOREM CloseIsCounted ==
    ASSUME OneThreaded
    PROVE  Spec => [](\A t \in Thread, e \in End : pc[t] = <<"fileclose", e>> => ref[e] >= 1)
<1>1. ASSUME PageInv PROVE \A t \in Thread, e \in End : pc[t] = <<"fileclose", e>> => ref[e] >= 1
  <2> SUFFICES ASSUME NEW t \in Thread, NEW e \in End, pc[t] = <<"fileclose", e>> PROVE ref[e] >= 1
    BY Zenon
  <2>1. e \in ofile[ProcOf[t]]
    BY Zenon, <1>1 DEF PageInv, CallsHold
  <2>2. Holders(e) # {} /\ Holders(e) \in SUBSET Process /\ ref[e] = Cardinality(Holders(e))
    BY Zenon, <1>1, <2>1, Owner DEF PageInv, RefsRight, Holders
  <2>3. ref[e] \in Nat /\ ref[e] # 0
    BY Zenon, <2>2, HolderSets
  <2> QED
    BY <2>3
<1> QED
  BY <1>1, PageInvariant, PTL

=============================================================================
