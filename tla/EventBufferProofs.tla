------------------------- MODULE EventBufferProofs -------------------------
(***************************************************************************)
(* Proofs about the sample buffer, for a ring of any size, any number of   *)
(* counters and every sample type that collect accepts: the reader keeps   *)
(* to the boundaries of the records, what it has still to read is intact,  *)
(* and it is handed the records in order, once, as they were written.      *)
(***************************************************************************)
EXTENDS EventBuffer, FiniteSetTheorems, TLAPS

Types == {"sample", "lost"} \cup OtherRecords
Record ==
  [type : Types, start : Nat, size : Nat \ {0}, first : Nat, branches : Nat]

\* Where record number j of lg ends, and the next begins.
Boundary(lg, j) == IF j = 0 THEN 0 ELSE lg[j].start + lg[j].size

\* The records of lg follow each other without a gap and up to head.
Chain(lg, head) ==
  /\ lg \in Seq(Record)
  /\ \A i \in 1..Len(lg) : lg[i].start = Boundary(lg, i - 1)
  /\ \A i, j \in 1..Len(lg) : i < j => lg[i].start + lg[i].size <= lg[j].start
  /\ head = Boundary(lg, Len(lg))

\* A sample record has the size of its contents; any other has contents.
Sized(r) == IF r.type = "sample"
            THEN r.size = 1 + ReadWords(Counters) + BranchWords(r.branches)
            ELSE r.size > 1

\* The ring holds the words of every record of lg from tail on.
Words(ring, lg, tail) ==
  \A i \in 1..Len(lg) : lg[i].start >= tail =>
    \A o \in 0..lg[i].size - 1 :
      ring[(lg[i].start + o) % Size] = WordOf(lg[i], o)

Held(ring, lg, head, tail) ==
  /\ Chain(lg, head)
  /\ tail \in Nat /\ tail <= head /\ head - tail < Size
  /\ \A i \in 1..Len(lg) : Sized(lg[i])
  /\ Words(ring, lg, tail)

\* Where the reader is: between two records, never ahead of its copy of head.
AtBoundary ==
  /\ delivered \in Seq({Payload(r) : r \in Record})
  /\ Len(delivered) <= Len(log)
  /\ \A i \in 1..Len(delivered) : delivered[i] = Payload(log[i])
  /\ Position = Boundary(log, Len(delivered))
  /\ hdr_tail <= Position
  /\ pc = "idle" => samples = <<>>
  /\ pc = "reading" => /\ Accepted
                       /\ \E j \in Len(delivered)..Len(log) :
                            data_head = Boundary(log, j)

IInv ==
  /\ TypeOK
  /\ samples \in Seq({Values(r) : r \in Record})
  /\ Held(data, log, hdr_head, hdr_tail)
  /\ AtBoundary

-----------------------------------------------------------------------------
(* Arithmetic of the ring.                                                 *)

\* Division with remainder.
LEMMA DivMod ==
  ASSUME NEW n \in Nat \ {0}, NEW a \in Int
  PROVE  /\ a % n \in 0..n - 1
         /\ a \div n \in Int
         /\ a = n * (a \div n) + (a % n)
  OBVIOUS

\* The only multiple of n between -n and n is 0.
LEMMA SmallMultiple ==
  ASSUME NEW n \in Nat \ {0}, NEW q \in Int, n * q > -n, n * q < n
  PROVE  q = 0
  OBVIOUS

LEMMA SameQuotient ==
  ASSUME NEW n \in Nat \ {0}, NEW p \in Int, NEW q \in Int, NEW r \in Int,
         n * q + r - (n * p + r) > -n, n * q + r - (n * p + r) < n
  PROVE  p = q
<1>1. n * (q - p) = n * q + r - (n * p + r)
  OBVIOUS
<1>2. q - p = 0
  BY <1>1, SmallMultiple, q - p \in Int
<1> QED BY <1>2

\* Two positions less than a ring apart share a place only if they are equal.
LEMMA RingInjective ==
  ASSUME NEW n \in Nat \ {0}, NEW a \in Int, NEW b \in Int,
         a % n = b % n, b - a > -n, b - a < n
  PROVE  a = b
<1> DEFINE p == a \div n
           q == b \div n
           r == a % n
<1>1. r \in 0..n - 1 /\ p \in Int /\ a = n * p + r
  BY DivMod
<1>2. q \in Int /\ b = n * q + r
  BY DivMod
<1> HIDE DEF p, q, r
<1>3. p = q
  <2>1. n * q + r - (n * p + r) > -n /\ n * q + r - (n * p + r) < n
    BY <1>1, <1>2
  <2> QED BY <2>1, <1>1, <1>2, SameQuotient, r \in Int
<1> QED BY <1>1, <1>2, <1>3

-----------------------------------------------------------------------------
(* The kernel's side.                                                      *)

LEMMA LayoutTypes ==
  ASSUME NEW n \in Nat
  PROVE  /\ TimeWords \in Nat /\ ValueWords(n) \in Nat
         /\ ReadWords(n) \in Nat /\ BranchWords(n) \in Nat
  BY DEF TimeWords, ValueWords, ReadWords, BranchWords

\* Storing a record puts its words in place.
LEMMA StoredNew ==
  ASSUME NEW ring, NEW r \in Record, r.size < Size, NEW o \in 0..r.size - 1
  PROVE  Stored(ring, r)[(r.start + o) % Size] = WordOf(r, o)
<1> DEFINE i == (r.start + o) % Size
<1>0. r.start \in Nat /\ r.size \in Nat /\ Size \in Nat \ {0}
  BY BufferAssumption DEF Record
<1>a. r.start + o \in Int
  BY <1>0
<1>1. i \in 0..Size - 1
  BY <1>0, <1>a, DivMod
<1>2. WordsAt(r, i) = {o}
  <2>1. o \in WordsAt(r, i)
    BY DEF WordsAt
  <2>2. ASSUME NEW u \in WordsAt(r, i) PROVE u = o
    <3>1. u \in 0..r.size - 1 /\ (r.start + u) % Size = (r.start + o) % Size
      BY DEF WordsAt
    <3>2. /\ r.start + u \in Int /\ r.start + o \in Int
          /\ (r.start + o) - (r.start + u) > -Size
          /\ (r.start + o) - (r.start + u) < Size
      BY <3>1, <1>0
    <3>3. r.start + u = r.start + o
      BY <3>1, <3>2, <1>0, RingInjective
    <3> QED BY <3>1, <3>3, <1>0
  <2> QED BY <2>1, <2>2
<1>3. (CHOOSE u \in WordsAt(r, i) : TRUE) = o
  BY <1>2
<1> QED BY <1>1, <1>2, <1>3 DEF Stored

\* It leaves every other word that lies less than a ring behind its end.
LEMMA StoredOld ==
  ASSUME NEW ring, NEW r \in Record, NEW p \in Nat,
         p < r.start, r.start + r.size - p < Size
  PROVE  Stored(ring, r)[p % Size] = ring[p % Size]
<1>0. r.start \in Nat /\ r.size \in Nat /\ Size \in Nat \ {0}
  BY BufferAssumption DEF Record
<1>1. p % Size \in 0..Size - 1
  BY <1>0, DivMod
<1>2. ASSUME NEW o \in WordsAt(r, p % Size) PROVE FALSE
  <2>1. o \in 0..r.size - 1 /\ (r.start + o) % Size = p % Size
    BY <1>2 DEF WordsAt
  <2>2. r.start + o = p
    BY <2>1, <1>0, RingInjective, r.start + o \in Int, p \in Int,
       p - (r.start + o) > -Size, p - (r.start + o) < Size
  <2> QED BY <2>1, <2>2, <1>0
<1>3. WordsAt(r, p % Size) = {}
  BY <1>2
<1> QED BY <1>1, <1>3 DEF Stored

\* A chain of records stays one when a record is put at its end.
LEMMA ChainAppend ==
  ASSUME NEW lg, NEW head, Chain(lg, head), NEW r \in Record, r.start = head
  PROVE  Chain(Append(lg, r), head + r.size)
<1> DEFINE nl == Append(lg, r)
<1>1. lg \in Seq(Record) /\ nl \in Seq(Record) /\ Len(nl) = Len(lg) + 1
      /\ Len(lg) \in Nat /\ nl[Len(lg) + 1] = r
      /\ \A i \in 1..Len(lg) : nl[i] = lg[i]
  BY DEF Chain
<1>2. \A i \in 1..Len(lg) : lg[i] \in Record
  BY <1>1
<1>3. \A j \in 0..Len(lg) : Boundary(nl, j) = Boundary(lg, j)
  BY <1>1 DEF Boundary
<1>4. \A i \in 1..Len(nl) : nl[i].start = Boundary(nl, i - 1)
  <2>1. \A i \in 1..Len(lg) : nl[i].start = Boundary(nl, i - 1)
    BY <1>1, <1>3 DEF Chain
  <2>2. nl[Len(lg) + 1].start = Boundary(nl, Len(lg))
    BY <1>1, <1>3 DEF Chain
  <2> QED BY <2>1, <2>2, <1>1
<1>5. \A i \in 1..Len(lg) : lg[i].start + lg[i].size <= head
  <2> SUFFICES ASSUME NEW i \in 1..Len(lg)
               PROVE  lg[i].start + lg[i].size <= head
    OBVIOUS
  <2>1. head = lg[Len(lg)].start + lg[Len(lg)].size
    BY <1>1 DEF Chain, Boundary
  <2>2. lg[i] \in Record /\ lg[Len(lg)] \in Record
    BY <1>1, <1>2
  <2>3. CASE i = Len(lg)
    BY <2>1, <2>2, <2>3 DEF Record
  <2>4. CASE i < Len(lg)
    <3>1. lg[i].start + lg[i].size <= lg[Len(lg)].start
      BY <2>4, <1>1 DEF Chain
    <3> QED BY <3>1, <2>1, <2>2 DEF Record
  <2> QED BY <2>3, <2>4, <1>1
<1>6. \A i, j \in 1..Len(nl) : i < j => nl[i].start + nl[i].size <= nl[j].start
  <2> SUFFICES ASSUME NEW i \in 1..Len(nl), NEW j \in 1..Len(nl), i < j
               PROVE  nl[i].start + nl[i].size <= nl[j].start
    OBVIOUS
  <2>1. i \in 1..Len(lg) /\ nl[i] = lg[i]
    BY <1>1
  <2>2. CASE j \in 1..Len(lg)
    BY <2>1, <2>2, <1>1 DEF Chain
  <2>3. CASE j = Len(lg) + 1
    BY <2>1, <2>3, <1>1, <1>5
  <2> QED BY <2>2, <2>3, <1>1
<1>7. head + r.size = Boundary(nl, Len(nl))
  BY <1>1 DEF Boundary
<1> QED BY <1>1, <1>4, <1>6, <1>7 DEF Chain

\* A word of a record lies between its start and its end.
LEMMA Inside ==
  ASSUME NEW start \in Nat, NEW size \in Nat, NEW end \in Nat, NEW from \in Nat,
         start + size <= end, start >= from, NEW o \in 0..size - 1
  PROVE  start + o \in Nat /\ start + o < end /\ start + o >= from
  OBVIOUS

\* A record that fits can be stored: what is still to be read stays intact.
LEMMA HeldAppend ==
  ASSUME NEW ring, NEW lg, NEW head, NEW tail, Held(ring, lg, head, tail),
         NEW r \in Record, r.start = head, r.start + r.size - tail < Size,
         Sized(r)
  PROVE  Held(Stored(ring, r), Append(lg, r), r.start + r.size, tail)
<1> DEFINE nl == Append(lg, r)
           stored == Stored(ring, r)
<1>1. lg \in Seq(Record) /\ nl \in Seq(Record) /\ Len(nl) = Len(lg) + 1
      /\ Len(lg) \in Nat /\ nl[Len(lg) + 1] = r
      /\ \A i \in 1..Len(lg) : nl[i] = lg[i]
  BY DEF Held, Chain
<1>2. r.start \in Nat /\ r.size \in Nat \ {0} /\ tail \in Nat /\ tail <= head
      /\ Size \in Nat
  BY BufferAssumption DEF Record, Held
<1>3. Chain(nl, r.start + r.size)
  BY ChainAppend DEF Held
<1>4. \A i \in 1..Len(nl) : Sized(nl[i])
  BY <1>1 DEF Held
<1>5. \A i \in 1..Len(lg) : lg[i].start \in Nat /\ lg[i].size \in Nat
                          /\ lg[i].start + lg[i].size <= r.start
  <2> SUFFICES ASSUME NEW i \in 1..Len(lg)
               PROVE  lg[i].start \in Nat /\ lg[i].size \in Nat
                      /\ lg[i].start + lg[i].size <= r.start
    OBVIOUS
  <2>1. nl[i].start + nl[i].size <= nl[Len(lg) + 1].start
    BY <1>1, <1>3 DEF Chain
  <2>2. lg[i] \in Record
    BY <1>1
  <2> QED BY <1>1, <2>1, <2>2 DEF Record
<1>6. ASSUME NEW i \in 1..Len(nl), nl[i].start >= tail,
             NEW o \in 0..nl[i].size - 1
      PROVE  stored[(nl[i].start + o) % Size] = WordOf(nl[i], o)
  <2>1. CASE i = Len(lg) + 1
    <3>1. r.size < Size
      BY <1>2
    <3>2. nl[i] = r /\ o \in 0..r.size - 1
      BY <2>1, <1>1, <1>6
    <3>3. stored[(r.start + o) % Size] = WordOf(r, o)
      BY <3>1, <3>2, StoredNew
    <3> QED BY <3>2, <3>3
  <2>2. CASE i \in 1..Len(lg)
    <3> DEFINE p == lg[i].start + o
    <3>1. nl[i] = lg[i] /\ o \in 0..lg[i].size - 1
      BY <1>1, <1>6, <2>2
    <3>a. /\ lg[i].start \in Nat /\ lg[i].size \in Nat
          /\ lg[i].start + lg[i].size <= r.start /\ lg[i].start >= tail
      BY <1>5, <1>6, <2>2, <3>1
    <3>2. p \in Nat /\ p < r.start /\ p >= tail
      BY <3>a, <3>1, <1>2, Inside
    <3>3. r.start + r.size - p < Size
      BY <3>2, <1>2
    <3>4. stored[p % Size] = ring[p % Size]
      BY <3>2, <3>3, StoredOld
    <3>5. ring[p % Size] = WordOf(lg[i], o)
      BY <2>2, <3>1, <1>6 DEF Held, Words
    <3> QED BY <3>1, <3>4, <3>5
  <2> QED BY <2>1, <2>2, <1>1
<1>7. Words(stored, nl, tail)
  BY <1>6 DEF Words
<1> DEFINE end == r.start + r.size
<1>8. tail \in Nat /\ tail <= end /\ end - tail < Size /\ Chain(nl, end)
  BY <1>2, <1>3
<1> HIDE DEF nl, stored, end
<1>9. Held(stored, nl, end, tail)
  BY <1>4, <1>7, <1>8 DEF Held
<1> QED BY <1>9 DEF nl, stored, end

\* Records the kernel may write.
LEMMA SampleRecord ==
  ASSUME NEW start \in Nat, NEW first \in Nat, NEW n \in Nat
  PROVE  /\ Sample(start, first, n) \in Record
         /\ Sized(Sample(start, first, n))
         /\ Sample(start, first, n).start = start
<1>1. /\ ReadWords(Counters) \in Nat /\ BranchWords(n) \in Nat
  BY LayoutTypes, BufferAssumption
<1> DEFINE size == 1 + ReadWords(Counters) + BranchWords(n)
<1>2. size \in Nat \ {0}
  BY <1>1
<1> HIDE DEF size
<1>3. Sample(start, first, n) =
        [type |-> "sample", start |-> start, size |-> size, first |-> first,
         branches |-> n]
  BY DEF Sample, size
<1>4. Sample(start, first, n) \in Record /\ Sample(start, first, n).start = start
  BY <1>2, <1>3 DEF Record, Types
<1>5. Sized(Sample(start, first, n))
  BY <1>3 DEF Sized, size
<1> QED BY <1>4, <1>5

LEMMA OtherRecordOK ==
  ASSUME NEW type \in Types, type # "sample", NEW start \in Nat,
         NEW size \in Nat, size > 1
  PROVE  /\ Other(type, start, size) \in Record
         /\ Sized(Other(type, start, size))
         /\ Other(type, start, size).start = start
         /\ Other(type, start, size).size = size
BY DEF Other, Record, Sized

\* What one write of the kernel does to the log: one or two records more.
LEMMA WriteHeld ==
  ASSUME IInv, NEW r \in Record, Sized(r), r.start = Start, Write(r),
         hdr_tail' = hdr_tail
  PROVE  /\ Held(data, log, hdr_head, hdr_tail)'
         /\ Len(log') > Len(log)
         /\ \A i \in 1..Len(log) : log'[i] = log[i]
         /\ DOMAIN data' = 0..Size - 1
         /\ hdr_head' \in Nat
<1>0. /\ hdr_head \in Nat /\ hdr_tail \in Nat /\ rb_lost \in Nat
      /\ log \in Seq(Record) /\ Size \in Nat /\ LostWords = 3
      /\ r.start \in Nat /\ r.size \in Nat \ {0}
      /\ hdr_tail <= hdr_head
  BY BufferAssumption DEF IInv, TypeOK, Held, Chain, LostWords, Record
<1>1. r.start + r.size - hdr_tail < Size
  BY DEF Write, Fits
<1>2. DOMAIN data' = 0..Size - 1 /\ hdr_head' = r.start + r.size
  BY DEF Write, Stored
<1>3. CASE rb_lost = 0
  <2>1. data' = Stored(data, r) /\ log' = Append(log, r) /\ r.start = hdr_head
    BY <1>0, <1>3 DEF Write, LostRecord, Start
  <2>2. Held(data', log', hdr_head', hdr_tail')
    BY <2>1, <1>0, <1>1, <1>2, HeldAppend DEF IInv
  <2> QED BY <2>1, <2>2, <1>0, <1>2
<1>4. CASE rb_lost # 0
  <2> DEFINE lost == Other("lost", hdr_head, LostWords)
  <2>1. /\ lost \in Record /\ Sized(lost) /\ lost.start = hdr_head
        /\ lost.size = 3
    <3>1. "lost" \in Types /\ "lost" # "sample" /\ 3 \in Nat /\ 3 > 1
      BY DEF Types
    <3> QED BY <1>0, <3>1, OtherRecordOK
  <2>2. /\ data' = Stored(Stored(data, lost), r)
        /\ log' = Append(Append(log, lost), r) /\ r.start = hdr_head + 3
    BY <1>0, <1>4, <2>1 DEF Write, LostRecord, Start
  <2> HIDE DEF lost
  <2>3. Held(Stored(data, lost), Append(log, lost), hdr_head + 3, hdr_tail)
    BY <2>1, <2>2, <1>0, <1>1, HeldAppend DEF IInv
  <2>4. Held(data', log', hdr_head', hdr_tail')
    BY <2>2, <2>3, <1>0, <1>1, <1>2, HeldAppend
  <2> QED BY <2>1, <2>2, <2>4, <1>0, <1>2
<1> QED BY <1>3, <1>4

\* The log only grows at its end, so the reader's place in it stays the same.
LEMMA ReaderKeeps ==
  ASSUME IInv, UNCHANGED reader, Len(log') >= Len(log), log \in Seq(Record),
         log' \in Seq(Record), \A i \in 1..Len(log) : log'[i] = log[i]
  PROVE  AtBoundary'
<1>1. /\ Len(delivered) \in Nat /\ Len(delivered) <= Len(log)
      /\ Len(log) \in Nat /\ Len(log') \in Nat
  BY DEF IInv, AtBoundary
<1>2. \A j \in 0..Len(log) : Boundary(log', j) = Boundary(log, j)
  BY <1>1 DEF Boundary
<1>3. /\ delivered' = delivered /\ pc' = pc /\ Position' = Position
      /\ hdr_tail' = hdr_tail /\ data_head' = data_head
  BY DEF reader, Position
<1>4. Position' = Boundary(log', Len(delivered'))
  BY <1>1, <1>2, <1>3 DEF IInv, AtBoundary
<1>5. \A i \in 1..Len(delivered') : delivered'[i] = Payload(log'[i])
  BY <1>1, <1>3 DEF IInv, AtBoundary
<1>6. pc' = "reading" => Accepted /\ \E j \in Len(delivered')..Len(log') :
                                       data_head' = Boundary(log', j)
  BY <1>1, <1>2, <1>3 DEF IInv, AtBoundary
<1>7. delivered' \in Seq({Payload(r) : r \in Record})
  BY <1>3 DEF IInv, AtBoundary
<1>8. hdr_tail' <= Position' /\ (pc' = "idle" => samples' = <<>>)
  BY <1>3 DEF IInv, AtBoundary, reader
<1> QED BY <1>1, <1>3, <1>4, <1>5, <1>6, <1>7, <1>8 DEF AtBoundary

\* The kernel writes or loses a record.
LEMMA WriteOrLose ==
  ASSUME IInv, NEW r \in Record, Sized(r), r.start = Start,
         Write(r) \/ Lose(r), UNCHANGED reader
  PROVE  /\ Held(data, log, hdr_head, hdr_tail)'
         /\ AtBoundary'
         /\ DOMAIN data' = 0..Size - 1
         /\ hdr_head' \in Nat /\ rb_lost' \in Nat
<1>0. hdr_tail' = hdr_tail /\ log \in Seq(Record)
  BY DEF reader, IInv, Held, Chain
<1>1. CASE Write(r)
  <2>1. /\ Held(data, log, hdr_head, hdr_tail)'
        /\ Len(log') > Len(log)
        /\ \A i \in 1..Len(log) : log'[i] = log[i]
        /\ DOMAIN data' = 0..Size - 1 /\ hdr_head' \in Nat
    BY <1>0, <1>1, WriteHeld
  <2>2. log' \in Seq(Record)
    BY <2>1 DEF Held, Chain
  <2>3. Len(log') >= Len(log)
    BY <1>0, <2>1, <2>2
  <2>4. AtBoundary'
    BY <1>0, <2>1, <2>2, <2>3, ReaderKeeps
  <2>5. rb_lost' \in Nat
    BY <1>1 DEF Write
  <2> QED BY <2>1, <2>4, <2>5
<1>2. CASE Lose(r)
  <2>1. data' = data /\ hdr_head' = hdr_head /\ log' = log
        /\ rb_lost' = rb_lost + 1
    BY <1>2 DEF Lose
  <2>2. Held(data, log, hdr_head, hdr_tail)'
    BY <1>0, <2>1 DEF IInv
  <2>3. AtBoundary'
    BY <1>0, <2>1, ReaderKeeps
  <2> QED BY <2>1, <2>2, <2>3 DEF IInv, TypeOK
<1> QED BY <1>1, <1>2

LEMMA KernelStep ==
  ASSUME IInv, Kernel
  PROVE  IInv'
<1>0. /\ Start \in Nat /\ overflows \in Nat /\ dropped \in Nat
  BY DEF IInv, TypeOK, Start, LostWords
<1>1. ASSUME NEW n \in 0..MaxBranches, Overflow(n)
      PROVE  IInv'
  <2> DEFINE r == Sample(Start, overflows * Counters, n)
  <2>1. overflows * Counters \in Nat /\ n \in Nat
    BY <1>0, BufferAssumption
  <2>2. r \in Record /\ Sized(r) /\ r.start = Start
    BY <2>1, <1>0, SampleRecord
  <2>3. /\ Write(r) \/ Lose(r)
        /\ overflows' = overflows + 1 /\ dropped' \in Nat
        /\ UNCHANGED reader
    BY <1>0, <1>1 DEF Overflow
  <2> HIDE DEF r
  <2>4. /\ Held(data, log, hdr_head, hdr_tail)' /\ AtBoundary'
        /\ DOMAIN data' = 0..Size - 1
        /\ hdr_head' \in Nat /\ rb_lost' \in Nat
    BY <2>2, <2>3, WriteOrLose
  <2> QED BY <1>0, <2>3, <2>4 DEF IInv, TypeOK, reader
<1>2. ASSUME NEW type \in OtherRecords, OtherRecord(type)
      PROVE  IInv'
  <2> DEFINE r == Other(type, Start, 4)
  <2>0. type \in Types /\ type # "sample" /\ 4 \in Nat /\ 4 > 1
    BY BufferAssumption DEF Types
  <2>1. r \in Record /\ Sized(r) /\ r.start = Start
    BY <2>0, <1>0, OtherRecordOK
  <2>2. /\ Write(r) \/ Lose(r)
        /\ overflows' = overflows /\ dropped' = dropped
        /\ UNCHANGED reader
    BY <1>2 DEF OtherRecord
  <2> HIDE DEF r
  <2>3. /\ Held(data, log, hdr_head, hdr_tail)' /\ AtBoundary'
        /\ DOMAIN data' = 0..Size - 1
        /\ hdr_head' \in Nat /\ rb_lost' \in Nat
    BY <2>1, <2>2, WriteOrLose
  <2> QED BY <1>0, <2>2, <2>3 DEF IInv, TypeOK, reader
<1> QED BY <1>1, <1>2 DEF Kernel

-----------------------------------------------------------------------------
(* The reader's side.                                                      *)

\* The ends of the records are in order.
LEMMA BoundaryMonotone ==
  ASSUME NEW lg, NEW head, Chain(lg, head),
         NEW i \in 0..Len(lg), NEW j \in 0..Len(lg), i <= j
  PROVE  /\ Boundary(lg, i) \in Nat /\ Boundary(lg, j) \in Nat
         /\ Boundary(lg, i) <= Boundary(lg, j)
         /\ i < j => Boundary(lg, i) < Boundary(lg, j)
<1>1. Len(lg) \in Nat /\ \A k \in 1..Len(lg) : lg[k] \in Record
  BY DEF Chain
<1>2. \A k \in 1..Len(lg) : lg[k].start \in Nat /\ lg[k].size \in Nat \ {0}
  BY <1>1 DEF Record
<1>3. Boundary(lg, i) \in Nat /\ Boundary(lg, j) \in Nat
  BY <1>1, <1>2 DEF Boundary
<1>4. CASE i = j
  BY <1>3, <1>4
<1>5. CASE i < j /\ i = 0
  BY <1>1, <1>2, <1>5 DEF Boundary
<1>6. CASE i < j /\ i # 0
  <2>1. i \in 1..Len(lg) /\ j \in 1..Len(lg)
    BY <1>1, <1>6
  <2>2. lg[i].start + lg[i].size <= lg[j].start
    BY <1>6, <2>1 DEF Chain
  <2> QED BY <1>2, <1>3, <1>6, <2>1, <2>2 DEF Boundary
<1> QED BY <1>1, <1>4, <1>5, <1>6

\* In the loop, the reader is in front of a whole record it has not read.
LEMMA NextRecord ==
  ASSUME IInv, pc = "reading", More, NEW k, k = Len(delivered) + 1
  PROVE  /\ k \in 1..Len(log) /\ log[k] \in Record /\ Sized(log[k])
         /\ data_tail = log[k].start
         /\ log[k].start + log[k].size <= data_head
         /\ \A o \in 0..log[k].size - 1 :
              Word(log[k].start + o) = WordOf(log[k], o)
<1>1. /\ Chain(log, hdr_head) /\ log \in Seq(Record) /\ Len(log) \in Nat
      /\ Len(delivered) \in 0..Len(log)
      /\ data_tail = Boundary(log, Len(delivered)) /\ hdr_tail <= data_tail
      /\ data_tail \in Nat /\ data_head \in Nat
  BY DEF IInv, TypeOK, Held, Chain, AtBoundary, Position
<1>2. PICK j \in Len(delivered)..Len(log) : data_head = Boundary(log, j)
  BY DEF IInv, AtBoundary
<1>3. data_head - data_tail > 1
  BY DEF More, Available
<1>4. j # Len(delivered)
  BY <1>1, <1>2, <1>3
<1>5. k \in 1..Len(log) /\ k <= j /\ j \in 1..Len(log)
  BY <1>1, <1>2, <1>4
<1>6. log[k] \in Record /\ Sized(log[k])
  BY <1>1, <1>5 DEF IInv, Held
<1>7. data_tail = log[k].start
  BY <1>1, <1>5 DEF Chain
<1>8. log[k].start + log[k].size <= data_head
  <2>1. Boundary(log, k) <= Boundary(log, j)
    BY <1>1, <1>5, BoundaryMonotone
  <2>2. Boundary(log, k) = log[k].start + log[k].size
    BY <1>5 DEF Boundary
  <2> QED BY <1>2, <2>1, <2>2
<1>9. log[k].start >= hdr_tail
  BY <1>1, <1>7 DEF IInv, TypeOK
<1>10. \A o \in 0..log[k].size - 1 :
         Word(log[k].start + o) = WordOf(log[k], o)
  BY <1>5, <1>9 DEF IInv, Held, Words, Word
<1> QED BY <1>5, <1>6, <1>7, <1>8, <1>10

\* The header of any record.
LEMMA HeaderWord ==
  ASSUME NEW r
  PROVE  WordOf(r, 0) = <<r.type, r.size>>
  BY DEF WordOf

\* Where a sample keeps its values: no two at the same place.
LEMMA ValuePlaces ==
  ASSUME "READ" \in SampleType
  PROVE  /\ ReadWords(Counters) = 1 + TimeWords + ValueWords(Counters)
         /\ \A i \in 0..Counters - 1 :
              /\ ValueAt(i) \in 2..ReadWords(Counters)
              /\ ValueAt(i) = 2 + TimeWords + Stride * i
              /\ \A k \in 0..Counters - 1 : ValueAt(i) = ValueAt(k) => i = k
<1>1. Counters \in Nat /\ TimeWords \in Nat
  BY BufferAssumption, LayoutTypes
<1>2. CASE "ID" \in ReadFormat
  BY <1>1, <1>2 DEF ReadWords, ValueAt, ValueWords, Stride
<1>3. CASE "ID" \notin ReadFormat
  BY <1>1, <1>3 DEF ReadWords, ValueAt, ValueWords, Stride
<1> QED BY <1>2, <1>3

\* What collectSample finds in a sample record.
LEMMA SampleWords ==
  ASSUME NEW r \in Record, r.type = "sample"
  PROVE  /\ "READ" \in SampleType =>
              /\ WordOf(r, 1) = <<"nr", Counters>>
              /\ \A i \in 0..Counters - 1 :
                   WordOf(r, ValueAt(i)) = <<"value", r.first + i>>
         /\ "BRANCH_STACK" \in SampleType =>
              WordOf(r, 1 + ReadWords(Counters)) = <<"bnr", r.branches>>
<1>1. ASSUME "READ" \in SampleType PROVE WordOf(r, 1) = <<"nr", Counters>>
  <2>1. /\ 1 # 1 + ReadWords(Counters)
        /\ \A i \in 0..Counters - 1 : 1 # ValueAt(i)
    <3>1. TimeWords \in Nat /\ ValueWords(Counters) \in Nat
      BY LayoutTypes, BufferAssumption
    <3> QED BY <1>1, <3>1, ValuePlaces
  <2>2. Body(r, 1) = <<"nr", Counters>>
    BY <1>1, <2>1 DEF Body
  <2> QED BY <2>2 DEF WordOf
<1>2. ASSUME "READ" \in SampleType, NEW i \in 0..Counters - 1
      PROVE  WordOf(r, ValueAt(i)) = <<"value", r.first + i>>
  <2> DEFINE o == ValueAt(i)
  <2>1. o \in 2..ReadWords(Counters) /\ ReadWords(Counters) \in Nat
    BY <1>2, ValuePlaces, LayoutTypes, BufferAssumption
  <2>2. o # 0 /\ o # 1 /\ o # 1 + ReadWords(Counters)
        /\ o <= ReadWords(Counters)
    BY <2>1
  <2>3. (CHOOSE k \in 0..Counters - 1 : o = ValueAt(k)) = i
    BY <1>2, ValuePlaces
  <2>4. \E k \in 0..Counters - 1 : o = ValueAt(k) /\ o <= ReadWords(Counters)
    BY <2>2
  <2> HIDE DEF o
  <2>5. Body(r, o) = <<"value", r.first + i>>
    BY <2>2, <2>3, <2>4 DEF Body
  <2> QED BY <2>2, <2>5 DEF WordOf, o
<1>3. ASSUME "BRANCH_STACK" \in SampleType
      PROVE  WordOf(r, 1 + ReadWords(Counters)) = <<"bnr", r.branches>>
  <2>1. ReadWords(Counters) \in Nat /\ 1 + ReadWords(Counters) # 0
    BY LayoutTypes, BufferAssumption
  <2>2. ~("READ" \in SampleType /\ 1 + ReadWords(Counters) = 1)
    BY <2>1, ValuePlaces, LayoutTypes, BufferAssumption
  <2>3. ~(1 + ReadWords(Counters) <= ReadWords(Counters))
    BY <2>1
  <2> DEFINE o == 1 + ReadWords(Counters)
  <2>4. Body(r, o) = <<"bnr", r.branches>>
    <3>1. ~("READ" \in SampleType /\ o = 1) /\ ~(o <= ReadWords(Counters))
          /\ o = 1 + ReadWords(Counters)
      BY <2>2, <2>3
    <3> HIDE DEF o
    <3> QED BY <3>1 DEF Body
  <2> QED BY <2>1, <2>4 DEF WordOf
<1> QED BY <1>1, <1>2, <1>3

\* collectSample reads exactly the record: it ends where the record ends, and
\* it collects the record's values.
LEMMA CollectExact ==
  ASSUME IInv, pc = "reading", More, Header[1] = "sample",
         NEW k, k = Len(delivered) + 1
  PROVE  /\ AfterBranches = log[k].start + log[k].size
         /\ Collected = Values(log[k])
         /\ log[k].type = "sample"
<1> DEFINE r == log[k]
<1>1. /\ r \in Record /\ Sized(r) /\ data_tail = r.start
      /\ \A o \in 0..r.size - 1 : Word(r.start + o) = WordOf(r, o)
  BY NextRecord
<1> HIDE DEF r
<1>2. r.start \in Nat /\ r.size \in Nat \ {0} /\ r.branches \in Nat
      /\ r.first \in Nat /\ Counters \in Nat
  BY <1>1, BufferAssumption DEF Record
<1>3. r.type = "sample"
  <2>1. Header = WordOf(r, 0)
    BY <1>1, <1>2 DEF Header
  <2> QED BY <2>1, HeaderWord
<1>4. /\ r.size = 1 + ReadWords(Counters) + BranchWords(r.branches)
      /\ ReadWords(Counters) \in Nat /\ BranchWords(r.branches) \in Nat
      /\ TimeWords \in Nat
  BY <1>1, <1>2, <1>3, LayoutTypes DEF Sized
<1>5. "READ" \in SampleType => nr = Counters
  <2> SUFFICES ASSUME "READ" \in SampleType PROVE nr = Counters
    OBVIOUS
  <2>1. 1 \in 0..r.size - 1
    <3>1. ReadWords(Counters) = 1 + TimeWords + ValueWords(Counters)
      BY ValuePlaces
    <3>2. ValueWords(Counters) \in Nat
      BY LayoutTypes, <1>2
    <3> QED BY <3>1, <3>2, <1>4, <1>2
  <2>2. Word(data_tail + 1) = <<"nr", Counters>>
    BY <1>1, <1>3, <2>1, SampleWords
  <2> QED BY <2>2 DEF nr
<1>6. AfterRead = r.start + 1 + ReadWords(Counters)
  <2>1. CASE "READ" \in SampleType
    <3>1. Stride * Counters = ValueWords(Counters)
      BY <1>2 DEF Stride, ValueWords
    <3>2. ReadWords(Counters) = 1 + TimeWords + ValueWords(Counters)
          /\ ValueWords(Counters) \in Nat
      BY <2>1, ValuePlaces, LayoutTypes, <1>2
    <3>3. AfterRead = data_tail + 2 + TimeWords + Stride * Counters
      BY <2>1, <1>5 DEF AfterRead, FirstValue
    <3> QED BY <3>1, <3>2, <3>3, <1>1, <1>2, <1>4
  <2>2. CASE "READ" \notin SampleType
    BY <2>2, <1>1, <1>2 DEF AfterRead, ReadWords
  <2> QED BY <2>1, <2>2
<1>7. AfterBranches = r.start + r.size
  <2>1. CASE "BRANCH_STACK" \in SampleType
    <3>1. BranchWords(r.branches) = 1 + 3 * r.branches
      BY <2>1 DEF BranchWords
    <3>2. 1 + ReadWords(Counters) \in 0..r.size - 1
      BY <3>1, <1>2, <1>4
    <3>3. r.start + (1 + ReadWords(Counters)) = AfterRead
      BY <1>6, <1>2, <1>4
    <3>4. Word(AfterRead) = <<"bnr", r.branches>>
      BY <2>1, <3>2, <3>3, <1>1, <1>3, SampleWords
    <3>5. bnr = r.branches
      BY <3>4 DEF bnr
    <3>6. AfterBranches = AfterRead + 1 + 3 * r.branches
      BY <2>1, <3>5 DEF AfterBranches
    <3> DEFINE rw == ReadWords(Counters)
               bw == 3 * r.branches
    <3>7. rw \in Nat /\ bw \in Nat
      BY <1>2, <1>4
    <3>8. r.size = 1 + rw + BranchWords(r.branches)
      BY <1>4
    <3>9. AfterRead = r.start + 1 + rw
      BY <1>6
    <3>10. BranchWords(r.branches) = 1 + bw /\ AfterBranches = AfterRead + 1 + bw
      BY <3>1, <3>6
    <3> HIDE DEF rw, bw
    <3> QED BY <3>7, <3>8, <3>9, <3>10, <1>2
  <2>2. CASE "BRANCH_STACK" \notin SampleType
    BY <2>2, <1>2, <1>4, <1>6 DEF AfterBranches, BranchWords
  <2> QED BY <2>1, <2>2
<1>8. Collected = Values(r)
  <2>1. CASE "READ" \in SampleType
    <3>1. ASSUME NEW i \in 1..Counters
          PROVE  Word(FirstValue + Stride * (i - 1))[2] = r.first + i - 1
      <4> DEFINE o == ValueAt(i - 1)
      <4>1. i - 1 \in 0..Counters - 1
        BY <1>2
      <4>2. /\ o \in 2..ReadWords(Counters)
            /\ o = 2 + TimeWords + Stride * (i - 1)
        BY <2>1, <4>1, ValuePlaces
      <4>3. WordOf(r, o) = <<"value", r.first + (i - 1)>>
        BY <2>1, <4>1, <1>1, <1>3, SampleWords
      <4>a. Stride * (i - 1) \in Int
        BY DEF Stride
      <4> HIDE DEF o
      <4>4. o \in 0..r.size - 1
        BY <4>2, <1>2, <1>4
      <4>5. r.start + o = FirstValue + Stride * (i - 1)
        BY <4>2, <4>a, <1>1, <1>2, <1>4 DEF FirstValue
      <4>6. Word(FirstValue + Stride * (i - 1)) = WordOf(r, o)
        BY <4>4, <4>5, <1>1
      <4> QED BY <4>3, <4>6, <1>2
    <3>2. Collected = [i \in 1..Counters |->
                         Word(FirstValue + Stride * (i - 1))[2]]
      BY <2>1, <1>5 DEF Collected
    <3>3. Values(r) = [i \in 1..Counters |-> r.first + i - 1]
      BY <2>1, <1>3 DEF Values
    <3> QED BY <3>1, <3>2, <3>3
  <2>2. CASE "READ" \notin SampleType
    BY <2>2 DEF Collected, Values
  <2> QED BY <2>1, <2>2
<1> QED BY <1>3, <1>7, <1>8 DEF r

\* The values of a record are a sequence of numbers.
LEMMA PayloadIn ==
  ASSUME NEW r \in Record
  PROVE  /\ Payload(r) \in {Payload(q) : q \in Record}
         /\ Values(r) \in {Values(q) : q \in Record}
  OBVIOUS

\* One record further: what both kinds of records have in common.
LEMMA Advance ==
  ASSUME IInv, pc = "reading", More, NEW k, k = Len(delivered) + 1,
         data_tail' = log[k].start + log[k].size,
         delivered' = Append(delivered, Payload(log[k])),
         UNCHANGED <<kernel, hdr_tail, pc, data_head>>
  PROVE  AtBoundary' /\ data_tail' \in Nat
<1>1. /\ k \in 1..Len(log) /\ log[k] \in Record
      /\ data_tail = log[k].start
      /\ log[k].start + log[k].size <= data_head
  BY NextRecord
<1>2. /\ delivered \in Seq({Payload(q) : q \in Record})
      /\ Payload(log[k]) \in {Payload(q) : q \in Record}
      /\ Len(delivered) \in Nat /\ Len(log) \in Nat
      /\ log' = log /\ data_head' = data_head /\ hdr_tail' = hdr_tail
      /\ pc' = "reading" /\ log \in Seq(Record)
  BY <1>1, PayloadIn DEF IInv, AtBoundary, Held, Chain, kernel
<1>3. /\ delivered' \in Seq({Payload(q) : q \in Record})
      /\ Len(delivered') = k
      /\ delivered'[k] = Payload(log[k])
      /\ \A i \in 1..Len(delivered) : delivered'[i] = delivered[i]
  BY <1>2
<1>4. \A i \in 1..k : delivered'[i] = Payload(log[i])
  BY <1>2, <1>3 DEF IInv, AtBoundary
<1>5. Position' = Boundary(log', Len(delivered'))
  BY <1>1, <1>2, <1>3 DEF Position, Boundary
<1>6. PICK j \in Len(delivered)..Len(log) : data_head = Boundary(log, j)
  BY DEF IInv, AtBoundary
<1>7. j \in k..Len(log)
  <2>1. data_tail = Boundary(log, Len(delivered)) /\ data_head - data_tail > 1
        /\ data_tail \in Nat /\ data_head \in Nat
    BY DEF IInv, TypeOK, AtBoundary, Position, More, Available
  <2>2. j # Len(delivered)
    BY <1>6, <2>1
  <2> QED BY <1>2, <2>2
<1>8. /\ Accepted
      /\ \E i \in Len(delivered')..Len(log') : data_head' = Boundary(log', i)
  BY <1>2, <1>3, <1>6, <1>7 DEF IInv, AtBoundary
<1>9. hdr_tail' <= Position' /\ data_tail' \in Nat
  <2>1. hdr_tail <= data_tail /\ hdr_tail \in Nat
    BY DEF IInv, TypeOK, AtBoundary, Position
  <2>2. log[k].start \in Nat /\ log[k].size \in Nat
    BY <1>1 DEF Record
  <2>3. Position' = log[k].start + log[k].size
    BY <1>2 DEF Position
  <2> QED BY <1>1, <1>2, <2>1, <2>2, <2>3
<1> QED BY <1>1, <1>2, <1>3, <1>4, <1>5, <1>8, <1>9 DEF AtBoundary

\* Any record but a sample is skipped by its size.
LEMMA SkipExact ==
  ASSUME IInv, pc = "reading", More, Header[1] # "sample",
         NEW k, k = Len(delivered) + 1
  PROVE  /\ Skipped(Skipped(data_tail, 1), Header[2] - 1)
               = log[k].start + log[k].size
         /\ <<Header[1], <<>>>> = Payload(log[k])
         /\ log[k].type # "sample"
<1> DEFINE r == log[k]
<1>1. /\ r \in Record /\ data_tail = r.start /\ r.start + r.size <= data_head
      /\ \A o \in 0..r.size - 1 : Word(r.start + o) = WordOf(r, o)
  BY NextRecord
<1>a. data_head \in Nat
  BY DEF IInv, TypeOK
<1> HIDE DEF r
<1>2. r.start \in Nat /\ r.size \in Nat \ {0}
  BY <1>1 DEF Record
<1>3. Header = <<r.type, r.size>>
  <2>1. Header = WordOf(r, 0)
    BY <1>1, <1>2 DEF Header
  <2> QED BY <2>1, HeaderWord
<1>4. Skipped(Skipped(data_tail, 1), r.size - 1) = r.start + r.size
  BY <1>1, <1>2, <1>a DEF Skipped
<1>5. Payload(r) = <<r.type, <<>>>> /\ r.type # "sample"
  BY <1>3 DEF Payload, Values
<1> QED BY <1>3, <1>4, <1>5 DEF r

LEMMA ReaderStep ==
  ASSUME IInv, Reader
  PROVE  IInv'
<1> DEFINE k == Len(delivered) + 1
<1>1. CASE Begin
  <2>1. UNCHANGED <<log, delivered, hdr_tail, data, hdr_head>>
    BY <1>1 DEF Begin, kernel
  <2>2. /\ pc = "idle" /\ pc' = "reading" /\ data_tail' = hdr_tail /\ Accepted
        /\ data_head' = hdr_head /\ samples' = <<>>
    BY <1>1 DEF Begin
  <2>3. Position' = Position
    BY <2>1, <2>2 DEF Position
  <2>4. hdr_head = Boundary(log, Len(log))
    BY DEF IInv, Held, Chain
  <2>5. AtBoundary'
    <3>1. Len(log) \in Len(delivered)..Len(log)
      BY DEF IInv, Held, Chain, AtBoundary
    <3>2. \E j \in Len(delivered')..Len(log') : data_head' = Boundary(log', j)
      BY <2>1, <2>2, <2>4, <3>1
    <3> QED BY <2>1, <2>2, <2>3, <3>2 DEF IInv, AtBoundary
  <2>6. samples' \in Seq({Values(r) : r \in Record})
    BY <2>2
  <2>7. TypeOK'
    BY <1>1 DEF Begin, IInv, TypeOK, kernel
  <2>8. Held(data, log, hdr_head, hdr_tail)'
    BY <2>1 DEF IInv
  <2> QED BY <2>5, <2>6, <2>7, <2>8 DEF IInv
<1>2. CASE TakeSample
  <2>1. /\ pc = "reading" /\ More /\ Header[1] = "sample"
        /\ data_tail' = AfterBranches
        /\ samples' = Append(samples, Collected)
        /\ delivered' = Append(delivered, <<"sample", Collected>>)
        /\ UNCHANGED <<kernel, hdr_tail, pc, data_head, m_phaseno>>
    BY <1>2 DEF TakeSample
  <2>2. /\ AfterBranches = log[k].start + log[k].size
        /\ Collected = Values(log[k]) /\ log[k].type = "sample"
    BY <2>1, CollectExact
  <2>3. <<"sample", Collected>> = Payload(log[k])
    BY <2>2 DEF Payload
  <2>4. AtBoundary' /\ data_tail' \in Nat
    BY <2>1, <2>2, <2>3, Advance
  <2>5. samples' \in Seq({Values(r) : r \in Record})
    BY <2>1, <2>2, NextRecord, PayloadIn DEF IInv
  <2>6. Held(data, log, hdr_head, hdr_tail)'
    BY <2>1 DEF IInv, kernel
  <2>7. TypeOK'
    BY <2>1, <2>4 DEF IInv, TypeOK, kernel
  <2> QED BY <2>4, <2>5, <2>6, <2>7 DEF IInv
<1>3. CASE TakeOther
  <2>1. /\ pc = "reading" /\ More /\ Header[1] # "sample"
        /\ data_tail' = Skipped(Skipped(data_tail, 1), Header[2] - 1)
        /\ delivered' = Append(delivered, <<Header[1], <<>>>>)
        /\ UNCHANGED <<kernel, hdr_tail, pc, data_head, samples, m_phaseno>>
    BY <1>3 DEF TakeOther
  <2>2. /\ data_tail' = log[k].start + log[k].size
        /\ delivered' = Append(delivered, Payload(log[k]))
    BY <2>1, SkipExact
  <2>3. AtBoundary' /\ data_tail' \in Nat
    BY <2>1, <2>2, Advance
  <2>4. Held(data, log, hdr_head, hdr_tail)'
    BY <2>1 DEF IInv, kernel
  <2>5. TypeOK' /\ samples' \in Seq({Values(r) : r \in Record})
    BY <2>1, <2>3 DEF IInv, TypeOK, kernel
  <2> QED BY <2>3, <2>4, <2>5 DEF IInv
<1>4. CASE Finish
  <2>1. /\ pc = "reading" /\ pc' = "idle" /\ hdr_tail' = data_tail
        /\ samples' = <<>> /\ m_phaseno' = m_phaseno + Len(samples)
        /\ UNCHANGED <<kernel, data_head, data_tail, delivered>>
    BY <1>4 DEF Finish
  <2>2. UNCHANGED <<data, log, hdr_head>>
    BY <2>1 DEF kernel
  <2>3. Position' = Position /\ hdr_tail' = Position'
    BY <2>1 DEF Position
  <2>4. AtBoundary'
    <3>1. Position' <= Position'
      BY <2>1, <2>3 DEF IInv, TypeOK, Position
    <3> QED BY <2>1, <2>2, <2>3, <3>1 DEF IInv, AtBoundary
  <2>5. /\ data_tail \in Nat /\ hdr_tail <= data_tail /\ data_tail <= hdr_head
        /\ hdr_tail \in Nat /\ hdr_head \in Nat
    <3>1. Len(delivered) \in 0..Len(log) /\ Len(log) \in 0..Len(log)
      BY DEF IInv, Held, Chain, AtBoundary
    <3>2. Boundary(log, Len(delivered)) <= Boundary(log, Len(log))
      BY <3>1, BoundaryMonotone DEF IInv, Held
    <3> QED BY <2>1, <3>2 DEF IInv, TypeOK, AtBoundary, Held, Chain, Position
  <2>6. Held(data, log, hdr_head, hdr_tail)'
    <3>1. Words(data, log, data_tail)
      <4>0. \A i \in 1..Len(log) : log[i] \in Record
        BY DEF IInv, Held, Chain
      <4>1. \A i \in 1..Len(log) : log[i].start \in Nat
        BY <4>0 DEF Record
      <4>2. \A i \in 1..Len(log) : log[i].start >= data_tail =>
              log[i].start >= hdr_tail
        BY <2>5, <4>1
      <4> QED BY <4>2 DEF IInv, Held, Words
    <3>2. hdr_head - data_tail < Size
      BY <2>5, BufferAssumption DEF IInv, Held
    <3>3. Held(data, log, hdr_head, data_tail)
      BY <2>5, <3>1, <3>2 DEF IInv, Held
    <3> QED BY <2>1, <2>2, <3>3
  <2>7. samples' \in Seq({Values(r) : r \in Record})
    BY <2>1
  <2>8. TypeOK'
    <3>1. Len(samples) \in Nat
      BY DEF IInv
    <3> QED BY <2>1, <2>5, <3>1 DEF IInv, TypeOK, kernel
  <2> QED BY <2>4, <2>6, <2>7, <2>8 DEF IInv
<1> QED BY <1>1, <1>2, <1>3, <1>4 DEF Reader

-----------------------------------------------------------------------------
(* Invariance, and what follows from the invariant.                        *)

LEMMA Initially ==
  ASSUME Init
  PROVE  IInv
<1>1. /\ data = [i \in 0..Size - 1 |-> <<"zero", 0>>]
      /\ hdr_head = 0 /\ hdr_tail = 0 /\ rb_lost = 0 /\ pc = "idle"
      /\ data_head = 0 /\ data_tail = 0 /\ samples = <<>> /\ m_phaseno = 0
      /\ log = <<>> /\ delivered = <<>> /\ overflows = 0 /\ dropped = 0
  BY DEF Init
<1>2. TypeOK
  BY <1>1 DEF TypeOK
<1>3. Held(data, log, hdr_head, hdr_tail)
  BY <1>1, BufferAssumption DEF Held, Chain, Words, Boundary
<1>4. AtBoundary
  BY <1>1 DEF AtBoundary, Boundary, Position
<1> QED BY <1>1, <1>2, <1>3, <1>4 DEF IInv

LEMMA Steps ==
  ASSUME IInv, [Next]_vars
  PROVE  IInv'
<1>1. CASE Kernel
  BY <1>1, KernelStep
<1>2. CASE Reader
  BY <1>2, ReaderStep
<1>3. CASE UNCHANGED vars
  <2>1. UNCHANGED <<data, hdr_head, rb_lost, log, overflows, dropped, hdr_tail,
                    pc, data_head, data_tail, samples, m_phaseno, delivered>>
    BY <1>3 DEF vars, kernel, reader
  <2>2. Position' = Position
    BY <2>1 DEF Position
  <2> QED BY <2>1, <2>2 DEF IInv, TypeOK, AtBoundary
<1> QED BY <1>1, <1>2, <1>3 DEF Next

\* The inductive invariant holds in every state.
THEOREM Invariant == Spec => []IInv
<1>1. Init => IInv
  BY Initially
<1>2. IInv /\ [Next]_vars => IInv'
  BY Steps
<1> QED BY <1>1, <1>2, PTL DEF Spec

\* The positions and counters keep their types.
THEOREM Typing == Spec => []TypeOK
<1>1. IInv => TypeOK
  BY DEF IInv
<1> QED BY <1>1, Invariant, PTL

\* ProcessEvents never runs past the head it copied, whatever the records
\* hold, and the kernel's and the reader's positions stay a ring apart.
THEOREM PositionsOrdered == Spec => []Positions
<1>1. ASSUME IInv PROVE Positions
  <2>1. hdr_tail <= hdr_head /\ hdr_head - hdr_tail < Size
    BY <1>1 DEF IInv, Held
  <2>2. ASSUME pc = "reading"
        PROVE  /\ hdr_tail <= data_tail /\ data_tail <= data_head
               /\ data_head <= hdr_head
    <3>1. PICK j \in Len(delivered)..Len(log) : data_head = Boundary(log, j)
      BY <1>1, <2>2 DEF IInv, AtBoundary
    <3>2. /\ Len(delivered) \in 0..Len(log) /\ j \in 0..Len(log)
          /\ Len(log) \in 0..Len(log) /\ Len(delivered) <= j /\ j <= Len(log)
      BY <1>1, <3>1 DEF IInv, Held, Chain, AtBoundary
    <3>3. Boundary(log, Len(delivered)) <= Boundary(log, j)
      BY <1>1, <3>2, BoundaryMonotone DEF IInv, Held
    <3>4. Boundary(log, j) <= Boundary(log, Len(log))
      BY <1>1, <3>2, BoundaryMonotone DEF IInv, Held
    <3> QED BY <1>1, <2>2, <3>1, <3>3, <3>4
            DEF IInv, AtBoundary, Held, Chain, Position
  <2> QED BY <2>1, <2>2 DEF Positions
<1>2. IInv => Positions
  BY <1>1
<1> QED BY <1>2, Invariant, PTL

\* The kernel never overwrites what ProcessEvents has still to read.
THEOREM UnreadIntact == Spec => []Intact
<1>1. ASSUME IInv PROVE Intact
  <2> SUFFICES ASSUME NEW i \in Unread, NEW o \in 0..log[i].size - 1
               PROVE  data[(log[i].start + o) % Size] = WordOf(log[i], o)
    BY DEF Intact
  <2>1. i \in 1..Len(log) /\ log[i].start >= Position
    BY <1>1 DEF Unread, IInv, Held, Chain
  <2>2. /\ hdr_tail <= Position /\ hdr_tail \in Nat /\ Position \in Nat
    BY <1>1 DEF IInv, AtBoundary, TypeOK, Position
  <2>3. log[i] \in Record
    BY <1>1, <2>1 DEF IInv, Held, Chain
  <2>4. log[i].start >= hdr_tail
    BY <2>1, <2>2, <2>3 DEF Record
  <2> QED BY <1>1, <2>1, <2>4 DEF IInv, Held, Words
<1>2. IInv => Intact
  BY <1>1
<1> QED BY <1>2, Invariant, PTL

\* ProcessEvents reads all it knew of before it returns, if the samples have
\* any contents; a sample of a header alone is left in the ring.
THEOREM DrainedUnlessEmpty ==
  ASSUME SampleType # {}
  PROVE  Spec => Drained
<1>1. ASSUME IInv, Next, pc = "reading", pc' = "idle"
      PROVE  data_tail = data_head
  <2> DEFINE k == Len(delivered) + 1
  <2>1. ~More
    BY <1>1 DEF Next, Kernel, Overflow, OtherRecord, reader, Reader, Begin,
                TakeSample, TakeOther, Finish
  <2>2. /\ Chain(log, hdr_head) /\ Len(log) \in Nat
        /\ Len(delivered) \in 0..Len(log)
        /\ data_tail = Boundary(log, Len(delivered)) /\ hdr_tail <= data_tail
        /\ data_tail \in Nat /\ data_head \in Nat /\ hdr_tail \in Nat
        /\ Accepted
    BY <1>1 DEF IInv, TypeOK, Held, Chain, AtBoundary, Position
  <2>3. PICK j \in Len(delivered)..Len(log) : data_head = Boundary(log, j)
    BY <1>1 DEF IInv, AtBoundary
  <2>4. CASE j = Len(delivered)
    BY <2>2, <2>3, <2>4
  <2>5. CASE j # Len(delivered)
    <3> DEFINE r == log[k]
    <3>1. k \in 1..Len(log) /\ k <= j /\ j \in 1..Len(log)
      BY <2>2, <2>5
    <3>2. r \in Record /\ Sized(r) /\ data_tail = r.start
      BY <1>1, <2>2, <3>1 DEF IInv, Held, Chain
    <3>3. r.start + r.size <= data_head
      <4>1. Boundary(log, k) <= Boundary(log, j)
        BY <2>2, <3>1, BoundaryMonotone
      <4>2. Boundary(log, k) = r.start + r.size
        BY <3>1 DEF Boundary
      <4> QED BY <2>3, <4>1, <4>2
    <3>4. Header = <<r.type, r.size>>
      <4>1. 0 \in 0..r.size - 1 /\ r.start \in Nat /\ r.start + 0 = r.start
        BY <3>2 DEF Record
      <4>2. r.start >= hdr_tail
        BY <2>2, <3>2
      <4>3. Word(r.start) = WordOf(r, 0)
        BY <1>1, <3>1, <4>1, <4>2 DEF IInv, Held, Words, Word
      <4> QED BY <3>2, <4>3, HeaderWord DEF Header
    <3> HIDE DEF r
    <3>5. r.size > 1
      <4>1. CASE r.type = "sample"
        <5>1. r.branches \in Nat /\ Counters \in Nat
          BY <3>2, BufferAssumption DEF Record
        <5>2. /\ ReadWords(Counters) \in Nat
              /\ BranchWords(r.branches) \in Nat
          BY <5>1, LayoutTypes
        <5>3. "READ" \in SampleType \/ "BRANCH_STACK" \in SampleType
          BY <1>1, <2>2 DEF Accepted
        <5>4. "READ" \in SampleType => ReadWords(Counters) > 0
          <6>1. TimeWords \in Nat /\ ValueWords(Counters) \in Nat
            BY <5>1, LayoutTypes
          <6> QED BY <6>1 DEF ReadWords
        <5>5. "BRANCH_STACK" \in SampleType => BranchWords(r.branches) > 0
          BY <5>1 DEF BranchWords
        <5> QED BY <3>2, <4>1, <5>2, <5>3, <5>4, <5>5 DEF Sized
      <4>2. CASE r.type # "sample"
        BY <3>2, <4>2 DEF Sized
      <4> QED BY <4>1, <4>2
    <3>6. r.start \in Nat /\ r.size \in Nat
      BY <3>2 DEF Record
    <3>7. data_head - data_tail > 1 /\ r.size <= data_head - data_tail
      BY <2>2, <3>2, <3>3, <3>5, <3>6
    <3>8. More
      BY <3>4, <3>7 DEF More, Available
    <3> QED BY <2>1, <3>8
  <2> QED BY <2>4, <2>5
<1>2. IInv /\ [Next]_vars
        => [pc = "reading" /\ pc' = "idle" => data_tail = data_head]_vars
  BY <1>1 DEF vars, reader, kernel
<1> QED BY <1>2, Invariant, PTL DEF Spec, Drained

-----------------------------------------------------------------------------
(* The refinement.                                                         *)

\* The abstract queue's records.
LEMMA WrittenSeq ==
  ASSUME NEW lg, lg \in Seq(Record)
  PROVE  /\ Len([i \in DOMAIN lg |-> Payload(lg[i])]) = Len(lg)
         /\ \A i \in 1..Len(lg) :
              [j \in DOMAIN lg |-> Payload(lg[j])][i] = Payload(lg[i])
<1>1. DOMAIN lg = 1..Len(lg) /\ Len(lg) \in Nat
  OBVIOUS
<1>2. \A i \in 1..Len(lg) :
        [j \in DOMAIN lg |-> Payload(lg[j])][i] = Payload(lg[i])
  BY <1>1
<1>3. [i \in DOMAIN lg |-> Payload(lg[i])] \in Seq({Payload(r) : r \in Record})
  OBVIOUS
<1> QED BY <1>1, <1>2, <1>3

\* The ring, with everything in it, is a queue of records: collectSample is
\* called with each record once, in order, and with what was written.
THEOREM RingIsQueue == Spec => QueueSpec
<1> DEFINE written == [i \in DOMAIN log |-> Payload(log[i])]
<1>1. Init => Queue!Init
  BY DEF Init, Queue!Init
<1>2. ASSUME IInv, NEW r \in Record, Sized(r), r.start = Start,
             Write(r) \/ Lose(r), UNCHANGED reader
      PROVE  [Queue!Next]_<<written, delivered>>
  <2>1. log \in Seq(Record) /\ delivered' = delivered
    BY <1>2 DEF IInv, Held, Chain, reader
  <2>2. CASE Write(r)
    <3>1. hdr_tail' = hdr_tail
      BY <1>2 DEF reader
    <3>2. /\ Held(data, log, hdr_head, hdr_tail)'
          /\ Len(log') > Len(log)
          /\ \A i \in 1..Len(log) : log'[i] = log[i]
      BY <1>2, <2>2, <3>1, WriteHeld
    <3>3. log' \in Seq(Record)
      BY <3>2 DEF Held, Chain
    <3>4. /\ Len(written) = Len(log) /\ Len(written') = Len(log')
          /\ \A i \in 1..Len(log) : written[i] = Payload(log[i])
          /\ \A i \in 1..Len(log') : written'[i] = Payload(log'[i])
      BY <2>1, <3>3, WrittenSeq
    <3>5. /\ Len(log) \in Nat /\ Len(log') \in Nat
      BY <2>1, <3>3
    <3> HIDE DEF written
    <3>6. /\ Len(written') > Len(written)
          /\ \A i \in 1..Len(written) : written'[i] = written[i]
      BY <3>2, <3>4, <3>5
    <3>7. Queue!Put
      BY <2>1, <3>6 DEF Queue!Put, written
    <3> QED BY <3>7 DEF Queue!Next
  <2>3. CASE Lose(r)
    BY <2>1, <2>3 DEF Lose
  <2> QED BY <1>2, <2>2, <2>3
<1>3. ASSUME IInv, Kernel
      PROVE  [Queue!Next]_<<written, delivered>>
  <2>0. /\ Start \in Nat /\ overflows \in Nat
    BY <1>3 DEF IInv, TypeOK, Start, LostWords
  <2>1. ASSUME NEW n \in 0..MaxBranches, Overflow(n)
        PROVE  [Queue!Next]_<<written, delivered>>
    <3> DEFINE r == Sample(Start, overflows * Counters, n)
    <3>1. overflows * Counters \in Nat /\ n \in Nat
      BY <2>0, BufferAssumption
    <3>2. r \in Record /\ Sized(r) /\ r.start = Start
      BY <3>1, <2>0, SampleRecord
    <3>3. (Write(r) \/ Lose(r)) /\ UNCHANGED reader
      BY <2>1 DEF Overflow
    <3> QED BY <1>2, <1>3, <3>2, <3>3
  <2>2. ASSUME NEW type \in OtherRecords, OtherRecord(type)
        PROVE  [Queue!Next]_<<written, delivered>>
    <3> DEFINE r == Other(type, Start, 4)
    <3>1. type \in Types /\ type # "sample" /\ 4 \in Nat /\ 4 > 1
      BY BufferAssumption DEF Types
    <3>2. r \in Record /\ Sized(r) /\ r.start = Start
      BY <3>1, <2>0, OtherRecordOK
    <3>3. (Write(r) \/ Lose(r)) /\ UNCHANGED reader
      BY <2>2 DEF OtherRecord
    <3> QED BY <1>2, <1>3, <3>2, <3>3
  <2> QED BY <1>3, <2>1, <2>2 DEF Kernel
<1>4. ASSUME IInv, pc = "reading", More, NEW k, k = Len(delivered) + 1,
             delivered' = Append(delivered, Payload(log[k])), log' = log
      PROVE  Queue!Deliver
  <2>1. k \in 1..Len(log) /\ log \in Seq(Record) /\ Len(delivered) \in Nat
    <3>1. k \in 1..Len(log)
      BY <1>4, NextRecord
    <3>2. log \in Seq(Record) /\ delivered \in Seq({Payload(r) : r \in Record})
      BY <1>4 DEF IInv, Held, Chain, AtBoundary
    <3> QED BY <3>1, <3>2
  <2>2. /\ Len(written) = Len(log) /\ written' = written
        /\ \A i \in 1..Len(log) : written[i] = Payload(log[i])
    BY <1>4, <2>1, WrittenSeq
  <2>3. Len(delivered) < Len(written)
    BY <1>4, <2>1, <2>2
  <2>4. delivered' = Append(delivered, written[Len(delivered) + 1])
    BY <1>4, <2>1, <2>2
  <2> QED BY <2>2, <2>3, <2>4 DEF Queue!Deliver
<1>5. ASSUME IInv, Reader
      PROVE  [Queue!Next]_<<written, delivered>>
  <2> DEFINE k == Len(delivered) + 1
  <2>1. log' = log
    BY <1>5 DEF Reader, Begin, TakeSample, TakeOther, Finish, kernel
  <2>2. CASE Begin \/ Finish
    BY <2>1, <2>2 DEF Begin, Finish
  <2>3. CASE TakeSample
    <3>1. /\ pc = "reading" /\ More /\ Header[1] = "sample"
          /\ delivered' = Append(delivered, <<"sample", Collected>>)
      BY <2>3 DEF TakeSample
    <3>2. <<"sample", Collected>> = Payload(log[k])
      BY <1>5, <3>1, CollectExact DEF Payload
    <3> QED BY <1>4, <1>5, <2>1, <3>1, <3>2 DEF Queue!Next
  <2>4. CASE TakeOther
    <3>1. /\ pc = "reading" /\ More /\ Header[1] # "sample"
          /\ delivered' = Append(delivered, <<Header[1], <<>>>>)
      BY <2>4 DEF TakeOther
    <3>2. <<Header[1], <<>>>> = Payload(log[k])
      BY <1>5, <3>1, SkipExact
    <3> QED BY <1>4, <1>5, <2>1, <3>1, <3>2 DEF Queue!Next
  <2> QED BY <1>5, <2>2, <2>3, <2>4 DEF Reader
<1>6. IInv /\ [Next]_vars => [Queue!Next]_<<written, delivered>>
  BY <1>3, <1>5 DEF Next, vars, kernel, reader
<1> QED BY <1>1, <1>6, Invariant, PTL DEF Spec, QueueSpec, Queue!Spec

-----------------------------------------------------------------------------
(* The accounting of the phase counter.                                    *)

\* The samples that wait in the ring, by their place in the log.
Left == {i \in Len(delivered) + 1..Len(log) : log[i].type = "sample"}

Counted == overflows = m_phaseno + Len(samples) + Cardinality(Left) + dropped

\* What lies from the reader's position on are the records not delivered.
LEMMA UnreadIsLeft ==
  ASSUME IInv
  PROVE  /\ UnreadSamples = Left
         /\ IsFiniteSet(Left) /\ Cardinality(Left) \in Nat
<1>1. /\ Chain(log, hdr_head) /\ log \in Seq(Record) /\ Len(log) \in Nat
      /\ Len(delivered) \in 0..Len(log)
      /\ Position = Boundary(log, Len(delivered))
      /\ DOMAIN log = 1..Len(log)
  BY DEF IInv, Held, Chain, AtBoundary
<1>2. ASSUME NEW i \in 1..Len(log)
      PROVE  log[i].start >= Position <=> i > Len(delivered)
  <2>1. /\ log[i].start = Boundary(log, i - 1)
        /\ i - 1 \in 0..Len(log) /\ i \in 0..Len(log)
    BY <1>1 DEF Chain
  <2>2. CASE i > Len(delivered)
    <3>1. Len(delivered) <= i - 1
      BY <1>1, <2>2
    <3>2. /\ Boundary(log, Len(delivered)) <= Boundary(log, i - 1)
          /\ Boundary(log, Len(delivered)) \in Nat
          /\ Boundary(log, i - 1) \in Nat
      BY <1>1, <2>1, <3>1, BoundaryMonotone
    <3> QED BY <1>1, <2>1, <2>2, <3>2
  <2>3. CASE i <= Len(delivered)
    <3>1. i - 1 < Len(delivered) /\ i - 1 <= Len(delivered)
      BY <1>1, <2>3
    <3>2. /\ Boundary(log, i - 1) < Boundary(log, Len(delivered))
          /\ Boundary(log, Len(delivered)) \in Nat
          /\ Boundary(log, i - 1) \in Nat
      BY <1>1, <2>1, <3>1, BoundaryMonotone
    <3> QED BY <1>1, <2>1, <2>3, <3>2
  <2> QED BY <1>1, <2>2, <2>3
<1>3. UnreadSamples = Left
  BY <1>1, <1>2 DEF UnreadSamples, Unread, Left
<1>4. IsFiniteSet(Left) /\ Cardinality(Left) \in Nat
  <2>1. IsFiniteSet(Len(delivered) + 1..Len(log))
    BY <1>1, FS_Interval
  <2>2. Left \in SUBSET (Len(delivered) + 1..Len(log))
    BY DEF Left
  <2>3. IsFiniteSet(Left)
    BY <2>1, <2>2, FS_Subset
  <2> QED BY <2>3, FS_CardinalityType
<1> QED BY <1>3, <1>4

\* What a write adds to the records that wait.
LEMMA WriteLeft ==
  ASSUME IInv, NEW r \in Record, Write(r), UNCHANGED reader
  PROVE  Left' = IF r.type = "sample" THEN Left \cup {Len(log')} ELSE Left
<1>1. /\ log \in Seq(Record) /\ delivered' = delivered /\ Len(log) \in Nat
      /\ Len(delivered) \in 0..Len(log)
  BY DEF IInv, Held, Chain, AtBoundary, reader
<1>2. CASE rb_lost = 0
  <2>1. log' = Append(log, r)
    BY <1>1, <1>2 DEF Write, LostRecord
  <2>2. /\ Len(log') = Len(log) + 1 /\ log'[Len(log) + 1] = r
        /\ \A i \in 1..Len(log) : log'[i] = log[i]
    BY <1>1, <2>1
  <2> QED BY <1>1, <2>2 DEF Left
<1>3. CASE rb_lost # 0
  <2> DEFINE lost == Other("lost", hdr_head, LostWords)
  <2>1. log' = Append(Append(log, lost), r)
    BY <1>1, <1>3 DEF Write, LostRecord
  <2>2. lost.type # "sample"
    BY DEF Other
  <2> HIDE DEF lost
  <2>3. /\ Len(log') = Len(log) + 2 /\ log'[Len(log) + 2] = r
        /\ log'[Len(log) + 1] = lost
        /\ \A i \in 1..Len(log) : log'[i] = log[i]
    BY <1>1, <2>1
  <2> QED BY <1>1, <2>2, <2>3 DEF Left
<1> QED BY <1>2, <1>3

LEMMA CountedByKernel ==
  ASSUME IInv, Counted, Kernel
  PROVE  Counted'
<1>0. /\ Start \in Nat /\ overflows \in Nat /\ dropped \in Nat
      /\ m_phaseno \in Nat /\ Len(samples) \in Nat
      /\ IsFiniteSet(Left) /\ Cardinality(Left) \in Nat
  BY UnreadIsLeft DEF IInv, TypeOK, Start, LostWords
<1>1. ASSUME NEW n \in 0..MaxBranches, Overflow(n)
      PROVE  Counted'
  <2> DEFINE r == Sample(Start, overflows * Counters, n)
  <2>1. overflows * Counters \in Nat /\ n \in Nat
    BY <1>0, BufferAssumption
  <2>2. r \in Record /\ r.type = "sample"
    BY <2>1, <1>0, SampleRecord DEF Sample
  <2>3. /\ \/ Write(r) /\ dropped' = dropped
           \/ Lose(r) /\ dropped' = dropped + 1
        /\ overflows' = overflows + 1 /\ UNCHANGED reader
        /\ m_phaseno' = m_phaseno /\ samples' = samples
        /\ delivered' = delivered
    BY <1>1 DEF Overflow, reader
  <2> HIDE DEF r
  <2>4. CASE Write(r) /\ dropped' = dropped
    <3>1. Left' = Left \cup {Len(log')}
      BY <2>2, <2>3, <2>4, WriteLeft
    <3>2. Len(log') \notin Left
      <4>1. Len(log') > Len(log)
        <5>1. log \in Seq(Record)
          BY DEF IInv, Held, Chain
        <5> QED BY <2>2, <2>4, <5>1 DEF Write, LostRecord
      <4> QED BY <4>1 DEF Left
    <3>3. Cardinality(Left') = Cardinality(Left) + 1
      BY <1>0, <3>1, <3>2, FS_AddElement
    <3> QED BY <1>0, <2>3, <2>4, <3>3 DEF Counted
  <2>5. CASE Lose(r) /\ dropped' = dropped + 1
    <3>1. Left' = Left
      BY <2>3, <2>5 DEF Lose, Left
    <3> QED BY <1>0, <2>3, <2>5, <3>1 DEF Counted
  <2> QED BY <2>3, <2>4, <2>5
<1>2. ASSUME NEW type \in OtherRecords, OtherRecord(type)
      PROVE  Counted'
  <2> DEFINE r == Other(type, Start, 4)
  <2>1. type \in Types /\ type # "sample" /\ 4 \in Nat /\ 4 > 1
    BY BufferAssumption DEF Types
  <2>2. r \in Record /\ r.type # "sample"
    BY <2>1, <1>0, OtherRecordOK DEF Other
  <2>3. /\ Write(r) \/ Lose(r)
        /\ dropped' = dropped /\ overflows' = overflows /\ UNCHANGED reader
        /\ m_phaseno' = m_phaseno /\ samples' = samples
        /\ delivered' = delivered
    BY <1>2 DEF OtherRecord, reader
  <2> HIDE DEF r
  <2>4. Left' = Left
    <3>1. CASE Write(r)
      BY <2>2, <2>3, <3>1, WriteLeft
    <3>2. CASE Lose(r)
      BY <2>3, <3>2 DEF Lose, Left
    <3> QED BY <2>3, <3>1, <3>2
  <2> QED BY <2>3, <2>4 DEF Counted
<1> QED BY <1>1, <1>2 DEF Kernel

LEMMA CountedByReader ==
  ASSUME IInv, Counted, Reader
  PROVE  Counted'
<1> DEFINE k == Len(delivered) + 1
<1>0. /\ overflows \in Nat /\ dropped \in Nat
      /\ m_phaseno \in Nat /\ Len(samples) \in Nat
      /\ IsFiniteSet(Left) /\ Cardinality(Left) \in Nat
      /\ Len(delivered) \in Nat /\ Len(log) \in Nat
  BY UnreadIsLeft DEF IInv, TypeOK, AtBoundary, Held, Chain
<1>1. log' = log /\ overflows' = overflows /\ dropped' = dropped
  BY DEF Reader, Begin, TakeSample, TakeOther, Finish, kernel
<1>2. CASE Begin
  <2>1. /\ samples' = <<>> /\ m_phaseno' = m_phaseno /\ delivered' = delivered
        /\ pc = "idle"
    BY <1>2 DEF Begin
  <2>2. samples = <<>>
    BY <2>1 DEF IInv, AtBoundary
  <2>3. Left' = Left
    BY <1>1, <2>1 DEF Left
  <2> QED BY <1>1, <2>1, <2>2, <2>3 DEF Counted
<1>3. CASE TakeSample
  <2>1. /\ pc = "reading" /\ More /\ Header[1] = "sample"
        /\ samples' = Append(samples, Collected)
        /\ delivered' = Append(delivered, <<"sample", Collected>>)
        /\ m_phaseno' = m_phaseno
    BY <1>3 DEF TakeSample
  <2>2. /\ Collected = Values(log[k]) /\ log[k].type = "sample"
        /\ k \in 1..Len(log) /\ log[k] \in Record
    BY <2>1, CollectExact, NextRecord
  <2>3. Len(samples') = Len(samples) + 1
    BY <2>1, <2>2, PayloadIn DEF IInv
  <2>4. Len(delivered') = k
    <3>1. <<"sample", Collected>> = Payload(log[k])
      BY <2>2 DEF Payload
    <3> QED BY <2>1, <2>2, <3>1, PayloadIn DEF IInv, AtBoundary
  <2>5. Left' = Left \ {k} /\ k \in Left
    BY <1>0, <1>1, <2>2, <2>4 DEF Left
  <2>6. Cardinality(Left') = Cardinality(Left) - 1
    BY <1>0, <2>5, FS_RemoveElement
  <2> QED BY <1>0, <1>1, <2>1, <2>3, <2>6 DEF Counted
<1>4. CASE TakeOther
  <2>1. /\ pc = "reading" /\ More /\ Header[1] # "sample"
        /\ delivered' = Append(delivered, <<Header[1], <<>>>>)
        /\ m_phaseno' = m_phaseno /\ samples' = samples
    BY <1>4 DEF TakeOther
  <2>2. /\ <<Header[1], <<>>>> = Payload(log[k]) /\ log[k].type # "sample"
        /\ k \in 1..Len(log) /\ log[k] \in Record
    BY <2>1, SkipExact, NextRecord
  <2>3. Len(delivered') = k
    BY <2>1, <2>2, PayloadIn DEF IInv, AtBoundary
  <2>4. Left' = Left
    BY <1>0, <1>1, <2>2, <2>3 DEF Left
  <2> QED BY <1>1, <2>1, <2>4 DEF Counted
<1>5. CASE Finish
  <2>1. /\ samples' = <<>> /\ m_phaseno' = m_phaseno + Len(samples)
        /\ delivered' = delivered
    BY <1>5 DEF Finish
  <2>2. Left' = Left
    BY <1>1, <2>1 DEF Left
  <2> QED BY <1>0, <1>1, <2>1, <2>2 DEF Counted
<1> QED BY <1>2, <1>3, <1>4, <1>5 DEF Reader

\* Every overflow is counted in m_phaseno once, is on its way, or was lost.
THEOREM PhaseAccounting == Spec => []Accounted
<1>1. ASSUME Init PROVE Counted
  <2>1. /\ log = <<>> /\ delivered = <<>> /\ samples = <<>> /\ m_phaseno = 0
        /\ overflows = 0 /\ dropped = 0
    BY <1>1 DEF Init
  <2>2. Left = {}
    BY <2>1 DEF Left
  <2> QED BY <2>1, <2>2, FS_EmptySet DEF Counted
<1>2. ASSUME IInv, Counted, [Next]_vars PROVE Counted'
  <2>1. CASE Kernel
    BY <1>2, <2>1, CountedByKernel
  <2>2. CASE Reader
    BY <1>2, <2>2, CountedByReader
  <2>3. CASE UNCHANGED vars
    BY <1>2, <2>3 DEF Counted, Left, vars, kernel, reader
  <2> QED BY <1>2, <2>1, <2>2, <2>3 DEF Next
<1>3. ASSUME IInv, Counted PROVE Accounted
  BY <1>3, UnreadIsLeft DEF Accounted, Counted
<1> QED BY <1>1, <1>2, <1>3, Invariant, PTL DEF Spec
=============================================================================
