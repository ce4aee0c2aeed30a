---------------------------- MODULE EventBuffer ----------------------------
(***************************************************************************)
(* The sample buffer of one event: the ring of memory that the kernel and  *)
(* Event share (PerfEventWrapper), its reader ProcessEvents, the callback  *)
(* collectSample that takes a sample record apart (PerfProfiler), and the  *)
(* phase count made from it (ParallelProfiler::updatePhase).               *)
(*                                                                         *)
(* The unit of the ring is a word of 8 bytes, which is the size of a       *)
(* record's header and of every field collectSample looks at.  Positions   *)
(* run freely, as the 64-bit ones of the code do in practice.  The kernel  *)
(* may write while the reader reads, which is more than the program needs: *)
(* it reads only with the events off or the children stopped.              *)
(***************************************************************************)
EXTENDS Integers, Sequences, FiniteSets

CONSTANTS
  Size,         \* Words in the ring; mmap insists on a power of two.
  SampleType,   \* PERF_SAMPLE_ flags of the event, "READ" and the like.
  ReadFormat,   \* PERF_FORMAT_ flags of the event.
  Counters,     \* Events in the group: the leader and its children.
  MaxBranches,  \* Bound: branch entries in one record.
  MaxRecords,   \* Bound: overflows, and throttlings, in a behaviour.
  OtherRecords  \* The types of records without a sample that may come.

ASSUME BufferAssumption ==
  /\ Size \in Nat \ {0} /\ Counters \in Nat \ {0}
  /\ MaxBranches \in Nat /\ MaxRecords \in Nat
  /\ "sample" \notin OtherRecords /\ "lost" \notin OtherRecords

VARIABLES
  data,       \* The words of the ring.
  hdr_head,   \* hdr->data_head, written by the kernel.
  hdr_tail,   \* hdr->data_tail, written by the reader.
  rb_lost,    \* Records lost that the kernel has still to report.
  pc,         \* "idle", or "reading": inside the loop of ProcessEvents.
  data_head,  \* Event::data_head, the reader's copy.
  data_tail,  \* Event::data_tail.
  samples,    \* The vector collectSample appends to.
  m_phaseno,  \* RunningConfig::m_phaseno.
  log,        \* History: the records written, with their position.
  delivered,  \* History: what the callback was called with.
  overflows,  \* History: overflows of the event.
  dropped     \* History: overflows without a record.

kernel == <<data, hdr_head, rb_lost, log, overflows, dropped>>
reader == <<hdr_tail, pc, data_head, data_tail, samples, m_phaseno, delivered>>
vars == <<kernel, reader>>

Init ==
  /\ data = [i \in 0..Size - 1 |-> <<"zero", 0>>]
  /\ hdr_head = 0 /\ hdr_tail = 0 /\ rb_lost = 0
  /\ pc = "idle" /\ data_head = 0 /\ data_tail = 0
  /\ samples = <<>> /\ m_phaseno = 0
  /\ log = <<>> /\ delivered = <<>> /\ overflows = 0 /\ dropped = 0

-----------------------------------------------------------------------------
(* The layout of a record, as the kernel writes it.                        *)

TimeWords == (IF "TOTAL_TIME_ENABLED" \in ReadFormat THEN 1 ELSE 0)
               + (IF "TOTAL_TIME_RUNNING" \in ReadFormat THEN 1 ELSE 0)
ValueWords(n) == IF "ID" \in ReadFormat THEN 2 * n ELSE n

\* Words of PERF_SAMPLE_READ for n counters, and of n branch entries.
ReadWords(n) ==
  IF "READ" \in SampleType THEN 1 + TimeWords + ValueWords(n) ELSE 0
BranchWords(n) == IF "BRANCH_STACK" \in SampleType THEN 1 + 3 * n ELSE 0

\* Where a sample record keeps its value number i, counted from 0.
ValueAt(i) == 2 + TimeWords + ValueWords(i)

(***************************************************************************)
(* A record is its type, its place, and the numbers it carries.  first     *)
(* numbers its values, so that no two values are equal.                    *)
(***************************************************************************)
Sample(start, first, branches) ==
  [type |-> "sample", start |-> start,
   size |-> 1 + ReadWords(Counters) + BranchWords(branches),
   first |-> first, branches |-> branches]
Other(type, start, size) ==
  [type |-> type, start |-> start, size |-> size, first |-> 0, branches |-> 0]

Body(r, o) ==
  CASE r.type # "sample" -> <<"other", 0>>
    [] "READ" \in SampleType /\ o = 1 -> <<"nr", Counters>>
    [] o = 1 + ReadWords(Counters) -> <<"bnr", r.branches>>
    [] \E i \in 0..Counters - 1 : o = ValueAt(i) /\ o <= ReadWords(Counters) ->
         <<"value", r.first + (CHOOSE i \in 0..Counters - 1 : o = ValueAt(i))>>
    [] OTHER -> <<"rest", 0>>
WordOf(r, o) == IF o = 0 THEN <<r.type, r.size>> ELSE Body(r, o)

\* What the callback should be given of a record.
Values(r) ==
  IF r.type = "sample" /\ "READ" \in SampleType
  THEN [i \in 1..Counters |-> r.first + i - 1] ELSE <<>>
Payload(r) == <<r.type, Values(r)>>

-----------------------------------------------------------------------------
(* The kernel (perf_output_begin).  It never overwrites what the reader    *)
(* has not given back: a record that does not fit is lost and counted, and *)
(* the next that fits comes after a record that tells the count.           *)

LostWords == 3
LostRecord == IF rb_lost = 0 THEN <<>>
              ELSE <<Other("lost", hdr_head, LostWords)>>
Start == hdr_head + (IF rb_lost = 0 THEN 0 ELSE LostWords)

\* The ring with the words of r in it.
WordsAt(r, i) == {o \in 0..r.size - 1 : (r.start + o) % Size = i}
Stored(ring, r) ==
  [i \in 0..Size - 1 |->
     IF WordsAt(r, i) = {} THEN ring[i]
     ELSE WordOf(r, CHOOSE o \in WordsAt(r, i) : TRUE)]

Fits(r) == r.start + r.size - hdr_tail < Size

Write(r) ==
  /\ Fits(r)
  /\ data' = Stored(IF rb_lost = 0 THEN data ELSE Stored(data, LostRecord[1]), r)
  /\ hdr_head' = r.start + r.size
  /\ log' = log \o LostRecord \o <<r>>
  /\ rb_lost' = 0
Lose(r) ==
  /\ ~Fits(r)
  /\ rb_lost' = rb_lost + 1
  /\ UNCHANGED <<data, hdr_head, log>>

Overflow(branches) ==
  LET r == Sample(Start, overflows * Counters, branches) IN
  /\ overflows < MaxRecords
  /\ overflows' = overflows + 1
  /\ \/ Write(r) /\ UNCHANGED dropped
     \/ Lose(r) /\ dropped' = dropped + 1
  /\ UNCHANGED reader

OtherRecord(type) ==
  LET r == Other(type, Start, 4) IN
  /\ Len(log) < MaxRecords /\ rb_lost < MaxRecords
  /\ Write(r) \/ Lose(r)
  /\ UNCHANGED <<overflows, dropped, reader>>

Kernel ==
  \/ \E n \in 0..MaxBranches : Overflow(n)
  \/ \E type \in OtherRecords : OtherRecord(type)

-----------------------------------------------------------------------------
(* The reader: updatePhase calls collect, collect calls ProcessEvents.     *)

\* What PerfProfiler::collect accepts.
Accepted == SampleType \subseteq {"READ", "BRANCH_STACK"} /\ "GROUP" \in ReadFormat

\* Peak: the word at a position, where the ring wraps around.
Word(pos) == data[pos % Size]

Available == data_head - data_tail
Header == Word(data_tail)

\* The loop's condition, and its test for an incomplete record.
More == Available > 1 /\ Header[2] <= Available

\* Skip: by n words, never past the head.
Skipped(pos, n) == IF pos + n > data_head THEN data_head ELSE pos + n

\* ProcessEvents copies the positions, and returns at once if they are equal.
Begin_KeepTail ==
  /\ pc = "idle" /\ Accepted
  /\ hdr_tail # hdr_head
  /\ data_head' = hdr_head /\ data_tail' = 0
  /\ pc' = "reading" /\ samples' = <<>>
  /\ UNCHANGED <<kernel, hdr_tail, m_phaseno, delivered>>
Begin_GiveBackEarly ==
  /\ pc = "idle" /\ Accepted
  /\ hdr_tail # hdr_head
  /\ data_head' = hdr_head /\ data_tail' = hdr_tail /\ hdr_tail' = hdr_head
  /\ pc' = "reading" /\ samples' = <<>>
  /\ UNCHANGED <<kernel, m_phaseno, delivered>>
Begin ==
  /\ pc = "idle" /\ Accepted
  /\ hdr_tail # hdr_head
  /\ data_head' = hdr_head /\ data_tail' = hdr_tail
  /\ pc' = "reading" /\ samples' = <<>>
  /\ UNCHANGED <<kernel, hdr_tail, m_phaseno, delivered>>

(***************************************************************************)
(* collectSample.  It finds its way by the numbers it reads, nr and bnr,   *)
(* and never looks at the size the header gave.                            *)
(***************************************************************************)
nr == Word(data_tail + 1)[2]
FirstValue == data_tail + 2 + TimeWords
Stride == IF "ID" \in ReadFormat THEN 2 ELSE 1
AfterRead == IF "READ" \in SampleType THEN FirstValue + Stride * nr
             ELSE data_tail + 1
bnr == Word(AfterRead)[2]
AfterBranches == IF "BRANCH_STACK" \in SampleType THEN AfterRead + 1 + 3 * bnr
                 ELSE AfterRead
Collected == IF "READ" \in SampleType
             THEN [i \in 1..nr |-> Word(FirstValue + Stride * (i - 1))[2]]
             ELSE <<>>

TakeSample ==
  /\ pc = "reading" /\ More /\ Header[1] = "sample"
  /\ data_tail' = AfterBranches
  /\ samples' = Append(samples, Collected)
  /\ delivered' = Append(delivered, <<"sample", Collected>>)
  /\ UNCHANGED <<kernel, hdr_tail, pc, data_head, m_phaseno>>

\* Any other record is skipped by its size; the callback leaves it alone.
TakeOther_NoHeader ==
  /\ pc = "reading" /\ More /\ Header[1] # "sample"
  /\ data_tail' = Skipped(data_tail, Header[2] - 1)
  /\ delivered' = Append(delivered, <<Header[1], <<>>>>)
  /\ UNCHANGED <<kernel, hdr_tail, pc, data_head, samples, m_phaseno>>
TakeOther ==
  /\ pc = "reading" /\ More /\ Header[1] # "sample"
  /\ data_tail' = Skipped(Skipped(data_tail, 1), Header[2] - 1)
  /\ delivered' = Append(delivered, <<Header[1], <<>>>>)
  /\ UNCHANGED <<kernel, hdr_tail, pc, data_head, samples, m_phaseno>>

\* The loop is left: the space is given back, and updatePhase counts.
Finish_ToHead ==
  /\ pc = "reading" /\ ~More
  /\ pc' = "idle"
  /\ hdr_tail' = hdr_head
  /\ m_phaseno' = m_phaseno + Len(samples) /\ samples' = <<>>
  /\ UNCHANGED <<kernel, data_head, data_tail, delivered>>
Finish ==
  /\ pc = "reading" /\ ~More
  /\ pc' = "idle"
  /\ hdr_tail' = data_tail
  /\ m_phaseno' = m_phaseno + Len(samples) /\ samples' = <<>>
  /\ UNCHANGED <<kernel, data_head, data_tail, delivered>>

Reader == Begin \/ TakeSample \/ TakeOther \/ Finish

Next == Kernel \/ Reader

Spec == Init /\ [][Next]_vars

-----------------------------------------------------------------------------

\* Where the reader stands.
Position == IF pc = "reading" THEN data_tail ELSE hdr_tail
Unread == {i \in DOMAIN log : log[i].start >= Position}
UnreadSamples == {i \in Unread : log[i].type = "sample"}

\* Types: the positions are numbers, and the ring holds numbered words.
TypeOK ==
  /\ hdr_head \in Nat /\ hdr_tail \in Nat /\ rb_lost \in Nat
  /\ pc \in {"idle", "reading"} /\ data_head \in Nat /\ data_tail \in Nat
  /\ m_phaseno \in Nat /\ overflows \in Nat /\ dropped \in Nat
  /\ DOMAIN data = 0..Size - 1

\* The positions stay in order, and no more than the ring holds is between
\* them: the reader never runs past the head it copied (PerfEventWrapper.hpp
\* Peak asserts it), though Read, unlike Skip, does not look.
Positions ==
  /\ hdr_tail <= hdr_head /\ hdr_head - hdr_tail < Size
  /\ pc = "reading" => /\ hdr_tail <= data_tail /\ data_tail <= data_head
                       /\ data_head <= hdr_head

\* What is still to be read is what the kernel wrote, also while ProcessEvents
\* is in its loop and the kernel goes on writing.
Intact ==
  \A i \in Unread : \A o \in 0..log[i].size - 1 :
    data[(log[i].start + o) % Size] = WordOf(log[i], o)

\* The phase counter is exact: every overflow is counted in m_phaseno, waits
\* in the vector or in the ring, or was lost for want of room.
Accounted ==
  overflows = m_phaseno + Len(samples) + Cardinality(UnreadSamples) + dropped

\* "Read as many bytes as possible" (PerfEventWrapper.cpp, ProcessEvents):
\* the loop is only left when nothing it knew of remains.
Drained == [][pc = "reading" /\ pc' = "idle" => data_tail = data_head]_vars

\* The callback is given the records that were written, in order, once, with
\* their contents.
Queue == INSTANCE RecordQueue
  WITH written <- [i \in DOMAIN log |-> Payload(log[i])]
QueueSpec == Queue!Spec
=============================================================================
