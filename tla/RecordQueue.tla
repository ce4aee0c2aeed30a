---------------------------- MODULE RecordQueue ----------------------------
(***************************************************************************)
(* What the sample buffer of an event promises its reader, whatever its    *)
(* layout: the records the kernel has written arrive one by one, in order, *)
(* with the contents they were written with, and none arrives twice.       *)
(* A record that finds no room is lost before it is written.               *)
(***************************************************************************)
EXTENDS Naturals, Sequences

VARIABLES
  written,    \* The records the kernel has written, oldest first.
  delivered   \* What the reader was given of them.

Init == written = <<>> /\ delivered = <<>>

\* The kernel publishes one or more records.
Put ==
  /\ Len(written') > Len(written)
  /\ \A i \in 1..Len(written) : written'[i] = written[i]
  /\ UNCHANGED delivered

\* The reader is given the next record.
Deliver ==
  /\ Len(delivered) < Len(written)
  /\ delivered' = Append(delivered, written[Len(delivered) + 1])
  /\ UNCHANGED written

Next == Put \/ Deliver

Spec == Init /\ [][Next]_<<written, delivered>>
=============================================================================
