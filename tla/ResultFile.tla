----------------------------- MODULE ResultFile -----------------------------
(***************************************************************************)
(* The output file, and the profilers that append their result to it: the  *)
(* end of main() in profile.cpp, with ResultParser.                        *)
(*                                                                         *)
(* A profiler reads the whole file into m_doc, truncates the file, appends *)
(* its result to m_doc, and writes m_doc.                                  *)
(***************************************************************************)
EXTENDS ResultTable

CONSTANTS
  Profilers, \* The profilers with the same --output.
  NoResult,  \* What one has that was not DONE.
  Old,       \* A result in the file before.
  Cases      \* How it may begin: the file, the profilers' results, whether two
             \* may be at the file at the same time, whether one may be killed
             \* or the disk be full.

\* What a file is to the parser: an array has a sequence of results, "object"
\* is any other JSON text, "text" is none.
Array(s) == [kind |-> "array", rows |-> s]
Other(k) == [kind |-> k, rows |-> <<>>]
Kinds == {"missing", "unseekable", "empty", "text", "object", "array"}

\* A row names its profiler as well, for the properties.
RowOf(r, result) == [by |-> r, object |-> ResultObject(result)]

ASSUME ResultAssumption ==
  \A c \in Cases :
    /\ c.file \in [kind : Kinds, rows : Seq({Old})]
    /\ c.file.kind # "array" => c.file.rows = <<>>
    /\ DOMAIN c.result = Profilers
    /\ \A r \in Profilers : c.result[r] # NoResult =>
         IsResult(c.result[r]) /\ RowOf(r, c.result[r]) # Old
    /\ c.overlap \in BOOLEAN /\ c.faulty \in BOOLEAN

VARIABLES
  given,   \* Which of the cases.
  file,    \* The output file.
  m_doc,   \* ResultParser::m_doc of each profiler.
  pc,      \* Where each profiler is.
  appended \* History: those that ended with success, in order.

vars == <<given, file, m_doc, pc, appended>>

Init ==
  /\ given \in Cases /\ file = given.file
  /\ m_doc = [r \in Profilers |-> Array(<<>>)]
  /\ pc = [r \in Profilers |-> "profiled"]
  /\ appended = <<>>

-----------------------------------------------------------------------------

Inside == {"parsed", "truncated", "writing"}
Turn(r) == given.overlap \/ \A q \in Profilers : pc[q] \notin Inside
Goto(r, l) == pc' = [pc EXCEPT ![r] = l]

\* Without a result nothing is written.
NoOutput(r) ==
  /\ pc[r] = "profiled" /\ given.result[r] = NoResult
  /\ Goto(r, "exit")
  /\ UNCHANGED <<given, file, m_doc, appended>>

\* parseFile: its return value is ignored.  What is no JSON leaves m_doc as the
\* constructor made it; where the size cannot be had, it is -1, and resize
\* throws.
ParseFile(r) ==
  /\ pc[r] = "profiled" /\ given.result[r] # NoResult /\ Turn(r) /\ file.kind # "unseekable"
  /\ m_doc' = IF file.kind \in {"array", "object"}
              THEN [m_doc EXCEPT ![r] = file] ELSE m_doc
  /\ Goto(r, "parsed")
  /\ UNCHANGED <<given, file, appended>>
ResizeThrows(r) ==
  /\ pc[r] = "profiled" /\ given.result[r] # NoResult /\ Turn(r) /\ file.kind = "unseekable"
  /\ Goto(r, "crashed")
  /\ UNCHANGED <<given, file, m_doc, appended>>

\* ofstream(out) truncates, unless it cannot open.
Open_NoTruncate(r) ==
  /\ pc[r] = "parsed"
  /\ Goto(r, "truncated")
  /\ UNCHANGED <<given, file, m_doc, appended>>
Open(r) ==
  /\ pc[r] = "parsed"
  /\ file' = Other("empty")
  /\ Goto(r, "truncated")
  /\ UNCHANGED <<given, m_doc, appended>>
OpenFails(r) ==
  /\ pc[r] = "parsed" /\ given.faulty
  /\ Goto(r, "exit(-1)")
  /\ UNCHANGED <<given, file, m_doc, appended>>

\* append() takes an array only, and complete samples only; the file is already
\* empty.
Row(r) == RowOf(r, given.result[r])

AppendResult_Front(r) ==
  /\ pc[r] = "truncated" /\ m_doc[r].kind = "array" /\ ~Refused(given.result[r])
  /\ m_doc' = [m_doc EXCEPT ![r].rows = <<Row(r)>> \o @]
  /\ Goto(r, "writing")
  /\ UNCHANGED <<given, file, appended>>
AppendResult(r) ==
  /\ pc[r] = "truncated" /\ m_doc[r].kind = "array" /\ ~Refused(given.result[r])
  /\ m_doc' = [m_doc EXCEPT ![r].rows = Append(@, Row(r))]
  /\ Goto(r, "writing")
  /\ UNCHANGED <<given, file, appended>>
AppendRefused(r) ==
  /\ pc[r] = "truncated" /\ (m_doc[r].kind # "array" \/ Refused(given.result[r]))
  /\ Goto(r, "exit(-1)")
  /\ UNCHANGED <<given, file, m_doc, appended>>

\* What is written from the beginning over what another has written since:
\* the text may fit, or leave a tail of the other's.
Overwritten(doc) == IF file.kind = "empty" THEN {doc} ELSE {doc, Other("text")}

\* Nothing tests whether the writing succeeded.
Write(r) ==
  /\ pc[r] = "writing"
  /\ file' \in Overwritten(m_doc[r])
  /\ Goto(r, "exit(0)") /\ appended' = appended \o <<r>>
  /\ UNCHANGED <<given, m_doc>>
DiskFull(r) ==
  /\ pc[r] = "writing" /\ given.faulty
  /\ file' \in {file, Other("text")}
  /\ Goto(r, "exit(0)") /\ appended' = appended \o <<r>>
  /\ UNCHANGED <<given, m_doc>>

\* SIGINT is blocked since createSignalFD, but not SIGKILL.
Killed(r) ==
  /\ pc[r] \in Inside \cup {"profiled"} /\ given.faulty
  /\ file' \in {file} \cup (IF pc[r] = "writing" THEN {Other("text")} ELSE {})
  /\ Goto(r, "crashed")
  /\ UNCHANGED <<given, m_doc, appended>>

Ended == (\A r \in Profilers : pc[r] \notin Inside \cup {"profiled"}) /\ UNCHANGED vars

Next ==
  \/ \E r \in Profilers :
       \/ NoOutput(r) \/ ParseFile(r) \/ ResizeThrows(r) \/ Open(r) \/ OpenFails(r)
       \/ AppendResult(r) \/ AppendRefused(r) \/ Write(r) \/ DiskFull(r) \/ Killed(r)
  \/ Ended

Spec == Init /\ [][Next]_vars

-----------------------------------------------------------------------------

RowsOK(rows) == \A row \in Range(rows) : row = Old \/ row.by \in Profilers
TypeOK ==
  /\ file.kind \in Kinds /\ RowsOK(file.rows)
  /\ \A r \in Profilers : m_doc[r].kind \in {"array", "object"} /\ RowsOK(m_doc[r].rows)
  /\ pc \in [Profilers -> Inside \cup {"profiled", "exit", "exit(0)", "exit(-1)", "crashed"}]

Quiet == \A r \in Profilers : pc[r] \notin Inside

\* With one profiler after another, complete samples and nobody killed, each
\* that ends with success has its result in the file, behind all that were
\* there.  "Append to file." (profile.cpp) is no more than this: in every other
\* case, what the file held may be lost.
Orderly ==
  /\ ~given.overlap /\ ~given.faulty
  /\ \A r \in Profilers : given.result[r] # NoResult => ~Refused(given.result[r])
Stored ==
  Quiet /\ Orderly =>
    /\ Len(file.rows) = Len(given.file.rows) + Len(appended)
    /\ IsPrefix(given.file.rows, file.rows)
    /\ \A i \in DOMAIN appended :
         file.rows[Len(given.file.rows) + i].by = appended[i]
    /\ appended # <<>> => file.kind = "array"

\* The rows behind the first n, which are those of before.
NewBehind(n) ==
  LET new == n + 1..Len(file.rows)
  IN /\ n <= Len(file.rows) /\ \A i \in 1..n : file.rows[i] = Old
     /\ \A i \in new : file.rows[i] # Old /\ pc[file.rows[i].by] = "exit(0)"
     /\ \A i, j \in new : i # j => file.rows[i].by # file.rows[j].by

\* Every variable keeps its type.  Whatever the profilers do to each other and
\* whatever happens to them, the file never shows a result twice, or one of a
\* profiler that did not come to write, or the results of before in part or out
\* of their place.
Genuine == TypeOK /\ \E n \in {0, Len(given.file.rows)} : NewBehind(n)

\* A result in the file is the samples of the plans of one profiler,
\* transposed, and all of them complete: the columns of different plans, events
\* and samples are never mixed, and a plan that is one counter short takes the
\* plans before it along.
Transposed ==
  \A row \in Range(file.rows) \ {Old} :
    LET result == given.result[row.by]
    IN /\ \A p \in DOMAIN result : \A s \in Range(result[p].samples) :
            Len(s) = Len(result[p].group)
       /\ row.object = [p \in DOMAIN result |-> Transpose(result[p])]
=============================================================================
