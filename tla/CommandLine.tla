---------------------------- MODULE CommandLine ----------------------------
(***************************************************************************)
(* How buildRunningConfig makes the words of a command from the cmd of a   *)
(* Task, with its placeholders $1, $2, ..., and the param of a plan; and   *)
(* what README.md says of it.                                              *)
(***************************************************************************)
EXTENDS SequencesExt, Text

\* ARG_PREFIX and the number of the parameter with index j, up to 99.
ARG_PREFIX == "$"
Number(n) ==
  IF n < 10 THEN <<Digits[n + 1]>>
  ELSE <<Digits[(n \div 10) + 1], Digits[(n % 10) + 1]>>
Var_FromZero(j) == <<ARG_PREFIX>> \o Number(j)
Var(j) == <<ARG_PREFIX>> \o Number(j + 1)

\* boost::replace_all: every occurrence, from left to right; what has been put
\* in is not searched again.
At(s, i, t) == i + Len(t) - 1 <= Len(s) /\ SubSeq(s, i, i + Len(t) - 1) = t
ReplaceEach(s, from, to) ==
  LET rest[i \in 1..Len(s) + 1] ==
        IF i > Len(s) THEN <<>>
        ELSE IF At(s, i, from) THEN to \o rest[i + Len(from)]
        ELSE <<s[i]>> \o rest[i + 1]
  IN rest[1]

\* One replace_all per parameter over the whole text, then a split at blanks.
Blank == " "
Replaced(m_cmd, args) ==
  LET cmd[j \in 0..Len(args)] ==
        IF j = 0 THEN m_cmd ELSE ReplaceEach(cmd[j - 1], Var(j - 1), args[j])
  IN cmd[Len(args)]
Words(cmd) == IF cmd = <<>> THEN <<>> ELSE Split(cmd, Blank)

-----------------------------------------------------------------------------

\* README.md: each $NUM is replaced by parameter NUM.  NUM is as long as there
\* are digits.
DigitRun(s, i) == CHOOSE n \in 0..Len(s) :
  /\ \A k \in i..i + n - 1 : k <= Len(s) /\ IsDigit(s[k])
  /\ i + n > Len(s) \/ ~IsDigit(s[i + n])
Numbers(args, s, i) ==
  {n \in 1..Len(args) : Number(n) = SubSeq(s, i + 1, i + DigitRun(s, i + 1))}
Expand(args, s) ==
  LET rest[i \in 1..Len(s) + 1] ==
        IF i > Len(s) THEN <<>>
        ELSE IF s[i] = ARG_PREFIX /\ Numbers(args, s, i) # {}
             THEN args[CHOOSE n \in Numbers(args, s, i) : TRUE] \o rest[i + 1 + DigitRun(s, i + 1)]
        ELSE <<s[i]>> \o rest[i + 1]
  IN rest[1]

\* "Size of m_param must match m_task.m_cmd" (Config.hpp): every $ is that of
\* a parameter.
Matches(args, s) == \A i \in DOMAIN s : s[i] = ARG_PREFIX => Numbers(args, s, i) # {}

\* Of ten parameters the first would be put into $10, and of a $ in a parameter
\* the next one may make a placeholder.
Plain(args) == Len(args) < 10 /\ \A a \in Range(args) : ARG_PREFIX \notin Range(a)
=============================================================================
