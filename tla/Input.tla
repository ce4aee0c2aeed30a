------------------------------- MODULE Input --------------------------------
(***************************************************************************)
(* What the user writes, and what the program makes of it: configuration   *)
(* files and plans (ConfigParser), the text of --cpu (CpuList), and the    *)
(* command of a task with the parameters of a plan (CommandLine).  The     *)
(* three are read at different times and share nothing; a behaviour reads  *)
(* one of them.                                                            *)
(***************************************************************************)
EXTENDS ConfigParser, CpuList, CommandLine

CONSTANTS
  CpuTexts, \* What may follow --cpu.
  Commands  \* Pairs of a command and parameters for it.

ASSUME InputAssumption ==
  /\ \A t \in CpuTexts : t \in Seq(STRING)
  /\ \A c \in Commands :
       c[1] \in Seq(STRING) /\ c[2] \in Seq(Seq(STRING)) /\ Matches(c[2], c[1])

VARIABLES
  reading, \* files, cpus or command.
  text,    \* The text of the latter two.
  param,   \* TaskAttribute::m_param.
  result   \* What has been made of the text, Unread before.

textVars == <<reading, text, param, result>>
inputVars == <<vars, textVars>>

Unread == [end |-> "unread"]

InputInit ==
  /\ Init /\ result = Unread
  /\ \/ reading = "files" /\ text = <<>> /\ param = <<>>
     \/ reading = "cpus" /\ text \in CpuTexts /\ param = <<>>
     \/ reading = "command" /\ \E c \in Commands : text = c[1] /\ param = c[2]

ReadCpus ==
  /\ reading = "cpus" /\ result = Unread
  /\ result' = parseCPU(text)
  /\ UNCHANGED <<vars, reading, text, param>>
ReadCommand ==
  /\ reading = "command" /\ result = Unread
  /\ LET cmd == Replaced(text, param)
     IN result' = [end |-> "done", cmd |-> cmd, words |-> Words(cmd)]
  /\ UNCHANGED <<vars, reading, text, param>>
TextRead == result # Unread /\ UNCHANGED inputVars

InputNext ==
  \/ reading = "files" /\ Next /\ UNCHANGED textVars
  \/ ReadCpus \/ ReadCommand \/ TextRead

InputSpec == InputInit /\ [][InputNext]_inputVars

-----------------------------------------------------------------------------

CpusRead == reading = "cpus" /\ result # Unread
CommandRead == reading = "command" /\ result # Unread

Listed ==
  LET m_cpu == result.m_cpu
  IN /\ Range(m_cpu) = Named(text)
     /\ \A k, l \in DOMAIN m_cpu : k < l => m_cpu[k] < m_cpu[l]

\* A text of --cpu is refused if and only if it is no list of numbers and
\* ranges; only a range up to the largest int comes to neither.  The list has
\* each cpu the text names, and no other, once: a cpu listed twice would pass
\* for two when argsCheck counts, and go to two children.
CpusAsNamed ==
  CpusRead =>
    /\ result.end = "done" => Listable(text) /\ Listed
    /\ result.end = "refused" => ~Listable(text)
    /\ result.end = "overflow" => MaxInt \in Named(text)

OneWord(a) == a # <<>> /\ Blank \notin Range(a)
WordByWord ==
  LET words == result.words
  IN /\ words = [i \in DOMAIN Split(text, Blank) |-> Expand(param, Split(text, Blank)[i])]
     /\ \A i \in DOMAIN words : words[i] = <<>> =>
          \/ i = 1 /\ text[1] = Blank
          \/ i = Len(words) /\ text[Len(text)] = Blank

\* With fewer than ten parameters, and no $ in any, the text that is split is
\* the command with every placeholder replaced once, by the parameter of its
\* number, whatever stands around it: replacing one parameter after another is
\* the same as replacing all at once.  With parameters that are words, the
\* process gets as many arguments as the command has words, each the word with
\* its own parameters; there is an empty one only where the command begins or
\* ends with a blank.
Expanded ==
  CommandRead /\ Plain(param) =>
    /\ result.cmd = Expand(param, text)
    /\ text # <<>> /\ (\A a \in Range(param) : OneWord(a)) => WordByWord
=============================================================================
