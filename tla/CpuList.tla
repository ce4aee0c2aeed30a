------------------------------ MODULE CpuList -------------------------------
(***************************************************************************)
(* ProfilerArguments::parseCPU: from the text of --cpu, such as 1,2~4, to  *)
(* the cpu set that Startup takes; and what such a text means.             *)
(***************************************************************************)
EXTENDS Integers, SequencesExt, Text

CONSTANT MaxInt \* The largest int.

ASSUME CpuListAssumption == MaxInt \in Nat

-----------------------------------------------------------------------------

\* What parseCPU splits at.
Comma == ","

\* boost::lexical_cast<int>: a sign or none, then digits only, at least one,
\* of a number that fits; or it throws.
Unsigned(w) == IF w # <<>> /\ w[1] \in {"-", "+"} THEN Tail(w) ELSE w
Sign(w) == IF w # <<>> /\ w[1] = "-" THEN -1 ELSE 1
Value(w) ==
  Sign(w) * FoldLeft(LAMBDA n, c : 10 * n + (CHOOSE d \in 1..10 : Digits[d] = c) - 1,
                     0, Unsigned(w))
Casts(w) ==
  /\ Unsigned(w) # <<>> /\ \A k \in DOMAIN Unsigned(w) : IsDigit(Unsigned(w)[k])
  /\ Value(w) \in (-MaxInt - 1)..MaxInt

\* What stands before and after the first ~ of a part; without one, the part
\* twice.
Tildes(w) == {k \in DOMAIN w : w[k] = "~"}
FirstTilde(w) == CHOOSE k \in Tildes(w) : \A l \in Tildes(w) : k <= l
Before(w) == IF Tildes(w) = {} THEN w ELSE SubSeq(w, 1, FirstTilde(w) - 1)
After(w) == IF Tildes(w) = {} THEN w ELSE SubSeq(w, FirstTilde(w) + 1, Len(w))

\* The parts from the first on, until one is refused.  A range is read by
\* for (i = begin; i <= end; ++i), and beyond the largest int ++i is undefined.
Cpus_BelowEnd(w) == Value(Before(w))..(Value(After(w)) - 1)
Cpus(w) == Value(Before(w))..Value(After(w))
Refuses(w) == ~Casts(Before(w)) \/ ~Casts(After(w))
Overflows(w) == Tildes(w) # {} /\ MaxInt \in Cpus(w)

\* The set comes out in any order; the list is sorted.
Sorted(S) ==
  [k \in 1..Cardinality(S) |-> CHOOSE n \in S : Cardinality({m \in S : m < n}) = k - 1]

Done(list) == [end |-> "done", m_cpu |-> list]
NoList(why) == [end |-> why, m_cpu |-> <<>>]
parseCPU(text) ==
  LET parts == IF text = <<>> THEN <<>> ELSE Split(text, Comma)
      bad == {k \in DOMAIN parts : Refuses(parts[k]) \/ Overflows(parts[k])}
      first == CHOOSE k \in bad : \A l \in bad : k <= l
  IN IF bad = {} THEN Done(Sorted(UNION {Cpus(w) : w \in Range(parts)}))
     ELSE NoList(IF Refuses(parts[first]) THEN "refused" ELSE "overflow")

-----------------------------------------------------------------------------

\* The list of numbers and ranges the text may be read as: each part between
\* commas is a number, or two with a ~ between them.
IsPart(text, b, e) ==
  /\ b <= e /\ \A k \in b..e : text[k] # Comma
  /\ b = 1 \/ text[b - 1] = Comma
  /\ e = Len(text) \/ text[e + 1] = Comma
Parts(text) ==
  {SubSeq(text, r[1], r[2]) : r \in
     {r \in (DOMAIN text) \X (DOMAIN text) : IsPart(text, r[1], r[2])}}
Readings(w) ==
  {e \in {<<w, w>>} \cup {<<SubSeq(w, 1, k - 1), SubSeq(w, k + 1, Len(w))>> : k \in Tildes(w)} :
     Casts(e[1]) /\ Casts(e[2])}
Named(text) == UNION {Value(e[1])..Value(e[2]) : e \in UNION {Readings(w) : w \in Parts(text)}}

Listable(text) ==
  text = <<>> \/ (/\ text[1] # Comma /\ text[Len(text)] # Comma
                  /\ \A w \in Parts(text) : Readings(w) # {})
=============================================================================
