----------------------------- MODULE MCResults -----------------------------
(***************************************************************************)
(* Instances of ResultFile: three profilers with one small result each and *)
(* every kind of file, an array with up to two results among them; or one  *)
(* profiler with any result of two plans and two events, and an array.     *)
(***************************************************************************)
EXTENDS ResultFile

CONSTANTS r1, r2, r3

Contents ==
  {Array(<<>>), Array(<<Old>>), Array(<<Old, Old>>), Other("text"), Other("object"),
   Other("missing"), Other("empty"), Other("unseekable")}

\* A sample may be one counter short.
Events == {"CYCLES", "INSTRUCTIONS"}
Groups == {g \in SeqOf(Events, 2) : g # <<>> /\ IsInjective(g)}
Samples(g) == UNION {[1..n -> 1..2] : n \in {Len(g), Len(g) - 1}}
Plans == UNION {[group : {g}, samples : SeqOf(Samples(g), 2)] : g \in Groups}

Small == <<[group |-> <<"CYCLES">>, samples |-> <<<<1>>>>]>>
Alone(result) == [r \in {r1, r2, r3} |-> IF r = r1 THEN result ELSE NoResult]

AllCases ==
  [file : Contents, result : {[r \in {r1, r2, r3} |-> Small]},
   overlap : BOOLEAN, faulty : BOOLEAN]
    \cup [file : {Array(<<Old>>)}, result : {Alone(<<p, q>>) : p, q \in Plans},
          overlap : {FALSE}, faulty : {FALSE}]
=============================================================================
