----------------------------- MODULE MCStartup -----------------------------
(***************************************************************************)
(* Instances of Startup.  The machine has three processors, of which the   *)
(* one numbered 1 is off line, so that 3 exists but is not below           *)
(* get_nprocs(), and 1 is below it but cannot be had.                      *)
(***************************************************************************)
EXTENDS Startup

CONSTANTS a, b, c

Three == <<a, b, c>>
Commands == {{}, {b, c}}
Processors == {0, 2, 3}
Sets == {<<>>, <<0>>, <<0, 2>>, <<-1, 0, 2, 3>>, <<0, 1, 2>>}
=============================================================================
