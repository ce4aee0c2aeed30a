----------------------------- MODULE MCProfiler -----------------------------
\* Small instances of ParallelProfiler for TLC; the .cfg files choose from them.
EXTENDS ProfilerInvariant, TLC

CONSTANTS A, B, C   \* Plans, as model values.

\* A phase plan, a plan sampled from the start, and a daemon.
MixedType  == (A :> "SAMPLE_PHASE") @@ (B :> "SAMPLE_ALL") @@ (C :> "DAEMON")

\* Two phase plans with different windows, and a counted plan.
PhasesType == (A :> "SAMPLE_PHASE") @@ (B :> "SAMPLE_PHASE") @@ (C :> "COUNT")

\* One phase plan, so that nobody else can cause an overflow.
SoloType == (A :> "SAMPLE_PHASE") @@ (B :> "COUNT") @@ (C :> "DAEMON")

Begin == (A :> 1) @@ (B :> 0) @@ (C :> 0)
End   == (A :> 2) @@ (B :> 2) @@ (C :> 0)
LateBegin == (A :> 1) @@ (B :> 1) @@ (C :> 0)
LateEnd   == (A :> 3) @@ (B :> 2) @@ (C :> 0)
=============================================================================
