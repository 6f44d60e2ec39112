--------------------------- MODULE MCBenchPipeline ---------------------------
(* A small instance of BenchPipeline for TLC. *)
EXTENDS BenchPipeline

\* The fourth record is larger than a transaction may be.
MCSizeOf == [r \in 1..TotalRecords |-> IF r = 4 THEN 9 ELSE IF r % 2 = 1 THEN 2 ELSE 3]

=============================================================================
