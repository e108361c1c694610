------------------------------ MODULE MCBench ------------------------------
(* A small instance of the benchmark for TLC. *)
EXTENDS BenchProps, TLC

MCClients == 1..Workers
MCWords == 1..MaxCalls
MCTails == {NoTail}
MCHashSum == [k \in MCWords \X MCTails |-> k[1]]
MCLowestCount == -MaxCalls
=============================================================================
