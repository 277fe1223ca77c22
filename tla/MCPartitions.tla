---------------------------- MODULE MCPartitions ----------------------------
(* The calendar from September 2026 on, for TLC. *)
EXTENDS Partitions, Sequences

Months == <<1, 31, 62, 92, 123, 154, 182, 213, 243>>

Calendar == [m \in 0 .. LastMonth |-> Months[m + 1]]
=============================================================================
