------------------------------- MODULE MCTake -------------------------------
(* Take over a small table: every rank can hold a row of either partition, *)
(* in one of two versions.                                                 *)
EXTENDS Take

CONSTANTS MaxRank, Versions

MCRow  == [rank: 1..MaxRank, part: Partition, version: Versions]
MCRank == [r \in MCRow |-> r.rank]
MCPart == [r \in MCRow |-> r.part]

=============================================================================
