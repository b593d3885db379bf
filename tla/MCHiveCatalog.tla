---------------------------- MODULE MCHiveCatalog ----------------------------
(***************************************************************************)
(* A small catalog: one table that every statement can use and, where a    *)
(* configuration has one, the two tables of a vector index, which plain    *)
(* statements can use as well.                                             *)
(***************************************************************************)
EXTENDS HiveCatalog, TLC

CONSTANTS codecs, index  \* <index>__codecs and <index>__index

MCCodecTable == [i \in Indexes |-> codecs]
MCIndexTable == [i \in Indexes |-> index]

Interchangeable == Permutations(Clients) \cup Permutations(Parts)
=============================================================================
