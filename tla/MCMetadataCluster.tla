------------------------- MODULE MCMetadataCluster --------------------------
(***************************************************************************)
(* Three brokers and one topic.                                             *)
(***************************************************************************)
EXTENDS MetadataCluster
=============================================================================
