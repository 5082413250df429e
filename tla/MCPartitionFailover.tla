------------------------ MODULE MCPartitionFailover -------------------------
EXTENDS PartitionFailover

CONSTANT t

MCPart == <<t, 0>>
=============================================================================
