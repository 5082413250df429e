--------------------------- MODULE MetadataRecord ---------------------------
(***************************************************************************)
(* The bytes of a metadata record (internal/cluster metadatalog.go), as    *)
(* the sequence of the values written.  A broker that decides applies its  *)
(* record from memory; followers and restarts apply what they decode.      *)
(***************************************************************************)
EXTENDS Integers, SequencesExt

TopicUpsert == 0
TopicDelete == 1

writeMetadataIDs(ids) == <<Len(ids)>> \o ids

\* A faulty encodeMetadataRecord that writes the replicas for the ISR
EncodeReplicasTwice(record) ==
    <<record.type, record.topic>>
    \o IF record.type # TopicUpsert THEN <<>>
       ELSE <<Len(record.partitions)>>
            \o FlattenSeq([i \in DOMAIN record.partitions |->
                   LET p == record.partitions[i]
                   IN  <<p.id, p.leader>> \o writeMetadataIDs(p.replicas)
                                          \o writeMetadataIDs(p.replicas)])

encodeMetadataRecord(record) ==
    <<record.type, record.topic>>
    \o IF record.type # TopicUpsert THEN <<>>
       ELSE <<Len(record.partitions)>>
            \o FlattenSeq([i \in DOMAIN record.partitions |->
                   LET p == record.partitions[i]
                   IN  <<p.id, p.leader>> \o writeMetadataIDs(p.replicas)
                                          \o writeMetadataIDs(p.isr)])

\* The list at a position, and where the reader stands behind it
readMetadataIDs(payload, at) ==
    [ids |-> SubSeq(payload, at + 1, at + payload[at]), next |-> at + payload[at] + 1]

\* One partition, and where the reader stands behind it
readPartition(payload, at) ==
    LET replicas == readMetadataIDs(payload, at + 2)
        isr == readMetadataIDs(payload, replicas.next)
    IN  [partition |-> [id |-> payload[at], leader |-> payload[at + 1],
                        replicas |-> replicas.ids, isr |-> isr.ids],
         next |-> isr.next]

decodeMetadataRecord(payload) ==
    LET count == IF payload[1] = TopicUpsert THEN payload[3] ELSE 0
        at[i \in 0..count] == IF i = 0 THEN 4 ELSE readPartition(payload, at[i - 1]).next
    IN  [type |-> payload[1], topic |-> payload[2],
         partitions |-> [i \in 1..count |-> readPartition(payload, at[i - 1]).partition]]
=============================================================================
