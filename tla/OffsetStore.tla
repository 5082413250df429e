---------------------------- MODULE OffsetStore -----------------------------
(***************************************************************************)
(* The committed consumer offsets (internal/offset/store.go): a map in     *)
(* memory over the __consumer_offsets log, which is read back at start.    *)
(*                                                                         *)
(* The log is the one of SegmentedLog.  Its payloads are the encoded       *)
(* commits; a key is a group, a topic and a partition.  The store's lock   *)
(* is held over the whole Commit, so a Fetch sees the map only between     *)
(* commits.                                                                *)
(***************************************************************************)
EXTENDS SegmentedLog

CONSTANT Key

\* The fields one behind the other, and a timestamp that nothing reads
encodeEntry(k, offset) == k \o <<offset, 0>>

decodeEntry(p) == [key |-> SubSeq(p, 1, 3), offset |-> p[4]]

ASSUME CommitAssumption ==
    \A p \in Payload : Len(p) = 5 /\ SubSeq(p, 1, 3) \in Key /\ p[4] \in Nat /\ p[5] = 0

VARIABLES
    offsets,      \* [Key -> Nat or -1], s.offsets; -1 is what Fetch says of no entry
    next          \* replay: the log offset to read next, -1 once the store is up

storeVars == <<vars, offsets, next>>

StoreTypeOK ==
    /\ TypeOK
    /\ offsets \in [Key -> Nat \cup {-1}]
    /\ next \in Offsets \cup {-1}

StoreInit ==
    /\ Init
    /\ offsets = [k \in Key |-> -1]
    /\ next = 0

\* Commit, up to the log's append
Commit(k, offset) ==
    /\ next = -1
    /\ AppendWithOffset(encodeEntry(k, offset))
    /\ UNCHANGED <<offsets, next>>

\* The append has succeeded: the map follows.
CommitDone ==
    /\ WriteEntry
    /\ LET commit == decodeEntry(payload)
       IN  offsets' = [offsets EXCEPT ![commit.key] = commit.offset]
    /\ UNCHANGED next

\* A faulty replay that stops after the first segment
ReplayFirst ==
    LET records == Read(next, -1)
    IN  /\ phase = "up" /\ next >= 0
        /\ next' = -1
        /\ offsets' = [k \in Key |->
               LET mine == SelectSeq(records, LAMBDA r : decodeEntry(r.payload).key = k)
               IN  IF mine = <<>> THEN offsets[k]
                   ELSE decodeEntry(Last(mine).payload).offset]
        /\ UNCHANGED vars

\* replay, one Read: later entries overwrite earlier ones; nothing more to
\* read ends it.
replay ==
    LET records == Read(next, -1)
    IN  /\ phase = "up" /\ next >= 0
        /\ next' = IF records = <<>> THEN -1 ELSE Last(records).offset + 1
        /\ offsets' = [k \in Key |->
               LET mine == SelectSeq(records, LAMBDA r : decodeEntry(r.payload).key = k)
               IN  IF mine = <<>> THEN offsets[k]
                   ELSE decodeEntry(Last(mine).payload).offset]
        /\ UNCHANGED vars

\* What OffsetFetch answers between commits
Fetch(k) == offsets[k]

\* The log's own steps while the store waits for them
LogStep ==
    /\ Open \/ openSegment \/ createSegment \/ RollFails
         \/ maybeWriteIndex \/ IndexWriteFails \/ WriteEntryFails
    /\ UNCHANGED <<offsets, next>>

\* The broker stops or dies; a new one starts with an empty map.
BrokerStops ==
    /\ Close \/ Crash \/ CrashWriting \/ CrashIndexing \/ CrashRebuilding
    /\ offsets' = [k \in Key |-> -1]
    /\ next' = 0

StoreNext ==
    \/ \E p \in Payload : Commit(SubSeq(p, 1, 3), p[4])
    \/ CommitDone
    \/ replay
    \/ LogStep
    \/ BrokerStops

StoreSpec == StoreInit /\ [][StoreNext]_storeVars
-----------------------------------------------------------------------------
(* Properties                                                              *)

\* What OffsetFetch reports is the last commit in the log, through any number
\* of restarts, failed commits and segments: "Commit an offset, fully restart
\* the broker (kill + start), OffsetFetch still returns the committed offset"
\* (PROGRESS.md:63-64, store.go:35-78).
FetchReturnsLastCommit ==
    next = -1 /\ step = "idle" =>
        \A k \in Key :
            LET mine == SelectSeq(Stored, LAMBDA r : SubSeq(r.payload, 1, 3) = k)
            IN  Fetch(k) = IF mine = <<>> THEN -1 ELSE Last(mine).payload[4]
=============================================================================
