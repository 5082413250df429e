---------------------------- MODULE SegmentedLog ----------------------------
(***************************************************************************)
(* The partition log on disk (internal/storage/log.go): segment files with *)
(* a sparse offset index each, rolled at a size limit, recovered by a scan *)
(* when the log is opened.                                                 *)
(*                                                                         *)
(* l.mu serialises the operations, so Append is interrupted by nothing but *)
(* a crash of the process or an error of the file system: it is split at   *)
(* its writes.  What a write call has handed to the operating system       *)
(* survives a crash of the process; a write cut short leaves part of its   *)
(* bytes.  Sizes count bytes in small units.                               *)
(***************************************************************************)
EXTENDS Integers, SequencesExt

CONSTANTS
    Payload,
    PayloadBytes,     \* [Payload -> Nat], the length of each payload
    HeaderBytes,      \* entryHeaderSize
    MaxSegmentBytes,  \* maxSegmentBytes
    IndexInterval,    \* indexIntervalBytes
    MaxOffset         \* bound on the number of records

ASSUME SizeAssumption ==
    /\ PayloadBytes \in [Payload -> Nat]
    /\ HeaderBytes \in Nat \ {0}
    /\ MaxSegmentBytes \in Nat /\ IndexInterval \in Nat \ {0}
    /\ MaxOffset \in Nat

VARIABLES
    bases,        \* the base offsets that have a .log file
    files,        \* [Offsets -> File], the files by base offset
    phase,        \* "down", "opening", "up"
    segments,     \* l.segments, what the process knows of each open segment
    nextOffset,   \* l.nextOffset
    step,         \* how far an Append got: "idle", "roll", "index", "log"
    payload,      \* the payload it appends
    failed        \* the active segment's bufio.Writer has met an error

diskVars == <<bases, files>>
vars     == <<diskVars, phase, segments, nextOffset, step, payload, failed>>

Offsets      == 0..MaxOffset
EntrySize(p) == HeaderBytes + PayloadBytes[p]

\* A log file is a sequence of entries, the last of which may be torn; pos is
\* the byte position an entry starts at.  ragged: the size of the index file
\* is not a multiple of the entry size.
Chunk      == [offset : Offsets, payload : Payload, pos : Nat, size : Nat, whole : BOOLEAN]
IndexEntry == [rel : Nat, position : Nat]
File       == [log : Seq(Chunk), index : Seq(IndexEntry), ragged : BOOLEAN]
Segment    == [base : Offsets, logSize : Nat, lastIndexPos : Nat, index : Seq(IndexEntry)]
EmptyFile  == [log |-> <<>>, index |-> <<>>, ragged |-> FALSE]

TypeOK ==
    /\ bases \in SUBSET Offsets
    /\ files \in [Offsets -> File]
    /\ phase \in {"down", "opening", "up"}
    /\ segments \in Seq(Segment)
    /\ nextOffset \in Offsets
    /\ step \in {"idle", "roll", "index", "log"}
    /\ payload \in Payload
    /\ failed \in BOOLEAN
-----------------------------------------------------------------------------
(* Recovery of one segment                                                 *)

logBytes(chunks) == IF chunks = <<>> THEN 0 ELSE Last(chunks).pos + Last(chunks).size

\* recoverLog: the intact entries; a torn one ends the scan
recoverLog(chunks) ==
    LET torn == {i \in DOMAIN chunks : ~chunks[i].whole}
    IN  IF torn = {} THEN chunks ELSE SubSeq(chunks, 1, Min(torn) - 1)

\* loadIndex: can the stored index be used for a log of logSize bytes?
loadable(file, logSize) ==
    /\ file.index = <<>> => logSize = 0
    /\ ~file.ragged
    /\ \A i \in DOMAIN file.index : file.index[i].position < logSize

lastIndexedPosition(index) == IF index = <<>> THEN 0 ELSE Last(index).position

\* rebuildIndex: an entry for every IndexInterval bytes of the log
rebuildIndex(chunks, base) ==
    LET visit(index, c) ==
            IF c.pos - lastIndexedPosition(index) >= IndexInterval
            THEN Append(index, [rel |-> c.offset - base, position |-> c.pos])
            ELSE index
    IN  FoldLeft(visit, <<>>, chunks)

\* A faulty recoverNextOffset that steps back to the last record
LastOffset(base, chunks) ==
    IF chunks = <<>> THEN base - 1 ELSE Last(chunks).offset

recoverNextOffset(base, chunks) ==
    IF chunks = <<>> THEN base ELSE Last(chunks).offset + 1
-----------------------------------------------------------------------------
NewSegment(base) == [base |-> base, logSize |-> 0, lastIndexPos |-> 0, index |-> <<>>]

Init ==
    /\ bases = {}
    /\ files = [b \in Offsets |-> EmptyFile]
    /\ phase = "down"
    /\ segments = <<>>
    /\ nextOffset = 0
    /\ step = "idle"
    /\ payload \in Payload
    /\ failed = FALSE

\* Open: an empty directory gets its first segment; otherwise the segments are
\* opened one by one in the order of their base offsets.
Open ==
    /\ phase = "down"
    /\ IF bases = {}
       THEN /\ bases' = {0}
            /\ segments' = <<NewSegment(0)>>
            /\ phase' = "up"
       ELSE /\ phase' = "opening"
            /\ UNCHANGED <<bases, segments>>
    /\ UNCHANGED <<files, nextOffset, step, payload, failed>>

\* The segment openSegment is to open next
OpeningBase == Min(bases \ {segments[i].base : i \in DOMAIN segments})

\* A faulty openSegment that truncates the log behind its last indexed entry
OpenToIndexed ==
    LET base   == OpeningBase
        index  == files[base].index
        kept   == SelectSeq(recoverLog(files[base].log),
                            LAMBDA c : c.pos <= lastIndexedPosition(index))
        last   == Cardinality(bases) = Len(segments) + 1
    IN  /\ phase = "opening"
        /\ files' = [files EXCEPT ![base] = [log |-> kept, index |-> index, ragged |-> FALSE]]
        /\ segments' = Append(segments,
               [base |-> base, logSize |-> logBytes(kept),
                lastIndexPos |-> lastIndexedPosition(index), index |-> index])
        /\ phase' = IF last THEN "up" ELSE "opening"
        /\ nextOffset' = IF last THEN recoverNextOffset(base, kept) ELSE nextOffset
        /\ UNCHANGED <<bases, step, payload, failed>>

\* openSegment: cut the log to its intact entries, load the index or rebuild
\* it.  After the last segment Open finds the next offset there.
openSegment ==
    LET base   == OpeningBase
        intact == recoverLog(files[base].log)
        size   == logBytes(intact)
        index  == IF loadable(files[base], size) THEN files[base].index
                                                 ELSE rebuildIndex(intact, base)
        last   == Cardinality(bases) = Len(segments) + 1
    IN  /\ phase = "opening"
        /\ files' = [files EXCEPT ![base] = [log |-> intact, index |-> index, ragged |-> FALSE]]
        /\ segments' = Append(segments,
               [base |-> base, logSize |-> size,
                lastIndexPos |-> lastIndexedPosition(index), index |-> index])
        /\ phase' = IF last THEN "up" ELSE "opening"
        /\ nextOffset' = IF last THEN recoverNextOffset(base, intact) ELSE nextOffset
        /\ UNCHANGED <<bases, step, payload, failed>>
-----------------------------------------------------------------------------
(* Append                                                                  *)

Active == Last(segments)

\* The active segment is replaced by seg, its file by file.
UpdateActive(seg, file) ==
    /\ segments' = [segments EXCEPT ![Len(segments)] = seg]
    /\ files' = [files EXCEPT ![Active.base] = file]

ActiveFile == files[Active.base]

\* AppendWithOffset, up to the decision to roll
AppendWithOffset(p) ==
    /\ phase = "up" /\ step = "idle"
    /\ nextOffset < MaxOffset
    /\ payload' = p
    /\ step' = IF Active.logSize > 0 /\ Active.logSize + EntrySize(p) > MaxSegmentBytes
               THEN "roll" ELSE "index"
    /\ UNCHANGED <<diskVars, phase, segments, nextOffset, failed>>

\* createSegment, after the active segment was flushed
createSegment ==
    /\ step = "roll" /\ ~failed
    /\ bases' = bases \cup {nextOffset}
    /\ segments' = Append(segments, NewSegment(nextOffset))
    /\ step' = "index"
    /\ UNCHANGED <<files, phase, nextOffset, payload, failed>>

\* The flush or the creation of the log file fails: nothing has changed.  (The
\* third failure, of the index file, is in module FailedRoll.)
RollFails ==
    /\ step = "roll"
    /\ step' = "idle"
    /\ UNCHANGED <<diskVars, phase, segments, nextOffset, payload, failed>>

IndexDue == Active.logSize - Active.lastIndexPos >= IndexInterval

\* A faulty maybeWriteIndex that counts offsets from one
IndexFromOne ==
    LET entry == [rel |-> nextOffset - Active.base + 1, position |-> Active.logSize]
    IN  /\ step = "index"
        /\ step' = "log"
        /\ IF IndexDue
           THEN UpdateActive([Active EXCEPT !.index = Append(@, entry),
                                            !.lastIndexPos = Active.logSize],
                             [ActiveFile EXCEPT !.index = Append(@, entry)])
           ELSE UNCHANGED <<segments, files>>
        /\ UNCHANGED <<bases, phase, nextOffset, payload, failed>>

\* maybeWriteIndex: the index entry goes to disk before the entry it points to.
maybeWriteIndex ==
    LET entry == [rel |-> nextOffset - Active.base, position |-> Active.logSize]
    IN  /\ step = "index"
        /\ step' = "log"
        /\ IF IndexDue
           THEN UpdateActive([Active EXCEPT !.index = Append(@, entry),
                                            !.lastIndexPos = Active.logSize],
                             [ActiveFile EXCEPT !.index = Append(@, entry)])
           ELSE UNCHANGED <<segments, files>>
        /\ UNCHANGED <<bases, phase, nextOffset, payload, failed>>

\* The index write fails, perhaps after part of its bytes.  Parts of two such
\* writes that add up to whole entries, and so pass for them, are left out.
IndexWriteFails ==
    /\ step = "index" /\ IndexDue
    /\ step' = "idle"
    /\ files' \in {files, [files EXCEPT ![Active.base].ragged = TRUE]}
    /\ UNCHANGED <<bases, phase, segments, nextOffset, payload, failed>>

\* n bytes of the pending entry at the end of the active log file
Written(n) ==
    IF n = 0 THEN ActiveFile
    ELSE [ActiveFile EXCEPT !.log = Append(@,
             [offset |-> nextOffset, payload |-> payload, pos |-> logBytes(@),
              size |-> n, whole |-> n = EntrySize(payload)])]

\* The entry is written and flushed; only now do logSize and nextOffset move.
WriteEntry ==
    LET size == EntrySize(payload)
    IN  /\ step = "log" /\ ~failed
        /\ step' = "idle"
        /\ UpdateActive([Active EXCEPT !.logSize = @ + size], Written(size))
        /\ nextOffset' = nextOffset + 1
        /\ UNCHANGED <<bases, phase, payload, failed>>

\* The write fails after some bytes, and from then on every write and flush
\* of this bufio.Writer returns its error.
WriteEntryFails ==
    /\ step = "log"
    /\ step' = "idle"
    /\ IF failed
       THEN UNCHANGED files
       ELSE \E n \in 0..(EntrySize(payload) - 1) :
                files' = [files EXCEPT ![Active.base] = Written(n)]
    /\ failed' = TRUE
    /\ UNCHANGED <<bases, phase, segments, nextOffset, payload>>
-----------------------------------------------------------------------------
(* The process ends                                                        *)

Stop ==
    /\ phase' = "down"
    /\ segments' = <<>>
    /\ nextOffset' = 0
    /\ step' = "idle"
    /\ failed' = FALSE
    /\ UNCHANGED <<bases, payload>>

Close == phase = "up" /\ step = "idle" /\ Stop /\ UNCHANGED files

Crash == phase # "down" /\ Stop /\ UNCHANGED files

\* ... in the middle of a write to the log or to the index
CrashWriting ==
    /\ step = "log" /\ ~failed
    /\ \E n \in 1..(EntrySize(payload) - 1) :
          files' = [files EXCEPT ![Active.base] = Written(n)]
    /\ Stop

CrashIndexing ==
    /\ step = "index" /\ IndexDue
    /\ files' = [files EXCEPT ![Active.base].ragged = TRUE]
    /\ Stop

\* ... in openSegment, with the index rebuilt in part
CrashRebuilding ==
    LET intact  == recoverLog(files[OpeningBase].log)
        rebuilt == rebuildIndex(intact, OpeningBase)
    IN  /\ phase = "opening"
        /\ ~loadable(files[OpeningBase], logBytes(intact))
        /\ \E n \in 0..Len(rebuilt), cut \in BOOLEAN :
              files' = [files EXCEPT ![OpeningBase] =
                  [log |-> intact, index |-> SubSeq(rebuilt, 1, n), ragged |-> cut]]
        /\ Stop

Next ==
    \/ Open
    \/ openSegment
    \/ \E p \in Payload : AppendWithOffset(p)
    \/ createSegment
    \/ RollFails
    \/ maybeWriteIndex
    \/ IndexWriteFails
    \/ WriteEntry
    \/ WriteEntryFails
    \/ Close
    \/ Crash
    \/ CrashWriting
    \/ CrashIndexing
    \/ CrashRebuilding

Spec == Init /\ [][Next]_vars
-----------------------------------------------------------------------------
(* Read                                                                    *)

\* A faulty segmentForOffset that takes a segment's base for the one before
SegmentAfter(offset) ==
    Max({0} \cup {i \in DOMAIN segments : segments[i].base < offset})

\* segmentForOffset, 0 for none
segmentForOffset(offset) ==
    Max({0} \cup {i \in DOMAIN segments : segments[i].base <= offset})

\* startPosition: where the last index entry at or below the offset points
startPosition(seg, offset) ==
    LET below == {j \in DOMAIN seg.index : seg.index[j].rel <= offset - seg.base}
    IN  IF below = {} THEN 0 ELSE seg.index[Max(below)].position

\* readRecords: scan from startPos, skip what is below offset, stop at the
\* record that reaches maxBytes (0 or less: no limit)
readRecords(chunks, startPos, offset, maxBytes) ==
    LET found == SelectSeq(chunks, LAMBDA c :
                     c.whole /\ c.pos >= startPos /\ c.offset >= offset)
        bytes(n) == MapThenSumSet(LAMBDA i : PayloadBytes[found[i].payload], 1..n)
        taken == {n \in DOMAIN found : maxBytes <= 0 \/ bytes(n - 1) < maxBytes}
    IN  [i \in taken |-> [offset |-> found[i].offset, payload |-> found[i].payload]]

Read(offset, maxBytes) ==
    LET i == segmentForOffset(offset)
    IN  IF i = 0 THEN <<>>
        ELSE readRecords(files[segments[i].base].log,
                         startPosition(segments[i], offset), offset, maxBytes)

EndOffset   == nextOffset
StartOffset == IF segments = <<>> THEN 0 ELSE segments[1].base

\* listOffset: -1 asks for the latest offset, anything else for the earliest.
listOffset(timestamp) == IF timestamp = -1 THEN EndOffset ELSE StartOffset

\* A faulty ReadRawFrom that takes one Read for the whole log
ReadRawOnce(offset) == Read(offset, -1)

\* ReadRawFrom of the metadata log: Read gives records of one segment, so it
\* reads on behind the last one until nothing comes.
ReadRawFrom(offset) ==
    LET from[next \in 0..(EndOffset + 1)] ==
            LET records == Read(next, -1)
            IN  IF records = <<>> THEN <<>>
                ELSE records \o from[Last(records).offset + 1]
    IN  from[offset]
-----------------------------------------------------------------------------
(* Properties                                                              *)

\* All intact entries on disk, in the order of their segments
Stored ==
    LET intact(b) == LET kept == recoverLog(files[b].log)
                     IN  [i \in DOMAIN kept |-> [offset  |-> kept[i].offset,
                                                 payload |-> kept[i].payload]]
    IN  FlattenSeq([i \in 1..(MaxOffset + 1) |-> intact(i - 1)])

\* Whatever crashes and errors happen between the writes of an Append, the files
\* hold an append-only log with consecutive offsets: no record is lost, changed,
\* or numbered twice (log.go:89-133, 219-263, 361-397).
ALog == INSTANCE AppendOnlyLog WITH log <- Stored
ImplementsAppendOnlyLog == ALog!Spec

\* Read finds every record through the segment list and the sparse index,
\* including indexes that were loaded, rebuilt or are one entry ahead of their
\* log: "At least one record is returned if any exists at or after offset"
\* (log.go:135-138), and they are the log's records from that offset on.
ReadIsExact ==
    phase = "up" /\ step = "idle" /\ ~failed =>
        LET stored == Stored IN
        /\ nextOffset = Len(stored)
        /\ \A o \in 0..nextOffset, maxBytes \in 0..MaxSegmentBytes :
              LET r == Read(o, maxBytes)
              IN  /\ o < nextOffset => r # <<>>
                  /\ \A i \in DOMAIN r : o + i <= nextOffset /\ r[i] = stored[o + i]

\* A client that asks for the earliest and the latest offset and reads what lies
\* between, and a broker that replays its metadata log, get every record, from
\* any offset on and across all segments: "compute where to start fetching"
\* (PROGRESS.md:48, list_offsets.go:70-104, metadatalog.go:69-85).
ListedRangeIsWhole ==
    phase = "up" /\ step = "idle" /\ ~failed =>
        LET stored == Stored IN
        /\ listOffset(-1) - listOffset(-2) = Len(stored)
        /\ \A o \in listOffset(-2)..listOffset(-1) :
              ReadRawFrom(o) = SubSeq(stored, o + 1, Len(stored))

\* Every index entry in memory points at the start of the entry it names, or at
\* the end of the log, where that entry comes next (log.go:312-330, 399-469).
IndexIsSound ==
    \A s \in DOMAIN segments : \A j \in DOMAIN segments[s].index :
        LET e == segments[s].index[j]
            chunks == recoverLog(files[segments[s].base].log)
        IN  IF e.position = logBytes(chunks)
            THEN e.rel = Len(chunks)
            ELSE \E c \in Range(chunks) :
                    c.pos = e.position /\ c.offset = segments[s].base + e.rel
=============================================================================
