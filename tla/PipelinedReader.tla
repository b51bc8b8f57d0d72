--------------------------- MODULE PipelinedReader ---------------------------
(***************************************************************************)
(* PipelinedDownloadReader: one file of the server is read with several    *)
(* requests in flight and written to the destination in the order of the   *)
(* answers. A server may answer with fewer bytes than asked for; the file  *)
(* may change under the download.                                          *)
(*                                                                         *)
(* Bytes are told apart by their offset in the source: dest[i] is the      *)
(* offset of the byte that was written at i.                               *)
(***************************************************************************)
EXTENDS Pipeline, Sequences

CONSTANT
    MayChange       \* whether a file of unknown length may change its length

ASSUME ReaderAssumption == MayChange \in BOOLEAN

VARIABLES
    known,      \* bytes_total is Some
    total,      \* its value
    size,       \* the size of the file on the server
    pc,         \* where download_to is
    next,       \* next_request_offset
    retry,      \* retry_ranges
    inflight,   \* in_flight: requests and, once there, how many bytes came back
    eof,        \* eof_reached
    chunk,      \* the answer being written
    current,    \* current_offset: where the code believes the destination's cursor is
    cursor,     \* where it is
    dest,       \* the destination
    done,       \* bytes_done
    fault       \* whether something happened that a download may fail for

vars == <<known, total, size, pc, next, retry, inflight, eof, chunk, current, cursor, dest, done, fault>>
file == <<known, total, size>>
output == <<current, cursor, dest, done>>

NoChunk == [from |-> 0, len |-> 0, got |-> 0, answered |-> FALSE]

\* The size was read before the download began.
Init ==
    /\ known \in BOOLEAN /\ total \in 0 .. MaxSize /\ size \in 0 .. MaxSize
    /\ pc = IF known /\ total = 0 THEN "shutdown" ELSE "fill"
    /\ next = 0 /\ retry = <<>> /\ inflight = {} /\ eof = FALSE
    /\ chunk = NoChunk
    /\ current = Empty /\ cursor = 0
    /\ dest = [i \in Offsets |-> Empty]
    /\ done = 0
    /\ fault = (known /\ size < total)

-----------------------------------------------------------------------------
Request(from, len) == [from |-> from, len |-> len, got |-> 0, answered |-> FALSE]

\* spawn_read_requests, one turn of its loop: a retry comes first, then the
\* next chunk.
Free == pc \in {"fill", "refill"} /\ Cardinality(inflight) < Window
MoreToRequest == ~eof /\ (~known \/ next < total)

SpawnRetry ==
    /\ Free /\ retry # <<>>
    /\ inflight' = inflight \cup {Head(retry)}
    /\ retry' = Tail(retry)
    /\ UNCHANGED <<file, pc, next, eof, chunk, output, fault>>

SpawnNext ==
    /\ Free /\ retry = <<>> /\ MoreToRequest
    /\ LET len == IF known THEN NextChunkLen(total - next) ELSE Chunk IN
        /\ inflight' = inflight \cup {Request(next, len)}
        /\ next' = next + len
    /\ UNCHANGED <<file, pc, retry, eof, chunk, output, fault>>

\* Mutant: the second call waits until the window is full.
SpawnedMut ==
    /\ pc \in {"fill", "refill"}
    /\ Cardinality(inflight) >= Window \/ (pc = "fill" /\ retry = <<>> /\ ~MoreToRequest)
    /\ pc' = IF pc = "refill" THEN "write"
             ELSE IF inflight # {} THEN "join"
             ELSE IF known /\ done # total THEN "failed"
             ELSE "shutdown"
    /\ UNCHANGED <<file, next, retry, inflight, eof, chunk, output, fault>>

\* The loop ends: the window is full or there is nothing to ask for. With
\* nothing in flight the download is over, and its length is checked.
Spawned ==
    /\ pc \in {"fill", "refill"}
    /\ Cardinality(inflight) >= Window \/ (retry = <<>> /\ ~MoreToRequest)
    /\ pc' = IF pc = "refill" THEN "write"
             ELSE IF inflight # {} THEN "join"
             ELSE IF known /\ done # total THEN "failed"
             ELSE "shutdown"
    /\ UNCHANGED <<file, next, retry, inflight, eof, chunk, output, fault>>

Answered(r, got) == [from |-> r.from, len |-> r.len, got |-> got, answered |-> TRUE]

\* The server answers a request: nothing at the end of the file, else at least
\* one byte.
Answer(r) ==
    /\ ~r.answered
    /\ \E got \in 0 .. r.len :
        /\ r.from + got <= size \/ got = 0
        /\ got = 0 => size <= r.from \/ r.len = 0
        /\ inflight' = (inflight \ {r}) \cup {Answered(r, got)}
    /\ UNCHANGED <<file, pc, next, retry, eof, chunk, output, fault>>

\* The part of a short answer that is asked for again.
MissingTail(r) ==
    LET from == r.from + r.got
        to == IF known THEN Least(r.from + r.len, total) ELSE r.from + r.len
    IN  IF r.got < r.len /\ from < to THEN <<Request(from, to - from)>> ELSE <<>>

\* join_next takes any answer that is there. An empty one is the end of a file of
\* unknown size, and an error before the end of one of known size.
Join(r) ==
    /\ pc = "join" /\ r.answered
    /\ inflight' = inflight \ {r}
    /\ chunk' = r
    /\ IF r.got = 0 /\ known /\ r.from < total
       THEN pc' = "failed" /\ UNCHANGED <<eof, retry>>
       ELSE /\ pc' = "refill"
            /\ eof' = (eof \/ (r.got = 0 /\ ~known))
            /\ retry' = IF r.got = 0 THEN retry ELSE retry \o MissingTail(r)
    /\ UNCHANGED <<file, next, output, fault>>

\* Mutant: the destination is not positioned before a write.
PositionMut == cursor

\* The destination is only positioned if the code believes it is elsewhere.
Position == IF current = chunk.from THEN cursor ELSE chunk.from

WriteChunk ==
    /\ pc = "write"
    /\ LET at == Position IN
        IF chunk.got = 0 THEN UNCHANGED output
        ELSE /\ dest' = [i \in Offsets |-> IF i \in at .. at + chunk.got - 1
                                           THEN chunk.from + (i - at) ELSE dest[i]]
             /\ cursor' = at + chunk.got
             /\ current' = chunk.from + chunk.got
             /\ done' = done + chunk.got
    /\ pc' = "fill"
    /\ chunk' = NoChunk
    /\ UNCHANGED <<file, next, retry, inflight, eof, fault>>

Shutdown ==
    /\ pc = "shutdown"
    /\ pc' = "ok"
    /\ UNCHANGED <<file, next, retry, inflight, eof, chunk, output, fault>>

\* A cancel, an error of the server or of the disk: requests in flight are given up.
Fail ==
    /\ pc \notin {"ok", "failed"}
    /\ pc' = "failed" /\ fault' = TRUE
    /\ UNCHANGED <<file, next, retry, inflight, eof, chunk, output>>

\* Somebody changes the length of the file on the server.
FileChanges ==
    /\ known \/ MayChange
    /\ pc \notin {"ok", "failed"}
    /\ size' \in 0 .. MaxSize
    /\ fault' = (fault \/ (known /\ size' < total))
    /\ UNCHANGED <<known, total, pc, next, retry, inflight, eof, chunk, output>>

-----------------------------------------------------------------------------
Reader == SpawnRetry \/ SpawnNext \/ Spawned \/ WriteChunk \/ Shutdown \/ \E r \in inflight : Join(r)

Next == Reader \/ Fail \/ FileChanges \/ \E r \in inflight : Answer(r)

Spec == Init /\ [][Next]_vars

\* The download's task runs, and the server answers every request in the end
\* (or its request_timeout_secs pass, and the download fails).
FairSpec == Spec /\ WF_vars(Reader) /\ WF_vars(\E r \in inflight : Answer(r))

-----------------------------------------------------------------------------
Requests == [from : Nat, len : 0 .. Chunk, got : 0 .. Chunk, answered : BOOLEAN]

TypeOK ==
    /\ known \in BOOLEAN /\ total \in 0 .. MaxSize /\ size \in 0 .. MaxSize
    /\ pc \in {"fill", "join", "refill", "write", "shutdown", "ok", "failed"}
    /\ next \in Nat /\ retry \in Seq(Requests) /\ inflight \subseteq Requests
    /\ eof \in BOOLEAN /\ chunk \in Requests
    /\ current \in Nat \cup {Empty} /\ cursor \in Nat
    /\ dest \in [Offsets -> Offsets \cup {Empty}]
    /\ done \in Nat /\ fault \in BOOLEAN

\* A download that reports success has written the whole file, every byte at its
\* place and nothing else, however the answers were split and ordered
\* (download_to, spawn_read_requests).
Expected == IF known THEN total ELSE size
Complete ==
    pc = "ok" => \A i \in Offsets : dest[i] = IF i < Expected THEN i ELSE Empty

\* A file of unknown length arrives without a hole: what an empty answer leaves
\* out is the end of the file. It does not hold of a file that grows meanwhile,
\* MayChange = TRUE: see the README.
NoHoles ==
    pc = "ok" => \A i, j \in Offsets : i < j /\ dest[j] # Empty => dest[i] # Empty

\* A download fails only if it was cancelled, an operation failed or the file
\* was shorter than announced: never because of the way the server divides its
\* answers or of the length of the file (next_chunk_len, the final check of
\* bytes_done).
FailsForAReason == pc = "failed" => fault

\* A download ends.
DownloadEnds == <>(pc \in {"ok", "failed"})
=============================================================================
