--------------------------- MODULE PipelinedWriter ---------------------------
(***************************************************************************)
(* PipelinedUploadWriter: a local file is read from its beginning to its   *)
(* end and written to the server with several requests in flight. The disk *)
(* may deliver fewer bytes than asked for, the file may change under the   *)
(* upload, the server performs the writes in any order and may refuse one. *)
(*                                                                         *)
(* Bytes are told apart by their offset in the source: remote[i] is the    *)
(* offset of the byte that was stored at i.                                *)
(***************************************************************************)
EXTENDS Pipeline

VARIABLES
    known,      \* bytes_total is Some
    total,      \* its value
    size,       \* the size of the local file
    pc,         \* where upload_from is
    position,   \* the source's cursor
    buffer,     \* length of the buffer that is being filled
    offset,     \* current_offset
    eof,        \* eof_reached
    inflight,   \* in_flight: requests, and what became of them
    remote,     \* the file on the server
    done,       \* bytes_done
    fault       \* whether something happened that an upload may fail for

vars == <<known, total, size, pc, position, buffer, offset, eof, inflight, remote, done, fault>>
file == <<known, total, size>>
source == <<position, buffer, offset, eof>>

\* The size was read when the upload was planned.
Init ==
    /\ known \in BOOLEAN /\ total \in 0 .. MaxSize /\ size \in 0 .. MaxSize
    /\ pc = IF known /\ total = 0 THEN "ok" ELSE "fill"
    /\ position = 0 /\ buffer = 0 /\ offset = 0 /\ eof = FALSE
    /\ inflight = {}
    /\ remote = [i \in Offsets |-> Empty]
    /\ done = 0
    /\ fault = (known /\ size < total)

-----------------------------------------------------------------------------
ToRead == IF known THEN NextChunkLen(total - offset) ELSE Chunk

\* Mutant: a buffer that the end of the file leaves partly filled is not sent.
SendsMut(len, n) == len > 0 /\ len = ToRead

\* A buffer is sent when it is full, or when a read of no bytes ends the file.
Sends(len, n) == len > 0 /\ (n = 0 \/ len = ToRead)

\* spawn_write_requests: its loop goes on while there is room and a rest.
MoreToSpawn == Cardinality(inflight) < Window /\ ~eof

Filling == pc \in {"fill", "refill"} /\ MoreToSpawn

\* Everything that was announced has been read.
StopAtTotal ==
    /\ Filling /\ known /\ offset >= total
    /\ eof' = TRUE
    /\ UNCHANGED <<file, pc, position, buffer, offset, inflight, remote, done, fault>>

\* One read of the source, of n bytes: none at its end.
ReadSource ==
    /\ Filling /\ ~(known /\ offset >= total)
    /\ \E n \in 0 .. ToRead - buffer :
        LET len == buffer + n
            send == Sends(len, n)
        IN  /\ n = 0 => position >= size \/ ToRead = 0
            /\ n > 0 => position + n <= size
            /\ position' = position + n
            /\ eof' = (n = 0)
            /\ buffer' = IF send THEN 0 ELSE len
            /\ offset' = IF send THEN offset + len ELSE offset
            /\ inflight' = IF send
                           THEN inflight \cup {[at |-> offset, from |-> position' - len,
                                                len |-> len, status |-> "sent"]}
                           ELSE inflight
    /\ UNCHANGED <<file, pc, remote, done, fault>>

\* The loop ends. With nothing in flight the upload is over, and its length is
\* checked.
Spawned ==
    /\ pc \in {"fill", "refill"}
    /\ ~MoreToSpawn
    /\ pc' = IF pc = "refill" THEN "fill"
             ELSE IF inflight # {} THEN "join"
             ELSE IF known /\ done # total THEN "failed"
             ELSE "ok"
    /\ UNCHANGED <<file, source, inflight, remote, done, fault>>

\* The server performs a write and says so, or refuses it.
Stored(r) == [i \in Offsets |-> IF i \in r.at .. r.at + r.len - 1 THEN r.from + (i - r.at) ELSE remote[i]]
Answered(r, status) == [at |-> r.at, from |-> r.from, len |-> r.len, status |-> status]

Perform(r) ==
    /\ r.status = "sent"
    /\ inflight' = (inflight \ {r}) \cup {Answered(r, "stored")}
    /\ remote' = Stored(r)
    /\ UNCHANGED <<file, source, pc, done, fault>>

Refuse(r) ==
    /\ r.status = "sent"
    /\ inflight' = (inflight \ {r}) \cup {Answered(r, "refused")}
    /\ UNCHANGED <<file, source, pc, remote, done, fault>>

Accepted(r) == r.status = "stored"

\* join_next takes any answer that is there.
Join(r) ==
    /\ pc = "join" /\ r.status # "sent"
    /\ inflight' = inflight \ {r}
    /\ IF Accepted(r) THEN pc' = "refill" /\ done' = done + r.len /\ UNCHANGED fault
       ELSE pc' = "failed" /\ fault' = TRUE /\ UNCHANGED done
    /\ UNCHANGED <<file, source, remote>>

\* A cancel, an error of the disk or a request that is not answered in time.
Fail ==
    /\ pc \notin {"ok", "failed"}
    /\ pc' = "failed" /\ fault' = TRUE
    /\ UNCHANGED <<file, source, inflight, remote, done>>

\* Somebody changes the length of the local file.
FileChanges ==
    /\ pc \notin {"ok", "failed"}
    /\ size' \in 0 .. MaxSize
    /\ fault' = (fault \/ (known /\ size' < total))
    /\ UNCHANGED <<known, total, pc, source, inflight, remote, done>>

-----------------------------------------------------------------------------
Writer == StopAtTotal \/ ReadSource \/ Spawned \/ \E r \in inflight : Join(r)
Server == \E r \in inflight : Perform(r) \/ Refuse(r)

Next == Writer \/ Server \/ Fail \/ FileChanges

Spec == Init /\ [][Next]_vars

\* The upload's task runs, and the server answers every request in the end (or
\* the request's time is over, and the upload fails).
FairSpec == Spec /\ WF_vars(Writer) /\ WF_vars(Server)

-----------------------------------------------------------------------------
Requests == [at : Nat, from : Nat, len : 0 .. Chunk, status : {"sent", "stored", "refused"}]

TypeOK ==
    /\ known \in BOOLEAN /\ total \in 0 .. MaxSize /\ size \in 0 .. MaxSize
    /\ pc \in {"fill", "join", "refill", "ok", "failed"}
    /\ position \in Nat /\ buffer \in 0 .. Chunk /\ offset \in Nat /\ eof \in BOOLEAN
    /\ inflight \subseteq Requests
    /\ remote \in [Offsets -> Offsets \cup {Empty}]
    /\ done \in Nat /\ fault \in BOOLEAN

\* An upload that reports success has stored a beginning of the file without a
\* hole, every byte at its place, all that was read and nothing else, whatever
\* the order in which the server performs the writes (upload_from,
\* spawn_write_requests).
StoredInPlace ==
    pc = "ok" => \A i \in Offsets : remote[i] = IF i < position THEN i ELSE Empty

\* If the length was announced, an upload that reports success has sent just as
\* much (the final check of bytes_done).
StoredAll == pc = "ok" /\ known => position = total

\* An upload fails only if it was cancelled, an operation failed or the file was
\* shorter than announced: never because of the way the disk delivers it or of
\* its length (next_chunk_len, the final check of bytes_done).
FailsForAReason == pc = "failed" => fault

\* An upload ends.
UploadEnds == <>(pc \in {"ok", "failed"})
=============================================================================
