----------------------------- MODULE MCPipeline -----------------------------
(***************************************************************************)
(* An instance of both pipelines for model checking. A transfer has one    *)
(* direction: either the reader runs or the writer, and the other one is   *)
(* not there. To the reader that is a download that was given up at once,  *)
(* and the same to the writer.                                             *)
(***************************************************************************)
EXTENDS PipelinedReader

VARIABLES upload, uKnown, uTotal, uSize, uPc, uPosition, uBuffer, uOffset, uEof, uInflight,
          uRemote, uDone, uFault

U == INSTANCE PipelinedWriter
        WITH known <- uKnown, total <- uTotal, size <- uSize, pc <- uPc, position <- uPosition,
             buffer <- uBuffer, offset <- uOffset, eof <- uEof, inflight <- uInflight,
             remote <- uRemote, done <- uDone, fault <- uFault

uVars == <<uKnown, uTotal, uSize, uPc, uPosition, uBuffer, uOffset, uEof, uInflight,
           uRemote, uDone, uFault>>
transferVars == <<vars, upload, uVars>>

NoDownload ==
    /\ known = TRUE /\ total = 0 /\ size = 0 /\ pc = "failed" /\ next = 0 /\ retry = <<>>
    /\ inflight = {} /\ eof = FALSE /\ chunk = NoChunk /\ current = Empty /\ cursor = 0
    /\ dest = [i \in Offsets |-> Empty] /\ done = 0 /\ fault = TRUE

NoUpload ==
    /\ uKnown = TRUE /\ uTotal = 0 /\ uSize = 0 /\ uPc = "failed" /\ uPosition = 0
    /\ uBuffer = 0 /\ uOffset = 0 /\ uEof = FALSE /\ uInflight = {}
    /\ uRemote = [i \in Offsets |-> Empty] /\ uDone = 0 /\ uFault = TRUE

TransferInit ==
    \/ upload = FALSE /\ Init /\ NoUpload
    \/ upload = TRUE /\ U!Init /\ NoDownload

TransferNext ==
    \/ Next /\ UNCHANGED <<upload, uVars>>
    \/ U!Next /\ UNCHANGED <<upload, vars>>

\* The fairness of both.
TransferSpec ==
    /\ TransferInit /\ [][TransferNext]_transferVars
    /\ WF_vars(Reader) /\ WF_vars(\E r \in inflight : Answer(r))
    /\ WF_uVars(U!Writer) /\ WF_uVars(U!Server)

\* An upload that reports success has stored all that was read and all that was
\* announced, every byte at its place and nothing else, in whatever order the
\* server performs the writes (upload_from, spawn_write_requests).
UploadComplete == U!StoredInPlace /\ U!StoredAll

\* A transfer fails only if it was cancelled, an operation failed or the file was
\* shorter than announced: never because of the way server or disk divide it or of
\* its length (next_chunk_len, the final checks of bytes_done).
TransferFailsForAReason == FailsForAReason /\ U!FailsForAReason

\* A transfer ends: neither loop waits with nothing in flight (download_to,
\* upload_from).
TransferEnds == DownloadEnds /\ U!UploadEnds
=============================================================================
