--------------------------- MODULE PipelineProofs ---------------------------
(***************************************************************************)
(* A transfer in either direction, of any size, with any chunk and window, *)
(* whose answers may be split and ordered in any way, is complete when it  *)
(* reports success and fails only for a reason.                            *)
(***************************************************************************)
EXTENDS MCPipeline, FiniteSetTheorems, TLAPS

-----------------------------------------------------------------------------
(* The reader. Its inductive invariant. *)

\* What is in flight was handed out, stays within the announced length and
\* was answered from the file as it is.
Good(r) ==
    /\ r \in Requests
    /\ r.len >= 1 /\ r.got <= r.len
    /\ r.from + r.len <= next
    /\ known => r.from + r.len <= total
    /\ r.answered /\ ~known => IF r.got = 0 THEN size <= r.from ELSE r.from + r.got <= size
    /\ ~r.answered => r.got = 0

RequestsGood ==
    /\ \A r \in inflight : Good(r)
    /\ \A k \in 1 .. Len(retry) : Good(retry[k]) /\ ~retry[k].answered
    /\ pc \in {"refill", "write"} => Good(chunk) /\ chunk.answered

\* Every byte is where it belongs, and nothing is written past the end.
Placed ==
    \A i \in Offsets : /\ dest[i] \in {i, Empty}
                       /\ i >= Expected => dest[i] = Empty

\* The destination's cursor is where the code believes it to be.
CursorAgrees == current = Empty \/ cursor = current

Asks(r, i) == r.from <= i /\ i < r.from + r.len

\* A byte that was asked for is written, is being written or is asked for.
Covered(i) ==
    \/ dest[i] = i
    \/ \E r \in inflight : Asks(r, i)
    \/ \E k \in 1 .. Len(retry) : Asks(retry[k], i)
    \/ pc \in {"refill", "write"} /\ chunk.from <= i /\ i < chunk.from + chunk.got

NothingLost == pc # "failed" => \A i \in Offsets : i < next /\ i < Expected => Covered(i)

\* The end of a file of unknown length is behind every later request.
EofIsTheEnd == eof => ~known /\ size <= next

Ended == pc \in {"shutdown", "ok"} => \A i \in Offsets : i < Expected => dest[i] = i

IInv == TypeOK /\ RequestsGood /\ Placed /\ CursorAgrees /\ NothingLost /\ EofIsTheEnd /\ Ended

-----------------------------------------------------------------------------
(* Lemmas on the operators. *)

\* A length that is clamped to a chunk fits the word it is cast to.
LEMMA ChunkLen ==
    ASSUME NEW n \in Nat, n > 0
    PROVE  /\ NextChunkLen(n) \in 1 .. Chunk
           /\ NextChunkLen(n) <= n
<1>1. Least(n, Chunk) \in 1 .. Chunk /\ Least(n, Chunk) <= n
    BY PipelineAssumption DEF Least
<1>2. Least(n, Chunk) < Word
    BY <1>1, PipelineAssumption
<1>3. Least(n, Chunk) % Word = Least(n, Chunk)
    BY <1>1, <1>2, PipelineAssumption
<1> QED BY <1>1, <1>3 DEF NextChunkLen

\* What is asked for again is exactly the part that did not come.
LEMMA TailIsMissing ==
    ASSUME TypeOK, NEW r, Good(r), r.got > 0
    PROVE  \/ r.got = r.len /\ MissingTail(r) = <<>>
           \/ /\ r.got < r.len
              /\ MissingTail(r) = <<Request(r.from + r.got, r.len - r.got)>>
<1>1. r.from \in Nat /\ r.len \in 0 .. Chunk /\ r.got \in 0 .. Chunk
    BY DEF Good, Requests
<1>2. Chunk \in Nat /\ total \in Nat
    BY PipelineAssumption DEF TypeOK
<1> DEFINE to == IF known THEN Least(r.from + r.len, total) ELSE r.from + r.len
<1>3. to = r.from + r.len
    BY <1>1, <1>2 DEF Good, Least
<1>4. MissingTail(r) = IF r.got < r.len /\ r.from + r.got < to
                       THEN <<Request(r.from + r.got, to - (r.from + r.got))>> ELSE <<>>
    BY DEF MissingTail
<1>5. r.got <= r.len
    BY DEF Good
<1> HIDE DEF to
<1>6. to - (r.from + r.got) = r.len - r.got
    BY <1>1, <1>2, <1>3
<1>7. r.got < r.len => r.from + r.got < to
    BY <1>1, <1>2, <1>3
<1> QED BY <1>1, <1>2, <1>4, <1>5, <1>6, <1>7

\* A part of something good that is asked for again is good.
LEMMA TailIsGood ==
    ASSUME TypeOK, NEW r, Good(r), r.got > 0, r.got < r.len
    PROVE  Good(Request(r.from + r.got, r.len - r.got))
BY PipelineAssumption DEF Good, Request, Requests, TypeOK

\* What a download expects is a number.
LEMMA ExpectedNat == ASSUME TypeOK PROVE Expected \in Nat
BY PipelineAssumption DEF TypeOK, Expected

-----------------------------------------------------------------------------
\* A download that has not begun has asked for nothing and written nothing.
LEMMA InitInv == Init => IInv
<1> SUFFICES ASSUME Init PROVE IInv
    OBVIOUS
<1> USE PipelineAssumption
<1>1. TypeOK
  <2>1. fault \in BOOLEAN
    BY Zenon DEF Init
  <2>2. pc \in {"fill", "shutdown"} /\ NoChunk \in Requests
    BY DEF Init, NoChunk, Requests
  <2>3. dest \in [Offsets -> Offsets \cup {Empty}]
    BY DEF Init
  <2>4. /\ known \in BOOLEAN /\ total \in 0 .. MaxSize /\ size \in 0 .. MaxSize
        /\ eof \in BOOLEAN /\ chunk \in Requests
    BY <2>2 DEF Init
  <2>5. retry \in Seq(Requests) /\ inflight \subseteq Requests
    BY DEF Init
  <2>6. next \in Nat /\ current \in Nat \cup {Empty} /\ cursor \in Nat /\ done \in Nat
    BY DEF Init
  <2> QED BY <2>1, <2>2, <2>3, <2>4, <2>5, <2>6 DEF TypeOK
<1>2. RequestsGood
    BY DEF Init, RequestsGood
<1>3. Placed /\ CursorAgrees
    BY DEF Init, Placed, CursorAgrees
<1>4. NothingLost
    BY DEF Init, NothingLost, Offsets
<1>5. EofIsTheEnd
    BY DEF Init, EofIsTheEnd
<1>6. Ended
    BY DEF Init, Ended, Expected, Offsets
<1> QED BY <1>1, <1>2, <1>3, <1>4, <1>5, <1>6 DEF IInv

-----------------------------------------------------------------------------
(* The steps. A step that leaves the file and next alone keeps what was good. *)

\* A good request stays good while more is asked for.
LEMMA GoodStays ==
    ASSUME TypeOK, UNCHANGED <<known, total, size>>, next' \in Nat, next' >= next, NEW r, Good(r)
    PROVE  Good(r)'
BY PipelineAssumption DEF Good, Requests, TypeOK

\* A rest that is asked for again moves from the retries to the requests.
LEMMA SpawnRetryKeeps == IInv /\ SpawnRetry => IInv'
<1> SUFFICES ASSUME IInv, SpawnRetry PROVE IInv'
    OBVIOUS
<1> DEFINE h == Head(retry)
<1>0. TypeOK /\ retry # <<>> /\ retry \in Seq(Requests)
    BY DEF IInv, SpawnRetry, TypeOK
<1>1. /\ Len(retry) \in Nat \ {0} /\ h = retry[1] /\ h \in Requests
      /\ Tail(retry) \in Seq(Requests) /\ Len(Tail(retry)) = Len(retry) - 1
      /\ \A k \in 1 .. Len(retry) - 1 : Tail(retry)[k] = retry[k + 1]
    BY <1>0
<1>2. TypeOK'
    BY <1>0, <1>1 DEF SpawnRetry, TypeOK, file, output
<1>3. RequestsGood'
  <2>1. /\ inflight' = inflight \cup {h} /\ retry' = Tail(retry)
        /\ UNCHANGED <<known, total, size, pc, next, chunk>>
    BY DEF SpawnRetry, file
  <2>2. \A r \in inflight : Good(r)'
    BY <1>0, <2>1, GoodStays DEF IInv, RequestsGood, TypeOK
  <2>3. ASSUME NEW k \in 1 .. Len(retry), NEW r, r = retry[k] PROVE Good(r)' /\ ~r.answered
    BY <1>0, <2>1, <2>3, GoodStays DEF IInv, RequestsGood, TypeOK
  <2>4. ASSUME pc \in {"refill", "write"}, NEW r, r = chunk PROVE Good(r)' /\ r.answered
    BY <1>0, <2>1, <2>4, GoodStays DEF IInv, RequestsGood, TypeOK
  <2>5. \A r \in inflight' : Good(r)'
    BY <1>1, <2>1, <2>2, <2>3
  <2>6. ASSUME NEW k \in 1 .. Len(retry'), NEW r, r = retry'[k] PROVE Good(r)' /\ ~r.answered
    <3>1. k + 1 \in 1 .. Len(retry) /\ r = retry[k + 1]
        BY <1>1, <2>1, <2>6
    <3> QED BY <2>3, <3>1
  <2> QED BY <2>1, <2>4, <2>5, <2>6 DEF RequestsGood
<1>4. NothingLost'
  <2> SUFFICES ASSUME pc # "failed", NEW i \in Offsets, i < next, i < Expected PROVE Covered(i)'
    BY DEF SpawnRetry, NothingLost, Expected, file, Free
  <2>1. Covered(i)
    BY DEF IInv, NothingLost
  <2>2. ASSUME NEW k \in 1 .. Len(retry), Asks(retry[k], i) PROVE Covered(i)'
    <3>1. CASE k = 1
        BY <1>1, <2>2, <3>1 DEF Covered, Asks, SpawnRetry
    <3>2. CASE k # 1
        <4>1. k - 1 \in 1 .. Len(retry') /\ retry'[k - 1] = retry[k]
            BY <1>1, <3>2 DEF SpawnRetry
        <4> QED BY <2>2, <4>1 DEF Covered, Asks
    <3> QED BY <3>1, <3>2
  <2>3. ASSUME NEW r \in inflight, Asks(r, i) PROVE Covered(i)'
    BY <2>3 DEF Covered, SpawnRetry, Asks
  <2>4. UNCHANGED <<dest, pc, chunk>>
    BY DEF SpawnRetry, output
  <2> QED BY <2>1, <2>2, <2>3, <2>4 DEF Covered
<1>5. Placed' /\ CursorAgrees' /\ EofIsTheEnd' /\ Ended'
    BY DEF IInv, SpawnRetry, Placed, CursorAgrees, EofIsTheEnd, Ended, Expected, file, output
<1> QED BY <1>2, <1>3, <1>4, <1>5 DEF IInv

\* A new request covers exactly the offsets by which next moves on.
LEMMA SpawnNextKeeps == IInv /\ SpawnNext => IInv'
<1> SUFFICES ASSUME IInv, SpawnNext PROVE IInv'
    OBVIOUS
<1> DEFINE len == IF known THEN NextChunkLen(total - next) ELSE Chunk
           new == Request(next, len)
<1>0. TypeOK /\ MoreToRequest /\ next \in Nat /\ total \in Nat /\ known \in BOOLEAN
    BY PipelineAssumption DEF IInv, SpawnNext, TypeOK
<1>1. len \in 1 .. Chunk /\ (known => next + len <= total)
  <2>1. CASE known
    <3>1. total - next \in Nat /\ total - next > 0
        BY <1>0, <2>1 DEF MoreToRequest
    <3> QED BY <1>0, <2>1, <3>1, ChunkLen, PipelineAssumption
  <2>2. CASE ~known
    BY <2>2, PipelineAssumption
  <2> QED BY <2>1, <2>2
<1>2. /\ inflight' = inflight \cup {new} /\ next' = next + len
      /\ UNCHANGED <<known, total, size, pc, retry, eof, chunk, current, cursor, dest, done, fault>>
    BY DEF SpawnNext, file, output
<1> HIDE DEF len
<1>3. new \in Requests /\ next' \in Nat /\ next' >= next
    BY <1>0, <1>1, <1>2, PipelineAssumption DEF Request, Requests
<1>4. TypeOK'
    BY <1>0, <1>2, <1>3 DEF TypeOK
<1>5. RequestsGood'
  <2>1. ASSUME NEW r, r = new PROVE Good(r)'
    BY <1>0, <1>1, <1>2, <1>3, <2>1, PipelineAssumption DEF Good, Request
  <2>2. \A r : Good(r) => Good(r)'
    BY <1>0, <1>2, <1>3, GoodStays
  <2>3. /\ \A r \in inflight : Good(r)
        /\ \A k \in 1 .. Len(retry) : Good(retry[k]) /\ ~retry[k].answered
        /\ pc \in {"refill", "write"} => Good(chunk) /\ chunk.answered
    BY DEF IInv, RequestsGood
  <2>4. \A r \in inflight' : Good(r)'
    BY <1>2, <2>1, <2>2, <2>3
  <2>5. ASSUME NEW k \in 1 .. Len(retry), NEW r, r = retry[k] PROVE Good(r)' /\ ~r.answered
    BY <2>2, <2>3, <2>5
  <2>6. ASSUME pc \in {"refill", "write"}, NEW r, r = chunk PROVE Good(r)' /\ r.answered
    BY <2>2, <2>3, <2>6
  <2> QED BY <1>2, <2>4, <2>5, <2>6 DEF RequestsGood
<1>6. NothingLost'
  <2> SUFFICES ASSUME pc # "failed", NEW i \in Offsets, i < next', i < Expected PROVE Covered(i)'
    BY <1>2 DEF NothingLost, Expected
  <2>1. CASE i < next
    <3>1. Covered(i)
        BY <2>1 DEF IInv, NothingLost
    <3> QED BY <1>2, <3>1 DEF Covered
  <2>2. CASE next <= i
    <3>1. Asks(new, i)
        BY <1>0, <1>1, <1>2, <2>2 DEF Asks, Request
    <3> QED BY <1>2, <3>1 DEF Covered
  <2> QED BY <1>0, <2>1, <2>2, PipelineAssumption DEF Offsets
<1>7. EofIsTheEnd'
    BY <1>0, <1>2 DEF EofIsTheEnd, MoreToRequest
<1>8. Placed' /\ CursorAgrees' /\ Ended'
    BY <1>2 DEF IInv, Placed, CursorAgrees, Ended, Expected
<1> QED BY <1>4, <1>5, <1>6, <1>7, <1>8 DEF IInv

\* A full or exhausted window changes only the place of the loop.
LEMMA SpawnedKeeps == IInv /\ Spawned => IInv'
<1> SUFFICES ASSUME IInv, Spawned PROVE IInv'
    OBVIOUS
<1>0. /\ UNCHANGED <<known, total, size, next, retry, inflight, eof, chunk,
                     current, cursor, dest, done, fault>>
      /\ pc \in {"fill", "refill"}
    BY DEF Spawned, file, output
<1>1. pc' \in {"write", "join", "failed", "shutdown"} /\ (pc' = "write" => pc = "refill")
    BY DEF Spawned
<1>2. TypeOK'
    BY <1>0, <1>1 DEF IInv, TypeOK
<1>3. RequestsGood'
    BY <1>0, <1>1 DEF IInv, RequestsGood, Good
<1>4. NothingLost'
    <2>1. pc = "refill" => pc' = "write"
        BY DEF Spawned
    <2> QED BY <1>0, <1>1, <2>1 DEF IInv, NothingLost, Covered, Expected
<1>5. Placed' /\ CursorAgrees' /\ EofIsTheEnd'
    BY <1>0 DEF IInv, Placed, CursorAgrees, EofIsTheEnd, Expected
<1>6. Ended'
  <2> SUFFICES ASSUME pc' = "shutdown", NEW i \in Offsets, i < Expected PROVE dest[i] = i
    BY <1>0, <1>1 DEF Ended, Expected
  <2>1. pc = "fill" /\ inflight = {}
    BY DEF Spawned
  <2>2. ~(Cardinality(inflight) >= Window)
    BY <2>1, FS_EmptySet, PipelineAssumption
  <2>3. retry = <<>> /\ ~MoreToRequest
    BY <2>2 DEF Spawned
  <2>4. i < next
    BY <2>3, PipelineAssumption DEF MoreToRequest, IInv, EofIsTheEnd, TypeOK, Expected, Offsets
  <2>5. Covered(i)
    BY <2>1, <2>4 DEF IInv, NothingLost
  <2> QED BY <2>1, <2>3, <2>5 DEF Covered
<1> QED BY <1>2, <1>3, <1>4, <1>5, <1>6 DEF IInv

\* The server's answer lies in its request and in the file.
LEMMA AnswerKeeps ==
    ASSUME IInv, NEW r \in inflight, Answer(r) PROVE IInv'
<1> PICK got \in 0 .. r.len :
        /\ r.from + got <= size \/ got = 0
        /\ got = 0 => size <= r.from \/ r.len = 0
        /\ inflight' = (inflight \ {r}) \cup {Answered(r, got)}
    BY DEF Answer
<1> DEFINE a == Answered(r, got)
<1>0. UNCHANGED <<known, total, size, pc, next, retry, eof, chunk, current, cursor, dest, done, fault>>
    BY DEF Answer, file, output
<1>1. TypeOK /\ Good(r) /\ r \in Requests
    BY DEF IInv, RequestsGood, TypeOK
<1>2. a \in Requests /\ a.from = r.from /\ a.len = r.len /\ a.got = got /\ a.answered
  <2>1. r.from \in Nat /\ r.len \in 0 .. Chunk /\ got \in 0 .. Chunk
    BY <1>1, PipelineAssumption DEF Requests
  <2> QED BY <2>1 DEF Answered, Requests
<1> HIDE DEF a
<1>3. inflight' = (inflight \ {r}) \cup {a}
    BY DEF a
<1>4. TypeOK'
    BY <1>0, <1>1, <1>2, <1>3 DEF TypeOK
<1>5. Good(a)
    BY <1>1, <1>2, PipelineAssumption DEF Good, Requests, TypeOK
<1>6. RequestsGood'
  <2>1. \A q : Good(q) => Good(q)'
    BY <1>0, <1>1, GoodStays DEF TypeOK
  <2>2. \A q \in inflight' : Good(q)
    BY <1>3, <1>5 DEF IInv, RequestsGood
  <2> QED BY <1>0, <2>1, <2>2 DEF IInv, RequestsGood
<1>7. NothingLost'
  <2> SUFFICES ASSUME pc # "failed", NEW i \in Offsets, i < next, i < Expected PROVE Covered(i)'
    BY <1>0 DEF NothingLost, Expected
  <2>1. Covered(i)
    BY DEF IInv, NothingLost
  <2>2. Asks(r, i) => Asks(a, i)
    BY <1>2 DEF Asks
  <2> QED BY <1>0, <1>3, <2>1, <2>2 DEF Covered
<1>8. Placed' /\ CursorAgrees' /\ EofIsTheEnd' /\ Ended'
    BY <1>0 DEF IInv, Placed, CursorAgrees, EofIsTheEnd, Ended, Expected
<1> QED BY <1>4, <1>6, <1>7, <1>8 DEF IInv

\* An answer joined outside the failing case: what it did not bring is asked for
\* again, or lies behind the end of the file.
LEMMA JoinKeeps ==
    ASSUME IInv, NEW r \in inflight, Join(r) PROVE IInv'
<1>0. /\ UNCHANGED <<known, total, size, next, current, cursor, dest, done, fault>>
      /\ pc = "join" /\ r.answered /\ inflight' = inflight \ {r} /\ chunk' = r
    BY DEF Join, file, output
<1>1. /\ TypeOK /\ Good(r) /\ r \in Requests
      /\ r.from \in Nat /\ r.len \in Nat /\ r.got \in Nat /\ r.got <= r.len
      /\ total \in Nat /\ size \in Nat /\ next \in Nat
    BY PipelineAssumption DEF IInv, RequestsGood, TypeOK, Good, Requests
<1>2. \A q : Good(q) => Good(q)'
    BY <1>0, <1>1, GoodStays DEF TypeOK
<1>3. Placed' /\ CursorAgrees'
    BY <1>0 DEF IInv, Placed, CursorAgrees, Expected
<1>4. CASE r.got = 0 /\ known /\ r.from < total
  <2>1. pc' = "failed" /\ UNCHANGED <<eof, retry>>
    BY <1>4 DEF Join
  <2>2. TypeOK'
    BY <1>0, <1>1, <2>1 DEF TypeOK
  <2>3. RequestsGood'
    BY <1>0, <1>2, <2>1 DEF IInv, RequestsGood
  <2>4. NothingLost' /\ EofIsTheEnd' /\ Ended'
    BY <1>0, <2>1 DEF IInv, NothingLost, EofIsTheEnd, Ended
  <2> QED BY <1>3, <2>2, <2>3, <2>4 DEF IInv
<1>5. CASE ~(r.got = 0 /\ known /\ r.from < total)
  <2> DEFINE tail == IF r.got = 0 THEN <<>> ELSE MissingTail(r)
             rest == Request(r.from + r.got, r.len - r.got)
  <2>1. /\ pc' = "refill" /\ eof' = (eof \/ (r.got = 0 /\ ~known))
        /\ retry' = IF r.got = 0 THEN retry ELSE retry \o MissingTail(r)
    BY <1>5 DEF Join
  <2>2. \/ r.got = 0 /\ retry' = retry
        \/ r.got > 0 /\ r.got = r.len /\ retry' = retry
        \/ /\ r.got > 0 /\ r.got < r.len
           /\ retry' = Append(retry, rest)
           /\ Good(rest) /\ rest \in Requests /\ ~rest.answered
    <3>1. retry \in Seq(Requests)
        BY <1>1 DEF TypeOK
    <3>2. CASE r.got = 0
        BY <2>1, <3>2
    <3>3. CASE r.got > 0 /\ r.got = r.len
        BY <1>1, <2>1, <3>1, <3>3, TailIsMissing
    <3>4. CASE r.got > 0 /\ r.got < r.len
        <4>1. MissingTail(r) = <<rest>>
            BY <1>1, <3>4, TailIsMissing
        <4>2. Good(rest)
            BY <1>1, <3>4, TailIsGood
        <4>3. rest \in Requests /\ ~rest.answered
            BY <4>2 DEF Good, Request
        <4>4. retry' = Append(retry, rest)
            BY <2>1, <3>1, <3>4, <4>1, <4>3
        <4> QED BY <3>4, <4>2, <4>3, <4>4
    <3> QED BY <1>1, <3>2, <3>3, <3>4
  <2>3. rest.from = r.from + r.got /\ rest.len = r.len - r.got
    BY DEF Request
  <2> HIDE DEF rest
  <2>4. retry \in Seq(Requests) /\ Len(retry) \in Nat
    BY <1>1 DEF TypeOK
  <2>5. /\ Len(retry') \in Nat /\ Len(retry') >= Len(retry) /\ retry' \in Seq(Requests)
        /\ \A k \in 1 .. Len(retry) : retry'[k] = retry[k]
        /\ \A k \in 1 .. Len(retry') : k \in 1 .. Len(retry) \/
                (r.got > 0 /\ r.got < r.len /\ retry'[k] = rest /\ Good(rest) /\ ~rest.answered)
        /\ r.got > 0 /\ r.got < r.len => Len(retry') = Len(retry) + 1 /\ retry'[Len(retry) + 1] = rest
    BY SMTT(30), <1>1, <2>2, <2>4
  <2>6. eof' \in BOOLEAN
    BY <2>1, Zenon
  <2>7. TypeOK'
    BY <1>0, <1>1, <2>1, <2>5, <2>6 DEF TypeOK
  <2>8. RequestsGood'
    <3>1. \A q \in inflight' : Good(q)'
        BY <1>0, <1>2 DEF IInv, RequestsGood
    <3>2. ASSUME NEW k \in 1 .. Len(retry'), NEW q, q = retry'[k] PROVE Good(q)' /\ ~q.answered
        <4>1. Good(q) /\ ~q.answered
            BY <2>5, <3>2 DEF IInv, RequestsGood
        <4> QED BY <1>2, <4>1
    <3>3. Good(r)' /\ r.answered
        BY <1>0, <1>1, <1>2
    <3> QED BY <1>0, <3>1, <3>2, <3>3 DEF RequestsGood
  <2>9. EofIsTheEnd'
    <3>1. CASE r.got = 0 /\ ~known
        BY <1>0, <1>1, <3>1 DEF EofIsTheEnd, Good
    <3>2. CASE ~(r.got = 0 /\ ~known)
        BY <1>0, <2>1, <3>2 DEF IInv, EofIsTheEnd
    <3> QED BY <3>1, <3>2
  <2>10. NothingLost'
    <3> SUFFICES ASSUME NEW i \in Offsets, i < next, i < Expected PROVE Covered(i)'
        BY <1>0 DEF NothingLost, Expected
    <3>0. i \in Nat
        BY PipelineAssumption DEF Offsets
    <3>1. Covered(i)
        BY <1>0 DEF IInv, NothingLost
    <3>2. ASSUME Asks(r, i) PROVE Covered(i)'
        <4>1. r.from <= i /\ i < r.from + r.len
            BY <3>2 DEF Asks
        <4>2. CASE i < r.from + r.got
            BY <1>0, <2>1, <4>1, <4>2 DEF Covered
        <4>3. CASE r.got = 0
            <5>1. CASE known
                BY <1>1, <1>5, <3>0, <4>1, <4>3, <5>1 DEF Expected
            <5>2. CASE ~known
                BY <1>0, <1>1, <3>0, <4>1, <4>3, <5>2 DEF Good, Expected
            <5> QED BY <5>1, <5>2
        <4>4. CASE r.got > 0 /\ r.from + r.got <= i
            <5>1. r.got < r.len
                BY <1>1, <3>0, <4>1, <4>4
            <5>2. Asks(rest, i)
                BY <1>1, <2>3, <3>0, <4>1, <4>4 DEF Asks
            <5>3. Len(retry) + 1 \in 1 .. Len(retry') /\ retry'[Len(retry) + 1] = rest
                BY <2>4, <2>5, <4>4, <5>1
            <5> QED BY <5>2, <5>3 DEF Covered, Asks
        <4> QED BY <1>1, <3>0, <4>2, <4>3, <4>4
    <3>3. ASSUME NEW k \in 1 .. Len(retry), Asks(retry[k], i) PROVE Covered(i)'
        <4>1. k \in 1 .. Len(retry') /\ retry'[k] = retry[k]
            BY <2>4, <2>5
        <4> QED BY <3>3, <4>1 DEF Covered, Asks
    <3>4. ASSUME NEW q \in inflight, q # r, Asks(q, i) PROVE Covered(i)'
        BY <1>0, <3>4 DEF Covered
    <3> QED BY <1>0, <3>1, <3>2, <3>3, <3>4 DEF Covered
  <2>11. Ended'
    BY <2>1 DEF Ended
  <2> QED BY <1>3, <2>7, <2>8, <2>9, <2>10, <2>11 DEF IInv
<1> QED BY <1>4, <1>5

\* A chunk is written where it belongs, whether the cursor was moved or not.
LEMMA WriteChunkKeeps == IInv /\ WriteChunk => IInv'
<1> SUFFICES ASSUME IInv, WriteChunk PROVE IInv'
    OBVIOUS
<1>0. /\ UNCHANGED <<known, total, size, next, retry, inflight, eof, fault>>
      /\ pc = "write" /\ pc' = "fill" /\ chunk' = NoChunk
    BY DEF WriteChunk, file
<1>1. /\ TypeOK /\ Good(chunk) /\ chunk.answered
      /\ chunk.from \in Nat /\ chunk.got \in Nat /\ chunk.len \in Nat /\ chunk.got <= chunk.len
      /\ total \in Nat /\ size \in Nat /\ next \in Nat /\ cursor \in Nat /\ done \in Nat
    BY <1>0, PipelineAssumption DEF IInv, RequestsGood, TypeOK, Good, Requests
<1>2. Position = chunk.from
    BY <1>1, PipelineAssumption DEF Position, IInv, CursorAgrees
<1>3. \A i \in Offsets : dest'[i] = IF chunk.from <= i /\ i < chunk.from + chunk.got
                                    THEN i ELSE dest[i]
  <2> SUFFICES ASSUME NEW i \in Offsets
               PROVE  dest'[i] = IF chunk.from <= i /\ i < chunk.from + chunk.got THEN i ELSE dest[i]
    OBVIOUS
  <2>0. i \in Nat
    BY PipelineAssumption DEF Offsets
  <2>1. CASE chunk.got = 0
    BY <1>1, <2>0, <2>1 DEF WriteChunk, output
  <2>2. CASE chunk.got # 0
    <3>1. dest'[i] = IF i \in chunk.from .. chunk.from + chunk.got - 1
                     THEN chunk.from + (i - chunk.from) ELSE dest[i]
        BY <1>2, <2>2 DEF WriteChunk
    <3> QED BY <1>1, <2>0, <3>1
  <2> QED BY <2>1, <2>2
<1>4. CursorAgrees' /\ current' \in Nat \cup {Empty} /\ cursor' \in Nat /\ done' \in Nat
  <2>1. CASE chunk.got = 0
    BY <1>1, <2>1 DEF WriteChunk, output, IInv, CursorAgrees, TypeOK
  <2>2. CASE chunk.got # 0
    <3>1. /\ cursor' = chunk.from + chunk.got /\ current' = chunk.from + chunk.got
          /\ done' = done + chunk.got
        BY <1>2, <2>2 DEF WriteChunk
    <3> QED BY <1>1, <3>1 DEF CursorAgrees
  <2> QED BY <2>1, <2>2
<1>5. dest' \in [Offsets -> Offsets \cup {Empty}]
  <2>1. CASE chunk.got = 0
    BY <1>1, <2>1 DEF WriteChunk, output, TypeOK
  <2>2. CASE chunk.got # 0
    <3>1. dest' = [i \in Offsets |-> IF i \in chunk.from .. chunk.from + chunk.got - 1
                                     THEN chunk.from + (i - chunk.from) ELSE dest[i]]
        BY <1>2, <2>2 DEF WriteChunk
    <3>2. DOMAIN dest' = Offsets /\ dest' = [i \in Offsets |-> dest'[i]]
        BY <3>1
    <3>3. \A i \in Offsets : dest'[i] \in Offsets \cup {Empty}
        BY <1>1, <1>3 DEF TypeOK
    <3> QED BY <3>2, <3>3
  <2> QED BY <2>1, <2>2
<1>6. NoChunk \in Requests
    BY PipelineAssumption DEF NoChunk, Requests
<1>7. TypeOK'
    BY <1>0, <1>1, <1>4, <1>5, <1>6 DEF TypeOK
<1>8. RequestsGood'
  <2>1. \A q : Good(q) => Good(q)'
    BY <1>0, <1>1, GoodStays DEF TypeOK
  <2> QED BY <1>0, <2>1 DEF IInv, RequestsGood
<1>9. Expected' = Expected /\ (chunk.got > 0 => chunk.from + chunk.got <= Expected)
    BY <1>0, <1>1 DEF Good, Expected
<1>10. Placed'
  <2> SUFFICES ASSUME NEW i \in Offsets
               PROVE  dest'[i] \in {i, Empty} /\ (i >= Expected => dest'[i] = Empty)
    BY <1>9 DEF Placed
  <2>1. i \in Nat /\ dest[i] \in {i, Empty} /\ (i >= Expected => dest[i] = Empty)
    BY PipelineAssumption DEF IInv, Placed, Offsets
  <2>2. Expected \in Nat
    BY <1>1, ExpectedNat
  <2>3. CASE chunk.from <= i /\ i < chunk.from + chunk.got
    <3>1. i < Expected
        BY <1>1, <1>9, <2>1, <2>2, <2>3
    <3> QED BY <1>3, <2>1, <2>2, <2>3, <3>1
  <2>4. CASE ~(chunk.from <= i /\ i < chunk.from + chunk.got)
    BY <1>3, <2>1, <2>4
  <2> QED BY <2>3, <2>4
<1>11. NothingLost'
  <2> SUFFICES ASSUME NEW i \in Offsets, i < next, i < Expected PROVE Covered(i)'
    BY <1>0, <1>9 DEF NothingLost
  <2>1. Covered(i)
    BY <1>0 DEF IInv, NothingLost
  <2>2. dest[i] = i => dest'[i] = i
    BY <1>3
  <2>3. chunk.from <= i /\ i < chunk.from + chunk.got => dest'[i] = i
    BY <1>3
  <2> QED BY <1>0, <2>1, <2>2, <2>3 DEF Covered
<1>12. EofIsTheEnd' /\ Ended'
    BY <1>0 DEF IInv, EofIsTheEnd, Ended
<1> QED BY <1>4, <1>7, <1>8, <1>10, <1>11, <1>12 DEF IInv

\* Shutting down needs everything written; failing promises nothing.
LEMMA RestKeeps == IInv /\ (Shutdown \/ Fail) => IInv'
<1> SUFFICES ASSUME IInv, Shutdown \/ Fail PROVE IInv'
    OBVIOUS
<1>0. /\ UNCHANGED <<known, total, size, next, retry, inflight, eof, chunk, current, cursor, dest, done>>
      /\ pc' = "failed" \/ (pc = "shutdown" /\ pc' = "ok")
      /\ fault' \in BOOLEAN
    BY DEF Shutdown, Fail, file, output, IInv, TypeOK
<1>1. TypeOK'
    BY <1>0 DEF IInv, TypeOK
<1>2. RequestsGood'
  <2>1. \A q : Good(q) => Good(q)'
    BY <1>0, GoodStays DEF IInv, TypeOK
  <2> QED BY <1>0, <2>1 DEF IInv, RequestsGood
<1>3. NothingLost'
    BY <1>0 DEF IInv, NothingLost, Covered, Expected
<1>4. Placed' /\ CursorAgrees' /\ EofIsTheEnd' /\ Ended'
    BY <1>0 DEF IInv, Placed, CursorAgrees, EofIsTheEnd, Ended, Expected
<1> QED BY <1>1, <1>2, <1>3, <1>4 DEF IInv

\* A file of known length may change: what is expected of the download does not.
LEMMA FileChangesKeeps == ~MayChange /\ IInv /\ FileChanges => IInv'
<1> SUFFICES ASSUME ~MayChange, IInv, FileChanges PROVE IInv'
    OBVIOUS
<1>0. /\ UNCHANGED <<known, total, pc, next, retry, inflight, eof, chunk, current, cursor, dest, done>>
      /\ known /\ size' \in 0 .. MaxSize
    BY DEF FileChanges, output
<1>1. fault' \in BOOLEAN
    BY Zenon DEF FileChanges
<1>2. TypeOK'
    BY <1>0, <1>1 DEF IInv, TypeOK
<1>3. RequestsGood'
  <2>1. \A q : Good(q) => Good(q)'
    BY <1>0 DEF Good
  <2> QED BY <1>0, <2>1 DEF IInv, RequestsGood
<1>4. NothingLost'
    BY <1>0 DEF IInv, NothingLost, Covered, Expected
<1>5. Placed' /\ CursorAgrees' /\ EofIsTheEnd' /\ Ended'
    BY <1>0 DEF IInv, Placed, CursorAgrees, EofIsTheEnd, Ended, Expected
<1> QED BY <1>2, <1>3, <1>4, <1>5 DEF IInv

-----------------------------------------------------------------------------
\* Every step keeps the invariant of a file that does not change.
LEMMA NextKeeps == ASSUME ~MayChange PROVE IInv /\ [Next]_vars => IInv'
<1> SUFFICES ASSUME IInv, [Next]_vars PROVE IInv'
  OBVIOUS
<1>1. CASE UNCHANGED vars
  <2>1. UNCHANGED <<known, total, size, pc, next, retry, inflight, eof, chunk,
                    current, cursor, dest, done, fault>>
      BY <1>1 DEF vars
  <2>2. \A q : Good(q) => Good(q)'
      BY <2>1 DEF Good
  <2>3. TypeOK' /\ RequestsGood'
      BY <2>1, <2>2 DEF IInv, TypeOK, RequestsGood
  <2>4. NothingLost'
      BY <2>1 DEF IInv, NothingLost, Covered, Expected
  <2>5. Placed' /\ CursorAgrees' /\ EofIsTheEnd' /\ Ended'
      BY <2>1 DEF IInv, Placed, CursorAgrees, EofIsTheEnd, Ended, Expected
  <2> QED BY <2>3, <2>4, <2>5 DEF IInv
<1>2. CASE Reader
  BY <1>2, SpawnRetryKeeps, SpawnNextKeeps, SpawnedKeeps, WriteChunkKeeps, RestKeeps, JoinKeeps
     DEF Reader
<1>3. CASE \E r \in inflight : Answer(r)
  BY <1>3, AnswerKeeps
<1>4. CASE Fail \/ FileChanges
  BY <1>4, RestKeeps, FileChangesKeeps
<1> QED BY <1>1, <1>2, <1>3, <1>4 DEF Next

\* The invariant holds of every download whose file, if its length was not
\* announced, keeps its length (download_to, spawn_read_requests).
THEOREM DownloadInvariance == ASSUME ~MayChange PROVE Spec => []IInv
<1>1. IInv /\ [Next]_vars => IInv'
    BY NextKeeps
<1> QED BY InitInv, <1>1, PTL DEF Spec

\* Every value keeps its type: no length exceeds the chunk the server agreed to,
\* no byte is written outside the file.
THEOREM DownloadTypeCorrect == ASSUME ~MayChange PROVE Spec => []TypeOK
<1>1. IInv => TypeOK
    BY DEF IInv
<1> QED BY <1>1, DownloadInvariance, PTL

\* A download that reports success has written every byte of the file at its place
\* and nothing else, for every chunk length, window and size (download_to).
THEOREM DownloadComplete == ASSUME ~MayChange PROVE Spec => []Complete
<1>1. IInv => Complete
  <2> SUFFICES ASSUME IInv, pc = "ok", NEW i \in Offsets
               PROVE  dest[i] = IF i < Expected THEN i ELSE Empty
    BY DEF Complete
  <2>1. i \in Nat /\ Expected \in Nat
    BY ExpectedNat, PipelineAssumption DEF IInv, Offsets
  <2> QED BY <2>1 DEF IInv, Ended, Placed
<1> QED BY <1>1, DownloadInvariance, PTL

-----------------------------------------------------------------------------
(* Why a download fails. What is asked for, in flight or to be asked for     *)
(* again, never overlaps, so that no byte is written, and counted, twice.    *)

Apart(from, len, at, n) == from + len <= at \/ at + n <= from

NoOverlap(q, r) == Apart(q.from, q.len, r.from, r.len)

\* The part of the answer in hand that came.
InHand == pc \in {"refill", "write"}
ClearOfPart(q) == Apart(q.from, q.len, chunk.from, chunk.got)
InPart(i) == chunk.from <= i /\ i < chunk.from + chunk.got

FlightApart == \A q, r \in inflight : q # r => NoOverlap(q, r)
RetryApart  == \A j, k \in 1 .. Len(retry) : j # k => NoOverlap(retry[j], retry[k])
BothApart   == \A q \in inflight, k \in 1 .. Len(retry) : NoOverlap(q, retry[k])
PartApart   == InHand => /\ \A q \in inflight : ClearOfPart(q)
                         /\ \A k \in 1 .. Len(retry) : ClearOfPart(retry[k])

\* Nothing that is still to come was written.
Unwritten ==
    \A i \in Offsets :
        \/ i >= next
        \/ \E r \in inflight : Asks(r, i)
        \/ \E k \in 1 .. Len(retry) : Asks(retry[k], i)
        \/ InHand /\ InPart(i)
        => dest[i] = Empty

\* bytes_done is the number of bytes written.
Written == {i \in Offsets : dest[i] # Empty}
Counted == done = Cardinality(Written)

\* Only a file that is shorter than announced is answered with nothing, and no
\* more is asked for than was announced.
Reasons ==
    /\ known /\ size < total => fault
    /\ \A r \in inflight : known /\ r.answered /\ r.got = 0 => fault
    /\ known => next <= total

CountInv ==
    /\ FlightApart /\ RetryApart /\ BothApart /\ PartApart
    /\ Unwritten /\ Counted /\ Reasons /\ FailsForAReason

-----------------------------------------------------------------------------
\* The lengths and places of what is asked for are numbers.
LEMMA AskedInRange ==
    ASSUME IInv
    PROVE  /\ \A r \in inflight : /\ r.from \in Nat /\ r.len \in Nat /\ r.got \in Nat
                                  /\ r.len >= 1 /\ r.from + r.len <= next /\ r.got <= r.len
           /\ \A k \in 1 .. Len(retry) :
                    /\ retry[k].from \in Nat /\ retry[k].len \in Nat
                    /\ retry[k].len >= 1 /\ retry[k].from + retry[k].len <= next
           /\ InHand => /\ chunk.from \in Nat /\ chunk.got \in Nat
                        /\ chunk.from + chunk.got <= next
           /\ next \in Nat /\ Len(retry) \in Nat
BY SMTT(30), PipelineAssumption DEF IInv, TypeOK, RequestsGood, Good, Requests, InHand

\* Nothing changes that the count depends on.
LEMMA SameCount ==
    ASSUME CountInv, UNCHANGED <<known, total, size, next, retry, inflight, chunk, dest, done, fault>>,
           InHand' => InHand, FailsForAReason'
    PROVE  CountInv'
<1>1. FlightApart' /\ RetryApart' /\ BothApart'
    BY DEF CountInv, FlightApart, RetryApart, BothApart, NoOverlap, Apart
<1>2. PartApart'
    BY DEF CountInv, PartApart, ClearOfPart, Apart
<1>3. Unwritten'
    BY DEF CountInv, Unwritten, InPart, Asks
<1>4. Counted' /\ Reasons'
    BY DEF CountInv, Counted, Written, Reasons
<1> QED BY <1>1, <1>2, <1>3, <1>4 DEF CountInv

\* A download that has not begun has counted nothing.
LEMMA InitCounts == Init => CountInv
<1> SUFFICES ASSUME Init PROVE CountInv
    OBVIOUS
<1>1. /\ inflight = {} /\ retry = <<>> /\ pc \in {"fill", "shutdown"} /\ next = 0 /\ done = 0
      /\ dest = [i \in Offsets |-> Empty]
    BY DEF Init
<1>2. FlightApart /\ RetryApart /\ BothApart /\ PartApart
    BY <1>1 DEF FlightApart, RetryApart, BothApart, PartApart, InHand
<1>3. Unwritten
    BY <1>1 DEF Unwritten
<1>4. Counted
  <2>1. Written = {}
    BY <1>1 DEF Written
  <2> QED BY <1>1, <2>1, FS_EmptySet DEF Counted
<1>5. known /\ size < total => fault
    BY Zenon DEF Init
<1>6. Reasons
    BY <1>1, <1>5, PipelineAssumption DEF Reasons, Init
<1>7. FailsForAReason
    BY <1>1 DEF FailsForAReason
<1> QED BY <1>2, <1>3, <1>4, <1>6, <1>7 DEF CountInv

\* A rest that is asked for again is as far apart from the others as it was.
LEMMA SpawnRetryCounts == IInv /\ CountInv /\ SpawnRetry => CountInv'
<1> SUFFICES ASSUME IInv, CountInv, SpawnRetry PROVE CountInv'
    OBVIOUS
<1> DEFINE h == Head(retry)
<1>0. TypeOK /\ retry # <<>> /\ retry \in Seq(Requests)
    BY DEF IInv, SpawnRetry, TypeOK
<1>1. /\ Len(retry) \in Nat \ {0} /\ h = retry[1]
      /\ retry' = Tail(retry) /\ Len(retry') = Len(retry) - 1
      /\ \A k \in 1 .. Len(retry') : retry'[k] = retry[k + 1] /\ k + 1 \in 1 .. Len(retry)
    BY <1>0 DEF SpawnRetry
<1>2. /\ inflight' = inflight \cup {h}
      /\ UNCHANGED <<known, total, size, pc, next, chunk, dest, done, fault>>
    BY DEF SpawnRetry, file, output
<1> HIDE DEF h
<1>3. FlightApart'
    BY <1>1, <1>2 DEF CountInv, FlightApart, BothApart, NoOverlap, Apart
<1>4. RetryApart'
    BY <1>1 DEF CountInv, RetryApart
<1>5. BothApart'
  <2> SUFFICES ASSUME NEW q \in inflight', NEW k \in 1 .. Len(retry') PROVE NoOverlap(q, retry'[k])
    BY DEF BothApart, NoOverlap
  <2>1. retry'[k] = retry[k + 1] /\ k + 1 \in 1 .. Len(retry) /\ 1 \in 1 .. Len(retry) /\ k + 1 # 1
    BY <1>1
  <2>2. CASE q \in inflight
    BY <2>1, <2>2 DEF CountInv, BothApart
  <2>3. CASE q = h
    BY <1>1, <2>1, <2>3 DEF CountInv, RetryApart
  <2> QED BY <1>2, <2>2, <2>3
<1>6. PartApart'
    BY <1>1, <1>2 DEF CountInv, PartApart, InHand, ClearOfPart
<1>7. Unwritten'
    BY <1>1, <1>2 DEF CountInv, Unwritten, InHand, InPart, Asks
<1>8. Counted' /\ FailsForAReason'
    BY <1>2 DEF CountInv, Counted, Written, FailsForAReason
<1>9. Reasons'
  <2>1. ~h.answered
    BY <1>1 DEF IInv, RequestsGood
  <2> QED BY <1>2, <2>1 DEF CountInv, Reasons
<1> QED BY <1>3, <1>4, <1>5, <1>6, <1>7, <1>8, <1>9 DEF CountInv

\* A new request is behind all that was asked for.
LEMMA SpawnNextCounts == IInv /\ CountInv /\ SpawnNext => CountInv'
<1> SUFFICES ASSUME IInv, CountInv, SpawnNext PROVE CountInv'
    OBVIOUS
<1> DEFINE len == IF known THEN NextChunkLen(total - next) ELSE Chunk
           new == Request(next, len)
<1>0. TypeOK /\ MoreToRequest /\ next \in Nat /\ total \in Nat /\ known \in BOOLEAN
    BY PipelineAssumption DEF IInv, SpawnNext, TypeOK
<1>1. len \in Nat /\ len >= 1 /\ (known => next + len <= total)
  <2>1. CASE known
    <3>1. total - next \in Nat /\ total - next > 0
        BY <1>0, <2>1 DEF MoreToRequest
    <3> QED BY <1>0, <2>1, <3>1, ChunkLen, PipelineAssumption
  <2>2. CASE ~known
    BY <2>2, PipelineAssumption
  <2> QED BY <2>1, <2>2
<1>2. /\ inflight' = inflight \cup {new} /\ next' = next + len
      /\ UNCHANGED <<known, total, size, pc, retry, chunk, dest, done, fault>>
    BY DEF SpawnNext, file, output
<1>3. new.from = next /\ new.len = len /\ ~new.answered
    BY DEF Request
<1> HIDE DEF len, new
<1>4. FlightApart'
  <2>1. \A q \in inflight : NoOverlap(q, new) /\ NoOverlap(new, q)
    BY <1>0, <1>1, <1>3, AskedInRange DEF NoOverlap, Apart
  <2> QED BY <1>2, <2>1 DEF CountInv, FlightApart
<1>5. RetryApart'
    BY <1>2 DEF CountInv, RetryApart
<1>6. BothApart'
  <2>1. \A k \in 1 .. Len(retry) : NoOverlap(new, retry[k])
    BY <1>0, <1>1, <1>3, AskedInRange DEF NoOverlap, Apart
  <2> QED BY <1>2, <2>1 DEF CountInv, BothApart
<1>7. PartApart'
  <2>1. InHand => ClearOfPart(new)
    BY <1>0, <1>1, <1>3, AskedInRange DEF ClearOfPart, Apart
  <2> QED BY <1>2, <2>1 DEF CountInv, PartApart, ClearOfPart, InHand
<1>8. Unwritten'
  <2>1. \A i \in Offsets : i \in Nat
    BY PipelineAssumption DEF Offsets
  <2>2. \A i \in Offsets : Asks(new, i) => i >= next
    BY <1>3 DEF Asks
  <2>3. \A i \in Offsets : i >= next' => i >= next
    BY <1>0, <1>1, <1>2, <2>1
  <2> QED BY <1>2, <2>2, <2>3 DEF CountInv, Unwritten, InHand, InPart
<1>9. Counted' /\ FailsForAReason'
    BY <1>2 DEF CountInv, Counted, Written, FailsForAReason
<1>10. Reasons'
    BY <1>1, <1>2, <1>3 DEF CountInv, Reasons
<1> QED BY <1>4, <1>5, <1>6, <1>7, <1>8, <1>9, <1>10 DEF CountInv

\* With nothing in flight and nothing to ask for, all that was announced is
\* written: the final check of bytes_done never fails by itself.
LEMMA AllCounted ==
    ASSUME IInv, CountInv, known, pc = "fill", inflight = {}, retry = <<>>, ~MoreToRequest
    PROVE  done = total
<1>1. next = total /\ total \in Nat /\ total <= MaxSize /\ Expected = total /\ MaxSize \in Nat
    BY PipelineAssumption DEF MoreToRequest, IInv, TypeOK, EofIsTheEnd, CountInv, Reasons, Expected
<1>2. Written = 0 .. total - 1
  <2>1. ASSUME NEW i \in 0 .. total - 1 PROVE i \in Written
    <3>1. i \in Offsets /\ i < next /\ i < Expected /\ i \in Nat
        BY <1>1 DEF Offsets
    <3>2. Covered(i)
        BY <3>1 DEF IInv, NothingLost
    <3>3. dest[i] = i
        BY <3>2 DEF Covered
    <3> QED BY <3>1, <3>3, PipelineAssumption DEF Written
  <2>2. ASSUME NEW i \in Written PROVE i \in 0 .. total - 1
    <3>1. i \in Offsets /\ dest[i] # Empty /\ i \in Nat
        BY <1>1 DEF Written, Offsets
    <3>2. ~(i >= Expected)
        BY <3>1 DEF IInv, Placed
    <3> QED BY <1>1, <3>1, <3>2
  <2> QED BY <2>1, <2>2
<1>3. Cardinality(0 .. total - 1) = total
    BY <1>1, FS_Interval
<1> QED BY <1>2, <1>3 DEF CountInv, Counted

\* A full or exhausted window changes no count.
LEMMA SpawnedCounts == IInv /\ CountInv /\ Spawned => CountInv'
<1> SUFFICES ASSUME IInv, CountInv, Spawned PROVE CountInv'
    OBVIOUS
<1>0. /\ UNCHANGED <<known, total, size, next, retry, inflight, eof, chunk, dest, done, fault>>
      /\ pc \in {"fill", "refill"} /\ (InHand' => InHand)
    BY DEF Spawned, file, output, InHand
<1>1. FailsForAReason'
  <2> SUFFICES ASSUME pc' = "failed" PROVE FALSE
    BY DEF FailsForAReason
  <2>1. pc = "fill" /\ inflight = {} /\ known /\ done # total
    BY DEF Spawned
  <2>2. ~(Cardinality(inflight) >= Window)
    BY <2>1, FS_EmptySet, PipelineAssumption
  <2>3. retry = <<>> /\ ~MoreToRequest
    BY <2>2 DEF Spawned
  <2> QED BY <2>1, <2>3, AllCounted
<1> QED BY <1>0, <1>1, SameCount

\* An empty answer to a request of an announced file is a fault.
LEMMA AnswerCounts ==
    ASSUME IInv, CountInv, NEW r \in inflight, Answer(r) PROVE CountInv'
<1> PICK got \in 0 .. r.len :
        /\ r.from + got <= size \/ got = 0
        /\ got = 0 => size <= r.from \/ r.len = 0
        /\ inflight' = (inflight \ {r}) \cup {Answered(r, got)}
    BY DEF Answer
<1> DEFINE a == Answered(r, got)
<1>0. UNCHANGED <<known, total, size, pc, next, retry, chunk, dest, done, fault>>
    BY DEF Answer, file, output
<1>1. a.from = r.from /\ a.len = r.len /\ a.got = got
    BY DEF Answered
<1>2. inflight' = (inflight \ {r}) \cup {a}
    OBVIOUS
<1> HIDE DEF a
<1>3. FlightApart'
    BY <1>1, <1>2 DEF CountInv, FlightApart, NoOverlap, Apart
<1>4. RetryApart' /\ BothApart'
    BY <1>0, <1>1, <1>2 DEF CountInv, RetryApart, BothApart, NoOverlap, Apart
<1>5. PartApart'
    BY <1>0, <1>1, <1>2 DEF CountInv, PartApart, InHand, ClearOfPart, Apart
<1>6. Unwritten'
    BY <1>0, <1>1, <1>2 DEF CountInv, Unwritten, InHand, InPart, Asks
<1>7. Counted' /\ FailsForAReason'
    BY <1>0 DEF CountInv, Counted, Written, FailsForAReason
<1>8. Reasons'
  <2>1. known /\ got = 0 => fault
    <3>1. SUFFICES ASSUME known, got = 0 PROVE size < total
        BY DEF CountInv, Reasons
    <3>2. /\ r.from \in Nat /\ r.len \in Nat /\ r.len >= 1 /\ r.from + r.len <= total
          /\ size \in Nat /\ total \in Nat
        BY <3>1, AskedInRange, PipelineAssumption DEF IInv, RequestsGood, Good, TypeOK
    <3> QED BY <3>1, <3>2
  <2> QED BY <1>0, <1>1, <1>2, <2>1 DEF CountInv, Reasons
<1> QED BY <1>3, <1>4, <1>5, <1>6, <1>7, <1>8 DEF CountInv

\* What came and what is asked for again are two parts of what was asked for.
LEMMA JoinCounts ==
    ASSUME IInv, CountInv, NEW r \in inflight, Join(r) PROVE CountInv'
<1>0. /\ UNCHANGED <<known, total, size, next, dest, done, fault>>
      /\ pc = "join" /\ r.answered /\ inflight' = inflight \ {r} /\ chunk' = r
    BY DEF Join, file, output
<1>1. /\ TypeOK /\ Good(r)
      /\ r.from \in Nat /\ r.len \in Nat /\ r.got \in Nat /\ r.got <= r.len /\ r.len >= 1
    BY AskedInRange DEF IInv, RequestsGood
<1>2. FlightApart' /\ Counted' /\ Reasons'
    BY <1>0 DEF CountInv, FlightApart, Counted, Written, Reasons
<1>3. CASE r.got = 0 /\ known /\ r.from < total
  <2>1. pc' = "failed" /\ retry' = retry /\ fault
    BY <1>0, <1>3 DEF Join, CountInv, Reasons
  <2>2. RetryApart' /\ BothApart' /\ PartApart' /\ FailsForAReason'
    BY <1>0, <2>1 DEF CountInv, RetryApart, BothApart, PartApart, FailsForAReason, InHand
  <2>3. Unwritten'
    BY <1>0, <2>1 DEF CountInv, Unwritten, InHand
  <2> QED BY <1>2, <2>2, <2>3 DEF CountInv
<1>4. CASE ~(r.got = 0 /\ known /\ r.from < total)
  <2> DEFINE rest == Request(r.from + r.got, r.len - r.got)
             more == r.got > 0 /\ r.got < r.len
  <2>1. pc' = "refill" /\ retry' = IF r.got = 0 THEN retry ELSE retry \o MissingTail(r)
    BY <1>4 DEF Join
  <2>2. retry \in Seq(Requests) /\ Len(retry) \in Nat
    BY <1>1 DEF TypeOK
  <2>3. rest.from = r.from + r.got /\ rest.len = r.len - r.got
    BY DEF Request
  <2>4. IF more THEN retry' = Append(retry, rest) ELSE retry' = retry
    <3>1. CASE more
        <4>1. MissingTail(r) = <<rest>>
            BY <1>1, <3>1, TailIsMissing
        <4>2. Good(rest)
            BY <1>1, <3>1, TailIsGood
        <4>3. rest \in Requests
            BY <4>2 DEF Good
        <4>4. retry' = Append(retry, rest)
            BY <1>1, <2>1, <2>2, <3>1, <4>1, <4>3
        <4> QED BY <3>1, <4>4
    <3>2. CASE r.got = 0
        BY <2>1, <3>2
    <3>3. CASE r.got > 0 /\ r.got = r.len
        <4>1. MissingTail(r) = <<>>
            BY <1>1, <3>3, TailIsMissing
        <4>2. retry' = retry \o <<>>
            BY <1>1, <2>1, <3>3, <4>1
        <4>3. retry' = retry
            BY <2>2, <4>2
        <4> QED BY <1>1, <3>3, <4>3
    <3> QED BY <1>1, <3>1, <3>2, <3>3
  <2> HIDE DEF rest
  <2>5. \A k \in 1 .. Len(retry') : \/ k \in 1 .. Len(retry) /\ retry'[k] = retry[k]
                                    \/ more /\ retry'[k] = rest /\ k = Len(retry) + 1
    BY <2>2, <2>4
  <2>6. \A q : q.from \in Nat /\ q.len \in Nat /\ more /\ NoOverlap(q, r) => NoOverlap(q, rest)
    BY <1>1, <2>3 DEF NoOverlap, Apart
  <2>7. \A q : q.from \in Nat /\ q.len \in Nat /\ NoOverlap(q, r)
            => Apart(q.from, q.len, r.from, r.got)
    BY <1>1 DEF NoOverlap, Apart
  <2>8. /\ \A q \in inflight' : q.from \in Nat /\ q.len \in Nat /\ NoOverlap(q, r)
        /\ \A k \in 1 .. Len(retry) : /\ retry[k].from \in Nat /\ retry[k].len \in Nat
                                      /\ NoOverlap(r, retry[k]) /\ NoOverlap(retry[k], r)
    BY <1>0, AskedInRange DEF CountInv, FlightApart, BothApart, NoOverlap, Apart
  <2>9. RetryApart'
    <3> SUFFICES ASSUME NEW j \in 1 .. Len(retry'), NEW k \in 1 .. Len(retry'), j # k
                 PROVE  NoOverlap(retry'[j], retry'[k])
        BY DEF RetryApart, NoOverlap
    <3>1. CASE j \in 1 .. Len(retry) /\ k \in 1 .. Len(retry)
        <4>1. retry'[j] = retry[j] /\ retry'[k] = retry[k]
            BY <2>2, <2>5, <3>1
        <4> QED BY <3>1, <4>1 DEF CountInv, RetryApart
    <3>2. CASE j \in 1 .. Len(retry) /\ k \notin 1 .. Len(retry)
        BY <2>2, <2>5, <2>6, <2>8, <3>2
    <3>3. CASE j \notin 1 .. Len(retry) /\ k \in 1 .. Len(retry)
        <4>1. NoOverlap(retry'[k], retry'[j])
            BY <2>2, <2>5, <2>6, <2>8, <3>3
        <4> QED BY <4>1 DEF NoOverlap, Apart
    <3> QED BY <2>2, <2>5, <3>1, <3>2, <3>3
  <2>10. BothApart'
    <3> SUFFICES ASSUME NEW q \in inflight', NEW k \in 1 .. Len(retry')
                 PROVE  NoOverlap(q, retry'[k])
        BY DEF BothApart, NoOverlap
    <3>1. CASE k \in 1 .. Len(retry)
        BY <1>0, <2>2, <2>5, <3>1 DEF CountInv, BothApart
    <3>2. CASE k \notin 1 .. Len(retry)
        BY <2>5, <2>6, <2>8, <3>2
    <3> QED BY <3>1, <3>2
  <2>11. PartApart'
    <3>1. ASSUME NEW q \in inflight' PROVE ClearOfPart(q)'
        BY <1>0, <2>7, <2>8 DEF ClearOfPart
    <3>2. ASSUME NEW k \in 1 .. Len(retry'), NEW q, q = retry'[k] PROVE ClearOfPart(q)'
        <4>1. CASE k \in 1 .. Len(retry)
            BY <1>0, <2>2, <2>5, <2>7, <2>8, <3>2, <4>1 DEF ClearOfPart
        <4>2. CASE k \notin 1 .. Len(retry)
            <5>1. q.from = r.from + r.got /\ chunk'.from = r.from /\ chunk'.got = r.got
                BY <1>0, <2>3, <2>5, <3>2, <4>2
            <5> QED BY <1>1, <5>1 DEF ClearOfPart, Apart
        <4> QED BY <4>1, <4>2
    <3> QED BY <3>1, <3>2 DEF PartApart, ClearOfPart
  <2>12. Unwritten'
    <3>1. \A i \in Offsets : i \in Nat
        BY PipelineAssumption DEF Offsets
    <3>2. \A i \in Offsets : more /\ Asks(rest, i) => Asks(r, i)
        BY <1>1, <2>3, <3>1 DEF Asks
    <3>3. \A i \in Offsets : InPart(i)' => Asks(r, i)
        BY <1>0, <1>1, <3>1 DEF Asks, InPart
    <3>4. ASSUME NEW i \in Offsets, NEW k \in 1 .. Len(retry'), Asks(retry'[k], i)
          PROVE  dest[i] = Empty
        BY <2>5, <3>2, <3>4 DEF CountInv, Unwritten
    <3> QED BY <1>0, <3>3, <3>4 DEF CountInv, Unwritten, Asks
  <2>13. FailsForAReason'
    BY <2>1 DEF FailsForAReason
  <2> QED BY <1>2, <2>9, <2>10, <2>11, <2>12, <2>13 DEF CountInv
<1> QED BY <1>3, <1>4

\* The number of offsets in a range.
LEMMA RangeCount ==
    ASSUME NEW a \in Nat, NEW n \in Nat, n # 0
    PROVE  IsFiniteSet(a .. a + n - 1) /\ Cardinality(a .. a + n - 1) = n
<1>1. a \in Int /\ a + n - 1 \in Int /\ ~(a > a + n - 1) /\ (a + n - 1) - a + 1 = n
    OBVIOUS
<1> QED BY <1>1, FS_Interval

\* A chunk is counted as the bytes it writes, none of which was written before.
LEMMA WriteChunkCounts == IInv /\ CountInv /\ WriteChunk => CountInv'
<1> SUFFICES ASSUME IInv, CountInv, WriteChunk PROVE CountInv'
    OBVIOUS
<1>0. /\ UNCHANGED <<known, total, size, next, retry, inflight, eof, fault>>
      /\ pc = "write" /\ pc' = "fill" /\ ~InHand' /\ InHand
    BY DEF WriteChunk, file, InHand
<1>1. /\ TypeOK /\ Good(chunk) /\ chunk.from \in Nat /\ chunk.got \in Nat
      /\ chunk.from + chunk.got <= next /\ next \in Nat /\ MaxSize \in Nat
    BY <1>0, AskedInRange, PipelineAssumption DEF IInv, RequestsGood
<1>2. FlightApart' /\ RetryApart' /\ BothApart' /\ PartApart'
    BY <1>0 DEF CountInv, FlightApart, RetryApart, BothApart, PartApart
<1>3. Reasons' /\ FailsForAReason'
    BY <1>0 DEF CountInv, Reasons, FailsForAReason
<1>4. CASE chunk.got = 0
  <2>1. UNCHANGED <<dest, done>>
    BY <1>4 DEF WriteChunk, output
  <2>2. Unwritten' /\ Counted'
    BY <1>0, <2>1 DEF CountInv, Unwritten, Counted, Written
  <2> QED BY <1>2, <1>3, <2>2 DEF CountInv
<1>5. CASE chunk.got # 0
  <2> DEFINE R == chunk.from .. chunk.from + chunk.got - 1
  <2>1. done' = done + chunk.got
    BY <1>5 DEF WriteChunk
  <2>2. Position = chunk.from
    BY <1>1, PipelineAssumption DEF Position, IInv, CursorAgrees
  <2>3. \A i \in Offsets : dest'[i] = IF InPart(i) THEN i ELSE dest[i]
    <3> SUFFICES ASSUME NEW i \in Offsets PROVE dest'[i] = IF InPart(i) THEN i ELSE dest[i]
        OBVIOUS
    <3>1. i \in Nat
        BY PipelineAssumption DEF Offsets
    <3>2. dest'[i] = IF i \in R THEN chunk.from + (i - chunk.from) ELSE dest[i]
        BY <1>5, <2>2 DEF WriteChunk
    <3> QED BY <1>1, <3>1, <3>2 DEF InPart
  <2>4. \A i \in Offsets : i \in Nat /\ i # Empty
    BY PipelineAssumption DEF Offsets
  <2>5. Unwritten'
    <3> SUFFICES ASSUME NEW i \in Offsets,
                        \/ i >= next
                        \/ \E r \in inflight : Asks(r, i)
                        \/ \E k \in 1 .. Len(retry) : Asks(retry[k], i)
                 PROVE  dest'[i] = Empty
        BY <1>0 DEF Unwritten, Asks
    <3>1. dest[i] = Empty
        BY DEF CountInv, Unwritten
    <3>2. ~InPart(i)
        <4>1. CASE i >= next
            BY <1>1, <2>4, <4>1 DEF InPart
        <4>2. ASSUME NEW q, q.from \in Nat, q.len \in Nat, Asks(q, i), ClearOfPart(q)
              PROVE  ~InPart(i)
            BY <1>1, <2>4, <4>2 DEF ClearOfPart, Apart, Asks, InPart
        <4>3. CASE \E r \in inflight : Asks(r, i)
            BY <1>0, <4>2, <4>3, AskedInRange DEF CountInv, PartApart
        <4>4. CASE \E k \in 1 .. Len(retry) : Asks(retry[k], i)
            BY <1>0, <4>2, <4>4, AskedInRange DEF CountInv, PartApart
        <4> QED BY <4>1, <4>3, <4>4
    <3> QED BY <2>3, <3>1, <3>2
  <2>6. Expected \in Nat /\ chunk.from + chunk.got <= Expected /\ Expected <= MaxSize
    BY <1>0, <1>1, <1>5, PipelineAssumption DEF Good, Requests, Expected, IInv, RequestsGood, TypeOK
  <2>7. R \subseteq Offsets /\ \A i \in Offsets : i \in R <=> InPart(i)
    BY <1>1, <2>4, <2>6 DEF Offsets, InPart
  <2>8. Written' = Written \cup R
    BY <2>3, <2>4, <2>7 DEF Written
  <2>9. Written \cap R = {}
    <3>1. \A i \in Offsets : InPart(i) => dest[i] = Empty
        BY <1>0 DEF CountInv, Unwritten
    <3> QED BY <2>7, <3>1 DEF Written
  <2>10. IsFiniteSet(R) /\ Cardinality(R) = chunk.got
    BY <1>1, <1>5, RangeCount
  <2>11. IsFiniteSet(Written)
    <3>1. IsFiniteSet(Offsets)
        BY <1>1, FS_Interval DEF Offsets
    <3> QED BY <3>1, FS_Subset DEF Written
  <2> HIDE DEF R
  <2>12. Cardinality(Written \cup R) = Cardinality(Written) + Cardinality(R) - Cardinality(Written \cap R)
    BY <2>10, <2>11, FS_Union
  <2>13. Counted'
    <3>1. Cardinality(Written) \in Nat /\ Cardinality({}) = 0
        BY <2>11, FS_CardinalityType, FS_EmptySet
    <3>2. Cardinality(Written \cap R) = 0
        BY <2>9, <3>1
    <3>3. Cardinality(Written \cup R) = Cardinality(Written) + chunk.got
        BY <1>1, <2>10, <2>12, <3>1, <3>2
    <3>4. Cardinality(Written') = Cardinality(Written) + chunk.got
        BY <2>8, <3>3
    <3> QED BY <2>1, <3>4 DEF CountInv, Counted
  <2> QED BY <1>2, <1>3, <2>5, <2>13 DEF CountInv
<1> QED BY <1>4, <1>5

\* Shutting down and failing change no count.
LEMMA RestCounts == CountInv /\ (Shutdown \/ Fail) => CountInv'
<1> SUFFICES ASSUME CountInv, Shutdown \/ Fail PROVE CountInv'
    OBVIOUS
<1>0. /\ UNCHANGED <<known, total, size, next, retry, inflight, chunk, dest, done>>
      /\ ~InHand' /\ (fault => fault') /\ (pc' = "failed" => fault')
    BY DEF Shutdown, Fail, file, output, InHand
<1>1. FlightApart' /\ RetryApart' /\ BothApart' /\ PartApart'
    BY <1>0 DEF CountInv, FlightApart, RetryApart, BothApart, PartApart
<1>2. Unwritten' /\ Counted'
    BY <1>0 DEF CountInv, Unwritten, Counted, Written
<1>3. Reasons' /\ FailsForAReason'
    BY <1>0 DEF CountInv, Reasons, FailsForAReason
<1> QED BY <1>1, <1>2, <1>3 DEF CountInv

\* A file that shrinks below what was announced is a fault.
LEMMA FileChangesCounts == CountInv /\ FileChanges => CountInv'
<1> SUFFICES ASSUME CountInv, FileChanges PROVE CountInv'
    OBVIOUS
<1>0. UNCHANGED <<known, total, pc, next, retry, inflight, chunk, dest, done>>
    BY DEF FileChanges, output
<1>1. (fault => fault') /\ (known /\ size' < total => fault')
    BY Zenon DEF FileChanges
<1>2. FlightApart' /\ RetryApart' /\ BothApart'
    BY <1>0 DEF CountInv, FlightApart, RetryApart, BothApart
<1>3. PartApart'
    BY <1>0 DEF CountInv, PartApart, InHand, ClearOfPart
<1>4. Unwritten' /\ Counted'
    BY <1>0 DEF CountInv, Unwritten, Counted, Written, InHand, InPart
<1>5. Reasons' /\ FailsForAReason'
    BY <1>0, <1>1 DEF CountInv, Reasons, FailsForAReason
<1> QED BY <1>2, <1>3, <1>4, <1>5 DEF CountInv

\* Every step keeps the count of a download.
LEMMA NextCounts == IInv /\ CountInv /\ [Next]_vars => CountInv'
<1> SUFFICES ASSUME IInv, CountInv, [Next]_vars PROVE CountInv'
    OBVIOUS
<1>1. CASE UNCHANGED vars
    BY <1>1, SameCount DEF vars, InHand, CountInv, FailsForAReason
<1>2. CASE Reader
    BY <1>2, SpawnRetryCounts, SpawnNextCounts, SpawnedCounts, WriteChunkCounts, RestCounts, JoinCounts
       DEF Reader
<1>3. CASE \E r \in inflight : Answer(r)
    BY <1>3, AnswerCounts
<1>4. CASE Fail \/ FileChanges
    BY <1>4, RestCounts, FileChangesCounts
<1> QED BY <1>1, <1>2, <1>3, <1>4 DEF Next

\* A download fails only if it was cancelled, an operation failed or the file was
\* shorter than announced, for every chunk length, window and size: every byte is
\* counted once, so that the final check of bytes_done never fails for the way the
\* server divides its answers (download_to).
THEOREM DownloadFailsForAReason == ASSUME ~MayChange PROVE Spec => []FailsForAReason
<1>1. CountInv => FailsForAReason
    BY DEF CountInv
<1> QED BY <1>1, InitCounts, NextCounts, DownloadInvariance, PTL DEF Spec

-----------------------------------------------------------------------------
(* The writer, in the instance U. Its inductive invariant. *)

\* What is in flight goes to the place it was read from.
UGood(r) == r.at = r.from /\ r.at + r.len <= uOffset

URequestsGood == \A r \in uInflight : UGood(r)

\* The offset is where the source was read up to, the present buffer apart; the
\* end of the file leaves no buffer, and a buffer never begins at the end.
SourceInStep ==
    /\ uPosition = uOffset + uBuffer
    /\ uEof => uBuffer = 0
    /\ uBuffer > 0 /\ uKnown => uOffset < uTotal

\* Every byte is where it belongs, and none is there before it was sent.
UPlaced ==
    \A i \in U!Offsets : /\ uRemote[i] \in {i, Empty}
                         /\ i >= uOffset => uRemote[i] = Empty

UAsks(r, i) == r.at <= i /\ i < r.at + r.len

\* A byte that was sent is stored, or its request was not performed (yet).
UCovered(i) == uRemote[i] = i \/ \E r \in uInflight : r.status # "stored" /\ UAsks(r, i)

UNothingLost == uPc # "failed" => \A i \in U!Offsets : i < uOffset => UCovered(i)

UEnded == uPc = "ok" => uInflight = {} /\ uBuffer = 0

UInv == U!TypeOK /\ URequestsGood /\ SourceInStep /\ UPlaced /\ UNothingLost /\ UEnded

-----------------------------------------------------------------------------
\* A length that is clamped to a chunk fits the word it is cast to.
LEMMA UChunkLen ==
    ASSUME NEW n \in Nat, n > 0
    PROVE  U!NextChunkLen(n) \in 1 .. Chunk /\ U!NextChunkLen(n) <= n
<1>1. U!Least(n, Chunk) \in 1 .. Chunk /\ U!Least(n, Chunk) <= n
    BY PipelineAssumption DEF U!Least
<1>2. U!Least(n, Chunk) < Word
    BY <1>1, PipelineAssumption
<1>3. U!Least(n, Chunk) % Word = U!Least(n, Chunk)
    BY <1>1, <1>2, PipelineAssumption
<1> QED BY <1>1, <1>3 DEF U!NextChunkLen

\* A read from the source fits a chunk and what was announced.
LEMMA ToReadInRange ==
    ASSUME U!TypeOK, ~(uKnown /\ uOffset >= uTotal)
    PROVE  U!ToRead \in 1 .. Chunk /\ (uKnown => U!ToRead <= uTotal - uOffset)
<1>1. CASE uKnown
  <2>1. uTotal - uOffset \in Nat /\ uTotal - uOffset > 0
    BY <1>1, PipelineAssumption DEF U!TypeOK
  <2> QED BY <1>1, <2>1, UChunkLen DEF U!ToRead
<1>2. CASE ~uKnown
    BY <1>2, PipelineAssumption DEF U!ToRead
<1> QED BY <1>1, <1>2

\* An upload that has not begun has read and sent nothing.
LEMMA UInitInv == U!Init => UInv
<1> SUFFICES ASSUME U!Init PROVE UInv
    OBVIOUS
<1> USE PipelineAssumption
<1>1. U!TypeOK
  <2>1. uFault \in BOOLEAN
    BY Zenon DEF U!Init
  <2>2. /\ uPc \in {"fill", "ok"} /\ uKnown \in BOOLEAN
        /\ uTotal \in 0 .. MaxSize /\ uSize \in 0 .. MaxSize
    BY DEF U!Init
  <2>3. uRemote \in [U!Offsets -> U!Offsets \cup {Empty}]
    BY DEF U!Init
  <2>4. uPosition = 0 /\ uBuffer = 0 /\ uOffset = 0 /\ uEof = FALSE /\ uInflight = {} /\ uDone = 0
    BY DEF U!Init
  <2>5. uPosition \in Nat /\ uBuffer \in 0 .. Chunk /\ uOffset \in Nat /\ uDone \in Nat
    BY <2>4
  <2>6. uInflight \subseteq U!Requests /\ uEof \in BOOLEAN
    BY <2>4, Zenon
  <2> QED BY <2>1, <2>2, <2>3, <2>5, <2>6 DEF U!TypeOK
<1>2. URequestsGood /\ SourceInStep /\ UEnded
    BY DEF U!Init, URequestsGood, SourceInStep, UEnded
<1>3. UPlaced /\ UNothingLost
    BY DEF U!Init, UPlaced, UNothingLost, U!Offsets
<1> QED BY <1>1, <1>2, <1>3 DEF UInv

\* The end of what was announced changes only the place of the loop.
LEMMA StopAtTotalKeeps == UInv /\ U!StopAtTotal => UInv'
<1> SUFFICES ASSUME UInv, U!StopAtTotal PROVE UInv'
    OBVIOUS
<1>0. /\ UNCHANGED <<uKnown, uTotal, uSize, uPc, uPosition, uBuffer, uOffset, uInflight, uRemote, uDone, uFault>>
      /\ uEof' = TRUE /\ uKnown /\ uOffset >= uTotal
    BY DEF U!StopAtTotal, U!file
<1>1. U!TypeOK'
    BY <1>0 DEF UInv, U!TypeOK
<1>2. SourceInStep'
    BY <1>0, PipelineAssumption DEF UInv, SourceInStep, U!TypeOK
<1>3. URequestsGood' /\ UPlaced' /\ UNothingLost' /\ UEnded'
    BY <1>0 DEF UInv, URequestsGood, UGood, UPlaced, UNothingLost, UCovered, UEnded
<1> QED BY <1>1, <1>2, <1>3 DEF UInv

\* A buffer that is sent covers exactly the offsets by which the upload moves on.
LEMMA ReadSourceKeeps == UInv /\ U!ReadSource => UInv'
<1> SUFFICES ASSUME UInv, U!ReadSource PROVE UInv'
    OBVIOUS
<1>p. PICK n \in 0 .. U!ToRead - uBuffer :
        /\ uPosition' = uPosition + n
        /\ uEof' = (n = 0)
        /\ uBuffer' = IF U!Sends(uBuffer + n, n) THEN 0 ELSE uBuffer + n
        /\ uOffset' = IF U!Sends(uBuffer + n, n) THEN uOffset + (uBuffer + n) ELSE uOffset
        /\ uInflight' = IF U!Sends(uBuffer + n, n)
                       THEN uInflight \cup {[at |-> uOffset, from |-> uPosition' - (uBuffer + n),
                                            len |-> uBuffer + n, status |-> "sent"]}
                       ELSE uInflight
    BY DEF U!ReadSource
<1>0. /\ UNCHANGED <<uKnown, uTotal, uSize, uPc, uRemote, uDone, uFault>>
      /\ ~(uKnown /\ uOffset >= uTotal) /\ U!TypeOK /\ uPc \in {"fill", "refill"}
    BY DEF U!ReadSource, U!file, U!Filling, UInv
<1>1. U!ToRead \in 1 .. Chunk
    BY <1>0, ToReadInRange
<1>2. /\ uPosition \in Nat /\ uBuffer \in Nat /\ uOffset \in Nat /\ n \in Nat /\ uTotal \in Nat
      /\ uBuffer + n \in 0 .. Chunk /\ uPosition = uOffset + uBuffer
    BY <1>0, <1>1, PipelineAssumption DEF U!TypeOK, UInv, SourceInStep
<1>3. uEof' \in BOOLEAN /\ (uEof' => n = 0)
    BY <1>p, Zenon
<1>4. CASE ~U!Sends(uBuffer + n, n)
  <2>1. uPosition' = uPosition + n /\ uBuffer' = uBuffer + n /\ uOffset' = uOffset /\ uInflight' = uInflight
    BY <1>p, <1>4, Zenon
  <2>2. U!TypeOK'
    BY <1>0, <1>2, <1>3, <2>1 DEF U!TypeOK
  <2>3. SourceInStep'
    <3>1. uEof' => uBuffer' = 0
        BY <1>2, <1>3, <1>4, <2>1 DEF U!Sends
    <3> QED BY <1>0, <1>2, <2>1, <3>1 DEF SourceInStep
  <2>4. URequestsGood' /\ UPlaced' /\ UNothingLost' /\ UEnded'
    BY <1>0, <2>1 DEF UInv, URequestsGood, UGood, UPlaced, UNothingLost, UCovered, UEnded
  <2> QED BY <2>2, <2>3, <2>4 DEF UInv
<1>5. CASE U!Sends(uBuffer + n, n)
  <2> DEFINE len == uBuffer + n
             new == [at |-> uOffset, from |-> uPosition' - len, len |-> len, status |-> "sent"]
  <2>1. /\ uPosition' = uPosition + n /\ uBuffer' = 0 /\ uOffset' = uOffset + len
        /\ uInflight' = uInflight \cup {new} /\ len > 0
    <3>1. uPosition' = uPosition + n /\ uBuffer' = 0 /\ uOffset' = uOffset + len
        BY <1>p, <1>5, Zenon
    <3>2. uInflight' = uInflight \cup {[at |-> uOffset, from |-> uPosition' - len,
                                      len |-> len, status |-> "sent"]}
        BY <1>p, <1>5, Zenon
    <3>3. len > 0
        BY <1>5 DEF U!Sends
    <3> QED BY <3>1, <3>2, <3>3, Zenon
  <2>2. new.at = uOffset /\ new.from = uOffset /\ new.len = len /\ new.status = "sent" /\ new \in U!Requests
    BY <1>2, <2>1 DEF U!Requests
  <2> HIDE DEF new
  <2>3. U!TypeOK'
    BY <1>0, <1>2, <1>3, <2>1, <2>2, PipelineAssumption DEF U!TypeOK
  <2>4. SourceInStep'
    BY <1>2, <2>1 DEF SourceInStep
  <2>5. URequestsGood'
    <3>1. \A r \in uInflight : r.at \in Nat /\ r.len \in Nat
        BY <1>0, PipelineAssumption DEF U!TypeOK, U!Requests
    <3>2. \A r \in uInflight : UGood(r)'
        BY <1>2, <2>1, <3>1 DEF UInv, URequestsGood, UGood
    <3>3. ASSUME NEW r, r = new PROVE UGood(r)'
        BY <1>2, <2>1, <2>2, <3>3 DEF UGood
    <3> QED BY <2>1, <3>2, <3>3 DEF URequestsGood
  <2>6. UPlaced'
    <3> SUFFICES ASSUME NEW i \in U!Offsets
                 PROVE  uRemote[i] \in {i, Empty} /\ (i >= uOffset' => uRemote[i] = Empty)
        BY <1>0 DEF UPlaced
    <3>1. i \in Nat
        BY PipelineAssumption DEF U!Offsets
    <3> QED BY <1>2, <2>1, <3>1 DEF UInv, UPlaced
  <2>7. UNothingLost'
    <3> SUFFICES ASSUME uPc # "failed", NEW i \in U!Offsets, i < uOffset' PROVE UCovered(i)'
        BY <1>0 DEF UNothingLost
    <3>1. i \in Nat
        BY PipelineAssumption DEF U!Offsets
    <3>2. CASE i < uOffset
        <4>1. UCovered(i)
            BY <3>2 DEF UInv, UNothingLost
        <4> QED BY <1>0, <2>1, <4>1 DEF UCovered
    <3>3. CASE uOffset <= i
        <4>1. UAsks(new, i)
            BY <1>2, <2>1, <2>2, <3>1, <3>3 DEF UAsks
        <4> QED BY <2>1, <2>2, <4>1 DEF UCovered
    <3> QED BY <1>2, <3>1, <3>2, <3>3
  <2>8. UEnded'
    BY <1>0 DEF UEnded
  <2> QED BY <2>3, <2>4, <2>5, <2>6, <2>7, <2>8 DEF UInv
<1> QED BY <1>4, <1>5

\* The writer counts what is in flight as everybody does.
LEMMA SameCardinality == ASSUME NEW S PROVE U!Cardinality(S) = Cardinality(S)
BY DEF U!Cardinality, Cardinality

\* A full window changes only the place of the loop.
LEMMA USpawnedKeeps == UInv /\ U!Spawned => UInv'
<1> SUFFICES ASSUME UInv, U!Spawned PROVE UInv'
    OBVIOUS
<1>0. /\ UNCHANGED <<uKnown, uTotal, uSize, uPosition, uBuffer, uOffset, uEof, uInflight, uRemote, uDone, uFault>>
      /\ uPc \in {"fill", "refill"} /\ uPc' \in {"fill", "join", "failed", "ok"}
    BY DEF U!Spawned, U!file, U!source
<1>1. U!TypeOK'
    BY <1>0 DEF UInv, U!TypeOK
<1>2. URequestsGood' /\ SourceInStep' /\ UPlaced' /\ UNothingLost'
    BY <1>0 DEF UInv, URequestsGood, UGood, SourceInStep, UPlaced, UNothingLost, UCovered
<1>3. UEnded'
  <2> SUFFICES ASSUME uPc' = "ok" PROVE uInflight = {} /\ uBuffer = 0
    BY <1>0 DEF UEnded
  <2>1. uInflight = {}
    BY DEF U!Spawned
  <2>2. U!Cardinality(uInflight) < Window
    BY <2>1, FS_EmptySet, SameCardinality, PipelineAssumption
  <2>3. uEof
    BY <2>2 DEF U!Spawned, U!MoreToSpawn
  <2> QED BY <2>1, <2>3 DEF UInv, SourceInStep
<1> QED BY <1>1, <1>2, <1>3 DEF UInv

\* What the server makes of a request leaves its place and length alone.
LEMMA AnsweredIs ==
    ASSUME NEW r \in U!Requests, NEW s \in {"sent", "stored", "refused"}
    PROVE  LET a == U!Answered(r, s) IN
           a \in U!Requests /\ a.at = r.at /\ a.from = r.from /\ a.len = r.len /\ a.status = s
BY DEF U!Answered, U!Requests

\* A write that the server performs stores its bytes at their place.
LEMMA PerformKeeps ==
    ASSUME UInv, NEW r \in uInflight, U!Perform(r) PROVE UInv'
<1> DEFINE a == U!Answered(r, "stored")
<1>0. /\ UNCHANGED <<uKnown, uTotal, uSize, uPc, uPosition, uBuffer, uOffset, uEof, uDone, uFault>>
      /\ uInflight' = (uInflight \ {r}) \cup {a} /\ uRemote' = U!Stored(r)
    BY DEF U!Perform, U!file, U!source
<1>1. /\ U!TypeOK /\ r \in U!Requests /\ UGood(r) /\ uOffset \in Nat
      /\ r.at \in Nat /\ r.len \in Nat /\ r.from = r.at
    BY PipelineAssumption DEF UInv, U!TypeOK, URequestsGood, UGood, U!Requests
<1>2. a \in U!Requests /\ a.at = r.at /\ a.from = r.from /\ a.len = r.len /\ a.status = "stored"
    BY <1>1, AnsweredIs
<1> HIDE DEF a
<1>3. \A i \in U!Offsets : uRemote'[i] = IF UAsks(r, i) THEN i ELSE uRemote[i]
  <2> SUFFICES ASSUME NEW i \in U!Offsets PROVE uRemote'[i] = IF UAsks(r, i) THEN i ELSE uRemote[i]
    OBVIOUS
  <2>1. i \in Nat
    BY PipelineAssumption DEF U!Offsets
  <2>2. uRemote'[i] = IF i \in r.at .. r.at + r.len - 1 THEN r.from + (i - r.at) ELSE uRemote[i]
    BY <1>0 DEF U!Stored
  <2> QED BY <1>1, <2>1, <2>2 DEF UAsks
<1>4. uRemote' \in [U!Offsets -> U!Offsets \cup {Empty}]
  <2>1. uRemote' = [i \in U!Offsets |-> uRemote'[i]]
    BY <1>0 DEF U!Stored
  <2>2. \A i \in U!Offsets : uRemote'[i] \in U!Offsets \cup {Empty}
    BY <1>1, <1>3 DEF U!TypeOK
  <2> QED BY <2>1, <2>2
<1>5. U!TypeOK'
    BY <1>0, <1>1, <1>2, <1>4 DEF U!TypeOK
<1>6. URequestsGood'
  <2>1. \A q : UGood(q) => UGood(q)'
    BY <1>0 DEF UGood
  <2>2. UGood(a)
    BY <1>1, <1>2 DEF UGood
  <2>3. \A q \in uInflight' : UGood(q)
    BY <1>0, <2>2 DEF UInv, URequestsGood
  <2> QED BY <2>1, <2>3 DEF URequestsGood
<1>7. UPlaced'
  <2> SUFFICES ASSUME NEW i \in U!Offsets
               PROVE  uRemote'[i] \in {i, Empty} /\ (i >= uOffset => uRemote'[i] = Empty)
    BY <1>0 DEF UPlaced
  <2>1. i \in Nat /\ uRemote[i] \in {i, Empty} /\ (i >= uOffset => uRemote[i] = Empty)
    BY PipelineAssumption DEF UInv, UPlaced, U!Offsets
  <2>2. UAsks(r, i) => i < uOffset
    BY <1>1, <2>1 DEF UAsks, UGood
  <2> QED BY <1>1, <1>3, <2>1, <2>2
<1>8. UNothingLost'
  <2> SUFFICES ASSUME uPc # "failed", NEW i \in U!Offsets, i < uOffset PROVE UCovered(i)'
    BY <1>0 DEF UNothingLost
  <2>1. UCovered(i)
    BY DEF UInv, UNothingLost
  <2>2. CASE uRemote[i] = i \/ UAsks(r, i)
    BY <1>3, <2>2 DEF UCovered
  <2>3. CASE ~(uRemote[i] = i \/ UAsks(r, i))
    BY <1>0, <2>1, <2>3 DEF UCovered
  <2> QED BY <2>2, <2>3
<1>9. SourceInStep' /\ UEnded'
    BY <1>0 DEF UInv, SourceInStep, UEnded
<1> QED BY <1>5, <1>6, <1>7, <1>8, <1>9 DEF UInv

\* A write that the server refuses stays unperformed.
LEMMA RefuseKeeps ==
    ASSUME UInv, NEW r \in uInflight, U!Refuse(r) PROVE UInv'
<1> DEFINE a == U!Answered(r, "refused")
<1>0. /\ UNCHANGED <<uKnown, uTotal, uSize, uPc, uPosition, uBuffer, uOffset, uEof, uRemote, uDone, uFault>>
      /\ uInflight' = (uInflight \ {r}) \cup {a}
    BY DEF U!Refuse, U!file, U!source
<1>1. U!TypeOK /\ r \in U!Requests /\ UGood(r)
    BY DEF UInv, U!TypeOK, URequestsGood
<1>2. a \in U!Requests /\ a.at = r.at /\ a.from = r.from /\ a.len = r.len /\ a.status = "refused"
    BY <1>1, AnsweredIs
<1> HIDE DEF a
<1>3. U!TypeOK'
    BY <1>0, <1>1, <1>2 DEF U!TypeOK
<1>4. URequestsGood'
  <2>1. \A q : UGood(q) => UGood(q)'
    BY <1>0 DEF UGood
  <2>2. UGood(a)
    BY <1>1, <1>2 DEF UGood
  <2>3. \A q \in uInflight' : UGood(q)
    BY <1>0, <2>2 DEF UInv, URequestsGood
  <2> QED BY <2>1, <2>3 DEF URequestsGood
<1>5. UNothingLost'
  <2> SUFFICES ASSUME uPc # "failed", NEW i \in U!Offsets, i < uOffset PROVE UCovered(i)'
    BY <1>0 DEF UNothingLost
  <2>1. UCovered(i)
    BY DEF UInv, UNothingLost
  <2>2. UAsks(r, i) => UAsks(a, i)
    BY <1>2 DEF UAsks
  <2> QED BY <1>0, <1>2, <2>1, <2>2 DEF UCovered
<1>6. UPlaced' /\ SourceInStep' /\ UEnded'
    BY <1>0 DEF UInv, UPlaced, SourceInStep, UEnded
<1> QED BY <1>3, <1>4, <1>5, <1>6 DEF UInv

\* A request that is joined was performed, or the upload fails.
LEMMA UJoinKeeps ==
    ASSUME UInv, NEW r \in uInflight, U!Join(r) PROVE UInv'
<1>0. /\ UNCHANGED <<uKnown, uTotal, uSize, uPosition, uBuffer, uOffset, uEof, uRemote>>
      /\ uInflight' = uInflight \ {r} /\ uPc = "join"
      /\ (r.status = "stored" /\ uPc' = "refill") \/ uPc' = "failed"
    BY DEF U!Join, U!file, U!source, U!Accepted
<1>1. uDone' \in Nat /\ uFault' \in BOOLEAN
  <2>1. uDone \in Nat /\ uFault \in BOOLEAN /\ r.len \in Nat
    BY PipelineAssumption DEF UInv, U!TypeOK, U!Requests
  <2>2. CASE U!Accepted(r)
    BY <2>1, <2>2 DEF U!Join
  <2>3. CASE ~U!Accepted(r)
    BY <2>1, <2>3 DEF U!Join
  <2> QED BY <2>2, <2>3
<1>2. U!TypeOK'
    BY <1>0, <1>1 DEF UInv, U!TypeOK
<1>3. URequestsGood' /\ UPlaced' /\ SourceInStep' /\ UEnded'
    BY <1>0 DEF UInv, URequestsGood, UGood, UPlaced, SourceInStep, UEnded
<1>4. UNothingLost'
  <2> SUFFICES ASSUME uPc' = "refill", NEW i \in U!Offsets, i < uOffset PROVE UCovered(i)'
    BY <1>0 DEF UNothingLost
  <2>1. UCovered(i) /\ r.status = "stored"
    BY <1>0 DEF UInv, UNothingLost
  <2> QED BY <1>0, <2>1 DEF UCovered
<1> QED BY <1>2, <1>3, <1>4 DEF UInv

\* A failing upload promises nothing.
LEMMA UFailKeeps == UInv /\ U!Fail => UInv'
BY DEF UInv, U!Fail, U!TypeOK, URequestsGood, UGood, SourceInStep, UPlaced, UNothingLost, UEnded, U!file, U!source

\* What was read stays read, whatever becomes of the source.
LEMMA UFileChangesKeeps == UInv /\ U!FileChanges => UInv'
<1> SUFFICES ASSUME UInv, U!FileChanges PROVE UInv'
    OBVIOUS
<1>0. /\ UNCHANGED <<uKnown, uTotal, uPc, uPosition, uBuffer, uOffset, uEof, uInflight, uRemote, uDone>>
      /\ uSize' \in 0 .. MaxSize
    BY DEF U!FileChanges, U!source
<1>1. uFault' \in BOOLEAN
    BY Zenon DEF U!FileChanges
<1>2. U!TypeOK'
    BY <1>0, <1>1 DEF UInv, U!TypeOK
<1>3. URequestsGood' /\ SourceInStep' /\ UPlaced' /\ UNothingLost' /\ UEnded'
    BY <1>0 DEF UInv, URequestsGood, UGood, SourceInStep, UPlaced, UNothingLost, UCovered, UEnded
<1> QED BY <1>2, <1>3 DEF UInv

-----------------------------------------------------------------------------
\* Every step keeps the invariant of an upload.
LEMMA UNextKeeps == UInv /\ [U!Next]_(U!vars) => UInv'
<1> SUFFICES ASSUME UInv, [U!Next]_(U!vars) PROVE UInv'
    OBVIOUS
<1>1. CASE UNCHANGED U!vars
    BY <1>1 DEF UInv, U!vars, U!TypeOK, URequestsGood, UGood, SourceInStep, UPlaced, UNothingLost,
                UCovered, UEnded
<1>2. CASE U!Writer
    BY <1>2, StopAtTotalKeeps, ReadSourceKeeps, USpawnedKeeps, UJoinKeeps DEF U!Writer
<1>3. CASE U!Server
    BY <1>3, PerformKeeps, RefuseKeeps DEF U!Server
<1>4. CASE U!Fail \/ U!FileChanges
    BY <1>4, UFailKeeps, UFileChangesKeeps
<1> QED BY <1>1, <1>2, <1>3, <1>4 DEF U!Next

\* The invariant holds of every upload, whatever becomes of its file meanwhile
\* (upload_from, spawn_write_requests).
THEOREM UploadInvariance == U!Spec => []UInv
BY UInitInv, UNextKeeps, PTL DEF U!Spec

\* Every value keeps its type: no write exceeds the chunk the server agreed to.
THEOREM UploadTypeCorrect == U!Spec => []U!TypeOK
<1>1. UInv => U!TypeOK
    BY DEF UInv
<1> QED BY <1>1, UploadInvariance, PTL

\* An upload that has ended well has stored what it has read.
LEMMA InvStoresInPlace == UInv => U!StoredInPlace
<1> SUFFICES ASSUME UInv, uPc = "ok", NEW i \in U!Offsets
             PROVE  uRemote[i] = IF i < uPosition THEN i ELSE Empty
    BY DEF U!StoredInPlace
<1>1. i \in Nat /\ uOffset \in Nat /\ uPosition = uOffset /\ uInflight = {}
    BY PipelineAssumption DEF UInv, U!Offsets, U!TypeOK, SourceInStep, UEnded
<1>2. i < uOffset => UCovered(i)
    BY DEF UInv, UNothingLost
<1> QED BY <1>1, <1>2 DEF UInv, UPlaced, UCovered

-----------------------------------------------------------------------------
(* Why an upload fails, and what it has sent when it does not. The requests  *)
(* in flight never overlap, so that bytes_done and what is in flight make up *)
(* all that was sent.                                                        *)

\* No request is empty and no two have a byte in common.
SendsApart ==
    /\ \A r \in uInflight : r.len >= 1
    /\ \A q, r \in uInflight : q # r => Apart(q.at, q.len, r.at, r.len)

\* The bytes that were sent and whose request was not joined.
Sent == {i \in 0 .. uOffset - 1 : \E r \in uInflight : UAsks(r, i)}

SentCounted == uPc # "failed" => uDone + Cardinality(Sent) = uOffset

\* No more is read than was announced, and the end of the file comes too early
\* only if the file is shorter than announced.
SourceReasons ==
    /\ uKnown /\ uSize < uTotal => uFault
    /\ uKnown => uPosition <= uTotal
    /\ uKnown /\ uEof => uFault \/ uOffset = uTotal

LengthChecked == uPc = "ok" /\ uKnown => uDone = uTotal

UCountInv ==
    SendsApart /\ SentCounted /\ SourceReasons /\ LengthChecked /\ U!FailsForAReason

-----------------------------------------------------------------------------
\* The lengths and places of what is sent are numbers.
LEMMA SendsInRange ==
    ASSUME UInv
    PROVE  /\ \A r \in uInflight : r.at \in Nat /\ r.len \in Nat /\ r.at + r.len <= uOffset
           /\ uOffset \in Nat /\ uDone \in Nat /\ uPosition \in Nat /\ uBuffer \in Nat
           /\ uTotal \in Nat /\ uSize \in Nat
BY PipelineAssumption DEF UInv, U!TypeOK, URequestsGood, UGood, U!Requests

\* The bytes in flight can be counted.
LEMMA SentFinite ==
    ASSUME UInv
    PROVE  /\ IsFiniteSet(Sent) /\ Cardinality(Sent) \in Nat
           /\ uInflight = {} => Cardinality(Sent) = 0
<1>1. IsFiniteSet(0 .. uOffset - 1)
    BY SendsInRange, FS_Interval
<1>2. IsFiniteSet(Sent)
    BY <1>1, FS_Subset DEF Sent
<1>3. uInflight = {} => Sent = {}
    BY DEF Sent
<1> QED BY <1>2, <1>3, FS_CardinalityType, FS_EmptySet

\* An interval that is added to a set, or taken from it, counts by its length.
LEMMA CountWith ==
    ASSUME NEW S, IsFiniteSet(S), NEW a \in Nat, NEW n \in Nat, n # 0, S \cap (a .. a + n - 1) = {}
    PROVE  Cardinality(S \cup (a .. a + n - 1)) = Cardinality(S) + n
<1> DEFINE R == a .. a + n - 1
<1>1. IsFiniteSet(R) /\ Cardinality(R) = n
    BY RangeCount
<1>2. S \cap R = {}
    OBVIOUS
<1> HIDE DEF R
<1>3. Cardinality(S \cup R) = Cardinality(S) + Cardinality(R) - Cardinality(S \cap R)
    BY <1>1, FS_Union
<1>4. Cardinality(S \cap R) = 0 /\ Cardinality(S) \in Nat
    BY <1>2, FS_EmptySet, FS_CardinalityType
<1>5. Cardinality(S \cup R) = Cardinality(S) + n
    BY <1>1, <1>3, <1>4
<1> QED BY <1>5 DEF R

\* An upload that has not begun has counted nothing.
LEMMA UInitCounts == U!Init => UCountInv
<1> SUFFICES ASSUME U!Init PROVE UCountInv
    OBVIOUS
<1>1. /\ uInflight = {} /\ uDone = 0 /\ uOffset = 0 /\ uPosition = 0 /\ uEof = FALSE
      /\ uPc \in {"fill", "ok"} /\ (uPc = "ok" => uTotal = 0) /\ uTotal \in Nat
    BY PipelineAssumption DEF U!Init
<1>2. uKnown /\ uSize < uTotal => uFault
    BY Zenon DEF U!Init
<1>3. Cardinality(Sent) = 0
    BY <1>1, UInitInv, SentFinite
<1>4. SendsApart /\ SentCounted
    BY <1>1, <1>3 DEF SendsApart, SentCounted
<1>5. SourceReasons /\ LengthChecked /\ U!FailsForAReason
    BY <1>1, <1>2 DEF SourceReasons, LengthChecked, U!FailsForAReason
<1> QED BY <1>4, <1>5 DEF UCountInv

\* The end of what was announced changes no count.
LEMMA StopAtTotalCounts == UInv /\ UCountInv /\ U!StopAtTotal => UCountInv'
<1> SUFFICES ASSUME UInv, UCountInv, U!StopAtTotal PROVE UCountInv'
    OBVIOUS
<1>0. /\ UNCHANGED <<uKnown, uTotal, uSize, uPc, uPosition, uBuffer, uOffset, uInflight, uDone, uFault>>
      /\ uKnown /\ uOffset >= uTotal
    BY DEF U!StopAtTotal, U!file
<1>1. uOffset = uTotal
    BY <1>0, SendsInRange DEF UCountInv, SourceReasons, UInv, SourceInStep
<1>2. SendsApart' /\ SentCounted'
    BY <1>0 DEF UCountInv, SendsApart, SentCounted, Sent
<1>3. SourceReasons' /\ LengthChecked' /\ U!FailsForAReason'
    BY <1>0, <1>1 DEF UCountInv, SourceReasons, LengthChecked, U!FailsForAReason
<1> QED BY <1>2, <1>3 DEF UCountInv

\* A buffer that is sent is behind all that was sent before.
LEMMA ReadSourceCounts == UInv /\ UCountInv /\ U!ReadSource => UCountInv'
<1> SUFFICES ASSUME UInv, UCountInv, U!ReadSource PROVE UCountInv'
    OBVIOUS
<1>p. PICK n \in 0 .. U!ToRead - uBuffer :
        /\ n = 0 => uPosition >= uSize \/ U!ToRead = 0
        /\ uPosition' = uPosition + n
        /\ uEof' = (n = 0)
        /\ uBuffer' = IF U!Sends(uBuffer + n, n) THEN 0 ELSE uBuffer + n
        /\ uOffset' = IF U!Sends(uBuffer + n, n) THEN uOffset + (uBuffer + n) ELSE uOffset
        /\ uInflight' = IF U!Sends(uBuffer + n, n)
                        THEN uInflight \cup {[at |-> uOffset, from |-> uPosition' - (uBuffer + n),
                                              len |-> uBuffer + n, status |-> "sent"]}
                        ELSE uInflight
    BY DEF U!ReadSource
<1>0. /\ UNCHANGED <<uKnown, uTotal, uSize, uPc, uDone, uFault>>
      /\ ~(uKnown /\ uOffset >= uTotal) /\ U!TypeOK /\ uPc \in {"fill", "refill"}
    BY DEF U!ReadSource, U!file, U!Filling, UInv
<1>1. /\ U!ToRead \in 1 .. Chunk /\ (uKnown => U!ToRead <= uTotal - uOffset) /\ Chunk \in Nat
      /\ uOffset \in Nat /\ uDone \in Nat /\ uPosition \in Nat /\ uBuffer \in Nat
      /\ uTotal \in Nat /\ uSize \in Nat /\ uPosition = uOffset + uBuffer
    BY <1>0, ToReadInRange, SendsInRange, PipelineAssumption DEF UInv, SourceInStep
<1>2. n \in Nat /\ uBuffer + n <= U!ToRead
    BY <1>1
<1>3. (uKnown => uPosition' <= uTotal) /\ (uEof' => n = 0)
  <2>1. uEof' => n = 0
    BY <1>p, Zenon
  <2> QED BY <1>p, <1>1, <1>2, <2>1
<1>4. LengthChecked' /\ U!FailsForAReason'
    BY <1>0 DEF LengthChecked, U!FailsForAReason
<1>5. uKnown /\ uSize < uTotal => uFault
    BY DEF UCountInv, SourceReasons
<1>6. ASSUME uKnown, uEof', ~uFault PROVE uPosition' = uTotal
    BY <1>p, <1>0, <1>1, <1>3, <1>5, <1>6
<1>7. CASE ~U!Sends(uBuffer + n, n)
  <2>1. uBuffer' = uBuffer + n /\ uOffset' = uOffset /\ uInflight' = uInflight
    BY <1>p, <1>7, Zenon
  <2>2. SendsApart' /\ SentCounted'
    BY <1>0, <2>1 DEF UCountInv, SendsApart, SentCounted, Sent
  <2>3. uEof' => uBuffer = 0 /\ n = 0
    BY <1>1, <1>3, <1>7 DEF U!Sends
  <2>4. SourceReasons'
    BY <1>p, <1>0, <1>1, <1>3, <1>5, <1>6, <2>1, <2>3 DEF SourceReasons
  <2> QED BY <1>4, <2>2, <2>4 DEF UCountInv
<1>8. CASE U!Sends(uBuffer + n, n)
  <2> DEFINE len == uBuffer + n
             new == [at |-> uOffset, from |-> uPosition' - len, len |-> len, status |-> "sent"]
  <2>1. uOffset' = uOffset + len /\ uInflight' = uInflight \cup {new}
    <3>1. uOffset' = uOffset + len
        BY <1>p, <1>8, Zenon
    <3>2. uInflight' = uInflight \cup {[at |-> uOffset, from |-> uPosition' - len,
                                        len |-> len, status |-> "sent"]}
        BY <1>p, <1>8, Zenon
    <3> QED BY <3>1, <3>2, Zenon
  <2>2. len \in Nat /\ len >= 1 /\ new.at = uOffset /\ new.len = len
    BY <1>1, <1>2, <1>8 DEF U!Sends
  <2>3. uPosition' = uOffset'
    BY <1>p, <1>1, <1>2, <2>1
  <2> HIDE DEF len, new
  <2>4. SourceReasons'
    BY <1>0, <1>3, <1>5, <1>6, <2>3 DEF SourceReasons
  <2>5. SendsApart'
    <3>1. \A q \in uInflight : /\ Apart(q.at, q.len, new.at, new.len)
                               /\ Apart(new.at, new.len, q.at, q.len)
        BY <2>2, SendsInRange DEF Apart
    <3> QED BY <2>1, <2>2, <3>1 DEF UCountInv, SendsApart
  <2>6. Sent' = Sent \cup (uOffset .. uOffset + len - 1)
    <3>1. ASSUME NEW i \in 0 .. uOffset' - 1
          PROVE  i \in Sent' <=> i \in Sent \/ i \in uOffset .. uOffset + len - 1
        <4>1. i \in Nat /\ i < uOffset + len
            BY <1>1, <2>1, <2>2
        <4>2. UAsks(new, i) <=> i \in uOffset .. uOffset + len - 1
            BY <1>1, <2>2, <4>1 DEF UAsks
        <4>3. \A r \in uInflight : UAsks(r, i) => i \in 0 .. uOffset - 1
            BY <1>1, <4>1, SendsInRange DEF UAsks
        <4>4. i \in Sent' <=> \E r \in uInflight' : UAsks(r, i)
            BY DEF Sent, UAsks
        <4>5. i \in Sent <=> \E r \in uInflight : UAsks(r, i)
            BY <4>3 DEF Sent
        <4> QED BY <2>1, <4>2, <4>4, <4>5
    <3>2. Sent' \subseteq 0 .. uOffset' - 1
        BY DEF Sent
    <3>3. Sent \subseteq 0 .. uOffset' - 1 /\ uOffset .. uOffset + len - 1 \subseteq 0 .. uOffset' - 1
        BY <1>1, <2>1, <2>2 DEF Sent
    <3> QED BY <3>1, <3>2, <3>3
  <2>7. Sent \cap (uOffset .. uOffset + len - 1) = {}
    BY <1>1, <2>2 DEF Sent
  <2>8. Cardinality(Sent') = Cardinality(Sent) + len
    <3>1. IsFiniteSet(Sent) /\ len # 0
        BY <2>2, SentFinite
    <3>2. Cardinality(Sent \cup (uOffset .. uOffset + len - 1)) = Cardinality(Sent) + len
        BY <1>1, <2>2, <2>7, <3>1, CountWith
    <3> QED BY <2>6, <3>2
  <2>9. SentCounted'
    BY <1>0, <1>1, <2>1, <2>2, <2>8, SentFinite DEF UCountInv, SentCounted
  <2> QED BY <1>4, <2>4, <2>5, <2>9 DEF UCountInv
<1> QED BY <1>7, <1>8

\* With nothing in flight at the end of the file, all that was announced is
\* stored: the final check of bytes_done fails only for a shorter file.
LEMMA USpawnedCounts == UInv /\ UCountInv /\ U!Spawned => UCountInv'
<1> SUFFICES ASSUME UInv, UCountInv, U!Spawned PROVE UCountInv'
    OBVIOUS
<1>0. /\ UNCHANGED <<uKnown, uTotal, uSize, uPosition, uBuffer, uOffset, uEof, uInflight, uDone, uFault>>
      /\ uPc \in {"fill", "refill"}
    BY DEF U!Spawned, U!file, U!source
<1>1. SendsApart' /\ SentCounted' /\ SourceReasons'
    BY <1>0 DEF UCountInv, SendsApart, SentCounted, Sent, SourceReasons
<1>2. LengthChecked'
    BY <1>0 DEF U!Spawned, LengthChecked
<1>3. U!FailsForAReason'
  <2> SUFFICES ASSUME uPc' = "failed" PROVE uFault
    BY <1>0 DEF U!FailsForAReason
  <2>1. uInflight = {} /\ uKnown /\ uDone # uTotal
    BY DEF U!Spawned
  <2>2. U!Cardinality(uInflight) < Window
    BY <2>1, FS_EmptySet, SameCardinality, PipelineAssumption
  <2>3. uEof
    BY <2>2 DEF U!Spawned, U!MoreToSpawn
  <2>4. uDone = uOffset
    BY <1>0, <2>1, SentFinite, SendsInRange DEF UCountInv, SentCounted
  <2> QED BY <2>1, <2>3, <2>4 DEF UCountInv, SourceReasons
<1> QED BY <1>1, <1>2, <1>3 DEF UCountInv

\* Performing or refusing a write changes no count.
LEMMA ServerCounts ==
    ASSUME UInv, UCountInv, NEW r \in uInflight, U!Perform(r) \/ U!Refuse(r) PROVE UCountInv'
<1>1. PICK s \in {"stored", "refused"} : uInflight' = (uInflight \ {r}) \cup {U!Answered(r, s)}
    BY DEF U!Perform, U!Refuse
<1>0. UNCHANGED <<uKnown, uTotal, uSize, uPc, uPosition, uBuffer, uOffset, uEof, uDone, uFault>>
    BY DEF U!Perform, U!Refuse, U!file, U!source
<1> DEFINE a == U!Answered(r, s)
<1>2. a.at = r.at /\ a.len = r.len
    BY DEF U!Answered
<1>3. uInflight' = (uInflight \ {r}) \cup {a}
    BY <1>1
<1> HIDE DEF a
<1>4. SendsApart'
    BY <1>2, <1>3 DEF UCountInv, SendsApart, Apart
<1>5. Sent' = Sent
    BY <1>0, <1>2, <1>3 DEF Sent, UAsks
<1>6. SentCounted'
    BY <1>0, <1>5 DEF UCountInv, SentCounted
<1>7. SourceReasons' /\ LengthChecked' /\ U!FailsForAReason'
    BY <1>0 DEF UCountInv, SourceReasons, LengthChecked, U!FailsForAReason
<1> QED BY <1>4, <1>6, <1>7 DEF UCountInv

\* A write that is done moves from the bytes in flight to bytes_done.
LEMMA UJoinCounts ==
    ASSUME UInv, UCountInv, NEW r \in uInflight, U!Join(r) PROVE UCountInv'
<1>0. /\ UNCHANGED <<uKnown, uTotal, uSize, uPosition, uBuffer, uOffset, uEof>>
      /\ uInflight' = uInflight \ {r} /\ uPc = "join"
      /\ \/ uPc' = "refill" /\ uDone' = uDone + r.len /\ uFault' = uFault
         \/ uPc' = "failed" /\ uFault'
    BY DEF U!Join, U!file, U!source
<1>1. SendsApart'
    BY <1>0 DEF UCountInv, SendsApart
<1>2. SourceReasons' /\ LengthChecked' /\ U!FailsForAReason'
    BY <1>0 DEF UCountInv, SourceReasons, LengthChecked, U!FailsForAReason
<1>3. SentCounted'
  <2> SUFFICES ASSUME uPc' = "refill" PROVE uDone' + Cardinality(Sent') = uOffset
    BY <1>0 DEF SentCounted
  <2>1. r.at \in Nat /\ r.len \in Nat /\ r.len # 0 /\ uOffset \in Nat /\ r.at + r.len <= uOffset
    BY SendsInRange DEF UCountInv, SendsApart
  <2> DEFINE R == r.at .. r.at + r.len - 1
  <2>2. \A i \in Nat : UAsks(r, i) <=> i \in R
    BY <2>1 DEF UAsks
  <2>3. R \subseteq 0 .. uOffset - 1 /\ R \subseteq Nat
    BY <2>1
  <2>4. \A q \in uInflight', i \in Nat : UAsks(q, i) => ~UAsks(r, i)
    BY <1>0, <2>1, SendsInRange DEF UCountInv, SendsApart, Apart, UAsks
  <2>5. Sent = Sent' \cup R
    <3>1. \A i \in 0 .. uOffset - 1 : i \in Nat
        BY <2>1
    <3> HIDE DEF R
    <3>2. \A i \in 0 .. uOffset - 1 : (\E q \in uInflight : UAsks(q, i))
                                          <=> (\E q \in uInflight' : UAsks(q, i)) \/ i \in R
        BY <1>0, <2>2, <3>1
    <3> QED BY <1>0, <2>3, <3>2 DEF Sent, UAsks
  <2>6. Sent' \cap R = {}
    <3>1. \A i \in Sent' : i \in Nat /\ \E q \in uInflight' : UAsks(q, i)
        BY <1>0, <2>1 DEF Sent, UAsks
    <3> HIDE DEF R
    <3> QED BY <2>2, <2>4, <3>1
  <2>7. IsFiniteSet(Sent')
    <3>1. Sent' \subseteq Sent
        BY <2>5
    <3> QED BY <3>1, SentFinite, FS_Subset
  <2>8. Cardinality(Sent' \cup R) = Cardinality(Sent') + r.len
    BY <2>1, <2>6, <2>7, CountWith
  <2>9. Cardinality(Sent) = Cardinality(Sent') + r.len /\ Cardinality(Sent') \in Nat
    BY <2>5, <2>7, <2>8, FS_CardinalityType
  <2> QED BY <1>0, <2>1, <2>9, SendsInRange DEF UCountInv, SentCounted
<1> QED BY <1>1, <1>2, <1>3 DEF UCountInv

\* Failing and a source that changes are faults.
LEMMA UFaultCounts == UCountInv /\ (U!Fail \/ U!FileChanges) => UCountInv'
<1> SUFFICES ASSUME UCountInv, U!Fail \/ U!FileChanges PROVE UCountInv'
    OBVIOUS
<1>0. /\ UNCHANGED <<uKnown, uTotal, uPosition, uBuffer, uOffset, uEof, uInflight, uDone>>
      /\ uPc' # "failed" => uPc' = uPc
      /\ uPc' = "ok" => uPc = "ok"
    BY DEF U!Fail, U!FileChanges, U!file, U!source
<1>1. /\ uFault => uFault'
      /\ uKnown /\ uSize' < uTotal => uFault'
      /\ uPc' = "failed" => uFault'
  <2>1. CASE U!Fail
    BY <2>1 DEF U!Fail
  <2>2. CASE U!FileChanges
    BY <2>2, Zenon DEF U!FileChanges
  <2> QED BY <2>1, <2>2
<1>2. SendsApart' /\ SentCounted'
    BY <1>0 DEF UCountInv, SendsApart, SentCounted, Sent
<1>3. SourceReasons' /\ LengthChecked' /\ U!FailsForAReason'
    BY <1>0, <1>1 DEF UCountInv, SourceReasons, LengthChecked, U!FailsForAReason
<1> QED BY <1>2, <1>3 DEF UCountInv

\* Every step keeps the count of an upload.
LEMMA UNextCounts == UInv /\ UCountInv /\ [U!Next]_(U!vars) => UCountInv'
<1> SUFFICES ASSUME UInv, UCountInv, [U!Next]_(U!vars) PROVE UCountInv'
    OBVIOUS
<1>1. CASE UNCHANGED U!vars
    BY <1>1 DEF U!vars, UCountInv, SendsApart, SentCounted, Sent, SourceReasons, LengthChecked,
                U!FailsForAReason
<1>2. CASE U!Writer
    BY <1>2, StopAtTotalCounts, ReadSourceCounts, USpawnedCounts, UJoinCounts DEF U!Writer
<1>3. CASE U!Server
    BY <1>3, ServerCounts DEF U!Server
<1>4. CASE U!Fail \/ U!FileChanges
    BY <1>4, UFaultCounts
<1> QED BY <1>1, <1>2, <1>3, <1>4 DEF U!Next

-----------------------------------------------------------------------------
(* A transfer, of either direction. *)

\* What both properties of an upload follow from.
LEMMA UploadProperties ==
    ASSUME UInv, UCountInv PROVE UploadComplete /\ U!FailsForAReason
<1>1. U!StoredInPlace
    BY InvStoresInPlace
<1>2. U!StoredAll
  <2> SUFFICES ASSUME uPc = "ok", uKnown PROVE uPosition = uTotal
    BY DEF U!StoredAll
  <2>1. uInflight = {} /\ uBuffer = 0 /\ uPosition = uOffset + uBuffer
    BY DEF UInv, UEnded, SourceInStep
  <2>2. uDone + Cardinality(Sent) = uOffset /\ uDone = uTotal
    BY DEF UCountInv, SentCounted, LengthChecked
  <2> QED BY <2>1, <2>2, SentFinite, SendsInRange
<1> QED BY <1>1, <1>2 DEF UploadComplete, UCountInv

\* The invariants of the writer hold while nothing is uploaded.
LEMMA NoUploadInv == NoUpload => UInv /\ UCountInv
<1> SUFFICES ASSUME NoUpload PROVE UInv /\ UCountInv
    OBVIOUS
<1>0. /\ uKnown = TRUE /\ uTotal = 0 /\ uSize = 0 /\ uPc = "failed" /\ uPosition = 0
      /\ uBuffer = 0 /\ uOffset = 0 /\ uEof = FALSE /\ uInflight = {} /\ uDone = 0 /\ uFault = TRUE
      /\ uRemote = [i \in U!Offsets |-> Empty]
    BY DEF NoUpload, Offsets, U!Offsets
<1>1. U!TypeOK
  <2>1. uKnown \in BOOLEAN /\ uEof \in BOOLEAN /\ uFault \in BOOLEAN /\ uInflight \subseteq U!Requests
    BY <1>0, Zenon
  <2>2. uRemote \in [U!Offsets -> U!Offsets \cup {Empty}]
    BY <1>0
  <2> QED BY <1>0, <2>1, <2>2, PipelineAssumption DEF U!TypeOK
<1>2. URequestsGood /\ SourceInStep /\ UPlaced /\ UNothingLost /\ UEnded
    BY <1>0 DEF URequestsGood, SourceInStep, UPlaced, UNothingLost, UEnded
<1>3. UCountInv
    BY <1>0 DEF UCountInv, SendsApart, SentCounted, SourceReasons, LengthChecked, U!FailsForAReason
<1> QED BY <1>1, <1>2, <1>3 DEF UInv

\* The invariants of the reader hold while nothing is downloaded.
LEMMA NoDownloadInv == NoDownload => IInv /\ CountInv
<1> SUFFICES ASSUME NoDownload PROVE IInv /\ CountInv
    OBVIOUS
<1>0. /\ known = TRUE /\ total = 0 /\ size = 0 /\ pc = "failed" /\ next = 0 /\ retry = <<>>
      /\ inflight = {} /\ eof = FALSE /\ chunk = NoChunk /\ current = Empty /\ cursor = 0
      /\ dest = [i \in Offsets |-> Empty] /\ done = 0 /\ fault = TRUE
    BY DEF NoDownload
<1>1. TypeOK
  <2>1. NoChunk \in Requests
    BY PipelineAssumption DEF NoChunk, Requests
  <2>2. known \in BOOLEAN /\ eof \in BOOLEAN /\ fault \in BOOLEAN /\ inflight \subseteq Requests
    BY <1>0, Zenon
  <2>3. dest \in [Offsets -> Offsets \cup {Empty}] /\ retry \in Seq(Requests)
    BY <1>0
  <2> QED BY <1>0, <2>1, <2>2, <2>3, PipelineAssumption DEF TypeOK
<1>2. RequestsGood /\ Placed /\ CursorAgrees /\ NothingLost /\ EofIsTheEnd /\ Ended
    BY <1>0 DEF RequestsGood, Placed, CursorAgrees, NothingLost, EofIsTheEnd, Ended
<1>3. FlightApart /\ RetryApart /\ BothApart /\ PartApart /\ Unwritten /\ Reasons /\ FailsForAReason
    BY <1>0 DEF FlightApart, RetryApart, BothApart, PartApart, InHand, Unwritten, Reasons, FailsForAReason
<1>4. Written = {}
    BY <1>0 DEF Written
<1>5. Counted
    BY <1>0, <1>4, FS_EmptySet DEF Counted
<1> QED BY <1>1, <1>2, <1>3, <1>5 DEF IInv, CountInv

\* Whichever way the file goes, the invariants of both directions hold. The
\* reader's need a file of unknown length not to change its length, the writer's
\* do not.
THEOREM TransferInvariance ==
    /\ TransferSpec => [](UInv /\ UCountInv)
    /\ ~MayChange => (TransferSpec => [](IInv /\ CountInv))
<1>1. TransferInit => (UInv /\ UCountInv) /\ (IInv /\ CountInv)
    BY InitInv, InitCounts, UInitInv, UInitCounts, NoUploadInv, NoDownloadInv DEF TransferInit
<1>2. [TransferNext]_transferVars => [Next]_vars /\ [U!Next]_(U!vars)
    BY DEF TransferNext, transferVars, vars, uVars, U!vars
<1>3. TransferSpec => [](UInv /\ UCountInv)
    BY <1>1, <1>2, UNextKeeps, UNextCounts, PTL DEF TransferSpec
<1>4. ASSUME ~MayChange PROVE TransferSpec => [](IInv /\ CountInv)
  <2>1. IInv /\ [Next]_vars => IInv'
    BY <1>4, NextKeeps
  <2> QED BY <1>1, <1>2, <2>1, NextCounts, PTL DEF TransferSpec
<1> QED BY <1>3, <1>4

\* An upload that reports success has stored all that was read and all that was
\* announced, every byte at its place and nothing else, for every chunk length,
\* window and size (upload_from, spawn_write_requests).
THEOREM TransferUploadComplete == TransferSpec => []UploadComplete
<1>1. UInv /\ UCountInv => UploadComplete
    BY UploadProperties
<1> QED BY <1>1, TransferInvariance, PTL

\* A transfer of either direction fails only for a reason: bytes_done counts every
\* byte once, so that the final checks fail only for a file that is shorter than
\* announced (download_to, upload_from).
THEOREM TransferReasons == ASSUME ~MayChange PROVE TransferSpec => []TransferFailsForAReason
<1>1. (UInv /\ UCountInv) /\ (IInv /\ CountInv) => TransferFailsForAReason
    BY UploadProperties DEF CountInv, TransferFailsForAReason
<1> QED BY <1>1, TransferInvariance, PTL
=============================================================================
