------------------------------ MODULE Pipeline ------------------------------
(***************************************************************************)
(* What the pipelined reader and writer have in common: a file is moved in *)
(* chunks, with a window of requests in flight.                            *)
(***************************************************************************)
EXTENDS Naturals, FiniteSets

CONSTANTS
    Chunk,          \* chunk_size
    Window,         \* window_capacity
    Word,           \* 2^32 in the code: lengths are u32, offsets u64
    MaxSize,        \* bound: size of the file
    Empty           \* nothing was written here

ASSUME PipelineAssumption ==
    /\ Chunk \in Nat \ {0} /\ Window \in Nat \ {0}
    /\ Word \in Nat /\ Chunk < Word
    /\ MaxSize \in Nat
    /\ Empty \notin Nat

Offsets == 0 .. MaxSize - 1

Least(a, b) == IF a < b THEN a ELSE b

\* Mutant: the length is cast to u32 before it is clamped.
NextChunkLenMut(remaining) == Least(remaining % Word, Chunk)

\* next_chunk_len
NextChunkLen(remaining) == Least(remaining, Chunk) % Word
=============================================================================
