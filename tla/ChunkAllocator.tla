--------------------------- MODULE ChunkAllocator ---------------------------
(***************************************************************************)
(* The buffer pool of src/lib/common/streams/chunkallocator.js.  A buffer  *)
(* is a number.  The operators take and return the state of one allocator; *)
(* the module that uses it owns the state.  Only buffers of the size of a  *)
(* chunk are in a pool: callers do not release a slice.                    *)
(***************************************************************************)
EXTENDS Naturals, Sequences, FiniteSets, SequencesExt

Allocator == [pool : Seq(Nat), inuse : Nat, max : Nat]
Smaller(a, b) == IF a < b THEN a ELSE b

(* Buffer.alloc: n numbers, different ones, that are not in the set used.   *)
FreshBuffers(n, used) ==
    LET free == (1..(Cardinality(used) + n)) \ used
    IN  CHOOSE s \in [1..n -> free] : IsInjective(s)

(* _extendMemoryPool: the number of buffers is doubled, up to the maximum.  *)
ExtendMemoryPool(a, used) ==
    LET total == Len(a.pool) + a.inuse
        double == Smaller(2 * total, a.max)
        nextSize == IF double = 0 THEN 1 ELSE double
    IN  IF total >= a.max THEN a
        ELSE [a EXCEPT !.pool = @ \o FreshBuffers(nextSize - total, used)]

(* The constructor adds a buffer to the pool.                               *)
NewAllocator(max, used) ==
    ExtendMemoryPool([pool |-> <<>>, inuse |-> 0, max |-> max], used)

(* getBuffer of the size of a chunk: the last buffer of the pool, which is  *)
(* extended when it is empty; a new buffer when it cannot be.               *)
GetBuffer(a, used) ==
    LET b == IF a.pool = <<>> THEN ExtendMemoryPool(a, used) ELSE a
    IN  IF b.pool = <<>>
        THEN [buffer |-> FreshBuffers(1, used)[1], allocator |-> [b EXCEPT !.inuse = @ + 1]]
        ELSE [buffer |-> Last(b.pool),
              allocator |-> [b EXCEPT !.inuse = @ + 1, !.pool = Front(@)]]

(* Plausible bug: a buffer is put into the pool twice.                      *)
ReleaseBufferTwice(a, buffer) ==
    [a EXCEPT !.pool = @ \o <<buffer, buffer>>, !.inuse = IF @ = 0 THEN 0 ELSE @ - 1]

(* releaseBuffer of a buffer that is no slice; it may be a foreign one.     *)
ReleaseBuffer(a, buffer) ==
    [a EXCEPT !.pool = IF Len(@) < a.max THEN Append(@, buffer) ELSE @,
              !.inuse = IF @ = 0 THEN 0 ELSE @ - 1]

(* destroy *)
DestroyAllocator(a) == [a EXCEPT !.pool = <<>>, !.inuse = 0]
=============================================================================
