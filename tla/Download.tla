------------------------------ MODULE Download ------------------------------
(***************************************************************************)
(* A parallel download into a stream: _getBlobToRangeStream of             *)
(* blobservice.core.js and _getFileToRangeStream of fileservice.core.js.   *)
(* A range stream (src/lib/common/streams/rangestream.js, for block blobs  *)
(* src/lib/services/blob/internal/blockrangestream.js) lists the ranges of *)
(* the blob, page by page or all blocks at once, and emits them; a batch   *)
(* in sequence mode reads them; the user callbacks write them to an output *)
(* stream.                                                                 *)
(*                                                                         *)
(* The three call each other: 'drain' of the batch resumes the range       *)
(* stream, which adds operations, which may complete at once.  The calls   *)
(* in progress are those of BatchOperation's stack; the loop of _emitRange *)
(* runs when the stack has the height it was started at.                   *)
(***************************************************************************)
EXTENDS Ranges

CONSTANTS
    Blobs,          \* what may be downloaded, a set of Blob
    ListSize,       \* MAX_SINGLE_GET_PAGE_RANGE_SIZE: bytes listed by one request
    Concurrency, SharedRequest, MaxOperations  \* of the batch; the last one
                    \* bounds the ranges that are emitted

(* kind is the class of the range stream; bytes are the offsets that hold   *)
(* data, cuts those at which a block follows another one, from and to the   *)
(* options rangeStart and rangeEnd; listFails tells whether a listing may   *)
(* fail.  Something is to be downloaded: a blob that is not larger than     *)
(* singleBlobPutThresholdInBytes is read by one request.                    *)
Blob == [kind : {"page", "file", "append", "block"}, size : Nat, bytes : SUBSET Nat,
         cuts : SUBSET (Nat \ {0}), from : Nat, to : Nat \ {0}, listFails : BOOLEAN]

ASSUME DownloadAssumption ==
    /\ Blobs \subseteq Blob
    /\ \A b \in Blobs : b.from < b.size /\ b.from <= b.to
    /\ \A b \in Blobs : \A i \in b.bytes \cup b.cuts : i < b.size
    /\ ListSize \in Nat \ {0}
    /\ Concurrency \in Nat \ {0} /\ SharedRequest \in {1, 2} /\ MaxOperations \in Nat

VARIABLES
    status, operations, current, active, queued, paused, error, completing,
    ended, stack, waiting, fired, endings, \* of the batch
    blob,        \* what is downloaded
    startOffset, \* _startOffset
    dataOffset,  \* _dataOffset
    ranges,      \* _rangelist
    index,       \* _emittedRangeIndex
    halted,      \* _paused by stop; waiting is _paused by back-pressure
    emittedAll,  \* _emittedAll
    listedAll,   \* _rangeStreamEnded
    listing,     \* the request that lists ranges
    emitting,    \* the height of the stack _emitRange was called at, or None
    assigned,    \* assigned[i]: the range of operation i
    failures,    \* operations that called back with an error
    handled,     \* the user callback in progress has done its work
    output,      \* the ranges written to the output stream
    full,        \* the output stream was full and has not drained
    closed,      \* end was called on the output stream
    closing,     \* calls of end that have not called back
    answers      \* history: the calls of the caller's callback

batchVars == <<status, operations, current, active, queued, paused, error,
               completing, ended, stack, waiting, fired, endings>>
listVars == <<startOffset, dataOffset, ranges, listedAll, listing>>
emitVars == <<index, halted, emittedAll, emitting>>
outputVars == <<output, full, closed, closing, answers>>
vars == <<batchVars, blob, listVars, emitVars, assigned, failures, handled, outputVars>>

Batch == INSTANCE BatchOperation WITH CallbackInOrder <- TRUE

None == -1
Larger(a, b) == IF a > b THEN a ELSE b
LastOffset == Smaller(blob.size - 1, blob.to)
Emitting == emitting = Len(stack)
EventLoop == stack = <<>> /\ ~Emitting /\ listing # "thrown"
Total == Len(status)
Pausing == waiting \/ halted
-----------------------------------------------------------------------------
Init ==
    /\ status = <<>> /\ operations = <<>> /\ current = 1 /\ active = 0 /\ queued = 0
    /\ paused = FALSE /\ error = FALSE /\ completing = FALSE /\ ended = FALSE
    /\ stack = <<>> /\ waiting = FALSE /\ fired = <<>> /\ endings = 0
    /\ blob \in Blobs
    /\ startOffset = blob.from /\ dataOffset = blob.from
    /\ ranges = <<>> /\ listedAll = FALSE /\ listing = "asked"
    /\ index = 0 /\ halted = FALSE /\ emittedAll = FALSE /\ emitting = None
    /\ assigned = <<>> /\ failures = {} /\ handled = FALSE
    /\ output = <<>> /\ full = FALSE /\ closed = FALSE /\ closing = 0
    /\ answers = <<>>

Answer(outcome) == answers' = Append(answers, outcome)
-----------------------------------------------------------------------------
(* Listing.                                                                 *)

(* External: the maximal ranges of data from first to last, in order.       *)
DataRanges(first, last) ==
    LET S == blob.bytes \cap (first..last)
        starts == Sorted({i \in S : i - 1 \notin S})
        End(i) == CHOOSE j \in S : j >= i /\ j + 1 \notin S /\ i..j \subseteq S
    IN  [n \in 1..Len(starts) |-> Piece(starts[n], End(starts[n]), TRUE)]

(* The last byte listed: _defaultListFunc lists the whole blob.             *)
ListEnd ==
    IF blob.kind = "append" THEN blob.to
    ELSE Smaller(startOffset + ListSize - 1, blob.to)

Listed(last) ==
    IF blob.kind = "append" THEN <<Piece(startOffset, last, TRUE)>>
    ELSE DataRanges(startOffset, last)

(* Plausible bug: only a listing without any range is completed.            *)
PaddedWhenEmpty(found, last) ==
    IF found = <<>> THEN <<Piece(startOffset, last, FALSE)>> ELSE found

(* onList completes the ranges with the empty one at the end.               *)
Padded(found, last) ==
    LET next == IF found = <<>> THEN startOffset ELSE found[Len(found)].end + 1
    IN  IF found # <<>> /\ next = last + 1 THEN found
        ELSE Append(found, Piece(next, last, FALSE))

(* onList: the ranges are saved and emitted, and the next page is asked for. *)
ListAnswers ==
    /\ EventLoop /\ listing = "asked" /\ blob.kind # "block"
    /\ \E last \in {Smaller(ListEnd, LastOffset)} :
       \E found \in {Padded(Listed(last), last)} :
          /\ ranges' = ranges \o Resize(found, startOffset, dataOffset)
          /\ dataOffset' = found[Len(found)].end + 1
    /\ startOffset' = startOffset + ListSize
    /\ listedAll' = (ListEnd >= LastOffset)
    /\ listing' = IF listedAll' THEN "done" ELSE "asked"
    /\ emitting' = IF Pausing \/ emittedAll THEN None ELSE 0
    /\ UNCHANGED <<batchVars, blob, index, halted, emittedAll, assigned,
                   failures, handled, outputVars>>

(* The committed blocks, one if the blob was stored without a block list,   *)
(* as far as they are asked for: _emitBlockRange skips the others.          *)
Blocks ==
    LET ends == {i - 1 : i \in blob.cuts} \cup {blob.size - 1}
        End(i) == CHOOSE j \in ends : j >= i /\ \A k \in ends : k >= i => j <= k
        starts == Sorted({i \in {0} \cup blob.cuts : i <= blob.to /\ End(i) >= blob.from})
    IN  [n \in 1..Len(starts) |-> Piece(starts[n], End(starts[n]), TRUE)]

Clip(r) == Piece(Larger(r.start, blob.from), Smaller(r.end, blob.to), r.data)

(* The list of blocks is emitted by loops that stop and go on as that of    *)
(* _emitRange does.                                                         *)
BlocksAnswer ==
    /\ EventLoop /\ listing = "asked" /\ blob.kind = "block"
    /\ ranges' = [n \in 1..Len(Blocks) |-> Clip(Blocks[n])]
    /\ listedAll' = TRUE /\ listing' = "done"
    /\ emitting' = 0
    /\ UNCHANGED <<batchVars, blob, startOffset, dataOffset, index, halted, emittedAll,
                   assigned, failures, handled, outputVars>>

(* The download of a blob passes its caller a failure of the listing; that  *)
(* of a file gives list no callback: the call throws a TypeError.           *)
ListFails ==
    /\ EventLoop /\ listing = "asked" /\ blob.listFails
    /\ IF blob.kind = "file" THEN listing' = "thrown" /\ UNCHANGED answers
       ELSE listing' = "failed" /\ Answer("error")
    /\ UNCHANGED <<batchVars, blob, startOffset, dataOffset, ranges, listedAll,
                   emitVars, assigned, failures, handled, output, full, closed, closing>>
-----------------------------------------------------------------------------
(* The loop of _emitRange.                                                  *)

(* Plausible bug: the index is advanced by the listener, too.               *)
EmitRangeBy(n) ==
    /\ Emitting /\ ~Pausing /\ index < Len(ranges) /\ Total < MaxOperations
    /\ index' = index + n
    /\ assigned' = Append(assigned, ranges[index + 1])
    /\ Batch!AddOperation(stack)
    /\ UNCHANGED <<blob, listVars, halted, emittedAll, emitting, failures, handled,
                   outputVars>>
EmitRangeTwice == EmitRangeBy(2)

(* A range is emitted: the listener adds an operation that reads it, or one *)
(* that does nothing for an empty range.                                    *)
EmitRange == EmitRangeBy(1)

(* Blocks behind the part that is asked for are visited, too.               *)
Visiting == index < Len(ranges) \/ \E i \in blob.cuts : i > blob.to

(* The loop returns when it is paused; without more ranges when there are   *)
(* pages to be listed.                                                      *)
EmissionStops ==
    /\ Emitting
    /\ IF Visiting THEN Pausing ELSE ~listedAll
    /\ emitting' = None
    /\ UNCHANGED <<batchVars, blob, listVars, index, halted, emittedAll, assigned,
                   failures, handled, outputVars>>

(* Everything was emitted: 'end', whose listener calls enableComplete, also *)
(* when the last range made the batch pause the stream.                     *)
EmissionEnds ==
    /\ Emitting /\ index = Len(ranges) /\ listedAll
    /\ ~(Visiting /\ Pausing)
    /\ emitting' = None /\ emittedAll' = TRUE
    /\ Batch!EnableComplete(stack)
    /\ UNCHANGED <<blob, listVars, index, halted, assigned, failures, handled, outputVars>>
-----------------------------------------------------------------------------
(* The steps of the batch, and what its listeners do.                       *)

Reads(i) == assigned[i].data
Others == <<blob, listVars, emitVars, assigned, outputVars>>

RunOperation ==
    \/ /\ Batch!RunAfterError
       /\ failures' = failures \cup {Batch!Top.op}
    \/ /\ \/ Batch!RunRequest /\ Reads(Batch!Top.op)
          \/ Batch!RunNoOperation /\ ~Reads(Batch!Top.op)
       /\ UNCHANGED failures

BatchRuns == ~Emitting /\ RunOperation /\ UNCHANGED <<Others, handled>>

RanFor(listened) ==
    /\ Batch!Ran
    /\ \E lowMemory \in BOOLEAN :
          LET heavy == /\ Batch!Top.op \in listened
                       /\ Batch!IsWorkloadHeavy(active + 1, lowMemory)
              over == status[Batch!Top.op] = "complete"
          IN  /\ waiting' = (waiting \/ (heavy /\ ~over))
              /\ halted' = (halted \/ (heavy /\ over))
    /\ UNCHANGED <<blob, listVars, index, emittedAll, emitting, assigned, failures,
                   handled, outputVars>>

(* Plausible bug: the answer of addOperation is ignored.                    *)
RanIgnored == RanFor({})

(* addOperation returned: the range stream is paused when the workload is   *)
(* heavy; the answer is ignored for an empty range.                         *)
RanPausing == RanFor({i \in 1..Total : Reads(i)})

RequestDone(i, failed) ==
    /\ ~Emitting /\ listing # "thrown"
    /\ Batch!RequestDone(i, failed)
    /\ failures' = IF failed THEN failures \cup {i} ELSE failures
    /\ UNCHANGED <<Others, handled>>

BatchSteps ==
    /\ ~Emitting
    /\ \/ Batch!BatchOperationCallback \/ Batch!FireUserCallback
       \/ Batch!FireWhilePaused \/ Batch!FireNothing
       \/ Batch!EmitEnd \/ Batch!NotComplete \/ Batch!NoDrain
       \/ handled /\ Batch!UserCallbackReturns
       \/ Batch!Running("onDrain") /\ Batch!ListenerReturns
    /\ handled' = (handled /\ ~Batch!Running("userCallback"))
    /\ UNCHANGED <<Others, failures>>

DrainTo(emission) ==
    /\ Batch!EmitDrain
    /\ halted' = FALSE
    /\ emitting' = emission
    /\ UNCHANGED <<blob, listVars, index, emittedAll, assigned, failures, handled,
                   outputVars>>

(* Plausible bug: resume does not continue the emission.                    *)
DrainWithoutEmitting == DrainTo(emitting)
(* Plausible bug: resume emits although the range stream is emitting.       *)
DrainWhileEmitting == DrainTo(IF emittedAll THEN emitting ELSE Len(stack'))

(* 'drain' of the batch: its listener calls resume of the range stream,     *)
(* which emits unless it is emitting.                                       *)
Drain == DrainTo(IF emittedAll \/ emitting # None THEN emitting ELSE Len(stack'))

(* The user callback of an operation that read its range, or has nothing to *)
(* read: the bytes are written, and the batch pauses when the output stream *)
(* has no room.                                                             *)
UserCallbackWrites ==
    /\ Batch!Running("userCallback") /\ ~handled /\ Batch!Top.op \notin failures
    /\ handled' = TRUE
    /\ output' = Append(output, assigned[Batch!Top.op])
    /\ \/ UNCHANGED <<batchVars, full>>
       \/ full' = TRUE /\ Batch!Pause
    /\ UNCHANGED <<blob, listVars, emitVars, assigned, failures, closed, closing, answers>>

(* The user callback of a read that failed stops the range stream.          *)
UserCallbackStops ==
    /\ Batch!Running("userCallback") /\ ~handled /\ Batch!Top.op \in failures
    /\ Reads(Batch!Top.op)
    /\ handled' = TRUE
    /\ halted' = TRUE /\ emittedAll' = TRUE
    /\ Batch!EnableComplete(stack)
    /\ UNCHANGED <<blob, listVars, index, emitting, assigned, failures, outputVars>>

(* That of an empty range does nothing.                                     *)
UserCallbackIgnores ==
    /\ Batch!Running("userCallback") /\ ~handled /\ Batch!Top.op \in failures
    /\ ~Reads(Batch!Top.op)
    /\ handled' = TRUE
    /\ UNCHANGED <<batchVars, Others, failures>>

EndWith(closes) ==
    /\ Batch!Running("onEnd") /\ Batch!ListenerReturns
    /\ IF error THEN Answer("error") ELSE UNCHANGED answers
    /\ closed' = (closed \/ closes)
    /\ closing' = closing + IF closes THEN 1 ELSE 0
    /\ UNCHANGED <<blob, listVars, emitVars, assigned, failures, handled, output, full>>

(* Plausible bug: the listener goes on after it reported the error.         *)
EndFallsThrough == EndWith(TRUE)

(* 'end' of the batch: the caller gets the error, or the output is ended.   *)
End == EndWith(~error)
-----------------------------------------------------------------------------
(* External: the output stream.                                             *)
OutputDrains ==
    /\ EventLoop /\ full /\ ~closed
    /\ full' = FALSE
    /\ Batch!Resume(stack)
    /\ UNCHANGED <<blob, listVars, emitVars, assigned, failures, handled, output,
                   closed, closing, answers>>

(* The callback of end answers the caller.                                  *)
OutputEnds ==
    /\ EventLoop /\ closing > 0
    /\ closing' = closing - 1
    /\ Answer("success")
    /\ UNCHANGED <<batchVars, blob, listVars, emitVars, assigned, failures, handled,
                   output, full, closed>>

(* The caller was answered and nothing is left to do; or the process ended; *)
(* or the listing failed and what was listed has been read.                 *)
Stopped ==
    /\ \/ EventLoop /\ ended /\ closing = 0 /\ listing # "asked"
       \/ EventLoop /\ listing = "failed" /\ active = 0
       \/ listing = "thrown"
    /\ UNCHANGED vars

Internal ==
    \/ EmitRange \/ EmissionStops \/ EmissionEnds
    \/ BatchRuns \/ RanPausing \/ BatchSteps \/ Drain
    \/ UserCallbackWrites \/ UserCallbackStops \/ UserCallbackIgnores \/ End
External ==
    \/ ListAnswers \/ BlocksAnswer \/ ListFails \/ OutputDrains \/ OutputEnds
    \/ \E i \in 1..Total, failed \in BOOLEAN : RequestDone(i, failed)
Next == Internal \/ External \/ Stopped

Spec == Init /\ [][Next]_vars

(* Functions run to their end, requests are answered or time out, and the   *)
(* output stream drains and ends.                                           *)
FairSpec ==
    /\ Spec
    /\ WF_vars(Internal)
    /\ WF_vars(ListAnswers \/ BlocksAnswer \/ ListFails)
    /\ WF_vars(OutputDrains) /\ WF_vars(OutputEnds)
    /\ \A i \in 1..MaxOperations :
          WF_vars(\E failed \in BOOLEAN : i <= Total /\ RequestDone(i, failed))
-----------------------------------------------------------------------------
TypeOK ==
    /\ blob \in Blobs
    /\ startOffset \in Nat /\ dataOffset \in Nat
    /\ \A n \in 1..Len(ranges) :
          ranges[n].start \in Nat /\ ranges[n].end \in Nat /\ ranges[n].data \in BOOLEAN
    /\ index \in 0..Len(ranges)
    /\ halted \in BOOLEAN /\ emittedAll \in BOOLEAN /\ listedAll \in BOOLEAN
    /\ listing \in {"asked", "done", "failed", "thrown"}
    /\ emitting \in Nat \cup {None}
    /\ Len(assigned) = Total
    /\ failures \subseteq 1..Total
    /\ handled \in BOOLEAN /\ full \in BOOLEAN /\ closed \in BOOLEAN
    /\ closing \in Nat
    /\ \A n \in 1..Len(answers) : answers[n] \in {"success", "error"}

(* A download that reports success has written every byte that was asked    *)
(* for, in order and once, and zeros only where the blob holds no data,     *)
(* whatever the order of the answers, the merging and splitting of ranges,  *)
(* the pages of the listing and the pauses on both sides.                   *)
SuccessIsWhole ==
    (\E n \in 1..Len(answers) : answers[n] = "success") =>
        /\ Partition(output, blob.from, LastOffset)
        /\ \A n \in 1..Len(output) :
              output[n].data \/ (output[n].start..output[n].end) \cap blob.bytes = {}

(* No page of the listing of b ends with a range of one byte: then the last *)
(* range of a page may be lost, which LastRangeKept below is about.         *)
WholePages(b) ==
    LET last == Smaller(b.size - 1, b.to)
    IN  /\ b.kind = "append" => b.from < last
        /\ b.kind \in {"page", "file"} =>
              \A k \in 0..b.size : b.from + k * ListSize <= last =>
                  LET first == b.from + k * ListSize
                      end == Smaller(first + ListSize - 1, last)
                  IN  first < end /\ (end \in b.bytes <=> end - 1 \in b.bytes)

(* "The number of parallel operations that may be performed": the requests  *)
(* in flight, although empty ranges ignore the back-pressure and 'drain'    *)
(* may resume the range stream while it emits.                              *)
RequestsBounded ==
    Cardinality({i \in 1..Total : status[i] = "running" /\ Reads(i)})
        <= SharedRequest * Concurrency

(* Unless a listing fails, the caller is called back once: the end of the   *)
(* batch is not announced twice, however often the range stream is stopped  *)
(* and the batch is resumed.                                                *)
CalledBackOnce == ~blob.listFails => Len(answers) <= 1

(* The download uses its batch as BatchOperation supposes: what is proved   *)
(* of a batch holds in a download.                                          *)
BatchAsModelled == Batch!Spec

(* The caller is answered: pauses on both sides cannot wait for each other. *)
Answered == <>(answers # <<>>)

(* "If it is the last range, put the holding range into list anyway": the   *)
(* ranges that were saved reach the last byte that was asked for.           *)
LastRangeKept == listedAll => Partition(ranges, blob.from, LastOffset)
=============================================================================
