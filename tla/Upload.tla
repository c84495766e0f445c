------------------------------- MODULE Upload -------------------------------
(***************************************************************************)
(* An upload: _uploadContentFromChunkStream of blobservice.core.js and     *)
(* _createFileFromChunkStream of fileservice.core.js.  A source (a local   *)
(* file read by src/lib/common/streams/filereadstream.js, or a program     *)
(* that pipes into the ChunkStream it was given) feeds a chunk stream      *)
(* (chunkstream.js, chunkstreamwithstream.js), which cuts the data into    *)
(* chunks; a batch stores each of them by a request; when the batch ends   *)
(* the chunks are committed.                                               *)
(*                                                                         *)
(* Data is a run of units of the source, numbered from 1.  The calls of    *)
(* the batch are on BatchOperation's stack; calls holds those of the chunk *)
(* stream, each with the height the stack had when it was called, and the  *)
(* innermost of both kinds steps.                                          *)
(***************************************************************************)
EXTENDS Integers, ChunkAllocator, FiniteSets

CONSTANTS
    Uploads,        \* what may be uploaded, a set of Scenario
    ParallelOperationThreadCount, \* concurrency of the batch and size of a pool
    SharedRequest, MaxOperations  \* of the batch

(* kind is the blob type, or "file" for the file service; piece is what the *)
(* source gives at once and chunk the _highWaterMark of the chunk stream;   *)
(* limit is streamLength, 0 for null; zeros are the units that are zero;    *)
(* fileFails tells whether a local file may fail to be opened or read.      *)
Scenario == [kind : {"block", "page", "append", "file"}, source : {"local", "pipe"},
             size : Nat, limit : Nat, piece : Nat \ {0}, chunk : Nat \ {0},
             zeros : SUBSET Nat, fileFails : BOOLEAN]

ASSUME UploadAssumption ==
    /\ Uploads \subseteq Scenario
    /\ ParallelOperationThreadCount \in Nat \ {0}
    /\ SharedRequest \in {1, 2} /\ MaxOperations \in Nat
    (* a file is uploaded as large as it was created *)
    /\ \A u \in Uploads : u.kind = "file" \/ u.source = "pipe" => u.limit = 0

VARIABLES
    status, operations, current, active, queued, paused, error, completing,
    ended, stack, waiting, fired, endings, \* of the batch
    upload,     \* what is uploaded
    ready,      \* the destination exists and the upload listens: no, yes, failed
    fd,         \* of the FileReadStream: opening, open or closed (_fd is null)
    reads,      \* its reads that have not called back
    position,   \* its _offset, or how much was written by the pipe
    sourceEnded,\* its _streamEnded, or end was called by the pipe
    held,       \* _paused of the source
    awaiting,   \* the pipe waits for 'drain'
    unpiped,    \* the pipe saw 'close'
    buffer,     \* _buffer of the chunk stream, or of the stream that is piped into
    offset,     \* _offset of the chunk stream
    calls,      \* calls of the chunk stream in progress, the innermost last
    allocators, \* the pools of the source and of the chunk stream
    assigned,   \* assigned[i]: the chunk of operation i
    failures,   \* operations that called back with an error
    handled,    \* failed operations whose user callback has stopped the stream
    stored,     \* operations whose request took effect
    committing, \* commits that have not called back
    answers     \* history: the calls of the caller's callback

batchVars == <<status, operations, current, active, queued, paused, error,
               completing, ended, stack, waiting, fired, endings>>
sourceVars == <<fd, reads, position, sourceEnded, held, awaiting, unpiped>>
chunkVars == <<buffer, offset, calls, allocators>>
resultVars == <<stored, committing, answers>>
vars == <<batchVars, upload, ready, sourceVars, chunkVars, assigned, failures,
          handled, resultVars>>

(* An append blob has a batch of its own: in sequence mode, one at a time.  *)
Random == INSTANCE BatchOperation WITH
    CallbackInOrder <- FALSE, Concurrency <- ParallelOperationThreadCount
Ordered == INSTANCE BatchOperation WITH
    CallbackInOrder <- TRUE, Concurrency <- 1, SharedRequest <- 1
InOrder == upload.kind = "append"
Mode(random, ordered) == IF InOrder THEN ordered ELSE random

Run(first, last) == [first |-> first, last |-> last]
Nothing == Run(1, 0)
Size(run) == run.last - run.first + 1
Units(run) == run.first..run.last

Data == [run : [first : Nat, last : Int], id : Nat]
NoData == [run |-> Nothing, id |-> 0]

(* A call of the chunk stream: what is left of the data it was given, the   *)
(* chunk it is about to emit, and what it does at last.                     *)
Call(left, out, then) == [height |-> Len(stack), left |-> left, out |-> out, then |-> then]
Calling == calls # <<>> /\ Last(calls).height = Len(stack)
EventLoop == stack = <<>> /\ calls = <<>>
Top == Last(calls)
Total == Len(status)
IsFile == upload.kind = "file"
Local == upload.source = "local"

(* Buffers that someone refers to: a new one is none of them.               *)
Referred ==
    (UNION {ToSet(allocators[a].pool) : a \in {"source", "chunk"}})
      \cup {buffer.id} \cup {assigned[i].id : i \in 1..Total}
      \cup {reads[n].id : n \in 1..Len(reads)}
      \cup (UNION {{calls[n].left.id, calls[n].out.id} : n \in 1..Len(calls)})

(* A buffer of an allocator; the streams of the file service have none.     *)
Obtain(a) ==
    IF IsFile THEN [buffer |-> FreshBuffers(1, Referred)[1], allocator |-> allocators[a]]
    ELSE GetBuffer(allocators[a], Referred)
-----------------------------------------------------------------------------
Threads(u) == IF u.kind = "append" THEN 1 ELSE ParallelOperationThreadCount

(* The upload of a local file has begun; the listeners are attached.  A     *)
(* stream to be piped into is returned while the destination is created.    *)
Init ==
    /\ status = <<>> /\ operations = <<>> /\ active = 0 /\ queued = 0
    /\ paused = FALSE /\ error = FALSE /\ completing = FALSE /\ ended = FALSE
    /\ stack = <<>> /\ waiting = FALSE /\ fired = <<>> /\ endings = 0
    /\ upload \in Uploads
    /\ current = IF InOrder THEN 1 ELSE -1
    /\ ready = IF Local THEN "yes" ELSE "no"
    /\ fd = IF Local THEN "opening" ELSE "closed"
    /\ reads = <<>> /\ position = 0 /\ sourceEnded = FALSE
    /\ held = ~Local /\ awaiting = FALSE /\ unpiped = FALSE
    /\ buffer = NoData /\ offset = 0 /\ calls = <<>>
    /\ allocators = LET chunk == NewAllocator(Threads(upload), {})
                    IN  [chunk |-> chunk,
                         source |-> NewAllocator(Threads(upload), ToSet(chunk.pool))]
    /\ assigned = <<>> /\ failures = {} /\ handled = {}
    /\ stored = {} /\ committing = 0 /\ answers = <<>>

Answer(outcome) == answers' = Append(answers, outcome)
Others == <<upload, ready, assigned, failures, handled, resultVars>>
-----------------------------------------------------------------------------
(* The source that is a local file.                                         *)

(* _emitData: a read is started, at the offset, unless the stream is        *)
(* closed, paused or ended.                                                 *)
EmitData(at) ==
    IF fd' = "open" /\ ~held' /\ ~sourceEnded
    THEN LET got == Obtain("source")
         IN  /\ reads' = Append(reads, [at |-> at, id |-> got.buffer])
             /\ allocators' = [allocators EXCEPT !.source = got.allocator]
    ELSE UNCHANGED <<reads, allocators>>

(* _open has called back.                                                   *)
FileOpens ==
    /\ EventLoop /\ fd = "opening"
    /\ fd' = "open" /\ held' = held
    /\ EmitData(position)
    /\ UNCHANGED <<batchVars, Others, position, sourceEnded, awaiting, unpiped,
                   buffer, offset, calls>>

(* fs.open, or fs.read, has called back with an error: it is emitted as     *)
(* 'error', to which nobody listens, so that it is thrown from the callback. *)
(* Of a program that catches what is thrown there nothing else is changed:  *)
(* the buffer is not released, and only a paused stream is read again.      *)
FileOpenFails ==
    /\ EventLoop /\ fd = "opening" /\ upload.fileFails
    /\ fd' = "closed"
    /\ UNCHANGED <<batchVars, Others, reads, position, sourceEnded, held, awaiting,
                   unpiped, chunkVars>>

ReadFails ==
    /\ EventLoop /\ reads # <<>> /\ upload.fileFails
    /\ reads' = Tail(reads)
    /\ UNCHANGED <<batchVars, Others, fd, position, sourceEnded, held, awaiting,
                   unpiped, chunkVars>>

ReadGets(n) ==
    /\ EventLoop
    /\ reads # <<>>
    /\ n = Smaller(upload.piece, upload.size - Head(reads).at)
    /\ reads' = Tail(reads)

(* The callback of fs.read: data is emitted.  The buffer of a short read is *)
(* released first, "since we created a new one"; the slice shares it.       *)
ReadEmits ==
    \E n \in 1..upload.piece :
       LET r == Head(reads)
           data == [run |-> Run(r.at + 1, r.at + n), id |-> r.id]
       IN  /\ ReadGets(n)
           /\ allocators' = IF n < upload.piece /\ ~IsFile
                            THEN [allocators EXCEPT !.source = ReleaseBuffer(@, r.id)]
                            ELSE allocators
           /\ calls' = <<IF IsFile THEN Call([data EXCEPT !.run.first = @ + n], data, "read")
                         ELSE Call(data, NoData, "read")>>
           /\ UNCHANGED <<batchVars, Others, fd, position, sourceEnded, held, awaiting,
                          unpiped, buffer, offset>>

(* At the end of the file 'end' is emitted, which the chunk stream passes   *)
(* on after it has flushed its internal buffer.                             *)
ReadEnds ==
    /\ ReadGets(0)
    /\ sourceEnded' = TRUE
    /\ IF sourceEnded THEN UNCHANGED <<calls, buffer>>
       ELSE calls' = <<Call(NoData, buffer, "end")>> /\ buffer' = NoData
    /\ UNCHANGED <<batchVars, Others, fd, position, held, awaiting, unpiped,
                   offset, allocators>>
-----------------------------------------------------------------------------
(* The source that is a stream a program pipes into.  The chunk stream of a *)
(* blob wraps it and has the same _highWaterMark, so that it emits what it  *)
(* is given; that of a file is the stream itself.                           *)

PipeMayCall == (EventLoop \/ (Random!Running("onDrain") /\ ~Calling)) /\ ~unpiped /\ ~sourceEnded

(* write *)
PipeWrites ==
    /\ ~Local /\ PipeMayCall /\ ~awaiting
    /\ \E n \in {Smaller(upload.piece, upload.size - position)} :
          /\ n > 0
          /\ position' = position + n
          /\ calls' = Append(calls,
                [Call(NoData, NoData, "write") EXCEPT !.left =
                    [run |-> Run(position + 1, position + n),
                     id |-> FreshBuffers(1, Referred)[1]]])
    /\ UNCHANGED <<batchVars, Others, fd, reads, sourceEnded, held, awaiting, unpiped,
                   buffer, offset, allocators>>

(* end *)
PipeEnds ==
    /\ ~Local /\ EventLoop /\ PipeMayCall /\ ~awaiting
    /\ position = upload.size
    /\ sourceEnded' = TRUE
    /\ LET got == Obtain("chunk")
           wrapped == ~IsFile /\ ready = "yes" /\ buffer # NoData
       IN  /\ allocators' = IF wrapped THEN [allocators EXCEPT !.chunk = got.allocator]
                            ELSE allocators
           /\ calls' = <<Call(NoData, IF wrapped THEN [buffer EXCEPT !.id = got.buffer]
                                      ELSE buffer, "end")>>
    /\ buffer' = NoData
    /\ UNCHANGED <<batchVars, Others, fd, reads, position, held, awaiting, unpiped, offset>>

(* The request that creates the destination answers: the upload attaches    *)
(* its listeners and resumes the stream, or the caller gets the error.      *)
DestinationReady ==
    /\ EventLoop /\ ready = "no"
    /\ \/ ready' = "yes" /\ held' = FALSE /\ awaiting' = FALSE /\ UNCHANGED answers
       \/ ready' = "failed" /\ Answer("error") /\ UNCHANGED <<held, awaiting>>
    /\ UNCHANGED <<batchVars, upload, fd, reads, position, sourceEnded, unpiped,
                   chunkVars, assigned, failures, handled, stored, committing>>
-----------------------------------------------------------------------------
(* The chunk stream.                                                        *)

TopWith(left, out) == [calls EXCEPT ![Len(calls)].left = left, ![Len(calls)].out = out]
Level == IF Local THEN "chunk" ELSE "source"

(* Each copy from the data that a read gave releases the whole read buffer  *)
(* to the pool of the source, again if it was released before, unless the   *)
(* data is a slice.  (position is where the read began until it returns.)   *)
AfterCopy(a) ==
    IF Local /\ Top.then = "read" /\ Top.left.run.last - position = upload.piece
    THEN [a EXCEPT !.source = ReleaseBuffer(@, Top.left.id)] ELSE a

(* n units go to the internal buffer, which is popped when it has size.     *)
CopyAndPop(n, size) ==
    LET fresh == buffer = NoData
        got == Obtain(Level)
        id == IF fresh THEN got.buffer ELSE buffer.id
        run == Run(IF fresh THEN Top.left.run.first ELSE buffer.run.first,
                   Top.left.run.first + n - 1)
        rest == [Top.left EXCEPT !.run.first = @ + n]
        a == AfterCopy(IF fresh THEN [allocators EXCEPT ![Level] = got.allocator]
                       ELSE allocators)
    IN  /\ allocators' = a
        /\ IF Size(run) < size
           THEN buffer' = [run |-> run, id |-> id] /\ calls' = TopWith(rest, NoData)
           ELSE buffer' = NoData /\ calls' = TopWith(rest, [run |-> run, id |-> id])

(* Plausible bug: a full buffer is kept.                                    *)
CopyAndKeepFull(n) == CopyAndPop(n, upload.chunk + 1)

(* The part of _buildChunk that copies.                                     *)
CopyUpTo(n) == CopyAndPop(n, upload.chunk)

(* _buildChunk: data goes to the internal buffer.  A full buffer is popped  *)
(* and emitted, and what is left of the data is looked at again.  A program *)
(* that writes a whole chunk has its own buffer passed on.                  *)
BuildChunk ==
    /\ Calling /\ Top.out = NoData /\ Size(Top.left.run) > 0
    /\ LET room == upload.chunk - (IF buffer = NoData THEN 0 ELSE Size(buffer.run))
           passes == buffer = NoData /\ Top.then = "write"
                       /\ Size(Top.left.run) = upload.chunk
       IN  IF passes
           THEN calls' = TopWith(NoData, Top.left) /\ UNCHANGED <<buffer, allocators>>
           ELSE CopyUpTo(Smaller(room, Size(Top.left.run)))
    /\ UNCHANGED <<batchVars, Others, sourceVars, offset>>
-----------------------------------------------------------------------------
(* The listener for 'data'.                                                 *)

(* What a wrapping chunk stream does with a chunk of the stream it wraps:   *)
(* it copies it into a buffer of its own and releases the other, also when  *)
(* it is the program's.                                                     *)
Wraps == ~Local /\ ~IsFile /\ Top.then = "write"
Rewrapped ==
    LET got == Obtain("chunk")
    IN  IF Wraps
        THEN [id |-> got.buffer,
              allocators |-> [chunk |-> got.allocator,
                              source |-> ReleaseBuffer(allocators.source, Top.out.id)]]
        ELSE [id |-> Top.out.id, allocators |-> allocators]

Emitting == Calling /\ Top.out # NoData
Emitted == TopWith(Top.left, NoData)
Beyond == upload.limit > 0 /\ offset >= upload.limit
Skipped == upload.kind \in {"page", "file"} /\ Units(Top.out.run) \subseteq upload.zeros

(* Nobody listens before the destination is ready.                          *)
EmitLost ==
    /\ Emitting /\ ready # "yes"
    /\ calls' = Emitted
    /\ offset' = IF IsFile THEN offset + Size(Top.out.run) ELSE offset
    /\ UNCHANGED <<batchVars, Others, sourceVars, buffer, allocators>>

(* stop of the chunk stream, from the calls s: the source is destroyed,     *)
(* which unpipes it; a chunk stream that wraps it flushes its buffer.       *)
Stop(s, a) ==
    LET flushed == IF Local /\ ~IsFile THEN buffer ELSE NoData
    IN  /\ fd' = "closed"
        /\ unpiped' = ~Local
        /\ sourceEnded' = (sourceEnded \/ (Local /\ IsFile))
        /\ allocators' = IF Local \/ IsFile THEN a
                         ELSE [a EXCEPT !.source = DestroyAllocator(@)]
        /\ calls' = Append(s, Call(NoData, flushed, "end"))
        /\ buffer' = IF flushed = NoData THEN buffer ELSE NoData
        /\ UNCHANGED <<reads, position, held, awaiting>>

(* checkLengthLimit: data behind the length of the upload stops it.         *)
EmitBeyond ==
    /\ Emitting /\ ready = "yes" /\ Beyond
    /\ offset' = offset + Size(Top.out.run)
    /\ Stop(Emitted, Rewrapped.allocators)
    /\ UNCHANGED <<batchVars, Others>>

(* A chunk of zeros is not stored; its buffer is not released.              *)
EmitZeros ==
    /\ Emitting /\ ready = "yes" /\ ~Beyond /\ Skipped
    /\ offset' = offset + Size(Top.out.run)
    /\ calls' = Emitted
    /\ allocators' = Rewrapped.allocators
    /\ UNCHANGED <<batchVars, Others, sourceVars, buffer>>

(* Plausible bug: a chunk that reaches over the length is stored whole.     *)
Unclipped(run) == run

(* The part of a chunk that is within the length of the upload.             *)
Clipped(run) ==
    IF upload.limit > 0 /\ offset + Size(run) > upload.limit
    THEN Run(run.first, run.first + upload.limit - offset - 1) ELSE run

(* A chunk becomes an operation of the batch.                               *)
EmitChunk ==
    /\ Emitting /\ ready = "yes" /\ ~Beyond /\ ~Skipped
    /\ offset' = offset + Size(Top.out.run)
    /\ calls' = Emitted
    /\ allocators' = Rewrapped.allocators
    /\ assigned' = Append(assigned,
          [run |-> Clipped(Top.out.run), start |-> offset, id |-> Rewrapped.id])
    /\ Random!AddOperation(stack)
    /\ UNCHANGED <<upload, ready, sourceVars, buffer, failures, handled, resultVars>>

Emission == EmitLost \/ EmitBeyond \/ EmitZeros \/ EmitChunk

(* A call of the chunk stream has emitted everything...                     *)
Returning(then) ==
    /\ Calling /\ Top.out = NoData /\ Size(Top.left.run) = 0
    /\ Top.then = then
    /\ calls' = Front(calls)

(* ...the next read is started,                                             *)
ReadReturns ==
    /\ Returning("read")
    /\ position' = Top.left.run.last
    /\ fd' = fd /\ held' = held
    /\ EmitData(position')
    /\ UNCHANGED <<batchVars, Others, sourceEnded, awaiting, unpiped, buffer, offset>>

(* ...write tells whether to wait for 'drain',                              *)
WriteReturns ==
    /\ Returning("write")
    /\ awaiting' = held
    /\ UNCHANGED <<batchVars, Others, fd, reads, position, sourceEnded, held, unpiped,
                   buffer, offset, allocators>>

(* ...or 'end' is emitted, whose listener, if any, enables completion.      *)
EndReturns ==
    /\ Returning("end")
    /\ IF ready = "yes" THEN Random!EnableComplete(stack) ELSE UNCHANGED batchVars
    /\ UNCHANGED <<Others, sourceVars, buffer, offset, allocators>>
-----------------------------------------------------------------------------
(* The batch.                                                               *)

quietVars == <<upload, ready, buffer, offset, calls, assigned, resultVars>>

BatchRuns ==
    /\ ~Calling
    /\ \/ Random!RunAfterError /\ failures' = failures \cup {Random!Top.op}
       \/ Random!RunRequest /\ UNCHANGED failures
    /\ UNCHANGED <<quietVars, sourceVars, allocators, handled>>

RanThen(pauses) ==
    /\ ~Calling
    /\ Random!Ran /\ waiting' = waiting
    /\ \E lowMemory \in BOOLEAN :
          held' = (held \/ (pauses /\ Mode(Random!IsWorkloadHeavy(active + 1, lowMemory),
                                           Ordered!IsWorkloadHeavy(active + 1, lowMemory))))
    /\ UNCHANGED <<quietVars, fd, reads, position, sourceEnded, awaiting, unpiped,
                   allocators, failures, handled>>

(* Plausible bug: the answer of addOperation is ignored.                    *)
RanIgnored == RanThen(FALSE)

(* addOperation returned: the source is paused when the workload is heavy.  *)
Ran == RanThen(TRUE)

(* External: the service stores a chunk and answers, or the request fails.  *)
(* An append carries the position it is meant for.                          *)
RequestDone(i, failed) ==
    /\ EventLoop
    /\ Random!RequestDone(i, failed)
    /\ ~failed /\ InOrder => \A j \in 1..(i - 1) : j \in stored
    /\ IF failed THEN failures' = failures \cup {i} /\ UNCHANGED stored
       ELSE stored' = stored \cup {i} /\ UNCHANGED failures
    /\ UNCHANGED <<upload, ready, sourceVars, chunkVars, assigned, handled, committing, answers>>

BatchSteps ==
    /\ ~Calling
    /\ \/ Mode(Random!BatchOperationCallback, Ordered!BatchOperationCallback)
       \/ Mode(Random!FireUserCallback, Ordered!FireUserCallback)
       \/ Mode(Random!FireNothing, Ordered!FireNothing)
       \/ Mode(Random!NoDrain, Ordered!NoDrain)
       \/ Random!EmitEnd \/ Random!NotComplete
       \/ Random!Running("onDrain") /\ Random!ListenerReturns
    /\ UNCHANGED <<quietVars, sourceVars, allocators, failures, handled>>

DrainThen(reading) ==
    /\ ~Calling
    /\ Mode(Random!EmitDrain, Ordered!EmitDrain)
    /\ held' = FALSE /\ fd' = fd
    /\ awaiting' = (awaiting /\ ~held)
    /\ IF Local /\ reading THEN EmitData(position) ELSE UNCHANGED <<reads, allocators>>
    /\ UNCHANGED <<quietVars, position, sourceEnded, unpiped, failures, handled>>

(* Plausible bug: resume reads although the stream is not paused.           *)
DrainReads == DrainThen(TRUE)
(* Plausible bug: resume only clears the flag.                              *)
DrainSilently == DrainThen(FALSE)

(* 'drain' of the batch resumes the source: a file is read, a pipe is told. *)
Drain == DrainThen(held)

(* The user callback of a chunk that failed stops the chunk stream.         *)
UserCallbackStops ==
    /\ ~Calling /\ Random!Running("userCallback")
    /\ Random!Top.op \in failures \ handled
    /\ handled' = handled \cup {Random!Top.op}
    /\ Stop(calls, allocators)
    /\ UNCHANGED <<batchVars, upload, ready, offset, assigned, failures, resultVars>>

(* At last the buffer of the chunk is released, unless it is a slice.       *)
UserCallbackReturns ==
    LET chunk == assigned[Random!Top.op]
    IN  /\ ~Calling /\ Random!Running("userCallback")
        /\ Random!Top.op \notin failures \ handled
        /\ Mode(Random!UserCallbackReturns, Ordered!UserCallbackReturns)
        /\ allocators' = IF Size(chunk.run) # upload.chunk THEN allocators
                         ELSE [allocators EXCEPT !.chunk = ReleaseBuffer(@, chunk.id)]
        /\ UNCHANGED <<quietVars, sourceVars, failures, handled>>

(* 'end' of the batch: the caller gets the error, or what was stored is     *)
(* committed: by a block list, or by setting the properties.                *)
End ==
    /\ ~Calling
    /\ Random!Running("onEnd") /\ Random!ListenerReturns
    /\ IF error THEN Answer("error") /\ UNCHANGED committing
       ELSE committing' = committing + 1 /\ UNCHANGED answers
    /\ UNCHANGED <<upload, ready, sourceVars, chunkVars, assigned, failures, handled, stored>>

(* The commit answers the caller; the streams are finished.                 *)
CommitDone ==
    /\ EventLoop /\ committing > 0
    /\ committing' = committing - 1
    /\ \E outcome \in {"success", "error"} : Answer(outcome)
    /\ UNCHANGED <<batchVars, upload, ready, sourceVars, chunkVars, assigned, failures,
                   handled, stored>>

(* Nothing is left to do, and the caller was answered unless the file fails. *)
Stopped ==
    /\ EventLoop /\ (answers # <<>> \/ upload.fileFails)
    /\ \/ ready = "failed"
       \/ ready = "yes" /\ active = 0 /\ reads = <<>> /\ committing = 0
    /\ UNCHANGED vars

Internal ==
    \/ BuildChunk \/ Emission \/ ReadReturns \/ WriteReturns \/ EndReturns
    \/ BatchRuns \/ Ran \/ BatchSteps \/ Drain
    \/ UserCallbackStops \/ UserCallbackReturns \/ End
External ==
    \/ FileOpens \/ FileOpenFails \/ ReadEmits \/ ReadEnds \/ ReadFails
    \/ PipeWrites \/ PipeEnds \/ DestinationReady
    \/ CommitDone
    \/ \E i \in 1..Total, failed \in BOOLEAN : RequestDone(i, failed)
Next == Internal \/ External \/ Stopped

Spec == Init /\ [][Next]_vars

(* Functions run to their end; files are read, requests are answered or     *)
(* time out; a pipe that need not wait has more to write or ends.           *)
FairSpec ==
    /\ Spec
    /\ WF_vars(Internal)
    /\ WF_vars(FileOpens \/ FileOpenFails \/ ReadEmits \/ ReadEnds \/ ReadFails)
    /\ WF_vars(PipeWrites \/ PipeEnds) /\ WF_vars(DestinationReady) /\ WF_vars(CommitDone)
    /\ \A i \in 1..MaxOperations :
          WF_vars(\E failed \in BOOLEAN : i <= Total /\ RequestDone(i, failed))
-----------------------------------------------------------------------------
TypeOK ==
    /\ upload \in Uploads
    /\ ready \in {"no", "yes", "failed"} /\ fd \in {"opening", "open", "closed"}
    /\ position \in 0..upload.size /\ offset \in 0..upload.size
    /\ held \in BOOLEAN /\ awaiting \in BOOLEAN /\ unpiped \in BOOLEAN
    /\ sourceEnded \in BOOLEAN
    /\ Size(buffer.run) < upload.chunk
    /\ \A a \in {"source", "chunk"} : Len(allocators[a].pool) <= allocators[a].max
    /\ \A n \in 1..Len(calls) : calls[n].then \in {"read", "write", "end"}
    /\ Len(assigned) = Total
    /\ failures \cup handled \cup stored \subseteq 1..Total
    /\ committing \in Nat
    /\ ToSet(answers) \subseteq {"success", "error"}

(* An upload that reports success has stored every unit of the source up to *)
(* the length of the upload, each at its place, and left out only zeros,    *)
(* however the source was cut, paused, resumed or stopped.                  *)
Expected == IF upload.limit = 0 THEN upload.size ELSE Smaller(upload.limit, upload.size)
InPlace(i) ==
    /\ i \in stored
    /\ assigned[i].run.first = assigned[i].start + 1
    /\ Size(assigned[i].run) > 0
SuccessIsWhole ==
    "success" \in ToSet(answers) =>
        /\ \A i \in 1..Total : InPlace(i)
        /\ \A i \in 1..(Total - 1) : assigned[i].run.last < assigned[i + 1].run.first
        /\ 1..Expected \ UNION {Units(assigned[i].run) : i \in 1..Total}
              \subseteq (IF upload.kind \in {"page", "file"} THEN upload.zeros ELSE {})
        /\ Total > 0 => assigned[Total].run.last <= Expected

(* What a source must do for its upload to be whole: nobody hears a chunk   *)
(* that a program writes before the upload listens, so that a program has   *)
(* to start with less than a chunk, or with zeros that a file leaves out.   *)
StartsSmall(u) ==
    \/ u.source = "local"
    \/ Smaller(u.piece, u.size) < u.chunk
    \/ u.kind = "file" /\ 1..Smaller(u.piece, u.size) \subseteq u.zeros

(* A buffer whose chunk is still to be stored belongs to that chunk alone:  *)
(* no other chunk, no read and neither of the pools has it, although        *)
(* slices, foreign buffers and buffers released twice drift in and out.     *)
InFlight == {i \in 1..Total : status[i] # "complete"}
BuffersIntact ==
    /\ \A i, j \in InFlight : assigned[i].id = assigned[j].id => i = j
    /\ \A i \in InFlight :
          /\ assigned[i].id # buffer.id
          /\ \A n \in 1..Len(reads) : assigned[i].id # reads[n].id
          /\ \A a \in {"source", "chunk"} : assigned[i].id \notin ToSet(allocators[a].pool)
    /\ buffer # NoData => buffer.id \notin ToSet(allocators[Level].pool)

(* pause and resume never start a second read of a file while one is        *)
(* outstanding, nor one at an offset that was read already.                 *)
OneRead ==
    /\ Len(reads) <= 1
    /\ \A n \in 1..Len(reads) :
          reads[n].at = position /\ \A m \in 1..Len(calls) : calls[m].then # "read"

(* "callInOrder": an append blob gets one block after the other, as long as *)
(* its source gives no more than a block at once.                           *)
AppendsInOrder ==
    InOrder /\ upload.piece <= upload.chunk =>
        Cardinality({i \in 1..Total : status[i] = "running"}) <= 1

(* The counters of the batch agree with its operations, although chunks are *)
(* added by user callbacks and after completion was enabled.                *)
CountersAgree == Random!CountersAgree

(* No chunk has its user callback fired twice.                              *)
FiredOnce == Random!FiredOnce

(* The caller is answered, whichever requests fail, as long as the program  *)
(* does not write or end before the destination exists: back-pressure always *)
(* ends.  A file that cannot be opened or read is left out: nobody hears of *)
(* it (UploadFileFails.cfg).                                                *)
AnsweredAnyway == <>(answers # <<>>)
Answered == ~upload.fileFails => AnsweredAnyway

(* The commit is sent only when every chunk was stored, none failed and the *)
(* user callback of each has returned.                                      *)
CommitIsWhole ==
    committing > 0 => failures = {} /\ stored = 1..Total /\ InFlight = {}

(* The commit is the last request of an upload: it is sent once, nothing is *)
(* added, read or sent any more while it is outstanding, and an upload of   *)
(* which no chunk failed has one outcome, although the stream may be stopped *)
(* and ended several times and operations are added after completion was    *)
(* enabled.                                                                 *)
CommitsLast ==
    /\ CommitIsWhole
    /\ committing > 0 => committing = 1 /\ answers = <<>> /\ (reads = <<>> \/ fd = "closed")
    /\ failures = {} => committing + Len(answers) <= 1

(* "`error` will contain information if an error occurs; otherwise `result` *)
(* will contain the result": the caller is called back once.                *)
CalledBackOnce == Len(answers) <= 1
=============================================================================
