# Verification of the Azure Storage client library

TLA+ models of the parts of this library whose correctness depends on the order
of events: callbacks, timers, answers and failures. Every module is translated
from the source under `src/lib`; `PROJECT.json` maps each definition to the lines
it stands for, and lists the runs, the mutants every property is tested with, the
findings, the hazards and the theorems.

    tlc -config BatchSequence.cfg BatchOperation.tla     # a run
    tlapm BatchOperationProofs.tla                       # the proofs of a module

There are three groups of modules: the **transfers** (`BatchOperation`, `Delivery`,
`Ranges`, `Download`, `ChunkAllocator`, `Upload`), the **request** (`LocationMode`,
`RetryPolicy`) and the **methods** of the four services (`StorageRequests`,
`BlobOperations`, `FileOperations`, `QueueOperations`, `TableOperations`, `TableBatch`,
`StorageService`, `ServiceClient`). `MC...` modules hold the values TLC needs, `...Proofs`
modules the theorems.

## 1. The system

The library is a client of four storage services. One process, one JavaScript
thread: a function runs to its end before the event loop runs the next one, but
functions re-enter each other through callbacks and events.

| Part | Source | State | Operations |
|---|---|---|---|
| Concurrent batch | `lib/common/streams/batchoperation.js` | operations with their states, counters, current id, paused, error, enableComplete | addOperation, enableComplete, pause, resume, the callback of an operation; emits `drain` and `end` |
| Retry filters | `lib/common/filters/*.js` | retry context, last attempts, location and mode of the next attempt | handle, shouldRetry |
| Request pipeline | `lib/common/services/storageserviceclient.js` | expiry time, current location, outputStreamSent, listeners on the body stream | _performRequest, _validateLocation, withFilter |
| Upload | `_uploadContentFromChunkStream` in the blob and file service | block ids, block count, shared request options | the handlers of chunk stream and batch |
| Download | `_getBlobToRangeStream`, `_getFileToRangeStream` | saved result, MD5 | the handlers of range stream, batch and output stream |
| Range streams | `lib/common/streams/rangestream.js`, `blockrangestream.js` | range list, index, paused, emitted all | list, resize, emit, pause, resume, stop |
| Chunk streams and pool | `chunkstream.js`, `chunkstreamwithstream.js`, `chunkallocator.js` | internal buffer, offset, pool and buffers in use | write, end, stop, pause, resume; get and release a buffer |
| File read stream | `filereadstream.js` | offset, paused, flags | open, read, pause, resume, destroy |
| Speed summary | `speedsummary.js` | counters, a queue of timed sizes | increment |
| Services | `lib/services/{blob,file,queue,table}` | none (defaults only) | about 170 methods, each a sequence of requests; the state is the service's |
| Table batch | `lib/services/table/tablebatch.js` | operations, partition key, flags | add operations |
| Signing, SAS, parsers, validation, OData, settings, logger | `lib/common`, `lib/services/table/internal` | none | conversions |

How they interact: an **upload** feeds the chunks of a stream to a batch in random
mode, pauses the stream when `addOperation` says that the workload is heavy, resumes
it on `drain`, and commits on `end`. A **download** feeds ranges to a batch in
sequence mode, whose user callbacks write to the output stream in order and pause
the batch when that stream is full. Every operation of a batch is a request of the
**pipeline**, which the **retry filter** may send several times, to one of two
locations.

What is hard: requests that answer in any order or fail; user callbacks and
listeners that call the batch again while it is in the middle of a method;
back-pressure in both directions; retries with two locations, a shared context, an
execution time and bodies that can be sent only once; answers that are lost after
the service did what was asked.

What makes each part correct:

* batch: each callback fires once, in order in sequence mode, one by one; the end
  comes after everything else; no one waits forever; the counters are exact;
* retry and pipeline: attempts are bounded, spaced, in time and at a location that
  is allowed; a success is a success; the callback is called, once;
* upload: what is committed is what was read; download: what is written is the blob;
* range streams: the ranges emitted partition the range asked for;
* chunk streams and pool: the chunks concatenate to the data; no buffer is handed out twice;
* table batch: the rules of an entity group transaction hold for every batch that is sent;
* methods: what is reported as done was done, a failure has a cause, a listing is that of
  one location, and a condition that was given protects what others wrote.

## 2. The modules

### Delivery, BatchOperation, BatchOperationProofs

`Delivery` is what a batch promises: operations are submitted, settled, delivered
once (in order when `InOrder`), and after the close the batch finishes.
`BatchOperation` is the code. Its variables are the fields of the object under their
names without underscore (`status[i]` is the state of operation `i`, whose id is `i`:
ids are handed out consecutively), the **call stack** and three histories.

*The call stack.* The code is single-threaded but re-entrant, so that the state
between two calls matters. `stack` holds the calls in progress. A step runs from one
emission or callback to the next: `addOperation` up to the call of `_runOperation`
(`AddOperation`), `operation.run` (`RunRequest`, `RunNoOperation`, `RunAfterError`),
the rest after it returned (`Ran`), and so on. Only the innermost call steps; the
event loop (an answer, `resume`, more data) steps only when the stack is empty. This
keeps every interleaving that JavaScript allows and no other.

*The user.* `UserAdds`, `UserEnablesComplete`, `UserPauses` and `UserResumes` are
what a download does with its batch, which is in sequence mode, under the conditions stated
above them in the module: no stream ends while `addOperation` is in progress (a range
stream that is emitting does not emit again; `Download` checks it), and a user callback
may stop the stream again when completion is already enabled. An upload is another user: it
adds operations from user callbacks and after completion, and its callbacks nest. It
uses random mode (sequence mode for append blobs). `Next` and the runs and theorems about `BatchOperation` say nothing
of it; `Upload` composes the operations and steps of this module, in both modes,
with what an upload does, and has runs and theorems of its own. `IsWorkloadHeavy` is
exact for the counter; the report of the operating system on free memory is a
nondeterministic choice at each call.

*Shape of the code that matters.* The index of an operation is looked up before its
callback runs and used after it; `splice` with -1 removes the last element; the
constructors set the state to `OperationState.Inited`, which does not exist (the key
is `INITED`), and `addOperation` overwrites it. A failed operation is completed at
once when the batch has an error, before `addOperation` has counted it.

### RetryPolicy, MCRetryPolicy, RetryPolicyProofs

One request from the call of `_performRequest` to the caller's callback. `phase` says
what the pipeline waits for: a timer, the data of a stream, the answer, an `open`
event. `Operation` is the function `operation` of `_performRequest`; `Respond`, and
the failure of a stream, come back through the callback of the filter (`Returned`),
which decides (`WouldRetry`) and resends (`Resend`), with the helpers `RetryInfo`,
`RetryTarget`, `RetryMode` and `Delay` for the parts of `_handle`. The built-in
policies return the retry context itself as their answer, so the fields that the
filter stores in it survive to the next failure: `context` models that one object.
A custom policy returns a new object with any `retryable`.

Time is abstract and passes inside the steps that wait: an answer takes one of
`Latencies`, a timer is late by one of `Lateness`. `Request` is everything that the
caller chooses: location mode, kind of request, policy, body, expiry, conditions.

The service is external and modelled from its use (`Possible`, `server`): it may
store the body and answer with an error, a conditional append is stored once, and a
failed condition is answered only when the block is there (one writer, which the
documentation of `absorbConditionalErrorsOnRetry` asks for).

Not modelled: bodies of responses that are piped to a stream; the chain of several
filters; the zero-length stream that is not readable; the wait for `open` before the
first attempt; the error of the signer, which calls the caller directly; the clamping
of a negative time since the last attempt (the clock is monotone).

`MCRetryPolicy` has the sets of requests for TLC. `LocationMode` holds what this module
and `ServiceClient` share: the first location, the next one, and `_validateLocation`.

### Ranges, Download, MCDownload, RangesProofs, DownloadProofs

`Ranges` is the arithmetic of `rangestream.js`: `Turn` is one turn of the loop of
`resizeAndSaveRanges`, `Turns` the states of the loop over what was listed, `Split` is
`splitAndSaveRanges`, `Resize` what is saved in the end. A range is `[start, end, data]`; `data` is `FALSE` when `dataSize` is 0.
`Download` composes the range stream with the batch and the output stream, as the
handlers of `_getBlobToRangeStream` and `_getFileToRangeStream` connect them. The batch
is `Batch == INSTANCE BatchOperation` in sequence mode on the variables of `Download`:
its actions are used, not repeated, and `BatchAsModelled` (`Batch!Spec`) says that the
user of `BatchOperation` covers what the download does with its batch, so that what is
proved of the batch holds in a download.

The loop of `_emitRange` is one more call on the stack: `emitting` is the height of the
stack it was started at, and the loop takes its next step when the stack is back at that
height, since a listener may add an operation that completes at once and emits `drain`,
whose listener calls `resume` of the range stream that is emitting. The code's `_paused`
is `waiting` (set because the workload was heavy, the variable of the batch) or `halted`
(set by `stop`, or after the operation was fired already); `resume` clears both.
`_isEmitting` is `emitting # None`. `blob` is what is downloaded: its size, the offsets
that hold data or those at which its blocks begin, the part asked for, and whether a
listing may fail. The service's listing
(`DataRanges`) and the output stream (`OutputDrains`, `OutputEnds`) are external. An
ended output stream does not emit `drain` any more, as Node's does not. Data is
abstracted to the range it came from: `output` is the sequence of ranges written.

A block blob is listed at once (`BlocksAnswer`); its blocks are clipped to the part asked
for (`Clip`). `_emitBlockRange` also passes by the blocks behind that part and may be
paused there (`Visiting`); the two nested loops of `BlockRangeStream` otherwise stop and
go on as that of `_emitRange`, so that they share its actions.

Not modelled: a blob that is written while it is downloaded (the requests carry no
condition on its ETag), MD5, the size check before the download (`DownloadAssumption`:
something is to be read).

### ChunkAllocator, Upload, MCUpload, UploadProofs, UploadDataProofs

`ChunkAllocator` is the buffer pool as operators on the record of one allocator. `Upload`
is `_uploadContentFromChunkStream` and `_createFileFromChunkStream` with everything they
connect: the source (`FileReadStream`, or the program that pipes into the stream it was
given), the chunk stream, its pool and that of the source, the batch (`Random` and
`Ordered`, two instances of `BatchOperation`; an append blob uses the latter) and the
commit. `upload` is what is uploaded: kind of blob, source, size, `streamLength`, what the
source gives at once, chunk size and the zeros.

Data is a run of numbered units together with the number of the buffer it lies in, so that
both what is stored and where it lies can be stated. `calls` are the calls of the chunk
stream in progress, each with the height that the stack of the batch had: the innermost
call of both kinds steps. `BuildChunk` is one turn of `_buildChunk`, `Emission` the
listener of `data` for a chunk (`EmitLost` before anybody listens, `EmitBeyond` after the
length of the upload, `EmitZeros` for zeros that pages and files skip, `EmitChunk`);
`Stop` is `ChunkStream.stop`, which emits `end` each time it is called.

A file may fail to be opened or read (`FileOpenFails`, `ReadFails`, for the uploads with
`fileFails`). The code emits `error` then, to which nobody listens, so that the exception
leaves the callback of `fs`; the model goes on as a program that catches it. Every copy of
data that was read returns the whole read buffer to the pool of the source, again and
again if the buffer is copied in parts (`AfterCopy`): that pool may hold a buffer several times.

External: the file system, the program that writes, the service's answers.
Not modelled: the MD5 of the whole, the speed summary, the prefix of block ids.

### StorageRequests, BlobOperations, FileOperations, QueueOperations, TableOperations

The methods of the services have no state of their own. What can be wrong with them is
which requests they send, in which order, where, with which of the options that the
program gave, and what they make of an error. That is what these modules tabulate:
a `Request` has the location mode that the method asks for (`where`), the options that
are passed on (`with`), and the errors that mean "no" (`absorbs`), are not looked at
(`ignores`) or make the callback throw (`chokes`; that there is no answer at all does so only
when the options have an `EtagNonMatch`), and whether a segment of a listing that is
empty is taken for the last one (`endsEmpty`, for `listQueues`). A `Method` has the options that its
documentation names (`takes`, `must`) and its possible sequences of requests
(`programs`). Every public method of the four services that sends a request is an entry,
read from its body.

### StorageService, ServiceClient, TableBatch, MCServiceClient, ServiceClientProofs

`ServiceClient` performs one call of a method: `RequestSent` (the location is chosen or
refused), `Answered` and `AnswerLost` (the filter sends the request again, or the callback
gets an error), with `Succeeded` and `Failed` for the callbacks of the methods. The one
resource the call names has a copy at each of two locations (`at`), with a version, its
author and a lease; `StorageService` says what the service answers and what a request
changes, as far as the code relies on it (external). Other clients write, delete and take
leases between any two steps (`OtherRequest`, `OtherRemovesParent`); the secondary is
brought up to date at any time (`Replicated`). ETags, pop receipts and the position of
an append are versions. `history` records what the properties need: which requests took
effect, what was there at some time of the call, what was read and replaced.

`TableBatch` has the methods of that class as operators on its value; `ServiceClient`
lets the program fill one (`EntityAdded`, `OperationRemoved`, `BatchCleared`) and execute it.

`MCServiceClient` makes the calls: every method, with every location mode and all options
that its documentation names, but for some of the defects below (`AskedFor`, `Odd`), so that the
run shows what is right about all others.

## 3. The runs

| Run | Question | Bounds |
|---|---|---|
| `batch_sequence` | Does the batch of a download deliver in order, whatever happens? | concurrency 2, 4 operations: two waiting behind a slow one while a further one is added, paused or failed (11,490 states) |
| `retry` | Do retries of reads and writes go where and when they may, and end, in time, with a true outcome? | retryCount 1 (three attempts), interval 2, answers in 0 or 3 units, timers late by 0 or 1, all combinations of modes, hosts, policies and bodies, one `data` event |
| `download` | Does a download write exactly what was asked for, and end? | concurrency 2; pages of 2 bytes, ranges of 4 to 8, listings of 16, a blob of 18: every range may be merged, split, padded, and the listing has two pages; 68 layouts of pages, parts of files, append blobs, 7 lists of up to 6 blocks, failing listings (120,428 states) |
| `upload` | Is what is committed what was read, in whatever pieces it came and whichever request, read or open failed? | two threads, two sockets each, chunks of 2 units, 5 to 8 units in pieces of 1 to 4: pieces smaller, equal to, not dividing and larger than a chunk, up to four chunks for pools of two buffers; lengths above and below the size (93,564 states) |
| `services` | Are the outcomes of all methods true, and are locations, conditions and batches respected? | three segments at each location, table batches of up to 3 operations after 5 edits, one lost answer, two requests of other clients: one before and one between the two requests of a method (2,776,762 states) |
| `download_odd_file`, `download_list_fails` | findings | a file of 17 bytes, one more than a listing; a file whose listing fails |
| `retry_secondary_miss`, `retry_count` | findings | reads with the built-in policies |
| `retry_answered_once` | finding | collected writes with two `data` events |
| `services_success` | finding | `appendFromText` |
| `services_race` | finding | the IfExists methods of containers, shares and directories |

Three attempts are enough to see the shared context change a later retry, and an
interval shorter and longer than an answer makes `Delay` positive, zero and negative.

Four further configurations are kept beside the runs; each ends with a counterexample:

* `UploadFileFails.cfg` (`AnsweredAnyway`): a file that cannot be opened or read leaves the
  caller of the upload without an answer;
* `UploadCalledBack.cfg` (`CalledBackOnce`): the caller of an upload is called back twice
  when a chunk fails while a read of the file is outstanding;
* `UploadEarlyWrite.cfg` (`SuccessIsWhole`): a program that pipes a first piece as large as a
  chunk into a stream to a new page or append blob loses it, since nobody listens until the
  blob is created;
* `RetryAlternates.cfg` (`LocationsAlternate`): `retrypolicyfilter.js:117` says that the
  location is calculated from the previous one if the policy returns none; the built-in
  policies return the shared context, so that the target of the first retry stays for all
  later ones.

Every property of a passing run has a mutant: a definition of the model changed as a
plausible bug of the code would change it ("Plausible bug" in the modules), which the
run must find.

### Fairness

* Batch: a step of the call stack is taken (`WF(Step)`: a JavaScript function runs to
  its end); each request that is running calls back (requests have a client timeout);
  a full output stream drains (`UserResumes`); a stream that does not wait
  for `drain` ends (`UserEnablesComplete`);
  a user callback, which may call the batch before it returns, does return
  (`SF(UserCallbackReturns)`).
  Nothing forces the producer to add an operation.
* Request: `WF(Next)`: timers fire, requests are answered or time out, streams end or
  fail. Nothing is assumed of the answers.
* Upload: as the batch; opens, reads and commits call back, the destination is
  created or fails, a pipe that need not wait has more to write or ends.
* Download: functions run to their end (`WF(Internal)`), a listing answers or fails,
  each read calls back, a full output stream drains, an ended one calls back. Nothing is
  assumed about who resumes whom: that is what `Answered` checks.

### What disagrees with the code's own words

* `SecondaryMissRetried`: a 404 from the secondary is not retried by the built-in
  policies, although the comment says that it is retryable. More generally these
  policies retry a server error only with `absorbConditionalErrorsOnRetry`: `retryable`
  is never set otherwise, and what is retried are the five network errors.
* `RetryCountKept`: `retryCount` is documented as "the client retry count", but the filter
  retries once more, since it compares the counter before it is incremented.
  `AttemptsBounded` is the bound that holds.
* `AnsweredOnce`: a stream that is collected past the execution time makes the
  callback be called again and again, and the request is still sent.
* `LastRangeKept`: the last range of a listing is dropped when it has one byte, although
  the comment says that it is put into the list anyway; a file of 148 MB + 1 byte loses
  its last byte and the download reports success.
* `Answered` with `FailingFiles`: `_getFileToRangeStream` gives `list` no callback, so
  that a listing that fails throws a `TypeError` and the caller is not answered.
* `SuccessTrue` with `TextCalls`: `appendFromText` reports success although its append
  failed, when the blob's properties can be set afterwards.
* `RacesAbsorbed`: `deleteContainerIfExists`, `deleteShareIfExists` and `deleteDirectoryIfExists`
  look at `statuscode` instead of `statusCode`, so that the race their comment speaks of ("If it
  was deleted already, there was no actual error") is reported as an error.

Met while modelling, without a run of their own. `services` includes the first group, whose
effects `FailuresExcused` and `ListingComplete` allow for; the rest is left out of the calls and
uploads of the passing runs, or has no effect on their properties:

* `createQueueIfNotExists` sets a property of a result that is missing in the race, and throws;
  `createContainerIfNotExists` and those of shares and directories answer `callback(null, null)`
  then, although their documentation promises `created`; `deleteBlobIfExists` and
  `deleteShareIfExists` throw for bad snapshot arguments only after the check has been
  answered. An upload with `EtagNonMatch` `'*'` whose first look at the blob gets no answer
  throws (`response.statusCode` with `response` null, `blobservice.core.js:4471`).
  `listQueues` reads the marker only when the segment has queues, so that a listing ends early
  at an empty segment (`queueservice.js:284-305`).
* Options that are dropped: uploads of pages and appends end with `setBlobProperties`
  without options, so that the holder of a lease is refused, and their chunks carry no
  conditions; ranged downloads drop conditions, lease and mode; `getBlobToStream` asks for the
  properties without lease and mode, and throws late for `SECONDARY_ONLY`; `listBlocks`
  does not send the lease; a share snapshot is not passed on to the listing of a file's ranges.
* Appends and `createWriteStreamToBlockBlob` first read, perhaps at the secondary, and act
  on what was there; an `acquireLease` whose answer is lost leaves a lease nobody knows.
* `TableBatch.clear` leaves the flag of a retrieval: nothing can be added afterwards
  (`ClearsRetrieval`).
* Batch: in random mode a failed operation stays in `_operations` and another one is
  removed in its place (`splice(-1, 1)`). The length stays right (`CountersAgree`), so
  the batch still ends.
* Streams: a buffer that the user wrote goes to the pool when it has the size of a chunk;
  `createWriteStreamToNewFile` resumes the stream before its listeners are attached. The answer
  to a ranged read that is shorter than its range is only logged (`blobservice.core.js:5576`);
  `Download` supposes that it is not.

## 4. The proofs

All theorems hold for every value of the constants that satisfies the assumptions of
the module (`BatchAssumption`, `RetryAssumption`; `RangeAssumption` and `DownloadAssumption`;
`UploadAssumption`; `BoundsAssumption`, `CallsAssumption` and `OriginsAssumption` of `ServiceClient`), which TLC
evaluates for the values of the runs. `MaxOperations`, the bound that keeps TLC's instances
finite, is a constant of the theorems like the others: they hold whatever it is.

**Batch.** `TypeCorrect` first. `SequenceInv` is the inductive invariant of sequence
mode, checked by TLC in `batch_sequence` before it was proved. The properties are not
inductive: that the next callback to fire is that of the current operation depends on
where the calls in progress stand. It has three parts. `StackInv`: each call on the
stack refers to an operation in the right state; only calls that may be suspended lie
below the top. `ProgressInv`: operations below `current` are complete and
`operations` is exactly the sequence `current..Total`, so that the index looked up is
always the first. `CallbackInv`: at most one user callback is in progress, and
`fired` is `1..current-1` or `1..current`. The proof has a lemma on how a push, a pop
and a replacement affect `StackInv`, and one lemma per action. `FiresInOrder`,
`FiresOneByOne`, `NeverDebugError` and `EndIsFinal` follow from it.

`NothingLost` needs one more: `PendingInv` says that an operation that is
queued has the call that will run it, and that some call fires the callback of the current
operation once it may be fired.

**Download.** `RangesProofs` is about the arithmetic. `SplitCovers`: the pieces of a range
partition it. `ResizeSaves`: what the loop of `resizeAndSaveRanges` saves of any listing is a
partition of it that drops no data, or a partition of all but the last byte, when the last range
of the listing is that single byte (the defect below). The loop is a recursive function; that it
is one, and that each turn keeps its invariant (`LoopInv`: what was saved ends where the range
being held begins), is proved by taking the least turn that does not.

`DownloadProofs` starts with the two listings, which are proved to be in order and complete
(`ListPage`, `BlocksSaved`). `Inv` is the inductive invariant, in five parts that need each other: the
invariant of the batch, which a download inherits because each of its steps is a step of the
batch's `Next` (`StepIsBatchStep`); the types; `UnlistedBlocks` (nothing happens before the
blocks are listed); `EmissionInv`: the loop of `_emitRange` was started where nothing or the
listener of `drain` was running, what runs above it was called by it, on behalf of the last
operation added, and at most one `addOperation` is in progress, above it; `FailureInv`: what is known of a
failed operation where, and that the range stream is stopped once the user callback of a
failed read is over. The last two cannot be separated: the stream is not stopped in the middle of
an emission only because a failure there is never the first one. From `Inv` follow
`DownloadTypeCorrect`, `DownloadUsesBatch` (`BatchAsModelled`, a refinement: a download is a behaviour of
`Batch!Spec`) and, with the theorems about the batch, `DownloadWritesInOrder`.

Three invariants stand on it. `EndInv` (`DownloadCallsBackOnce`): after `end` nothing of the
batch runs that could end it again, so that the answers given, the calls of `end` that have not
called back and the listener of `end` are together at most one. `ListInv` and `OutputInv`
(`DownloadSuccessIsWhole`): the ranges saved so far are a partition of the pages listed so far, the
ranges of the operations are the first of those, and the output has those of the operations
whose user callback has done its work, unless one of them failed. Its hypothesis, `WholePages`, is that no page of
a listing ends with a range of a single byte; TLC evaluates it for the blobs of the run
(`LayoutsAreWhole`), and `download_odd_file` shows what happens without it. `BoundInv`
(`DownloadBoundsRequests`): `active` is the number of operations that are not complete, but for
the one that is being added; as many reads as are allowed are in flight only when the range
stream is paused, or will be when `addOperation` returns; whatever else runs inside
`addOperation`, there are less. TLC checked these invariants on the run before they were proved.

**Upload.** An upload is no user of the batch as `BatchOperation` describes one: it adds operations
from user callbacks and from `drain`, user callbacks are nested, and the batch is in sequence mode for
an append blob and in random mode otherwise. What `UploadProofs` needs of the batch is therefore proved anew, for
both modes at once; only the lemmas about stacks and splices are taken from `BatchOperationProofs`.
`UploadInv` is the inductive invariant. `TypesInv`: the types, among them those of the data cut from the source
and of the two pools. `BatchInv`: each call on the stack refers to an operation in the right state, what
failed is settled at once, and the operations fired are those that are complete or whose user
callback is in progress (`FiringsInv`). `HeightInv`: the calls of the chunk stream and those of the
batch are one stack, and what lies below a call of the chunk stream is the event loop, a `drain` listener
or the user callback of a chunk that failed. `UploadFiresOnce` follows. For `UploadCountersAgree`, `CountsInv`
relates the counters to the operations: as many ids are kept as operations are unfinished, `queued` counts
those without an answer, and `active` is the number of the unfinished ones less those that
`_runOperation` has not counted yet.

`UploadReadsOnce` is about the source. `FailedInv`: the user callback of a failed chunk does not
return before it has stopped the stream, and the error of the batch is that of a failed chunk. `ReadInv`
says when a read may be started: a source that is held has none outstanding (`HeldInv`); while the
chunks of a read are emitted, the batch is only inside `addOperation`, which either returns or, through
the callback of a chunk that fails at once, stops the stream (`CallInv`), so that no `drain` is emitted there; when
the chunk stream is idle, `active` counts every unfinished operation (`QuietInv`), and an append blob
is read only while none is (`ActiveInv`). TLC checked these invariants, on the scenarios of `upload` and
on larger ones, before they were proved. The theorems hold for every set of scenarios, pool
and concurrency.

`UploadDataProofs` follows the data. `DataInv` (`UploadTypeCorrect`) says where each unit of the source is: what
was given is what was emitted, what is about to be emitted, what the internal buffer holds and what is left
of the data of the outermost call, one after the other (`FlowInv`); only the innermost call emits, only the
outermost one has data to look at (`ShapeInv`). It rests on the
control flow (`ControlInv`, at the end of `UploadProofs`): in sequence mode the operations before the current one are complete, an operation is
added by a call of the chunk stream, a program writes only when no call is in progress, and while a write is,
the calls of the batch above it are those of one `addOperation`.

* `UploadSuccessIsWhole`: `EarlyInv` bounds what a program writes before the destination is ready to one piece;
  `KeptInv`: `offset` counts all that the stream has emitted; `LedgerInv`: the chunks lie one behind the
  other, each at its place, and only zeros that may be skipped lie between; `StoredInv` to `SuccessInv`:
  what is committed follows the end of the source, or of the length of the upload, and no failure. Its
  hypothesis, `StartsSmall`, is that a program which pipes starts with less than a chunk, or with zeros of
  a file; TLC evaluates it for the scenarios of the run (`TypicalStartsSmall`), and `UploadEarlyWrite.cfg`
  shows what happens without it.
* `UploadAppendsInOrder`: `HeavyInv` (while an operation is active, the source is held) and `LoneInv`
  (one call of the chunk stream at a time, before it is stopped); when no call is in progress and data may come, nothing is
  running (`GiveInv`); while data is cut, at most one more chunk comes out of it, so that the one that is
  full was added when nothing was running (`CutInv`, `RunInv`). It speaks of a source that gives
  no more than a block at once, as `AppendsInOrder` does.
* `UploadBuffersIntact`: `OwnersInv` lists everyone who has a buffer (two pools, the chunks that are
  to be stored, the internal buffer, the chunk about to be emitted, the data given, the read outstanding)
  and says which of them may have the same one: only the pool of the source, which each copy gives the read
  buffer again so that it may hold it several times, and what is left of a read of a file into a block. That
  nobody but the chunk has the buffer of a chunk which is to be stored is not inductive without the others.
* `UploadCommitsWhole`: the part of `CommitsLast` that data depends on, from `DoneInv`. That the commit is
  sent once, and is the last request, is model-checked.

TLC checked these invariants on the scenarios of `upload`, too.

**Request.** `TypeCorrect`; then one strengthening per property. `CountInv` relates the
number of attempts to `context.count`; `ExpiryInv` bounds every start; `LocationInv`
says that the mode and the location kept in the options and in the shared context are
allowed by the request, once an attempt was made; `StoredInv` relates `server`, the
error recorded in the context and the answers given. The step of the invariant is
proved per action, with the return through the filter as a lemma.

`LeavesForGood` and `KeepsInterval` are about the context that lives on between
retries. For the first, `LeaveInv` says that after a miss of the secondary the location and
the mode of the next attempt are those of the primary if the request allows it, in the
options and, for the built-in policies, in the context. For the second, `SpaceInv` relates the clock, the last attempt
recorded for each location and the timer: `HomeInv` that where the filter aims at is where
the pipeline sends, `LastInv` that no attempt ended after the one recorded, `ClockInv` that
none of those is in the future, `WaitInv` that the timer that is set reaches the interval
after it.

**Methods.** `CallsAssumption` is what the tables of requests have in common (a
changing request asks for the primary, a token belongs to a listing). Some theorems need more
of a method, as their hypothesis, which TLC checks of every call through `TypeOK`. `AreRegular`, for successes and
conditions: conditions are passed on to every write, only reads have an error ignored, an IfExists
method is a check and a delete. `AreSteady`, for failures: a method passes the lease on, and a request before the last one
neither asks for more than the last one, nor elsewhere, nor stands in its way. Every method is so
with the calls of `AllCalls`; one may throw late, or report a race. `appendFromText` (`ServicesSuccess.cfg`) is not regular. `SendsValidBatch` supposes that a batch with a
retrieval is not cleared. `TypeInv` adds the types of the history, and that version 1 is
not by others. `RouteInv`: where a request is sent, the mode is the one that keeps it there
when it is sent again. `ListInv`: until the end what was received are the segments before
the one that the token names, all of its location. `BatchInv`: the key and the flag of a
batch describe its operations. `SuccessInv`: what is there now was noted as seen, the
changes before the current step took effect, and only the version that was named was read.
`FailuresAreExcused` needs to know that an undisturbed call is granted all of its requests if it is
entitled to the last one: `CourseInv` says that, until an answer is lost or another client writes, the
copies are those that were there at first, or the primary has what the call itself wrote under the same lease, and
that the position it goes on with is the present one; `ThrowInv` that what was sent once is not
refused later, with a mode, an argument or a token.
With them the theorems hold for methods of any number of requests, any number of segments,
lost answers and other clients' writes.

Every invariant that a passing run checks is the subject of a theorem (of `CommitsLast`, its first
part). Only model-checked are, being out of the prover's
reach, the liveness properties (`Answered` of a download is one) and the refinement `DeliversInOrderOnce`,
of which `FiresInOrder`, `FiresOneByOne` and `EndIsFinal` are the core. What TLC alone shows, too, is that the hypotheses
of the theorems hold of the methods and scenarios as the source has them.

## 5. What is not modelled, and what could come next

* Signing, SAS, parsers, validation, OData, settings: no state; what they compute is tested
  by examples. The speed summary only formats counters. XHR requests and the file reader of the
  browser builds are I/O (their methods are in the tables).
* Requests: response bodies piped to a stream, the chain of several filters, the zero-length
  stream that is not readable, the error of the signer.
* Contents: MD5, snapshots, copies, visibility timeouts, the multipart body of a table
  batch. A resource is a version with an author and a lease; its data is modelled only in the transfers.
* A blob that changes during a download in several requests, and zeros that are uploaded
  over existing pages: both mix old and new, and no document says what is promised.
* `writeZerosToStream` with more than one buffer: ranges are at most 4 MB, unless an option
  that is not documented makes them larger.

Next: a blob that is written between two reads of a download, and the chain of several filters.
