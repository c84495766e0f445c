--------------------------- MODULE BatchOperation ---------------------------
(***************************************************************************)
(* The concurrent batch of src/lib/common/streams/batchoperation.js.       *)
(*                                                                         *)
(* A producer (a chunk stream or a range stream) adds operations; each is  *)
(* started at once, completes later or synchronously, and its user         *)
(* callback is fired either as soon as it completes (random mode, uploads) *)
(* or in the order of the operation ids (sequence mode, downloads).        *)
(*                                                                         *)
(* JavaScript runs one function at a time, but the functions of a batch    *)
(* re-enter each other: a user callback stops the stream, whose 'end'      *)
(* listener calls enableComplete, which emits 'drain', whose listener adds *)
(* another operation.  The variable stack holds the calls in progress, the *)
(* innermost last; while it is not empty only the innermost call steps.    *)
(* Every step runs from one emission or callback to the next.              *)
(***************************************************************************)
EXTENDS Integers, Sequences, FiniteSets

CONSTANTS
    CallbackInOrder, \* options.callbackInOrder: sequence mode or random mode
    Concurrency,     \* setConcurrency: operations that may be outstanding
    SharedRequest,   \* requests one socket is shared by (enableReuseSocket)
    MaxOperations    \* bound: operations the producer may add

ASSUME BatchAssumption ==
    /\ CallbackInOrder \in BOOLEAN
    /\ Concurrency \in Nat \ {0}
    /\ SharedRequest \in {1, 2}
    /\ MaxOperations \in Nat

VARIABLES
    status,     \* status[i]: the state of operation i; Len(status) = _totalOperation
    operations, \* _operations: ids of the operations that are not removed yet
    current,    \* _currentOperationId
    active,     \* _activeOperation
    queued,     \* _queuedOperation
    paused,     \* _paused
    error,      \* _error is set
    completing, \* _enableComplete
    ended,      \* _ended
    stack,      \* the calls in progress, the innermost last
    waiting,    \* the producer saw a heavy workload and waits for 'drain'
    fired,      \* history: ids of the operations whose user callback was fired
    endings     \* history: how often 'end' was emitted

batch == <<status, operations, current, active, queued, paused, error,
           completing, ended>>
vars == <<status, operations, current, active, queued, paused, error,
          completing, ended, stack, waiting, fired, endings>>

OperationState == {"queued", "running", "callback", "error", "complete"}

(***************************************************************************)
(* Calls in progress: "run", "fire", "tryEnd" and "tryDrain" are about to  *)
(* execute the function of that name, "succeed" and "fail" the callback of *)
(* an operation without and with an error; "ran" is _runOperation after    *)
(* operation.run returned; "userCallback", "onDrain" and "onEnd" are code  *)
(* of the batch's user, which may call the batch again.                    *)
(***************************************************************************)
Pcs == {"run", "ran", "succeed", "fail", "fire", "userCallback",
        "tryEnd", "tryDrain", "onEnd", "onDrain"}

Frame == [pc : Pcs, op : Nat, index : Nat]
Call(pc, op) == [pc |-> pc, op |-> op, index |-> 0]

Top == stack[Len(stack)]
Running(pc) == stack # <<>> /\ Top.pc = pc
Caller == SubSeq(stack, 1, Len(stack) - 1)
Idle == stack = <<>>
CallsOf(s, pc) == {n \in 1..Len(s) : s[n].pc = pc}
InProgress(pc) == CallsOf(stack, pc)
Settling == Running("succeed") \/ Running("fail")

Total == Len(status)
-----------------------------------------------------------------------------
(* IsWorkloadHeavy.  Free memory is the environment's: low memory may be    *)
(* reported or not at every evaluation.                                     *)
IsWorkloadHeavy(count, lowMemory) ==
    count >= SharedRequest * Concurrency \/ lowMemory

(* Plausible bug: the workload alone decides on "drain".                   *)
ShouldDrainMemoryOnly(lowMemory) == ~IsWorkloadHeavy(active, lowMemory)

(* The condition of _tryEmitDrainEvent.                                     *)
ShouldDrain(lowMemory) ==
    ~IsWorkloadHeavy(active, lowMemory) \/ active < Concurrency

(* _getCallbackOperationIndex: the position in operations of the operation  *)
(* whose callback may be fired next, 0 when there is none.                  *)
MayFire(i) == status[i] = "callback" /\ (CallbackInOrder => i = current)
CallbackOperationIndex ==
    LET ready == {n \in 1..Len(operations) : MayFire(operations[n])}
    IN  IF ready = {} THEN 0
        ELSE CHOOSE n \in ready : \A m \in ready : n <= m

(* Array.prototype.splice(index, 1) where index 0 stands for the code's -1, *)
(* which counts from the end and removes the last element.                  *)
Splice(s, index) ==
    CASE index = 0 -> SubSeq(s, 1, Len(s) - 1)
      [] index \in 1..Len(s) -> SubSeq(s, 1, index - 1) \o SubSeq(s, index + 1, Len(s))
      [] index > Len(s) -> s

Init ==
    /\ status = <<>> /\ operations = <<>>
    /\ current = IF CallbackInOrder THEN 1 ELSE -1
    /\ active = 0 /\ queued = 0
    /\ paused = FALSE /\ error = FALSE /\ completing = FALSE /\ ended = FALSE
    /\ stack = <<>> /\ waiting = FALSE
    /\ fired = <<>> /\ endings = 0
-----------------------------------------------------------------------------
(* The operations of the batch, called from the stack of calls s.           *)

(* addOperation, up to the call of _runOperation.                           *)
AddOperationAs(state, s) ==
    /\ status' = Append(status, state)
    /\ operations' = Append(operations, Total + 1)
    /\ queued' = queued + 1
    /\ stack' = Append(s, Call("run", Total + 1))
    /\ UNCHANGED <<current, active, paused, error, completing, ended,
                   waiting, fired, endings>>

(* Plausible bug: the state set by the constructor is kept.                *)
AddOperationInited(s) == AddOperationAs("inited", s)

(* The constructor sets the state to OperationState.Inited, which is not    *)
(* defined (the key is INITED); addOperation sets it to QUEUED.             *)
AddOperation(s) == AddOperationAs("queued", s)

EnableComplete(s) ==
    /\ completing' = TRUE
    /\ stack' = Append(s, Call("tryEnd", 0))
    /\ UNCHANGED <<status, operations, current, active, queued, paused, error,
                   ended, waiting, fired, endings>>

Pause ==
    /\ paused' = TRUE
    /\ UNCHANGED <<status, operations, current, active, queued, error,
                   completing, ended, stack, waiting, fired, endings>>

(* Plausible bug: resume does not fire what was held back.                 *)
ResumeSilently(s) ==
    /\ paused
    /\ paused' = FALSE
    /\ UNCHANGED <<status, operations, current, active, queued, error,
                   completing, ended, stack, waiting, fired, endings>>

Resume(s) ==
    /\ paused
    /\ paused' = FALSE
    /\ stack' = Append(s, Call("fire", 0))
    /\ UNCHANGED <<status, operations, current, active, queued, error,
                   completing, ended, waiting, fired, endings>>
-----------------------------------------------------------------------------
(* The steps of the batch itself.                                           *)

(* _runOperation after an operation failed: the callback is called at once  *)
(* with the previous error.                                                 *)
RunAfterError ==
    /\ Running("run") /\ error
    /\ stack' = Append(Append(Caller, Call("ran", Top.op)), Call("fail", Top.op))
    /\ UNCHANGED <<batch, waiting, fired, endings>>

(* _runOperation: operation.run starts a request that completes later...    *)
RunRequest ==
    /\ Running("run") /\ ~error
    /\ status' = [status EXCEPT ![Top.op] = "running"]
    /\ stack' = Append(Caller, Call("ran", Top.op))
    /\ UNCHANGED <<operations, current, active, queued, paused, error,
                   completing, ended, waiting, fired, endings>>

(* ...or calls back before it returns, as noOperation does.                 *)
RunNoOperation ==
    /\ Running("run") /\ ~error
    /\ status' = [status EXCEPT ![Top.op] = "running"]
    /\ stack' = Append(Append(Caller, Call("ran", Top.op)), Call("succeed", Top.op))
    /\ UNCHANGED <<operations, current, active, queued, paused, error,
                   completing, ended, waiting, fired, endings>>

(* The end of _runOperation and of addOperation.  A producer told that the  *)
(* workload is heavy may wait for 'drain'; it does not wait for an          *)
(* operation whose callback was fired already: the download ignores the     *)
(* answer for a zero range, and a failed operation has stopped the stream.  *)
Ran ==
    /\ Running("ran")
    /\ active' = active + 1
    /\ stack' = Caller
    /\ \/ UNCHANGED waiting
       \/ /\ status[Top.op] # "complete"
          /\ \E lowMemory \in BOOLEAN : IsWorkloadHeavy(active + 1, lowMemory)
          /\ waiting' = TRUE
    /\ UNCHANGED <<status, operations, current, queued, paused, error,
                   completing, ended, fired, endings>>

(* A request answers: its batch callback runs from the event loop.          *)
RequestDoneIn(states, i, failed) ==
    /\ Idle
    /\ status[i] \in states
    /\ stack' = Append(stack, Call(IF failed THEN "fail" ELSE "succeed", i))
    /\ UNCHANGED <<batch, waiting, fired, endings>>

(* Plausible bug: a request calls back twice.                              *)
RequestDoneAgain(i, failed) == RequestDoneIn({"running", "callback", "complete"}, i, failed)

(* A request that is running answers.                                       *)
RequestDone(i, failed) == RequestDoneIn({"running"}, i, failed)

(* The function made by getBatchOperationCallback.  It fires the user       *)
(* callback unless the batch is paused or, in sequence mode, an earlier     *)
(* operation has not been fired, and at last tries to emit 'drain'.         *)
SettleWith(fires) ==
    LET failedState == IF paused \/ CallbackInOrder THEN "callback" ELSE "error"
    IN  /\ Settling
        /\ queued' = queued - 1
        /\ error' = (error \/ Running("fail"))
        /\ status' = [status EXCEPT ![Top.op] =
                          IF Running("fail") THEN failedState ELSE "callback"]
        /\ stack' = LET s == Append(Caller, Call("tryDrain", 0))
                    IN  IF fires THEN Append(s, Call("fire", Top.op)) ELSE s
        /\ UNCHANGED <<operations, current, active, paused, completing, ended,
                       waiting, fired, endings>>

MayFireNow == ~paused /\ (CallbackInOrder => current = Top.op)
(* Plausible bug: the order is not looked at.                              *)
CallbackOutOfOrder == SettleWith(~paused)
(* The callback of getBatchOperationCallback.                               *)
BatchOperationCallback == SettleWith(MayFireNow)

(* _fireOperationUserCallback: the index is looked up before the callback   *)
(* runs, also when the operation is given.                                  *)
FireUserCallback ==
    LET index == CallbackOperationIndex
        i == IF Top.op # 0 \/ index = 0 THEN Top.op ELSE operations[index]
    IN  /\ Running("fire") /\ ~paused /\ i # 0
        /\ stack' = Append(Caller, [pc |-> "userCallback", op |-> i, index |-> index])
        /\ fired' = Append(fired, i)
        /\ UNCHANGED <<batch, waiting, endings>>

FireWhilePaused ==
    /\ Running("fire") /\ paused
    /\ stack' = Append(Caller, Call("tryDrain", 0))
    /\ UNCHANGED <<batch, waiting, fired, endings>>

FireNothing ==
    /\ Running("fire") /\ ~paused
    /\ Top.op = 0 /\ CallbackOperationIndex = 0
    /\ stack' = Append(Caller, Call("tryEnd", 0))
    /\ UNCHANGED <<batch, waiting, fired, endings>>

(* The user callback returned: the operation is removed, in sequence mode   *)
(* the next id becomes current, and the next callback is looked for.        *)
RemoveOperation(decrement, advance, next) ==
    /\ Running("userCallback")
    /\ operations' = Splice(operations, Top.index)
    /\ active' = active - decrement
    /\ status' = [status EXCEPT ![Top.op] = "complete"]
    /\ current' = IF CallbackInOrder THEN current + advance ELSE current
    /\ stack' = IF next THEN Append(Caller, Call("fire", 0)) ELSE Caller
    /\ UNCHANGED <<queued, paused, error, completing, ended, waiting, fired,
                   endings>>

(* Plausible bug: a failed operation stays active.                         *)
ReturnsKeepingFailed ==
    RemoveOperation(IF status[Top.op] = "error" THEN 0 ELSE 1, 1, TRUE)
(* Plausible bug: what waited for this one is not fired.                   *)
ReturnsWithoutNext == RemoveOperation(1, 1, FALSE)
(* Plausible bug: an operation id is skipped.                              *)
ReturnsSkippingOne == RemoveOperation(1, 2, TRUE)

(* The rest of _fireOperationUserCallback.                                  *)
UserCallbackReturns == RemoveOperation(1, 1, TRUE)

(* _tryEmitEndEvent *)
(* Plausible bug: callbacks in progress do not count.                      *)
CompleteWhenNoRequest == completing /\ queued = 0

(* The condition of _tryEmitEndEvent.                                       *)
Complete == completing /\ active = 0 /\ operations = <<>>

EmitEnd ==
    /\ Running("tryEnd") /\ Complete
    /\ ended' = TRUE
    /\ endings' = endings + 1
    /\ stack' = Append(Caller, Call("onEnd", 0))
    /\ UNCHANGED <<status, operations, current, active, queued, paused, error,
                   completing, waiting, fired>>

NotComplete ==
    /\ Running("tryEnd") /\ ~Complete
    /\ stack' = Append(Caller, Call("tryDrain", 0))
    /\ UNCHANGED <<batch, waiting, fired, endings>>

(* _tryEmitDrainEvent: the listener resumes the producer.                   *)
EmitDrain ==
    /\ Running("tryDrain")
    /\ \E lowMemory \in BOOLEAN : ShouldDrain(lowMemory)
    /\ stack' = Append(Caller, Call("onDrain", 0))
    /\ waiting' = FALSE
    /\ UNCHANGED <<batch, fired, endings>>

NoDrain ==
    /\ Running("tryDrain")
    /\ \E lowMemory \in BOOLEAN : ~ShouldDrain(lowMemory)
    /\ stack' = Caller
    /\ UNCHANGED <<batch, waiting, fired, endings>>

ListenerReturns ==
    /\ Running("onDrain") \/ Running("onEnd")
    /\ stack' = Caller
    /\ UNCHANGED <<batch, waiting, fired, endings>>

Step == \/ RunAfterError \/ RunRequest \/ RunNoOperation \/ Ran
        \/ BatchOperationCallback
        \/ FireUserCallback \/ FireWhilePaused \/ FireNothing
        \/ UserCallbackReturns
        \/ EmitEnd \/ NotComplete \/ EmitDrain \/ NoDrain
        \/ ListenerReturns
-----------------------------------------------------------------------------
(***************************************************************************)
(* The user of a batch in sequence mode, as the downloads of               *)
(* blobservice.core.js and fileservice.core.js use it: operations are added *)
(* by the event loop or by the 'drain' listener, until the stream ends and *)
(* completion is enabled; completion is enabled from the event loop, the   *)
(* 'drain' listener or a user callback, which stops the stream when its    *)
(* operation failed, whether it has ended or not; a user callback whose    *)
(* write filled the output stream pauses, and the event loop resumes.  No  *)
(* stream ends while addOperation is in progress: a range stream that is   *)
(* emitting does not emit again.  Module Download checks that a download   *)
(* is such a user.                                                         *)
(*                                                                         *)
(* An upload is another one: it adds from user callbacks and after         *)
(* completion was enabled, and its user callbacks nest.  Module Upload     *)
(* composes the operations and the steps of this module, in random mode    *)
(* and for append blobs in sequence mode, with what an upload does; Next   *)
(* and the specifications below say nothing of it.                         *)
(***************************************************************************)
UserAdds ==
    /\ Idle \/ Running("onDrain")
    /\ ~completing /\ ~waiting
    /\ Total < MaxOperations
    /\ AddOperation(stack)

UserEnablesComplete ==
    /\ Idle \/ Running("onDrain") \/ Running("userCallback")
    /\ completing => Running("userCallback")
    /\ InProgress("ran") = {}
    /\ EnableComplete(stack)

UserPauses ==
    /\ Running("userCallback")
    /\ ~paused
    /\ Pause

(* Plausible bug: the user resumes inside its callback.                    *)
UserResumesAtOnce == (Idle \/ Running("userCallback")) /\ Resume(stack)

(* 'drain' of the output stream.                                            *)
UserResumes == Idle /\ Resume(stack)

(* Everything was fired and nothing is left to do: the program stops.       *)
Terminated ==
    /\ Idle /\ ended /\ ~paused
    /\ UNCHANGED vars

Next == \/ Step
        \/ UserAdds \/ UserEnablesComplete \/ UserPauses \/ UserResumes
        \/ \E i \in 1..Total, failed \in BOOLEAN : RequestDone(i, failed)
        \/ Terminated

(* The event loop runs what is ready, every request calls back (it times    *)
(* out otherwise), a user callback returns, an output stream drains and a   *)
(* stream ends unless it waits for 'drain', when it may have more to add.   *)
Fairness ==
    /\ WF_vars(Step) /\ SF_vars(UserCallbackReturns)
    /\ \A i \in 1..MaxOperations :
          WF_vars(\E failed \in BOOLEAN : i <= Total /\ RequestDone(i, failed))
    /\ WF_vars(UserResumes)
    /\ WF_vars(~waiting /\ UserEnablesComplete)

Spec == Init /\ [][Next]_vars
FairSpec == Spec /\ Fairness
-----------------------------------------------------------------------------
TypeOK ==
    /\ status \in Seq(OperationState)
    /\ operations \in Seq(Nat)
    /\ current \in Int /\ active \in Int /\ queued \in Int
    /\ paused \in BOOLEAN /\ error \in BOOLEAN
    /\ completing \in BOOLEAN /\ ended \in BOOLEAN
    /\ stack \in Seq(Frame)
    /\ waiting \in BOOLEAN
    /\ fired \in Seq(Nat)
    /\ endings \in Nat

Unfinished == {i \in 1..Total : status[i] # "complete"}

(* Sequence mode delivers in order, each operation once and none skipped:   *)
(* the n-th user callback to be fired is that of the n-th operation added,  *)
(* whatever the order in which the requests answer, and whatever pauses,    *)
(* resumes and synchronous completions happen in between.                   *)
FiredInOrder ==
    CallbackInOrder => \A n \in 1..Len(fired) : fired[n] = n

(* No user callback is fired twice, in either mode.                         *)
FiredOnce ==
    \A m, n \in 1..Len(fired) : fired[m] = fired[n] => m = n

(* "BatchOperation guarantees the user callback is fired one by one": no    *)
(* user callback starts while another one is still on the call stack.       *)
FiredOneByOne ==
    \A m, n \in InProgress("userCallback") : m = n

(* The check of getBatchOperationCallback that throws "Debug error: current *)
(* callback operation id cannot be larger than operation id" never does.    *)
NoDebugError ==
    Settling /\ CallbackInOrder /\ ~paused => current <= Top.op

(* 'end' is not emitted before every operation added has had its user       *)
(* callback and none of its requests is outstanding.                        *)
EndMeansDone ==
    ended => Unfinished = {} /\ Len(fired) = Total

(* The counters that decide on back-pressure and on the end agree with the  *)
(* states of the operations: active counts the unfinished operations that   *)
(* _runOperation has returned from or will count, queued those not settled, *)
(* and as many ids are kept as there are unfinished operations.             *)
CountersAgree ==
    /\ active = Cardinality(Unfinished)
                  - Cardinality(InProgress("run")) - Cardinality(InProgress("ran"))
    /\ queued = Cardinality({i \in 1..Total : status[i] \in {"queued", "running"}})
    /\ Len(operations) = Cardinality(Unfinished)

(* No callback is lost: when the event loop is idle and the batch is not    *)
(* paused, nothing is left that could be fired, so that whatever is still   *)
(* unfinished waits for a request that is outstanding.                      *)
NoLostCallback ==
    Idle /\ ~paused =>
        \A i \in Unfinished :
            \/ status[i] = "running"
            \/ CallbackInOrder /\ (\E j \in 1..(i - 1) : status[j] = "running")

(* The inductive invariant of sequence mode.  The operations before current *)
(* are complete, and the ids kept are exactly the others, in order.  At     *)
(* most one user callback is in progress, it is that of the current         *)
(* operation, and it was found in the first place of the array.  A call of  *)
(* another kind than Suspended is the innermost one.                        *)
Suspended == {"ran", "tryDrain", "userCallback", "onDrain"}

CallOK(f, st, cur) ==
    /\ f.pc \in {"run", "ran", "succeed", "fail"} => f.op \in 1..Len(st)
    /\ f.pc \in {"run", "succeed", "fail"} => st[f.op] \in {"queued", "running"}
    /\ f.pc = "userCallback" => f.op = cur /\ f.index = 1 /\ cur <= Len(st)
    /\ f.pc = "fire" /\ f.op # 0 =>
          f.op = cur /\ cur <= Len(st) /\ st[cur] = "callback"

StackOK(s, st, cur) ==
    /\ \A n \in 1..Len(s) : CallOK(s[n], st, cur)
    /\ \A n \in 1..(Len(s) - 1) : s[n].pc \in Suspended

StackInv == StackOK(stack, status, current)

ProgressInv ==
    /\ current \in 1..(Total + 1)
    /\ \A i \in 1..Total : status[i] = "complete" <=> i < current
    /\ Len(operations) = Total + 1 - current
    /\ \A n \in 1..Len(operations) : operations[n] = current + n - 1
    /\ ended => completing /\ current = Total + 1

CallbackInv ==
    /\ FiredOneByOne
    /\ FiredInOrder
    /\ Running("fire") => InProgress("userCallback") = {}
    /\ InProgress("userCallback") # {} => status[current] = "callback"
    /\ Len(fired) = IF InProgress("userCallback") = {} THEN current - 1 ELSE current

SequenceInv == CallbackInOrder => StackInv /\ ProgressInv /\ CallbackInv

(* A producer that waits for 'drain' because the workload was heavy is      *)
(* released, however little memory is free, unless the batch is over.       *)
ProducerReleased == waiting ~> (~waiting \/ ended)

(* The batch delivers what Delivery promises.                               *)
Promise == INSTANCE Delivery WITH
    InOrder <- CallbackInOrder, Capacity <- MaxOperations,
    submitted <- Total,
    settled <- {i \in 1..Total : status[i] \notin {"queued", "running"}},
    delivered <- fired, closed <- completing, finished <- ended
DeliversInOrderOnce == Promise!Spec
=============================================================================
