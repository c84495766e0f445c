---------------------------- MODULE UploadProofs ----------------------------
(***************************************************************************)
(* Proofs about an upload, for every scenario, concurrency and pool.  An   *)
(* upload uses its batch in ways that the users of module BatchOperation   *)
(* do not: it adds operations from user callbacks, and after completion    *)
(* was enabled, user callbacks are nested, and an append blob has a batch  *)
(* in sequence mode.  The invariants of the batch are proved here anew,    *)
(* for both modes at once.                                                 *)
(***************************************************************************)
EXTENDS Upload, SequenceTheorems, FiniteSetTheorems, TLAPS

RP == INSTANCE BatchOperationProofs WITH
    CallbackInOrder <- FALSE, Concurrency <- ParallelOperationThreadCount

LEMMA BatchConstants ==
    /\ FALSE \in BOOLEAN
    /\ ParallelOperationThreadCount \in Nat \ {0}
    /\ SharedRequest \in {1, 2}
    /\ MaxOperations \in Nat
    BY UploadAssumption DEF UploadAssumption

(* What pushing a call, replacing the innermost one and returning from it   *)
(* do to a sequence.                                                        *)
LEMMA PushCall ==
    ASSUME NEW S, NEW s \in Seq(S), NEW f \in S
    PROVE  /\ Append(s, f) \in Seq(S)
           /\ Len(Append(s, f)) = Len(s) + 1 /\ Len(s) \in Nat
           /\ Append(s, f) # <<>>
           /\ \A n \in 1..Len(s) : Append(s, f)[n] = s[n]
           /\ Append(s, f)[Len(s) + 1] = f
    OBVIOUS

LEMMA PopCall ==
    ASSUME NEW S, NEW s \in Seq(S), s # <<>>
    PROVE  /\ Len(s) \in Nat \ {0}
           /\ s[Len(s)] \in S
           /\ SubSeq(s, 1, Len(s) - 1) \in Seq(S)
           /\ Len(SubSeq(s, 1, Len(s) - 1)) = Len(s) - 1
           /\ \A n \in 1..(Len(s) - 1) : SubSeq(s, 1, Len(s) - 1)[n] = s[n]
    BY BatchConstants, RP!PopCall, Zenon

LEMMA OverwriteSeq ==
    ASSUME NEW S, NEW s \in Seq(S), NEW i, NEW v \in S
    PROVE  /\ [s EXCEPT ![i] = v] \in Seq(S)
           /\ Len([s EXCEPT ![i] = v]) = Len(s)
           /\ \A n \in 1..Len(s) :
                 [s EXCEPT ![i] = v][n] = IF n = i THEN v ELSE s[n]
<1>1. CASE i \in 1..Len(s)
    BY <1>1, ExceptSeq
<1>2. CASE i \notin 1..Len(s)
    <2>1. s \in [1..Len(s) -> S]
        BY LenProperties
    <2>2. [s EXCEPT ![i] = v] = s
        BY <1>2, <2>1
    <2> QED
        BY <1>2, <2>2
<1> QED
    BY <1>1, <1>2

LEMMA SpliceRemovesOne ==
    ASSUME NEW S, NEW s \in Seq(S), s # <<>>, NEW index \in 0..Len(s)
    PROVE  /\ Random!Splice(s, index) \in Seq(S)
           /\ Len(Random!Splice(s, index)) = Len(s) - 1
<1>1. Random!Splice(s, index) = RP!Splice(s, index)
    BY Zenon DEF Random!Splice, RP!Splice
<1>2. RP!Splice(s, index) \in Seq(S) /\ Len(RP!Splice(s, index)) = Len(s) - 1
    BY BatchConstants, RP!SpliceRemovesOne, Zenon
<1> QED
    BY <1>1, <1>2
-----------------------------------------------------------------------------
(* The calls in progress.  Whichever the mode, an operation has at most one *)
(* user callback in progress, and whatever lies below another call waits    *)
(* for it.  may is the set of operations whose user callback may be fired.  *)
AllSuspended(s) == \A n \in 1..Len(s) : s[n].pc \in Random!Suspended
Users(s) == {n \in 1..Len(s) : s[n].pc = "userCallback"}
Busy(s) == {s[n].op : n \in Users(s)}

FrameOK(f, st, kept, may) ==
    /\ f.pc \in {"run", "ran", "succeed", "fail", "userCallback"} => f.op \in 1..Len(st)
    /\ f.pc = "run" => st[f.op] = "queued"
    /\ f.pc \in {"succeed", "fail"} => st[f.op] \in {"queued", "running"}
    /\ f.pc = "userCallback" \/ (f.pc = "fire" /\ f.op # 0) =>
          f.op \in 1..Len(st) /\ st[f.op] \in {"callback", "error"} /\ f.op \in may
    /\ f.pc = "userCallback" => f.index \in 0..kept /\ (st[f.op] = "error" => f.index = 0)

StackOK(s, st, kept, may) ==
    /\ \A n \in 1..Len(s) : FrameOK(s[n], st, kept, may)
    /\ \A n \in 1..(Len(s) - 1) : s[n].pc \in Random!Suspended
    /\ \A m, n \in Users(s) : s[m].op = s[n].op => m = n

LEMMA StackPop ==
    ASSUME NEW s \in Seq(Random!Frame), s # <<>>, NEW st, NEW kept, NEW may,
           StackOK(s, st, kept, may)
    PROVE  /\ StackOK(SubSeq(s, 1, Len(s) - 1), st, kept, may)
           /\ AllSuspended(SubSeq(s, 1, Len(s) - 1))
           /\ FrameOK(s[Len(s)], st, kept, may)
           /\ s[Len(s)].pc # "userCallback" => Busy(SubSeq(s, 1, Len(s) - 1)) = Busy(s)
           /\ s[Len(s)].pc = "userCallback" =>
                 /\ Busy(s) = Busy(SubSeq(s, 1, Len(s) - 1)) \cup {s[Len(s)].op}
                 /\ s[Len(s)].op \notin Busy(SubSeq(s, 1, Len(s) - 1))
<1> DEFINE t == SubSeq(s, 1, Len(s) - 1)
<1>1. /\ Len(s) \in Nat \ {0}
      /\ Len(t) = Len(s) - 1
      /\ \A n \in 1..(Len(s) - 1) : t[n] = s[n]
    BY PopCall
<1> HIDE DEF t
<1>2. Users(t) = Users(s) \ {Len(s)} /\ \A n \in Users(t) : t[n] = s[n]
    BY <1>1 DEF Users
<1>3. StackOK(t, st, kept, may) /\ AllSuspended(t) /\ FrameOK(s[Len(s)], st, kept, may)
    <2>1. \A m, n \in Users(t) : t[m].op = t[n].op => m = n
        BY <1>2 DEF StackOK
    <2> QED
        BY <1>1, <2>1 DEF AllSuspended, StackOK
<1>4. ASSUME s[Len(s)].pc # "userCallback" PROVE Busy(t) = Busy(s)
    <2>1. Users(t) = Users(s)
        BY <1>2, <1>4 DEF Users
    <2> QED
        BY <1>2, <2>1 DEF Busy
<1>5. ASSUME s[Len(s)].pc = "userCallback"
      PROVE  Busy(s) = Busy(t) \cup {s[Len(s)].op} /\ s[Len(s)].op \notin Busy(t)
    <2>1. Len(s) \in Users(s) /\ Users(s) = Users(t) \cup {Len(s)} /\ Len(s) \notin Users(t)
        BY <1>1, <1>2, <1>5 DEF Users
    <2>2. Busy(s) = Busy(t) \cup {s[Len(s)].op}
        BY <1>2, <2>1 DEF Busy
    <2>3. \A n \in Users(t) : s[n].op # s[Len(s)].op
        BY <2>1 DEF StackOK
    <2> QED
        BY <1>2, <2>2, <2>3 DEF Busy
<1> QED
    BY <1>3, <1>4, <1>5 DEF t

LEMMA StackPush ==
    ASSUME NEW s \in Seq(Random!Frame), NEW f \in Random!Frame, NEW st, NEW kept, NEW may,
           StackOK(s, st, kept, may), AllSuspended(s), FrameOK(f, st, kept, may),
           f.pc = "userCallback" => f.op \notin Busy(s)
    PROVE  /\ Append(s, f) \in Seq(Random!Frame)
           /\ StackOK(Append(s, f), st, kept, may)
           /\ f.pc \in Random!Suspended => AllSuspended(Append(s, f))
           /\ Append(s, f) # <<>> /\ Append(s, f)[Len(Append(s, f))] = f
           /\ f.pc # "userCallback" => /\ Busy(Append(s, f)) = Busy(s)
                                       /\ Users(Append(s, f)) = Users(s)
           /\ f.pc = "userCallback" => Busy(Append(s, f)) = Busy(s) \cup {f.op}
<1> DEFINE t == Append(s, f)
<1>1. /\ t \in Seq(Random!Frame) /\ t # <<>>
      /\ Len(t) = Len(s) + 1 /\ Len(s) \in Nat
      /\ \A n \in 1..Len(s) : t[n] = s[n]
      /\ t[Len(s) + 1] = f
    BY PushCall
<1> HIDE DEF t
<1>2. f.pc \in Random!Suspended => AllSuspended(t)
    BY <1>1 DEF AllSuspended
<1>3. /\ f.pc # "userCallback" => Users(t) = Users(s)
      /\ f.pc = "userCallback" => Users(t) = Users(s) \cup {Len(s) + 1}
      /\ \A n \in Users(s) : t[n] = s[n] /\ n \in 1..Len(s)
    BY <1>1 DEF Users
<1>4. StackOK(t, st, kept, may)
    <2>1. \A n \in 1..Len(t) : FrameOK(t[n], st, kept, may)
        BY <1>1 DEF StackOK
    <2>2. \A n \in 1..(Len(t) - 1) : t[n].pc \in Random!Suspended
        BY <1>1 DEF AllSuspended
    <2>3. ASSUME NEW m \in Users(t), NEW n \in Users(t), t[m].op = t[n].op PROVE m = n
        <3>1. CASE f.pc # "userCallback"
            BY <1>3, <2>3, <3>1 DEF StackOK
        <3>2. CASE f.pc = "userCallback"
            <4>1. \A k \in Users(s) : s[k].op # f.op
                BY <3>2 DEF Busy
            <4> QED
                BY <1>1, <1>3, <2>3, <3>2, <4>1 DEF StackOK
        <3> QED
            BY <3>1, <3>2
    <2> QED
        BY <2>1, <2>2, <2>3 DEF StackOK
<1>5. /\ f.pc # "userCallback" => Busy(t) = Busy(s)
      /\ f.pc = "userCallback" => Busy(t) = Busy(s) \cup {f.op}
    BY <1>1, <1>3 DEF Busy
<1> QED
    BY <1>1, <1>2, <1>3, <1>4, <1>5 DEF t

(* Suspended calls bear that other operations change.                       *)
LEMMA StackChange ==
    ASSUME NEW s \in Seq(Random!Frame), NEW st, NEW st2, NEW kept \in Nat, NEW kept2 \in Nat,
           NEW may, NEW may2,
           StackOK(s, st, kept, may), AllSuspended(s),
           Len(st) \in Nat, Len(st2) \in Nat, Len(st) <= Len(st2),
           \A i \in Busy(s) : st2[i] = st[i] /\ i \in may2 /\ (kept <= kept2 \/ st[i] = "error")
    PROVE  StackOK(s, st2, kept2, may2)
<1>1. ASSUME NEW n \in 1..Len(s) PROVE FrameOK(s[n], st2, kept2, may2)
    <2>1. s[n].pc \in Random!Suspended /\ FrameOK(s[n], st, kept, may)
        BY DEF AllSuspended, StackOK
    <2>2. CASE s[n].pc # "userCallback"
        BY <2>1, <2>2 DEF FrameOK, Random!Suspended
    <2>3. CASE s[n].pc = "userCallback"
        <3>1. s[n].op \in Busy(s)
            BY <2>3 DEF Busy, Users
        <3>2. /\ s[n].op \in 1..Len(st2) /\ st2[s[n].op] = st[s[n].op] /\ s[n].op \in may2
              /\ st[s[n].op] \in {"callback", "error"}
              /\ s[n].index \in 0..kept2
              /\ st2[s[n].op] = "error" => s[n].index = 0
            BY <2>1, <2>3, <3>1 DEF FrameOK
        <3> QED
            BY <2>3, <3>2 DEF FrameOK
    <2> QED
        BY <2>2, <2>3
<1>2. /\ \A n \in 1..(Len(s) - 1) : s[n].pc \in Random!Suspended
      /\ \A m, n \in Users(s) : s[m].op = s[n].op => m = n
    BY DEF StackOK
<1> QED
    BY <1>1, <1>2 DEF StackOK
-----------------------------------------------------------------------------
(* The invariant of the batch.                                              *)
Turn == IF InOrder THEN {current} ELSE Nat

BatchTypes ==
    /\ status \in Seq(Random!OperationState) /\ operations \in Seq(1..Total)
    /\ current \in Int /\ active \in Int /\ queued \in Int
    /\ paused = FALSE /\ error \in BOOLEAN /\ completing \in BOOLEAN /\ ended \in BOOLEAN
    /\ stack \in Seq(Random!Frame) /\ waiting \in BOOLEAN
    /\ fired \in Seq(Nat) /\ endings \in Nat
    /\ failures \subseteq 1..Total /\ handled \subseteq failures

StackInv == StackOK(stack, status, Len(operations), Turn)

(* What is fired has not been: its user callback is not in progress, and    *)
(* none is in sequence mode.                                                *)
FireInv ==
    Random!Running("fire") =>
        Random!Top.op \notin Busy(stack) /\ (InOrder => Busy(stack) = {})

(* In random mode what has succeeded is fired at once.                      *)
CallbackInv ==
    ~InOrder => \A i \in 1..Total : status[i] = "callback" =>
        /\ Random!Running("fire") \/ Random!Running("userCallback")
        /\ Random!Top.op = i /\ i \notin failures

(* An operation that has failed is settled at once.                         *)
FailInv ==
    /\ \A i \in failures : status[i] \in {"queued", "running"} =>
          Random!Running("fail") /\ Random!Top.op = i
    /\ Random!Running("fail") => Random!Top.op \in failures
    /\ Random!Running("succeed") => Random!Top.op \notin failures
    /\ \A i \in handled : status[i] \notin {"queued", "running"}

(* What was fired is complete, or its user callback is in progress.         *)
FiringsInv ==
    /\ FiredOnce
    /\ \A n \in 1..Len(fired) : fired[n] \in 1..Total
    /\ \A i \in 1..Total :
          (\E n \in 1..Len(fired) : fired[n] = i) <=> status[i] = "complete" \/ i \in Busy(stack)

BatchInv ==
    BatchTypes /\ StackInv /\ FireInv /\ CallbackInv /\ FailInv /\ FiringsInv

LEMMA CallIsFrame ==
    ASSUME NEW pc \in Random!Pcs, NEW op \in Nat
    PROVE  Random!Call(pc, op) \in Random!Frame
    BY DEF Random!Call, Random!Frame

LEMMA TotalFacts ==
    ASSUME BatchTypes
    PROVE  /\ Total \in Nat /\ Total = Len(status) /\ Total = Random!Total
           /\ Len(operations) \in Nat /\ Len(stack) \in Nat /\ Len(fired) \in Nat
           /\ \A i \in 1..Total : status[i] \in Random!OperationState
    BY LenProperties, ElementOfSeq DEF BatchTypes, Total, Random!Total

(* The innermost call and those that wait for it.                           *)
LEMMA TopFacts ==
    ASSUME BatchTypes, StackInv, stack # <<>>
    PROVE  /\ Len(stack) \in Nat \ {0}
           /\ Random!Top \in Random!Frame /\ Random!Top.op \in Nat
           /\ Random!Caller \in Seq(Random!Frame)
           /\ Len(Random!Caller) = Len(stack) - 1
           /\ \A n \in 1..(Len(stack) - 1) : Random!Caller[n] = stack[n]
           /\ StackOK(Random!Caller, status, Len(operations), Turn)
           /\ AllSuspended(Random!Caller)
           /\ FrameOK(Random!Top, status, Len(operations), Turn)
           /\ Random!Top.pc # "userCallback" => Busy(Random!Caller) = Busy(stack)
           /\ Random!Top.pc = "userCallback" =>
                 /\ Busy(stack) = Busy(Random!Caller) \cup {Random!Top.op}
                 /\ Random!Top.op \notin Busy(Random!Caller)
<1>1. stack \in Seq(Random!Frame)
    BY DEF BatchTypes
<1>2. /\ Len(stack) \in Nat \ {0}
      /\ stack[Len(stack)] \in Random!Frame
      /\ SubSeq(stack, 1, Len(stack) - 1) \in Seq(Random!Frame)
      /\ Len(SubSeq(stack, 1, Len(stack) - 1)) = Len(stack) - 1
      /\ \A n \in 1..(Len(stack) - 1) : SubSeq(stack, 1, Len(stack) - 1)[n] = stack[n]
    BY <1>1, PopCall
<1>3. stack[Len(stack)].op \in Nat
    BY <1>2 DEF Random!Frame
<1> QED
    BY <1>1, <1>2, <1>3, StackPop DEF StackInv, Random!Top, Random!Caller

LEMMA BusyFacts ==
    ASSUME NEW s, NEW st, NEW kept, NEW may, StackOK(s, st, kept, may)
    PROVE  \A i \in Busy(s) : /\ i \in 1..Len(st) /\ st[i] \in {"callback", "error"}
                              /\ i \in may
    BY DEF Busy, Users, StackOK, FrameOK

LEMMA NotRunning ==
    ASSUME NEW s \in Seq(Random!Frame), AllSuspended(s), NEW pc, pc \notin Random!Suspended
    PROVE  ~(s # <<>> /\ s[Len(s)].pc = pc)
    BY EmptySeq DEF AllSuspended

(* A step that leaves the operations alone: the innermost call, which has   *)
(* neither to fire nor to settle an operation, returns, or another one of   *)
(* that kind takes its place.                                               *)
Idling == {"tryEnd", "onEnd", "tryDrain", "onDrain"}

LEMMA ControlStep ==
    ASSUME BatchInv, BatchTypes', stack # <<>>,
           Random!Top.pc \in {"ran", "fire"} \cup Idling,
           Random!Top.pc = "fire" => Random!Top.op = 0,
           \/ stack' = Random!Caller
           \/ \E pc \in Idling : stack' = Append(Random!Caller, Random!Call(pc, 0)),
           UNCHANGED <<status, operations, current, fired, failures, handled, upload>>
    PROVE  BatchInv'
<1>1. /\ Random!Caller \in Seq(Random!Frame) /\ AllSuspended(Random!Caller)
      /\ StackOK(Random!Caller, status, Len(operations), Turn)
      /\ Busy(Random!Caller) = Busy(stack)
    BY TopFacts DEF BatchInv, Idling
<1>2. /\ StackOK(stack', status, Len(operations), Turn) /\ Busy(stack') = Busy(stack)
      /\ ~Random!Running("fire")' /\ ~Random!Running("fail")' /\ ~Random!Running("succeed")'
    <2>1. CASE stack' = Random!Caller
        BY <1>1, <2>1, NotRunning DEF Random!Running, Random!Top, Random!Suspended
    <2>2. ASSUME NEW pc \in Idling, stack' = Append(Random!Caller, Random!Call(pc, 0))
          PROVE  /\ StackOK(stack', status, Len(operations), Turn) /\ Busy(stack') = Busy(stack)
                 /\ ~Random!Running("fire")' /\ ~Random!Running("fail")'
                 /\ ~Random!Running("succeed")'
        <3> DEFINE f == Random!Call(pc, 0)
        <3>1. /\ f \in Random!Frame /\ f.pc = pc
              /\ FrameOK(f, status, Len(operations), Turn)
            BY CallIsFrame DEF Random!Call, Random!Pcs, Idling, FrameOK
        <3>2. /\ pc \notin {"fire", "fail", "succeed", "userCallback"}
              /\ stack' = Append(Random!Caller, f)
            BY <2>2 DEF Idling
        <3> HIDE DEF f
        <3>3. /\ StackOK(stack', status, Len(operations), Turn)
              /\ stack'[Len(stack')] = f /\ Busy(stack') = Busy(Random!Caller)
            BY <1>1, <3>1, <3>2, StackPush
        <3>4. ~Random!Running("fire")' /\ ~Random!Running("fail")' /\ ~Random!Running("succeed")'
            BY <3>1, <3>2, <3>3 DEF Random!Running, Random!Top
        <3> QED
            BY <1>1, <3>3, <3>4
    <2> QED
        BY <2>1, <2>2
<1>3. /\ Total' = Total /\ InOrder' = InOrder /\ Turn' = Turn
    BY DEF Total, InOrder, Turn
<1>4. ~Random!Running("fail") /\ ~Random!Running("userCallback")
    BY DEF Random!Running, Idling
<1>5. CallbackInv'
    <2>1. Random!Running("fire") => Random!Top.op = 0
        BY DEF Random!Running
    <2> QED
        BY <1>3, <1>4, <2>1, TotalFacts DEF BatchInv, CallbackInv
<1>6. FailInv'
    BY <1>2, <1>3, <1>4 DEF BatchInv, FailInv
<1>7. FiringsInv'
    BY <1>2, <1>3 DEF BatchInv, FiringsInv, FiredOnce, Random!FiredOnce
<1> QED
    BY <1>2, <1>3, <1>5, <1>6, <1>7 DEF BatchInv, StackInv, FireInv

(* Where the batch may be called: by the event loop, a 'drain' listener or  *)
(* the user callback of a chunk that failed.                                *)
Open ==
    \/ stack = <<>>
    \/ Random!Running("onDrain")
    \/ Random!Running("userCallback") /\ Random!Top.op \in handled

LEMMA OpenFacts ==
    ASSUME BatchInv, Open
    PROVE  /\ stack \in Seq(Random!Frame) /\ AllSuspended(stack)
           /\ ~InOrder => \A i \in 1..Total : status[i] # "callback"
           /\ \A i \in failures : status[i] \notin {"queued", "running"}
<1>1. stack \in Seq(Random!Frame) /\ Len(stack) \in Nat /\ (stack = <<>> => Len(stack) = 0)
    BY TotalFacts DEF BatchInv, BatchTypes
<1>2. AllSuspended(stack)
    <2>1. CASE stack = <<>>
        BY <1>1, <2>1 DEF AllSuspended
    <2>2. CASE stack # <<>>
        <3>1. Random!Top.pc \in {"onDrain", "userCallback"}
            BY <2>2 DEF Open, Random!Running
        <3>2. \A n \in 1..(Len(stack) - 1) : stack[n].pc \in Random!Suspended
            BY DEF BatchInv, StackInv, StackOK
        <3> QED
            BY <1>1, <3>1, <3>2 DEF AllSuspended, Random!Suspended, Random!Top
    <2> QED
        BY <2>1, <2>2
<1>3. ~Random!Running("fire") /\ ~Random!Running("fail")
    BY DEF Open, Random!Running
<1>4. ASSUME ~InOrder, NEW i \in 1..Total, status[i] = "callback" PROVE FALSE
    <2>1. Random!Running("userCallback") /\ Random!Top.op = i /\ i \notin failures
        BY <1>3, <1>4 DEF BatchInv, CallbackInv
    <2>2. Random!Top.op \in handled
        BY <2>1 DEF Open, Random!Running
    <2> QED
        BY <2>1, <2>2 DEF BatchInv, BatchTypes
<1> QED
    BY <1>1, <1>2, <1>3, <1>4 DEF BatchInv, FailInv

LEMMA EnablesStep ==
    ASSUME BatchInv, BatchTypes', Open, Random!EnableComplete(stack),
           UNCHANGED <<failures, handled, upload>>
    PROVE  BatchInv'
<1> DEFINE f == Random!Call("tryEnd", 0)
<1>1. /\ stack' = Append(stack, f)
      /\ UNCHANGED <<status, operations, current, fired>>
    BY DEF Random!EnableComplete
<1>2. f \in Random!Frame /\ f.pc = "tryEnd" /\ FrameOK(f, status, Len(operations), Turn)
    BY CallIsFrame DEF Random!Call, Random!Pcs, FrameOK
<1> HIDE DEF f
<1>3. /\ StackOK(stack', status, Len(operations), Turn) /\ Busy(stack') = Busy(stack)
      /\ stack'[Len(stack')] = f
    BY <1>1, <1>2, OpenFacts, StackPush DEF BatchInv, StackInv
<1>4. ~Random!Running("fire")' /\ ~Random!Running("fail")' /\ ~Random!Running("succeed")'
    BY <1>2, <1>3 DEF Random!Running, Random!Top
<1>5. Total' = Total /\ InOrder' = InOrder /\ Turn' = Turn
    BY <1>1 DEF Total, InOrder, Turn
<1>6. CallbackInv'
    BY <1>1, <1>5, OpenFacts DEF CallbackInv
<1>7. FailInv'
    BY <1>1, <1>4, OpenFacts DEF BatchInv, FailInv
<1>8. FiringsInv'
    BY <1>1, <1>3, <1>5 DEF BatchInv, FiringsInv, FiredOnce, Random!FiredOnce
<1> QED
    BY <1>1, <1>3, <1>4, <1>5, <1>6, <1>7, <1>8 DEF BatchInv, StackInv, FireInv

LEMMA AddsStep ==
    ASSUME BatchInv, BatchTypes', Open, Random!AddOperation(stack),
           UNCHANGED <<failures, handled, upload>>
    PROVE  BatchInv' /\ Total' = Total + 1
<1> DEFINE f == Random!Call("run", Total + 1)
<1>1. /\ status' = Append(status, "queued")
      /\ operations' = Append(operations, Total + 1)
      /\ stack' = Append(stack, f)
      /\ UNCHANGED <<current, fired>>
    BY DEF Random!AddOperation, Random!AddOperationAs, Random!Total, Total
<1>2. /\ Total \in Nat /\ Total' = Total + 1
      /\ \A i \in 1..Total : status'[i] = status[i]
      /\ status'[Total + 1] = "queued"
      /\ Len(operations) \in Nat /\ Len(operations') = Len(operations) + 1
    <2>1. /\ status \in Seq(Random!OperationState) /\ operations \in Seq(1..Total)
          /\ "queued" \in Random!OperationState
        BY DEF BatchInv, BatchTypes, Random!OperationState
    <2>2. operations' \in Seq(1..Total')
        BY DEF BatchTypes
    <2>3. Len(operations') = Len(operations) + 1
        BY <1>1, <2>1, LenProperties
    <2> QED
        BY <1>1, <2>1, <2>3, PushCall, LenProperties DEF Total
<1>3. /\ InOrder' = InOrder /\ Turn' = Turn
      /\ StackOK(stack, status, Len(operations), Turn)
    BY <1>1 DEF InOrder, Turn, BatchInv, StackInv
<1>4. \A i \in Busy(stack) : i \in 1..Total /\ i \in Turn /\ status'[i] = status[i]
    BY <1>2, <1>3, BusyFacts DEF Total
<1>5. StackOK(stack, status', Len(operations'), Turn)
    <2>1. /\ Len(status) \in Nat /\ Len(status') \in Nat /\ Len(status) <= Len(status')
          /\ Len(operations) \in Nat /\ Len(operations') \in Nat
          /\ Len(operations) <= Len(operations')
        BY <1>2 DEF Total
    <2>2. stack \in Seq(Random!Frame) /\ AllSuspended(stack)
        BY OpenFacts
    <2> QED
        BY <1>3, <1>4, <2>1, <2>2, StackChange, Zenon
<1>6. /\ f \in Random!Frame /\ f.pc = "run" /\ f.op = Total + 1
      /\ FrameOK(f, status', Len(operations'), Turn)
    <2>1. Total + 1 \in 1..Len(status')
        BY <1>2 DEF Total
    <2> QED
        BY <1>2, <2>1, CallIsFrame DEF Random!Call, Random!Pcs, FrameOK
<1> HIDE DEF f
<1>7. /\ StackOK(stack', status', Len(operations'), Turn) /\ Busy(stack') = Busy(stack)
      /\ stack'[Len(stack')] = f
    BY <1>1, <1>5, <1>6, OpenFacts, StackPush
<1>8. ~Random!Running("fire")' /\ ~Random!Running("fail")' /\ ~Random!Running("succeed")'
    BY <1>6, <1>7 DEF Random!Running, Random!Top
<1>9. CallbackInv'
    BY <1>2, <1>3, OpenFacts DEF CallbackInv
<1>10. FailInv'
    BY <1>2, <1>8, OpenFacts DEF BatchInv, FailInv, BatchTypes
<1>11. FiringsInv'
    <2>1. FiredOnce /\ \A n \in 1..Len(fired) : fired[n] \in 1..Total /\ fired[n] # Total + 1
        BY <1>2 DEF BatchInv, FiringsInv
    <2>2. ASSUME NEW j \in 1..Total'
          PROVE  (\E n \in 1..Len(fired) : fired[n] = j)
                     <=> status'[j] = "complete" \/ j \in Busy(stack)
        <3>1. CASE j \in 1..Total
            BY <1>2, <3>1 DEF BatchInv, FiringsInv
        <3>2. CASE j = Total + 1
            BY <1>2, <1>4, <2>1, <3>2
        <3> QED
            BY <1>2, <3>1, <3>2
    <2>3. \A n \in 1..Len(fired) : fired[n] \in 1..Total'
        BY <1>2, <2>1
    <2> QED
        BY <1>1, <1>7, <2>1, <2>2, <2>3 DEF FiringsInv, FiredOnce, Random!FiredOnce
<1> QED
    BY <1>2, <1>3, <1>7, <1>8, <1>9, <1>10, <1>11 DEF BatchInv, StackInv, FireInv

(* _runOperation: the request is made, or the operation fails at once.      *)
LEMMA RunsStep ==
    ASSUME BatchInv, BatchTypes',
           \/ Random!RunRequest /\ failures' = failures
           \/ Random!RunAfterError /\ failures' = failures \cup {Random!Top.op},
           UNCHANGED <<handled, upload>>
    PROVE  BatchInv'
<1> DEFINE i == Random!Top.op
           call == Random!Call("ran", i)
           ran == Append(Random!Caller, call)
           fail == Random!Call("fail", i)
           kept == Len(operations)
<1>1. /\ Random!Running("run") /\ stack # <<>> /\ Random!Top.pc = "run"
      /\ UNCHANGED <<operations, current, fired>>
      /\ \/ /\ stack' = ran /\ failures' = failures
            /\ status' = [status EXCEPT ![i] = "running"]
         \/ /\ stack' = Append(ran, fail) /\ failures' = failures \cup {i}
            /\ status' = status
    BY DEF Random!RunRequest, Random!RunAfterError, Random!Running, Random!batch
<1>2. /\ i \in Nat /\ Random!Caller \in Seq(Random!Frame) /\ AllSuspended(Random!Caller)
      /\ StackOK(Random!Caller, status, kept, Turn) /\ Busy(Random!Caller) = Busy(stack)
      /\ i \in 1..Total /\ status[i] = "queued"
    BY <1>1, TopFacts DEF BatchInv, FrameOK, Total
<1>3. /\ Total' = Total /\ Total \in Nat /\ Total = Len(status) /\ kept \in Nat
      /\ \A j \in 1..Total : status'[j] = status[j] \/ (j = i /\ status'[j] = "running")
      /\ status'[i] \in {"queued", "running"}
    <2>1. status \in Seq(Random!OperationState) /\ "running" \in Random!OperationState
        BY DEF BatchInv, BatchTypes, Random!OperationState
    <2>2. Total \in Nat /\ kept \in Nat
        BY TotalFacts DEF BatchInv
    <2> QED
        BY <1>1, <1>2, <2>1, <2>2, OverwriteSeq DEF Total
<1>4. InOrder' = InOrder /\ Turn' = Turn
    BY <1>1 DEF InOrder, Turn
<1>5. \A j \in Busy(Random!Caller) :
         j \in 1..Total /\ j # i /\ j \in Turn /\ status'[j] = status[j]
    BY <1>2, <1>3, BusyFacts
<1>6. StackOK(Random!Caller, status', kept, Turn)
    <2>1. Len(status) \in Nat /\ Len(status') \in Nat /\ Len(status) <= Len(status') /\ kept <= kept
        BY <1>3 DEF Total
    <2> QED
        BY <1>2, <1>3, <1>5, <2>1, StackChange, Zenon
<1>7. /\ call \in Random!Frame /\ call.pc = "ran" /\ FrameOK(call, status', kept, Turn)
      /\ fail \in Random!Frame /\ fail.pc = "fail" /\ fail.op = i
      /\ FrameOK(fail, status', kept, Turn)
    BY <1>2, <1>3, CallIsFrame DEF Random!Call, Random!Pcs, FrameOK, Total
<1> HIDE DEF call, fail
<1>8. /\ ran \in Seq(Random!Frame) /\ StackOK(ran, status', kept, Turn) /\ AllSuspended(ran)
      /\ Busy(ran) = Busy(stack) /\ ran # <<>> /\ ran[Len(ran)] = call
    BY <1>2, <1>6, <1>7, StackPush DEF Random!Suspended
<1> HIDE DEF ran
<1>9. /\ StackOK(stack', status', kept, Turn) /\ Busy(stack') = Busy(stack) /\ stack' # <<>>
      /\ \/ stack'[Len(stack')] = call /\ failures' = failures /\ status'[i] = "running"
         \/ stack'[Len(stack')] = fail /\ failures' = failures \cup {i}
    <2>1. CASE stack' = ran
        <3>1. failures' = failures /\ status'[i] = "running"
            <4>1. CASE status' = [status EXCEPT ![i] = "running"]
                <5>1. status \in Seq(Random!OperationState) /\ "running" \in Random!OperationState
                    BY DEF BatchInv, BatchTypes, Random!OperationState
                <5>2. status'[i] = "running"
                    BY <1>2, <1>3, <4>1, <5>1, OverwriteSeq
                <5>3. ran # Append(ran, fail)
                    BY <1>7, <1>8, PushCall, LenProperties
                <5> QED
                    BY <1>1, <2>1, <5>2, <5>3
            <4>2. CASE status' # [status EXCEPT ![i] = "running"]
                <5>1. ran # Append(ran, fail)
                    BY <1>7, <1>8, PushCall, LenProperties
                <5> QED
                    BY <1>1, <2>1, <4>2, <5>1
            <4> QED
                BY <4>1, <4>2
        <3> QED
            BY <1>8, <2>1, <3>1
    <2>2. CASE stack' # ran
        <3>1. stack' = Append(ran, fail) /\ failures' = failures \cup {i}
            BY <1>1, <2>2
        <3>2. /\ StackOK(Append(ran, fail), status', kept, Turn)
              /\ Append(ran, fail) # <<>> /\ Append(ran, fail)[Len(Append(ran, fail))] = fail
              /\ Busy(Append(ran, fail)) = Busy(ran)
            BY <1>7, <1>8, StackPush
        <3> QED
            BY <1>8, <3>1, <3>2
    <2> QED
        BY <2>1, <2>2
<1>10. ~Random!Running("fire") /\ ~Random!Running("userCallback") /\ ~Random!Running("fail")
    BY <1>1 DEF Random!Running
<1>11. \A j \in failures : status[j] \notin {"queued", "running"}
    BY <1>10 DEF BatchInv, FailInv
<1>12. ~Random!Running("fire")' /\ ~Random!Running("succeed")'
    BY <1>7, <1>9 DEF Random!Running, Random!Top
<1>13. CallbackInv'
    BY <1>3, <1>4, <1>10 DEF BatchInv, CallbackInv
<1>14. FailInv'
    <2>1. CASE stack'[Len(stack')] = call /\ failures' = failures /\ status'[i] = "running"
        <3>1. ~Random!Running("fail")'
            BY <1>7, <2>1 DEF Random!Running, Random!Top
        <3>2. ASSUME NEW j \in failures PROVE status'[j] \notin {"queued", "running"}
            BY <1>2, <1>3, <1>11 DEF BatchInv, BatchTypes
        <3>3. \A j \in handled : j \in failures
            BY DEF BatchInv, BatchTypes
        <3> QED
            BY <1>12, <2>1, <3>1, <3>2, <3>3 DEF FailInv
    <2>2. CASE stack'[Len(stack')] = fail /\ failures' = failures \cup {i}
        <3>1. Random!Running("fail")' /\ Random!Top' = fail
            BY <1>7, <1>9, <2>2 DEF Random!Running, Random!Top
        <3>2. ASSUME NEW j \in failures PROVE status'[j] \notin {"queued", "running"}
            BY <1>2, <1>3, <1>11 DEF BatchInv, BatchTypes
        <3>3. \A j \in handled : j \in failures
            BY DEF BatchInv, BatchTypes
        <3> QED
            BY <1>7, <1>12, <2>2, <3>1, <3>2, <3>3 DEF FailInv
    <2> QED
        BY <1>9, <2>1, <2>2
<1>15. FiringsInv'
    BY <1>1, <1>2, <1>3, <1>9 DEF BatchInv, FiringsInv, FiredOnce, Random!FiredOnce
<1> QED
    BY <1>1, <1>3, <1>4, <1>9, <1>12, <1>13, <1>14, <1>15 DEF BatchInv, StackInv, FireInv

(* A request answers.                                                       *)
LEMMA AnswersStep ==
    ASSUME BatchInv, BatchTypes', NEW i \in 1..Total, NEW failed \in BOOLEAN,
           Random!RequestDone(i, failed),
           failures' = IF failed THEN failures \cup {i} ELSE failures,
           UNCHANGED <<handled, upload>>
    PROVE  BatchInv'
<1> DEFINE f == Random!Call(IF failed THEN "fail" ELSE "succeed", i)
<1>1. /\ stack = <<>> /\ status[i] = "running" /\ stack' = Append(stack, f)
      /\ UNCHANGED <<status, operations, current, fired>>
    BY DEF Random!RequestDone, Random!RequestDoneIn, Random!Idle, Random!batch
<1>2. /\ f \in Random!Frame /\ f.pc = IF failed THEN "fail" ELSE "succeed"
      /\ f.op = i /\ FrameOK(f, status, Len(operations), Turn)
    <2>1. Total \in Nat /\ i \in 1..Len(status)
        BY TotalFacts DEF BatchInv
    <2> QED
        BY <1>1, <2>1, CallIsFrame DEF Random!Call, Random!Pcs, FrameOK
<1>3. Open
    BY <1>1 DEF Open
<1> HIDE DEF f
<1>4. /\ StackOK(stack', status, Len(operations), Turn) /\ Busy(stack') = Busy(stack)
      /\ stack' # <<>> /\ stack'[Len(stack')] = f
    BY <1>1, <1>2, <1>3, OpenFacts, StackPush DEF BatchInv, StackInv
<1>5. Total' = Total /\ InOrder' = InOrder /\ Turn' = Turn
    BY <1>1 DEF Total, InOrder, Turn
<1>6. /\ ~Random!Running("fire")'
      /\ Random!Running("fail")' <=> failed
      /\ Random!Running("succeed")' <=> ~failed
      /\ Random!Top' = f
    BY <1>2, <1>4 DEF Random!Running, Random!Top
<1>7. CallbackInv'
    BY <1>1, <1>3, <1>5, OpenFacts DEF CallbackInv
<1>8. FailInv'
    <2>1. /\ \A j \in failures : status[j] \notin {"queued", "running"}
          /\ i \notin failures /\ \A j \in handled : j \in failures
        BY <1>1, <1>3, OpenFacts DEF BatchInv, BatchTypes
    <2>2. CASE failed
        BY <1>1, <1>2, <1>6, <2>1, <2>2 DEF FailInv
    <2>3. CASE ~failed
        BY <1>1, <1>2, <1>6, <2>1, <2>3 DEF FailInv
    <2> QED
        BY <2>2, <2>3
<1>9. FiringsInv'
    BY <1>1, <1>4, <1>5 DEF BatchInv, FiringsInv, FiredOnce, Random!FiredOnce
<1> QED
    BY <1>1, <1>4, <1>5, <1>6, <1>7, <1>8, <1>9 DEF BatchInv, StackInv, FireInv
-----------------------------------------------------------------------------
(* The steps that depend on the mode, for both of them.                     *)
LEMMA SettlesInMode ==
    ASSUME paused = FALSE,
           Mode(Random!BatchOperationCallback, Ordered!BatchOperationCallback)
    PROVE  /\ Random!Running("succeed") \/ Random!Running("fail")
           /\ queued' = queued - 1
           /\ error' = (error \/ Random!Running("fail"))
           /\ status' = [status EXCEPT ![Random!Top.op] =
                  IF ~InOrder /\ Random!Running("fail") THEN "error" ELSE "callback"]
           /\ stack' = IF InOrder /\ current # Random!Top.op
                       THEN Append(Random!Caller, Random!Call("tryDrain", 0))
                       ELSE Append(Append(Random!Caller, Random!Call("tryDrain", 0)),
                                   Random!Call("fire", Random!Top.op))
           /\ UNCHANGED <<operations, current, active, paused, completing, ended,
                          waiting, fired, endings>>
<1>1. CASE InOrder
    <2>1. Ordered!BatchOperationCallback
        BY <1>1 DEF Mode
    <2> QED
        BY <1>1, <2>1, Zenon DEF Ordered!BatchOperationCallback, Ordered!SettleWith,
            Ordered!MayFireNow, Ordered!Settling, Ordered!Running, Ordered!Top, Ordered!Caller,
            Ordered!Call, Random!Running, Random!Top, Random!Caller, Random!Call
<1>2. CASE ~InOrder
    <2>1. Random!BatchOperationCallback
        BY <1>2 DEF Mode
    <2> QED
        BY <1>2, <2>1, Zenon DEF Random!BatchOperationCallback, Random!SettleWith,
            Random!MayFireNow, Random!Settling
<1> QED
    BY <1>1, <1>2

LEMMA LeastOfMany ==
    ASSUME NEW T, T \subseteq Nat, T # {}
    PROVE  (CHOOSE n \in T : \A m \in T : n <= m) \in T
<1>1. \E n \in T : \A m \in T : n <= m
    BY BatchConstants, RP!LeastNatural, Zenon
<1> QED
    BY <1>1

(* The place in the array of what may be fired.                             *)
NextIndex == Mode(Random!CallbackOperationIndex, Ordered!CallbackOperationIndex)

LEMMA NextIndexFacts ==
    ASSUME BatchTypes
    PROVE  /\ NextIndex \in 0..Len(operations)
           /\ NextIndex # 0 => /\ operations[NextIndex] \in 1..Total
                               /\ status[operations[NextIndex]] = "callback"
                               /\ InOrder => operations[NextIndex] = current
<1> DEFINE firable == {n \in 1..Len(operations) :
              status[operations[n]] = "callback" /\ (InOrder => operations[n] = current)}
<1>1. NextIndex = IF firable = {} THEN 0 ELSE CHOOSE n \in firable : \A m \in firable : n <= m
    <2>1. CASE InOrder
        <3>1. \A i : Ordered!MayFire(i) <=> status[i] = "callback" /\ (InOrder => i = current)
            BY <2>1 DEF Ordered!MayFire
        <3>2. {n \in 1..Len(operations) : Ordered!MayFire(operations[n])} = firable
            BY <3>1
        <3> DEFINE may == {n \in 1..Len(operations) : Ordered!MayFire(operations[n])}
        <3>3. Ordered!CallbackOperationIndex =
                 IF may = {} THEN 0 ELSE CHOOSE n \in may : \A m \in may : n <= m
            BY Zenon DEF Ordered!CallbackOperationIndex
        <3>4. NextIndex = Ordered!CallbackOperationIndex
            BY <2>1 DEF NextIndex, Mode
        <3>5. may = firable
            BY <3>2
        <3> HIDE DEF may, firable
        <3> QED
            BY <3>3, <3>4, <3>5
    <2>2. CASE ~InOrder
        <3>1. \A i : Random!MayFire(i) <=> status[i] = "callback" /\ (InOrder => i = current)
            BY <2>2 DEF Random!MayFire
        <3>2. {n \in 1..Len(operations) : Random!MayFire(operations[n])} = firable
            BY <3>1
        <3> DEFINE may == {n \in 1..Len(operations) : Random!MayFire(operations[n])}
        <3>3. Random!CallbackOperationIndex =
                 IF may = {} THEN 0 ELSE CHOOSE n \in may : \A m \in may : n <= m
            BY Zenon DEF Random!CallbackOperationIndex
        <3>4. NextIndex = Random!CallbackOperationIndex
            BY <2>2 DEF NextIndex, Mode
        <3>5. may = firable
            BY <3>2
        <3> HIDE DEF may, firable
        <3> QED
            BY <3>3, <3>4, <3>5
    <2> QED
        BY <2>1, <2>2
<1>2. Len(operations) \in Nat /\ \A n \in 1..Len(operations) : operations[n] \in 1..Total
    BY ElementOfSeq, LenProperties DEF BatchTypes
<1>3. CASE firable = {}
    BY <1>1, <1>2, <1>3
<1>4. CASE firable # {}
    <2>1. firable \subseteq Nat
        BY <1>2
    <2>2. NextIndex \in firable
        BY <1>1, <1>4, <2>1, LeastOfMany
    <2> QED
        BY <1>2, <2>2
<1> QED
    BY <1>3, <1>4

LEMMA FiresInMode ==
    ASSUME Mode(Random!FireUserCallback, Ordered!FireUserCallback)
    PROVE  LET i == IF Random!Top.op # 0 \/ NextIndex = 0 THEN Random!Top.op
                    ELSE operations[NextIndex]
           IN  /\ Random!Running("fire") /\ i # 0
               /\ stack' = Append(Random!Caller,
                              [pc |-> "userCallback", op |-> i, index |-> NextIndex])
               /\ fired' = Append(fired, i)
               /\ UNCHANGED <<Random!batch, waiting, endings>>
<1>1. CASE InOrder
    <2>1. Ordered!FireUserCallback /\ NextIndex = Ordered!CallbackOperationIndex
        BY <1>1 DEF Mode, NextIndex
    <2> QED
        BY <2>1, Zenon DEF Ordered!FireUserCallback, Ordered!Running, Ordered!Top,
            Ordered!Caller, Ordered!batch, Random!Running, Random!Top, Random!Caller, Random!batch
<1>2. CASE ~InOrder
    <2>1. Random!FireUserCallback /\ NextIndex = Random!CallbackOperationIndex
        BY <1>2 DEF Mode, NextIndex
    <2> QED
        BY <2>1, Zenon DEF Random!FireUserCallback
<1> QED
    BY <1>1, <1>2

LEMMA NothingInMode ==
    ASSUME Mode(Random!FireNothing, Ordered!FireNothing)
    PROVE  /\ Random!Running("fire") /\ Random!Top.op = 0
           /\ stack' = Append(Random!Caller, Random!Call("tryEnd", 0))
           /\ UNCHANGED <<Random!batch, waiting, fired, endings>>
<1>1. CASE InOrder
    <2>1. Ordered!FireNothing
        BY <1>1 DEF Mode
    <2> QED
        BY <2>1, Zenon DEF Ordered!FireNothing, Ordered!Running, Ordered!Top, Ordered!Caller,
            Ordered!batch, Ordered!Call, Random!Running, Random!Top, Random!Caller,
            Random!batch, Random!Call
<1>2. CASE ~InOrder
    <2>1. Random!FireNothing
        BY <1>2 DEF Mode
    <2> QED
        BY <2>1, Zenon DEF Random!FireNothing
<1> QED
    BY <1>1, <1>2

LEMMA NoDrainInMode ==
    ASSUME Mode(Random!NoDrain, Ordered!NoDrain)
    PROVE  /\ Random!Running("tryDrain") /\ stack' = Random!Caller
           /\ UNCHANGED <<Random!batch, waiting, fired, endings>>
<1>1. CASE InOrder
    <2>1. Ordered!NoDrain
        BY <1>1 DEF Mode
    <2> QED
        BY <2>1, Zenon DEF Ordered!NoDrain, Ordered!Running, Ordered!Top, Ordered!Caller,
            Ordered!batch, Random!Running, Random!Top, Random!Caller, Random!batch
<1>2. CASE ~InOrder
    <2>1. Random!NoDrain
        BY <1>2 DEF Mode
    <2> QED
        BY <2>1, Zenon DEF Random!NoDrain
<1> QED
    BY <1>1, <1>2

LEMMA DrainInMode ==
    ASSUME Mode(Random!EmitDrain, Ordered!EmitDrain)
    PROVE  /\ Random!Running("tryDrain")
           /\ stack' = Append(Random!Caller, Random!Call("onDrain", 0))
           /\ waiting' = FALSE
           /\ UNCHANGED <<Random!batch, fired, endings>>
<1>1. CASE InOrder
    <2>1. Ordered!EmitDrain
        BY <1>1 DEF Mode
    <2> QED
        BY <2>1, Zenon DEF Ordered!EmitDrain, Ordered!Running, Ordered!Top, Ordered!Caller,
            Ordered!batch, Ordered!Call, Random!Running, Random!Top, Random!Caller,
            Random!batch, Random!Call
<1>2. CASE ~InOrder
    <2>1. Random!EmitDrain
        BY <1>2 DEF Mode
    <2> QED
        BY <2>1, Zenon DEF Random!EmitDrain
<1> QED
    BY <1>1, <1>2

LEMMA ReturnsInMode ==
    ASSUME Mode(Random!UserCallbackReturns, Ordered!UserCallbackReturns)
    PROVE  /\ Random!Running("userCallback")
           /\ operations' = Random!Splice(operations, Random!Top.index)
           /\ active' = active - 1
           /\ status' = [status EXCEPT ![Random!Top.op] = "complete"]
           /\ current' = IF InOrder THEN current + 1 ELSE current
           /\ stack' = Append(Random!Caller, Random!Call("fire", 0))
           /\ UNCHANGED <<queued, paused, error, completing, ended, waiting, fired, endings>>
<1>1. CASE InOrder
    <2>1. Ordered!UserCallbackReturns
        BY <1>1 DEF Mode
    <2> QED
        BY <1>1, <2>1, Zenon DEF Ordered!UserCallbackReturns, Ordered!RemoveOperation,
            Ordered!Running, Ordered!Top, Ordered!Caller, Ordered!Splice, Ordered!Call,
            Random!Running, Random!Top, Random!Caller, Random!Splice, Random!Call
<1>2. CASE ~InOrder
    <2>1. Random!UserCallbackReturns
        BY <1>2 DEF Mode
    <2> QED
        BY <1>2, <2>1, Zenon DEF Random!UserCallbackReturns, Random!RemoveOperation
<1> QED
    BY <1>1, <1>2
-----------------------------------------------------------------------------
(* A request has answered: its operation is settled.                        *)
LEMMA SettlesStep ==
    ASSUME BatchInv, BatchTypes',
           Mode(Random!BatchOperationCallback, Ordered!BatchOperationCallback),
           UNCHANGED <<failures, handled, upload>>
    PROVE  BatchInv'
<1> DEFINE i == Random!Top.op
           state == IF ~InOrder /\ Random!Running("fail") THEN "error" ELSE "callback"
           drain == Random!Call("tryDrain", 0)
           fire == Random!Call("fire", i)
           below == Append(Random!Caller, drain)
           kept == Len(operations)
<1>1. /\ Random!Running("succeed") \/ Random!Running("fail")
      /\ UNCHANGED <<operations, current, fired>>
      /\ status' = [status EXCEPT ![i] = state]
      /\ stack' = IF InOrder /\ current # i THEN below ELSE Append(below, fire)
    BY SettlesInMode, Zenon DEF BatchInv, BatchTypes
<1>2. /\ stack # <<>> /\ Random!Top.pc \in {"succeed", "fail"}
      /\ ~Random!Running("fire") /\ ~Random!Running("userCallback")
      /\ Random!Running("fail") <=> i \in failures
    BY <1>1 DEF Random!Running, BatchInv, FailInv
<1>3. /\ i \in Nat /\ Random!Caller \in Seq(Random!Frame) /\ AllSuspended(Random!Caller)
      /\ StackOK(Random!Caller, status, kept, Turn) /\ Busy(Random!Caller) = Busy(stack)
      /\ i \in 1..Total /\ status[i] \in {"queued", "running"}
    BY <1>2, TopFacts DEF BatchInv, FrameOK, Total
<1>4. state \in {"callback", "error"} /\ (state = "callback" => InOrder \/ i \notin failures)
    BY <1>2
<1> HIDE DEF state
<1>5. /\ Total' = Total /\ Total \in Nat /\ Total = Len(status) /\ kept \in Nat
      /\ \A j \in 1..Total : status'[j] = IF j = i THEN state ELSE status[j]
    <2>1. status \in Seq(Random!OperationState) /\ state \in Random!OperationState
        BY <1>4 DEF BatchInv, BatchTypes, Random!OperationState
    <2>2. Total \in Nat /\ kept \in Nat
        BY TotalFacts DEF BatchInv
    <2> QED
        BY <1>1, <2>1, <2>2, OverwriteSeq DEF Total
<1>6. InOrder' = InOrder /\ Turn' = Turn
    BY <1>1 DEF InOrder, Turn
<1>7. \A j \in Busy(Random!Caller) :
         j \in 1..Total /\ j # i /\ j \in Turn /\ status'[j] = status[j]
    BY <1>3, <1>5, BusyFacts
<1>8. StackOK(Random!Caller, status', kept, Turn)
    <2>1. Len(status) \in Nat /\ Len(status') \in Nat /\ Len(status) <= Len(status') /\ kept <= kept
        BY <1>5 DEF Total
    <2> QED
        BY <1>3, <1>5, <1>7, <2>1, StackChange, Zenon
<1>9. drain \in Random!Frame /\ drain.pc = "tryDrain" /\ FrameOK(drain, status', kept, Turn)
    BY CallIsFrame DEF Random!Call, Random!Pcs, FrameOK
<1>10. /\ fire \in Random!Frame /\ fire.pc = "fire" /\ fire.op = i
       /\ ~(InOrder /\ current # i) => FrameOK(fire, status', kept, Turn)
    <2>1. ~(InOrder /\ current # i) => i \in Turn
        BY <1>3 DEF Turn
    <2>2. i \in 1..Len(status') /\ status'[i] \in {"callback", "error"}
        BY <1>3, <1>4, <1>5 DEF Total
    <2> QED
        BY <1>3, <2>1, <2>2, CallIsFrame DEF Random!Call, Random!Pcs, FrameOK
<1> HIDE DEF drain, fire
<1>11. /\ below \in Seq(Random!Frame) /\ StackOK(below, status', kept, Turn)
       /\ AllSuspended(below) /\ Busy(below) = Busy(stack)
       /\ below # <<>> /\ below[Len(below)] = drain
    BY <1>3, <1>8, <1>9, StackPush DEF Random!Suspended
<1> HIDE DEF below
<1>12. /\ StackOK(stack', status', kept, Turn) /\ Busy(stack') = Busy(stack) /\ stack' # <<>>
       /\ IF InOrder /\ current # i THEN stack'[Len(stack')] = drain
          ELSE stack'[Len(stack')] = fire
    <2>1. CASE InOrder /\ current # i
        BY <1>1, <1>11, <2>1
    <2>2. CASE ~(InOrder /\ current # i)
        <3>1. stack' = Append(below, fire)
            BY <1>1, <2>2
        <3>2. /\ StackOK(Append(below, fire), status', kept, Turn)
              /\ Append(below, fire) # <<>>
              /\ Append(below, fire)[Len(Append(below, fire))] = fire
              /\ Busy(Append(below, fire)) = Busy(below)
            BY <1>10, <1>11, <2>2, StackPush
        <3> QED
            BY <1>11, <2>2, <3>1, <3>2
    <2> QED
        BY <2>1, <2>2
<1>13. ~Random!Running("fail")' /\ ~Random!Running("succeed")'
    BY <1>9, <1>10, <1>12 DEF Random!Running, Random!Top
<1>14. FireInv'
    <2>1. CASE InOrder /\ current # i
        BY <1>9, <1>12, <2>1 DEF FireInv, Random!Running, Random!Top
    <2>2. CASE ~(InOrder /\ current # i)
        <3>1. Random!Top' = fire
            BY <1>12, <2>2 DEF Random!Top
        <3>2. i \notin Busy(stack')
            BY <1>3, <1>7, <1>12
        <3>3. InOrder => Busy(stack') = {}
            BY <1>3, <1>7, <1>12, <2>2 DEF Turn
        <3> QED
            BY <1>6, <1>10, <3>1, <3>2, <3>3 DEF FireInv
    <2> QED
        BY <2>1, <2>2
<1>15. CallbackInv'
    <2>1. SUFFICES ASSUME ~InOrder, NEW j \in 1..Total, status'[j] = "callback"
                   PROVE  Random!Running("fire")' /\ Random!Top.op' = j /\ j \notin failures
        BY <1>1, <1>5, <1>6 DEF CallbackInv
    <2>2. j = i
        BY <1>2, <1>5, <2>1 DEF BatchInv, CallbackInv
    <2>3. Random!Top' = fire /\ Random!Running("fire")'
        BY <1>10, <1>12, <2>1 DEF Random!Top, Random!Running
    <2> QED
        BY <1>3, <1>4, <1>5, <1>10, <2>1, <2>2, <2>3
<1>16. FailInv'
    <2>1. \A j \in failures : status'[j] \notin {"queued", "running"}
        BY <1>4, <1>5 DEF BatchInv, BatchTypes, FailInv
    <2>2. \A j \in handled : j \in failures
        BY DEF BatchInv, BatchTypes
    <2> QED
        BY <1>13, <2>1, <2>2 DEF FailInv
<1>17. FiringsInv'
    BY <1>1, <1>3, <1>4, <1>5, <1>12 DEF BatchInv, FiringsInv, FiredOnce, Random!FiredOnce
<1> QED
    BY <1>1, <1>6, <1>12, <1>14, <1>15, <1>16, <1>17 DEF BatchInv, StackInv

(* A user callback is fired.                                                *)
LEMMA FiresStep ==
    ASSUME BatchInv, BatchTypes',
           Mode(Random!FireUserCallback, Ordered!FireUserCallback),
           UNCHANGED <<failures, handled, upload>>
    PROVE  BatchInv'
<1> DEFINE i == IF Random!Top.op # 0 \/ NextIndex = 0 THEN Random!Top.op
                ELSE operations[NextIndex]
           f == [pc |-> "userCallback", op |-> i, index |-> NextIndex]
           kept == Len(operations)
<1>1. /\ Random!Running("fire") /\ i # 0
      /\ stack' = Append(Random!Caller, f) /\ fired' = Append(fired, i)
      /\ UNCHANGED <<status, operations, current>>
    BY FiresInMode, Zenon DEF Random!batch
<1>2. /\ stack # <<>> /\ Random!Top.pc = "fire" /\ ~Random!Running("userCallback")
      /\ ~Random!Running("fail")
    BY <1>1 DEF Random!Running
<1>3. /\ Random!Top.op \in Nat
      /\ Random!Caller \in Seq(Random!Frame) /\ AllSuspended(Random!Caller)
      /\ StackOK(Random!Caller, status, kept, Turn) /\ Busy(Random!Caller) = Busy(stack)
      /\ FrameOK(Random!Top, status, kept, Turn)
    BY <1>2, TopFacts DEF BatchInv
<1>4. /\ NextIndex \in 0..kept
      /\ NextIndex # 0 => /\ operations[NextIndex] \in 1..Total
                          /\ status[operations[NextIndex]] = "callback"
                          /\ InOrder => operations[NextIndex] = current
    BY NextIndexFacts DEF BatchInv
<1>5. Total \in Nat /\ Total = Len(status) /\ kept \in Nat
    BY TotalFacts DEF BatchInv
<1>6. Random!Top.op = 0 => InOrder /\ NextIndex # 0 /\ i = current
    <2>1. SUFFICES ASSUME Random!Top.op = 0 PROVE InOrder /\ NextIndex # 0 /\ i = current
        OBVIOUS
    <2>2. NextIndex # 0 /\ i = operations[NextIndex]
        BY <1>1, <2>1
    <2>3. InOrder
        BY <1>2, <1>4, <1>5, <2>1, <2>2 DEF BatchInv, CallbackInv
    <2> QED
        BY <1>4, <2>2, <2>3
<1>7. /\ i \in 1..Total /\ status[i] \in {"callback", "error"} /\ i \in Turn
      /\ i \notin Busy(stack) /\ (InOrder => Busy(stack) = {})
    <2>1. CASE Random!Top.op = 0
        <3>1. InOrder /\ NextIndex # 0 /\ i = current /\ i = operations[NextIndex]
            BY <1>6, <2>1
        <3> QED
            BY <1>1, <1>4, <3>1 DEF BatchInv, FireInv, Turn
    <2>2. CASE Random!Top.op # 0
        <3>1. i = Random!Top.op
            BY <2>2
        <3> QED
            BY <1>1, <1>2, <1>3, <1>5, <2>2, <3>1 DEF BatchInv, FireInv, FrameOK
    <2> QED
        BY <2>1, <2>2
<1>8. status[i] = "error" => NextIndex = 0
    <2>1. SUFFICES ASSUME status[i] = "error", NextIndex # 0 PROVE FALSE
        OBVIOUS
    <2>2. CASE InOrder
        BY <1>4, <1>7, <2>1, <2>2 DEF Turn
    <2>3. CASE ~InOrder
        <3>1. i = Random!Top.op
            BY <1>6, <2>3
        <3>2. Random!Top.op = operations[NextIndex]
            BY <1>4, <2>1, <2>3 DEF BatchInv, CallbackInv
        <3> QED
            BY <1>4, <2>1, <3>1, <3>2
    <2> QED
        BY <2>2, <2>3
<1>9. Random!Top.op # 0 => i = Random!Top.op
    OBVIOUS
<1> HIDE DEF i
<1>10. /\ f \in Random!Frame /\ f.pc = "userCallback" /\ f.op = i
       /\ FrameOK(f, status, kept, Turn)
    BY <1>4, <1>5, <1>7, <1>8 DEF Random!Frame, Random!Pcs, FrameOK
<1> HIDE DEF f
<1>11. /\ StackOK(stack', status, kept, Turn) /\ Busy(stack') = Busy(stack) \cup {i}
       /\ stack' # <<>> /\ stack'[Len(stack')] = f
    BY <1>1, <1>3, <1>7, <1>10, StackPush
<1>12. /\ Total' = Total /\ InOrder' = InOrder /\ Turn' = Turn
       /\ Random!Top' = f /\ Random!Running("userCallback")'
       /\ ~Random!Running("fire")' /\ ~Random!Running("fail")' /\ ~Random!Running("succeed")'
    BY <1>1, <1>10, <1>11 DEF Total, InOrder, Turn, Random!Top, Random!Running
<1>13. CallbackInv'
    <2>1. SUFFICES ASSUME ~InOrder, NEW j \in 1..Total, status[j] = "callback"
                   PROVE  f.op = j /\ j \notin failures
        BY <1>1, <1>12 DEF CallbackInv
    <2>2. Random!Top.op = j /\ j \notin failures
        BY <2>1 DEF BatchInv, CallbackInv
    <2> QED
        BY <1>5, <1>9, <1>10, <2>2
<1>14. FailInv'
    BY <1>1, <1>2, <1>12 DEF BatchInv, FailInv
<1>15. FiringsInv'
    <2>1. /\ fired \in Seq(Nat) /\ FiredOnce /\ Len(fired) \in Nat
          /\ \A n \in 1..Len(fired) : fired[n] \in 1..Total /\ fired[n] # i
        BY <1>5, <1>7, TotalFacts DEF BatchInv, BatchTypes, FiringsInv
    <2>2. /\ Len(fired') = Len(fired) + 1 /\ fired'[Len(fired) + 1] = i
          /\ \A n \in 1..Len(fired) : fired'[n] = fired[n]
        BY <1>1, <1>7, <2>1, PushCall
    <2>3. FiredOnce'
        BY <2>1, <2>2 DEF FiredOnce, Random!FiredOnce
    <2>4. \A n \in 1..Len(fired') : fired'[n] \in 1..Total
        BY <1>7, <2>1, <2>2
    <2>5. ASSUME NEW j \in 1..Total
          PROVE  (\E n \in 1..Len(fired') : fired'[n] = j)
                     <=> status[j] = "complete" \/ j \in Busy(stack')
        <3>1. (\E n \in 1..Len(fired) : fired[n] = j)
                  <=> status[j] = "complete" \/ j \in Busy(stack)
            BY DEF BatchInv, FiringsInv
        <3>2. (\E n \in 1..Len(fired') : fired'[n] = j)
                  <=> (\E n \in 1..Len(fired) : fired[n] = j) \/ j = i
            BY <2>1, <2>2
        <3> QED
            BY <1>11, <3>1, <3>2
    <2> QED
        BY <1>1, <1>12, <2>3, <2>4, <2>5 DEF FiringsInv
<1> QED
    BY <1>1, <1>11, <1>12, <1>13, <1>14, <1>15 DEF BatchInv, StackInv, FireInv

(* A user callback returns: its operation is complete, and one id less is   *)
(* kept, though not always its own.                                         *)
LEMMA SpliceKeepsIds ==
    ASSUME NEW S, NEW s \in Seq(S), NEW index \in 0..Len(s)
    PROVE  Random!Splice(s, index) \in Seq(S)
<1>1. CASE s # <<>>
    BY <1>1, SpliceRemovesOne
<1>2. CASE s = <<>>
    <2>1. Len(s) = 0 /\ index = 0
        BY <1>2
    <2>2. Random!Splice(s, index) = SubSeq(s, 1, Len(s) - 1)
        <3>1. index = 0 /\ ~(index \in 1..Len(s)) /\ ~(index > Len(s))
            BY <2>1
        <3> QED
            BY <3>1, Zenon DEF Random!Splice
    <2>3. SubSeq(s, 1, Len(s) - 1) = <<>>
        BY <1>2, <2>1
    <2> QED
        BY <2>2, <2>3
<1> QED
    BY <1>1, <1>2

LEMMA ReturnsStep ==
    ASSUME BatchInv, BatchTypes',
           Mode(Random!UserCallbackReturns, Ordered!UserCallbackReturns),
           UNCHANGED <<failures, handled, upload>>
    PROVE  BatchInv'
<1> DEFINE i == Random!Top.op
           f == Random!Call("fire", 0)
           kept == Len(operations)
<1>1. /\ Random!Running("userCallback")
      /\ status' = [status EXCEPT ![i] = "complete"]
      /\ stack' = Append(Random!Caller, f)
      /\ fired' = fired
    BY ReturnsInMode, Zenon
<1>2. /\ stack # <<>> /\ Random!Top.pc = "userCallback"
      /\ ~Random!Running("fire") /\ ~Random!Running("fail")
    BY <1>1 DEF Random!Running
<1>3. /\ i \in Nat
      /\ Random!Caller \in Seq(Random!Frame) /\ AllSuspended(Random!Caller)
      /\ StackOK(Random!Caller, status, kept, Turn)
      /\ FrameOK(Random!Top, status, kept, Turn)
      /\ Busy(stack) = Busy(Random!Caller) \cup {i} /\ i \notin Busy(Random!Caller)
    BY <1>2, TopFacts DEF BatchInv
<1>4. i \in 1..Total /\ status[i] \in {"callback", "error"} /\ i \in Turn
    BY <1>2, <1>3 DEF FrameOK, Total
<1>5. /\ Total' = Total /\ Total \in Nat /\ Total = Len(status)
      /\ kept \in Nat /\ Len(operations') \in Nat
      /\ \A j \in 1..Total : status'[j] = IF j = i THEN "complete" ELSE status[j]
    <2>1. status \in Seq(Random!OperationState) /\ "complete" \in Random!OperationState
        BY DEF BatchInv, BatchTypes, Random!OperationState
    <2>2. Total \in Nat /\ kept \in Nat
        BY TotalFacts DEF BatchInv
    <2>3. Len(operations') \in Nat
        BY LenProperties DEF BatchTypes
    <2> QED
        BY <1>1, <2>1, <2>2, <2>3, OverwriteSeq DEF Total
<1>6. InOrder' = InOrder /\ (InOrder => i = current) /\ (~InOrder => Turn' = Nat)
    BY <1>4 DEF InOrder, Turn
<1>7. \A j \in Busy(Random!Caller) :
         /\ j \in 1..Total /\ j # i /\ j \in Turn /\ status[j] \in {"callback", "error"}
         /\ status'[j] = status[j]
    BY <1>3, <1>5, BusyFacts
<1>8. InOrder => Busy(Random!Caller) = {}
    BY <1>6, <1>7 DEF Turn
<1>9. ~InOrder => \A j \in 1..Total : j # i => status[j] # "callback"
    BY <1>2 DEF BatchInv, CallbackInv
<1>10. StackOK(Random!Caller, status', Len(operations'), Turn')
    <2>1. Len(status) \in Nat /\ Len(status') \in Nat /\ Len(status) <= Len(status')
        BY <1>5 DEF Total
    <2>2. \A j \in Busy(Random!Caller) : /\ status'[j] = status[j] /\ j \in Turn'
                                         /\ status[j] = "error"
        BY <1>5, <1>6, <1>7, <1>8, <1>9
    <2> QED
        <3>1. \A j \in Busy(Random!Caller) :
                 /\ status'[j] = status[j] /\ j \in Turn'
                 /\ kept <= Len(operations') \/ status[j] = "error"
            BY <2>2
        <3>2. kept \in Nat /\ Len(operations') \in Nat
            BY <1>5
        <3> HIDE DEF kept
        <3> QED
            BY <1>3, <2>1, <3>1, <3>2, StackChange
<1>11. f \in Random!Frame /\ f.pc = "fire" /\ f.op = 0 /\ FrameOK(f, status', Len(operations'), Turn')
    BY CallIsFrame DEF Random!Call, Random!Pcs, FrameOK
<1> HIDE DEF f
<1>12. /\ StackOK(stack', status', Len(operations'), Turn')
       /\ Busy(stack') = Busy(Random!Caller)
       /\ stack' # <<>> /\ stack'[Len(stack')] = f
    BY <1>1, <1>3, <1>10, <1>11, StackPush
<1>13. /\ Random!Top' = f /\ Random!Running("fire")'
       /\ ~Random!Running("fail")' /\ ~Random!Running("succeed")'
    BY <1>11, <1>12 DEF Random!Running, Random!Top
<1>14. FireInv'
    BY <1>5, <1>6, <1>7, <1>8, <1>11, <1>12, <1>13 DEF FireInv
<1>15. CallbackInv'
    BY <1>5, <1>6, <1>9 DEF CallbackInv
<1>16. FailInv'
    BY <1>2, <1>5, <1>13 DEF BatchInv, BatchTypes, FailInv
<1>17. FiringsInv'
    <2>1. ASSUME NEW j \in 1..Total
          PROVE  (\E n \in 1..Len(fired) : fired[n] = j)
                     <=> status'[j] = "complete" \/ j \in Busy(stack')
        <3>1. (\E n \in 1..Len(fired) : fired[n] = j)
                  <=> status[j] = "complete" \/ j \in Busy(stack)
            BY DEF BatchInv, FiringsInv
        <3>2. CASE j = i
            BY <1>3, <1>5, <3>1, <3>2
        <3>3. CASE j # i
            BY <1>3, <1>5, <1>12, <3>1, <3>3
        <3> QED
            BY <3>2, <3>3
    <2> QED
        BY <1>1, <1>5, <2>1 DEF BatchInv, FiringsInv, FiredOnce, Random!FiredOnce
<1> QED
    BY <1>12, <1>14, <1>15, <1>16, <1>17 DEF BatchInv, StackInv

(* A user callback stops the stream once its chunk has failed.              *)
LEMMA StopsStep ==
    ASSUME BatchInv, BatchTypes', Random!Running("userCallback"),
           handled' = handled \cup {Random!Top.op},
           UNCHANGED <<status, operations, current, stack, fired, failures, upload>>
    PROVE  BatchInv'
<1>1. stack # <<>> /\ Random!Top.pc = "userCallback"
    BY DEF Random!Running
<1>2. status[Random!Top.op] \in {"callback", "error"}
    BY <1>1, TopFacts DEF BatchInv, FrameOK
<1>3. FailInv'
    BY <1>2 DEF BatchInv, FailInv, Random!Running, Random!Top
<1> QED
    BY <1>3 DEF BatchInv, StackInv, FireInv, CallbackInv, FiringsInv, FiredOnce,
        Random!FiredOnce, Turn, InOrder, Random!Running, Random!Top, Total

(* A step that the batch takes no part in.                                  *)
LEMMA QuietStep ==
    ASSUME BatchInv, UNCHANGED <<batchVars, failures, handled, upload>>
    PROVE  BatchInv'
    BY DEF BatchInv, BatchTypes, batchVars, StackInv, FireInv, CallbackInv, FailInv, FiringsInv,
        FiredOnce, Random!FiredOnce, Turn, InOrder, Random!Running, Random!Top, Total
-----------------------------------------------------------------------------
(* The pools.  A new buffer is none of those that are used, so that a pool  *)
(* never has more buffers than its maximum and buffers are numbers.         *)
LEMMA ValuesFinite ==
    ASSUME NEW S, IsFiniteSet(S), NEW f, DOMAIN f = S
    PROVE  IsFiniteSet({f[x] : x \in S})
<1> DEFINE T == {f[x] : x \in S}
           g == [x \in S |-> f[x]]
<1>1. g \in Surjection(S, T)
    BY DEF Surjection
<1> QED
    BY <1>1, FS_Surjection

LEMMA FreshFacts ==
    ASSUME NEW n \in Nat, NEW used, IsFiniteSet(used)
    PROVE  /\ FreshBuffers(n, used) \in Seq(Nat)
           /\ Len(FreshBuffers(n, used)) = n
           /\ \A j \in 1..n : FreshBuffers(n, used)[j] \notin used
           /\ \A j \in 1..n : FreshBuffers(n, used)[j] # 0
           /\ IsInjective(FreshBuffers(n, used))
<1> DEFINE all == 1..(Cardinality(used) + n)
           free == all \ used
<1>1. Cardinality(used) \in Nat
    BY FS_CardinalityType
<1>2. IsFiniteSet(all) /\ Cardinality(all) = Cardinality(used) + n
    <2> DEFINE top == Cardinality(used) + n
    <2>1. 1 \in Int /\ top \in Int /\ top >= 0
        BY <1>1
    <2> HIDE DEF top
    <2>2. IsFiniteSet(1..top) /\ Cardinality(1..top) = top
        BY <2>1, FS_Interval
    <2> QED
        BY <2>2 DEF top
<1>3. /\ IsFiniteSet(free) /\ Cardinality(free) \in Nat
      /\ Cardinality(free) = Cardinality(all) - Cardinality(all \cap used)
    BY <1>2, FS_Difference, FS_CardinalityType
<1>4. Cardinality(all \cap used) \in Nat /\ Cardinality(all \cap used) <= Cardinality(used)
    BY <1>2, FS_Intersection, FS_CardinalityType
<1>5. Cardinality(free) >= n
    BY <1>1, <1>2, <1>3, <1>4
<1>6. PICK b \in Bijection(1..Cardinality(free), free) : TRUE
    BY <1>3, FS_CardinalityType DEF ExistsBijection
<1>7. b \in [1..Cardinality(free) -> free] /\ IsInjective(b)
    BY <1>6 DEF Bijection, Injection
<1> DEFINE s == [j \in 1..n |-> b[j]]
<1>8. s \in [1..n -> free] /\ IsInjective(s)
    <2>1. 1..n \subseteq 1..Cardinality(free)
        BY <1>3, <1>5
    <2> QED
        BY <1>7, <2>1 DEF IsInjective
<1> HIDE DEF s
<1>9. FreshBuffers(n, used) = CHOOSE t \in [1..n -> free] : IsInjective(t)
    BY Zenon DEF FreshBuffers
<1>10. FreshBuffers(n, used) \in [1..n -> free] /\ IsInjective(FreshBuffers(n, used))
    BY <1>8, <1>9, Zenon
<1>11. free \subseteq Nat \ {0} /\ \A x \in free : x \notin used
    BY <1>1
<1> HIDE DEF free
<1>12. FreshBuffers(n, used) \in [1..n -> Nat \ {0}]
    BY <1>10, <1>11
<1> QED
    BY <1>10, <1>11, <1>12, SeqDef, LenProperties

PoolOK(a) == a \in Allocator /\ a.max > 0 /\ Len(a.pool) <= a.max

LEMMA ExtendFacts ==
    ASSUME NEW a, PoolOK(a), NEW used, IsFiniteSet(used)
    PROVE  /\ PoolOK(ExtendMemoryPool(a, used))
           /\ ExtendMemoryPool(a, used).inuse = a.inuse
           /\ ExtendMemoryPool(a, used).max = a.max
           /\ ToSet(ExtendMemoryPool(a, used).pool) \cap used = ToSet(a.pool) \cap used
<1> DEFINE total == Len(a.pool) + a.inuse
           double == Smaller(2 * total, a.max)
           next == IF double = 0 THEN 1 ELSE double
           more == FreshBuffers(next - total, used)
<1>1. /\ a = [pool |-> a.pool, inuse |-> a.inuse, max |-> a.max]
      /\ a.pool \in Seq(Nat) /\ a.inuse \in Nat /\ a.max \in Nat /\ Len(a.pool) \in Nat
      /\ a.max > 0 /\ Len(a.pool) <= a.max
    BY LenProperties DEF PoolOK, Allocator
<1>2. ExtendMemoryPool(a, used) =
         IF total >= a.max THEN a ELSE [a EXCEPT !.pool = @ \o more]
    BY Zenon DEF ExtendMemoryPool
<1>3. CASE total >= a.max
    BY <1>2, <1>3
<1>4. CASE ~(total >= a.max)
    <2>1. next - total \in Nat /\ next <= a.max
        BY <1>1, <1>4 DEF Smaller
    <2> HIDE DEF next
    <2>2. /\ more \in Seq(Nat) /\ Len(more) = next - total
          /\ \A j \in 1..Len(more) : more[j] \notin used
        BY <2>1, FreshFacts
    <2> HIDE DEF more
    <2>3. ExtendMemoryPool(a, used) = [pool |-> a.pool \o more, inuse |-> a.inuse, max |-> a.max]
        BY <1>1, <1>2, <1>4
    <2>4. a.pool \o more \in Seq(Nat) /\ Len(a.pool \o more) = Len(a.pool) + Len(more)
        BY <1>1, <2>2, ConcatProperties
    <2>5. Len(a.pool \o more) <= a.max
        <3>1. Len(a.pool \o more) = Len(a.pool) + (next - (Len(a.pool) + a.inuse))
            BY <2>2, <2>4
        <3>2. next \in Int
            BY <1>1, <2>1 DEF next, Smaller
        <3> QED
            BY <1>1, <2>1, <3>1, <3>2
    <2>6. ToSet(a.pool \o more) = ToSet(a.pool) \cup ToSet(more)
        <3>1. \A j \in 1..(Len(a.pool) + Len(more)) :
                 (a.pool \o more)[j] = IF j <= Len(a.pool) THEN a.pool[j]
                                       ELSE more[j - Len(a.pool)]
            BY <1>1, <2>2, ConcatProperties
        <3>2. /\ DOMAIN (a.pool \o more) = 1..(Len(a.pool) + Len(more))
              /\ DOMAIN a.pool = 1..Len(a.pool) /\ DOMAIN more = 1..Len(more)
              /\ Len(more) \in Nat
            BY <1>1, <2>2, <2>4, LenProperties
        <3>3. \A x : x \in ToSet(a.pool \o more) => x \in ToSet(a.pool) \cup ToSet(more)
            BY <1>1, <3>1, <3>2 DEF ToSet
        <3>4. \A j \in 1..Len(more) : (a.pool \o more)[Len(a.pool) + j] = more[j]
            BY <1>1, <3>1, <3>2
        <3>5. \A j \in 1..Len(a.pool) : (a.pool \o more)[j] = a.pool[j]
            BY <1>1, <3>1, <3>2
        <3>6. ToSet(more) \subseteq ToSet(a.pool \o more)
            <4>1. \A j \in 1..Len(more) : Len(a.pool) + j \in 1..(Len(a.pool) + Len(more))
                BY <1>1, <3>2
            <4> QED
                BY <3>2, <3>4, <4>1 DEF ToSet
        <3>7. ToSet(a.pool) \subseteq ToSet(a.pool \o more)
            <4>1. 1..Len(a.pool) \subseteq 1..(Len(a.pool) + Len(more))
                BY <1>1, <3>2
            <4> QED
                BY <3>2, <3>5, <4>1 DEF ToSet
        <3> QED
            BY <3>3, <3>6, <3>7
    <2>7. ToSet(more) \cap used = {}
        BY <2>2, LenProperties DEF ToSet
    <2> QED
        BY <1>1, <2>3, <2>4, <2>5, <2>6, <2>7 DEF PoolOK, Allocator
<1> QED
    BY <1>3, <1>4

LEMMA GetBufferFacts ==
    ASSUME NEW a, PoolOK(a), NEW used, IsFiniteSet(used)
    PROVE  /\ PoolOK(GetBuffer(a, used).allocator) /\ GetBuffer(a, used).buffer \in Nat
           /\ GetBuffer(a, used).buffer \in ToSet(a.pool) \/ GetBuffer(a, used).buffer \notin used
<1> DEFINE b == IF a.pool = <<>> THEN ExtendMemoryPool(a, used) ELSE a
           fresh == FreshBuffers(1, used)
           first == [b EXCEPT !.inuse = @ + 1]
           next == [b EXCEPT !.inuse = @ + 1, !.pool = Front(@)]
<1>1. PoolOK(b) /\ (\A x \in ToSet(b.pool) : x \in used => x \in ToSet(a.pool))
    BY ExtendFacts
<1>2. GetBuffer(a, used) = IF b.pool = <<>> THEN [buffer |-> fresh[1], allocator |-> first]
                           ELSE [buffer |-> Last(b.pool), allocator |-> next]
    BY Zenon DEF GetBuffer
<1> HIDE DEF b
<1>3. /\ b = [pool |-> b.pool, inuse |-> b.inuse, max |-> b.max]
      /\ b.pool \in Seq(Nat) /\ b.inuse \in Nat /\ b.max \in Nat /\ b.max > 0
      /\ Len(b.pool) \in Nat /\ Len(b.pool) <= b.max
    BY <1>1, LenProperties DEF PoolOK, Allocator
<1>4. CASE b.pool = <<>>
    <2>1. fresh \in Seq(Nat) /\ Len(fresh) = 1 /\ \A j \in 1..1 : fresh[j] \notin used
        BY FreshFacts
    <2> HIDE DEF fresh
    <2>2. fresh[1] \in Nat /\ fresh[1] \notin used
        <3>1. 1 \in 1..Len(fresh)
            BY <2>1
        <3>2. fresh[1] \in Nat
            BY <2>1, <3>1, ElementOfSeq
        <3> QED
            BY <2>1, <3>2
    <2>3. first = [pool |-> b.pool, inuse |-> b.inuse + 1, max |-> b.max]
        BY <1>3
    <2>4. PoolOK(first)
        BY <1>3, <2>3 DEF PoolOK, Allocator
    <2> HIDE DEF first
    <2> QED
        BY <1>2, <1>4, <2>2, <2>4
<1>5. CASE b.pool # <<>>
    <2>1. /\ Len(b.pool) \in Nat \ {0} /\ b.pool[Len(b.pool)] \in Nat
          /\ Front(b.pool) \in Seq(Nat) /\ Len(Front(b.pool)) = Len(b.pool) - 1
        BY <1>3, <1>5, PopCall DEF Front
    <2>2. next = [pool |-> Front(b.pool), inuse |-> b.inuse + 1, max |-> b.max]
        <3>1. PICK p \in Seq(Nat), u \in Nat, m \in Nat : b = [pool |-> p, inuse |-> u, max |-> m]
            BY <1>3, Zenon
        <3>2. b.pool = p /\ b.inuse = u /\ b.max = m
            BY <3>1
        <3>3. next = [[pool |-> p, inuse |-> u, max |-> m]
                         EXCEPT !.inuse = u + 1, !.pool = Front(p)]
            BY <3>1, <3>2
        <3> HIDE DEF next
        <3> QED
            BY <3>2, <3>3
    <2>3. PoolOK(next)
        BY <1>3, <2>1, <2>2 DEF PoolOK, Allocator
    <2>4. Last(b.pool) \in Nat /\ Last(b.pool) \in ToSet(b.pool)
        BY <1>3, <2>1, LenProperties DEF Last, ToSet
    <2> HIDE DEF next
    <2> QED
        BY <1>1, <1>2, <1>5, <2>3, <2>4
<1> QED
    BY <1>4, <1>5

LEMMA ReleaseFacts ==
    ASSUME NEW a, PoolOK(a), NEW id \in Nat
    PROVE  PoolOK(ReleaseBuffer(a, id)) /\ PoolOK(DestroyAllocator(a))
<1> DEFINE pool == IF Len(a.pool) < a.max THEN Append(a.pool, id) ELSE a.pool
           inuse == IF a.inuse = 0 THEN 0 ELSE a.inuse - 1
<1>1. /\ a = [pool |-> a.pool, inuse |-> a.inuse, max |-> a.max]
      /\ a.pool \in Seq(Nat) /\ a.inuse \in Nat /\ a.max \in Nat /\ a.max > 0
      /\ Len(a.pool) \in Nat /\ Len(a.pool) <= a.max
    BY LenProperties DEF PoolOK, Allocator
<1>0. PICK p \in Seq(Nat), u \in Nat, m \in Nat : a = [pool |-> p, inuse |-> u, max |-> m]
    BY <1>1, Zenon
<1>a. a.pool = p /\ a.inuse = u /\ a.max = m
    BY <1>0
<1>2. ReleaseBuffer(a, id) = [pool |-> pool, inuse |-> inuse, max |-> a.max]
    <2>1. ReleaseBuffer(a, id) =
             [[pool |-> p, inuse |-> u, max |-> m] EXCEPT
                 !.pool = IF Len(p) < m THEN Append(p, id) ELSE p,
                 !.inuse = IF u = 0 THEN 0 ELSE u - 1]
        BY <1>0, <1>a DEF ReleaseBuffer
    <2> QED
        BY <1>a, <2>1
<1>3. pool \in Seq(Nat) /\ Len(pool) <= a.max
    BY <1>1, PushCall
<1>4. DestroyAllocator(a) = [pool |-> <<>>, inuse |-> 0, max |-> a.max]
    <2>1. DestroyAllocator(a) =
             [[pool |-> p, inuse |-> u, max |-> m] EXCEPT !.pool = <<>>, !.inuse = 0]
        BY <1>0 DEF DestroyAllocator
    <2> QED
        BY <1>a, <2>1
<1>5. PoolOK(ReleaseBuffer(a, id))
    <2>1. inuse \in Nat
        BY <1>1
    <2> HIDE DEF pool, inuse
    <2> QED
        BY <1>1, <1>2, <1>3, <2>1 DEF PoolOK, Allocator
<1>6. PoolOK(DestroyAllocator(a))
    BY <1>1, <1>4 DEF PoolOK, Allocator
<1> QED
    BY <1>5, <1>6

LEMMA NewFacts ==
    ASSUME NEW max \in Nat \ {0}, NEW used, IsFiniteSet(used)
    PROVE  PoolOK(NewAllocator(max, used))
<1>1. PoolOK([pool |-> <<>>, inuse |-> 0, max |-> max])
    BY DEF PoolOK, Allocator
<1> QED
    BY <1>1, ExtendFacts DEF NewAllocator

LEMMA PoolFinite ==
    ASSUME NEW a, PoolOK(a)
    PROVE  IsFiniteSet(ToSet(a.pool))
<1>1. a.pool \in Seq(Nat) /\ Len(a.pool) \in Nat /\ DOMAIN a.pool = 1..Len(a.pool)
    BY LenProperties DEF PoolOK, Allocator
<1>2. IsFiniteSet(1..Len(a.pool))
    BY <1>1, FS_Interval
<1> QED
    BY <1>1, <1>2, ValuesFinite DEF ToSet
-----------------------------------------------------------------------------
(* The types of what is not the batch's.  What is kept of the data is less  *)
(* than a chunk; what is left of it is a part of the source.                *)
LeftOK(d) == d \in Data /\ d.run.last \in 0..upload.size

CallSet == [height : Nat, left : Data, out : Data, then : {"read", "write", "end"}]
ReadSet == [at : Nat, id : Nat]
ChunkSet == [run : [first : Nat, last : Int], start : Int, id : Nat]

SourceTypes ==
    /\ upload \in Uploads /\ ready \in {"no", "yes", "failed"}
    /\ fd \in {"opening", "open", "closed"}
    /\ held \in BOOLEAN /\ awaiting \in BOOLEAN /\ unpiped \in BOOLEAN
    /\ sourceEnded \in BOOLEAN
    /\ position \in 0..upload.size
    /\ reads \in Seq(ReadSet) /\ \A n \in 1..Len(reads) : reads[n].at <= upload.size

CallsOK(s) == s \in Seq(CallSet) /\ \A n \in 1..Len(s) : LeftOK(s[n].left)
PoolsOK(as) ==
    /\ as = [source |-> as.source, chunk |-> as.chunk]
    /\ PoolOK(as.source) /\ PoolOK(as.chunk)

ChunkTypes ==
    /\ buffer \in Data /\ Size(buffer.run) < upload.chunk /\ offset \in Int
    /\ CallsOK(calls) /\ PoolsOK(allocators)
    /\ assigned \in Seq(ChunkSet) /\ Len(assigned) = Total

ResultTypes ==
    /\ stored \subseteq 1..Total /\ committing \in Nat
    /\ answers \in Seq({"success", "error"})

TypesInv == BatchTypes /\ SourceTypes /\ ChunkTypes /\ ResultTypes

LEMMA UploadFacts ==
    ASSUME SourceTypes
    PROVE  /\ upload \in Scenario
           /\ upload.size \in Nat /\ upload.limit \in Nat
           /\ upload.piece \in Nat \ {0} /\ upload.chunk \in Nat \ {0}
           /\ upload.kind \in {"block", "page", "append", "file"}
           /\ upload.source \in {"local", "pipe"}
           /\ IsFile \/ ~Local => upload.limit = 0
<1>1. upload \in Scenario
    BY UploadAssumption DEF UploadAssumption, SourceTypes
<1> QED
    BY <1>1, UploadAssumption DEF UploadAssumption, SourceTypes, Scenario, IsFile, Local

LEMMA ReferredFinite ==
    ASSUME TypesInv
    PROVE  IsFiniteSet(Referred)
<1> DEFINE pools == UNION {ToSet(allocators[a].pool) : a \in {"source", "chunk"}}
           chunks == {assigned[i].id : i \in 1..Total}
           opens == {reads[n].id : n \in 1..Len(reads)}
           parts == {{calls[n].left.id, calls[n].out.id} : n \in 1..Len(calls)}
<1>1. Referred = pools \cup {buffer.id} \cup chunks \cup opens \cup UNION parts
    BY Zenon DEF Referred
<1>2. /\ IsFiniteSet(1..Total) /\ IsFiniteSet(1..Len(reads)) /\ IsFiniteSet(1..Len(calls))
    <2>1. Total \in Nat /\ Len(reads) \in Nat /\ Len(calls) \in Nat
        BY LenProperties, TotalFacts DEF TypesInv, SourceTypes, ChunkTypes, CallsOK
    <2>2. \A m \in Nat : IsFiniteSet(1..m)
        BY FS_Interval
    <2> QED
        BY <2>1, <2>2
<1>3. IsFiniteSet(pools)
    <2>1. pools = ToSet(allocators["source"].pool) \cup ToSet(allocators["chunk"].pool)
        BY DEF pools
    <2>2. IsFiniteSet(ToSet(allocators.source.pool)) /\ IsFiniteSet(ToSet(allocators.chunk.pool))
        BY PoolFinite DEF TypesInv, ChunkTypes, PoolsOK
    <2> QED
        <3>1. IsFiniteSet(ToSet(allocators["source"].pool)
                             \cup ToSet(allocators["chunk"].pool))
            BY <2>2, FS_Union
        <3> HIDE DEF pools
        <3> QED
            BY <2>1, <3>1
<1>4. IsFiniteSet(chunks)
    <2> DEFINE f == [i \in 1..Total |-> assigned[i].id]
    <2>1. IsFiniteSet({f[i] : i \in 1..Total})
        BY <1>2, ValuesFinite
    <2>2. chunks = {f[i] : i \in 1..Total}
        OBVIOUS
    <2> QED
        BY <2>1, <2>2
<1>5. IsFiniteSet(opens)
    <2> DEFINE f == [n \in 1..Len(reads) |-> reads[n].id]
    <2>1. IsFiniteSet({f[n] : n \in 1..Len(reads)})
        BY <1>2, ValuesFinite
    <2>2. opens = {f[n] : n \in 1..Len(reads)}
        OBVIOUS
    <2> QED
        BY <2>1, <2>2
<1>6. IsFiniteSet(UNION parts)
    <2> DEFINE f == [n \in 1..Len(calls) |-> {calls[n].left.id, calls[n].out.id}]
    <2>1. IsFiniteSet({f[n] : n \in 1..Len(calls)})
        <3>1. DOMAIN f = 1..Len(calls)
            OBVIOUS
        <3> HIDE DEF f
        <3> QED
            BY <1>2, <3>1, ValuesFinite
    <2>2. parts = {f[n] : n \in 1..Len(calls)}
        OBVIOUS
    <2>3. \A x, y : IsFiniteSet({x, y})
        <3>1. \A x : IsFiniteSet({x})
            BY FS_Singleton
        <3>2. \A x, y : IsFiniteSet({x} \cup {y})
            BY <3>1, FS_Union
        <3>3. \A x, y : {x, y} = {x} \cup {y}
            OBVIOUS
        <3>4. ASSUME NEW x, NEW y PROVE IsFiniteSet({x, y})
            <4>1. {x, y} = {x} \cup {y} /\ IsFiniteSet({x} \cup {y})
                BY <3>2, <3>3
            <4> QED
                BY <4>1
        <3> QED
            BY <3>4
    <2>4. \A T \in parts : IsFiniteSet(T)
        BY <2>3
    <2> HIDE DEF parts, f
    <2> QED
        BY <2>1, <2>2, <2>4, FS_UNION
<1>7. IsFiniteSet({buffer.id})
    BY FS_Singleton
<1> HIDE DEF pools, chunks, opens, parts
<1> QED
    BY <1>1, <1>3, <1>4, <1>5, <1>6, <1>7, FS_Union

LEMMA ObtainFacts ==
    ASSUME TypesInv, NEW level \in {"source", "chunk"}
    PROVE  PoolOK(Obtain(level).allocator) /\ Obtain(level).buffer \in Nat
<1>1. IsFiniteSet(Referred)
    BY ReferredFinite
<1>2. PoolOK(allocators[level])
    BY DEF TypesInv, ChunkTypes, PoolsOK
<1>3. CASE IsFile
    <2>1. FreshBuffers(1, Referred)[1] \in Nat
        BY <1>1, FreshFacts, ElementOfSeq
    <2> QED
        BY <1>2, <1>3, <2>1 DEF Obtain
<1>4. CASE ~IsFile
    BY <1>1, <1>2, <1>4, GetBufferFacts DEF Obtain
<1> QED
    BY <1>3, <1>4
-----------------------------------------------------------------------------
(* The types of the batch's variables after each of its steps.              *)
LEMMA CallTypes ==
    ASSUME BatchTypes, StackInv, stack # <<>>
    PROVE  /\ Random!Caller \in Seq(Random!Frame) /\ Random!Top.op \in Nat
           /\ \A pc \in Random!Pcs, op \in Nat :
                 Append(Random!Caller, Random!Call(pc, op)) \in Seq(Random!Frame)
<1>1. Random!Caller \in Seq(Random!Frame) /\ Random!Top.op \in Nat
    BY TopFacts
<1>2. ASSUME NEW pc \in Random!Pcs, NEW op \in Nat
      PROVE  Append(Random!Caller, Random!Call(pc, op)) \in Seq(Random!Frame)
    BY <1>1, CallIsFrame, PushCall
<1> QED
    BY <1>1, <1>2

LEMMA AddsTypes ==
    ASSUME BatchTypes, Random!AddOperation(stack), UNCHANGED <<failures, handled>>
    PROVE  BatchTypes' /\ Total' = Total + 1
<1>1. Total \in Nat /\ Total = Len(status) /\ Total = Random!Total
    BY TotalFacts
<1>2. /\ status' = Append(status, "queued") /\ operations' = Append(operations, Total + 1)
      /\ queued' = queued + 1
      /\ stack' = Append(stack, Random!Call("run", Total + 1))
      /\ UNCHANGED <<current, active, paused, error, completing, ended, waiting, fired, endings>>
    BY <1>1 DEF Random!AddOperation, Random!AddOperationAs
<1>3. status' \in Seq(Random!OperationState) /\ Total' = Total + 1
    <2>1. status \in Seq(Random!OperationState) /\ "queued" \in Random!OperationState
        BY DEF BatchTypes, Random!OperationState
    <2> QED
        BY <1>1, <1>2, <2>1, PushCall DEF Total
<1>4. operations' \in Seq(1..Total')
    <2>1. operations \in Seq(1..Total') /\ Total + 1 \in 1..Total'
        <3>1. /\ operations \in Seq(1..Total) /\ Len(operations) \in Nat
              /\ \A n \in 1..Len(operations) : operations[n] \in 1..Total
              /\ operations \in [1..Len(operations) -> 1..Total]
            BY ElementOfSeq, LenProperties DEF BatchTypes
        <3>2. operations \in [1..Len(operations) -> 1..Total']
            BY <1>1, <1>3, <3>1
        <3> QED
            BY <1>1, <1>3, <3>1, <3>2, SeqDef
    <2> QED
        BY <1>2, <2>1
<1>5. stack' \in Seq(Random!Frame)
    <2>1. Random!Call("run", Total + 1) \in Random!Frame
        BY <1>1, CallIsFrame DEF Random!Pcs
    <2> QED
        BY <1>2, <2>1 DEF BatchTypes
<1>6. failures \subseteq 1..Total'
    BY <1>1, <1>3 DEF BatchTypes
<1> QED
    BY <1>2, <1>3, <1>4, <1>5, <1>6 DEF BatchTypes

LEMMA EnablesTypes ==
    ASSUME BatchTypes, Random!EnableComplete(stack), UNCHANGED <<failures, handled>>
    PROVE  BatchTypes' /\ Total' = Total
<1>1. Random!Call("tryEnd", 0) \in Random!Frame
    BY CallIsFrame DEF Random!Pcs
<1>2. stack' \in Seq(Random!Frame)
    BY <1>1 DEF Random!EnableComplete, BatchTypes
<1> QED
    BY <1>2 DEF Random!EnableComplete, BatchTypes, Total

LEMMA RunsTypes ==
    ASSUME BatchTypes, StackInv,
           \/ Random!RunRequest /\ failures' = failures
           \/ Random!RunAfterError /\ failures' = failures \cup {Random!Top.op},
           UNCHANGED handled
    PROVE  BatchTypes' /\ Total' = Total
<1>1. stack # <<>> /\ Random!Top.pc = "run"
    BY DEF Random!RunRequest, Random!RunAfterError, Random!Running
<1>2. /\ Random!Top.op \in 1..Total /\ Random!Top.op \in Nat
      /\ Random!Caller \in Seq(Random!Frame)
      /\ Append(Random!Caller, Random!Call("ran", Random!Top.op)) \in Seq(Random!Frame)
      /\ Random!Call("fail", Random!Top.op) \in Random!Frame
    BY <1>1, TopFacts, CallTypes, CallIsFrame DEF Random!Pcs, FrameOK, Total
<1> DEFINE ran == Append(Random!Caller, Random!Call("ran", Random!Top.op))
           fail == Random!Call("fail", Random!Top.op)
<1>a. \/ stack' = ran /\ status' = [status EXCEPT ![Random!Top.op] = "running"]
      \/ stack' = Append(ran, fail) /\ status' = status
    BY DEF Random!RunRequest, Random!RunAfterError, Random!batch
<1>b. ran \in Seq(Random!Frame) /\ fail \in Random!Frame
    BY <1>2
<1> HIDE DEF ran, fail
<1>3. stack' \in Seq(Random!Frame)
    BY <1>a, <1>b, PushCall
<1>4. status' \in Seq(Random!OperationState) /\ Total' = Total
    <2>1. status \in Seq(Random!OperationState) /\ "running" \in Random!OperationState
        BY DEF BatchTypes, Random!OperationState
    <2> QED
        BY <1>a, <2>1, OverwriteSeq DEF Total
<1> QED
    BY <1>2, <1>3, <1>4 DEF Random!RunRequest, Random!RunAfterError, Random!batch, BatchTypes

LEMMA AnswersTypes ==
    ASSUME BatchTypes, NEW i \in 1..Total, NEW failed \in BOOLEAN,
           Random!RequestDone(i, failed),
           failures' = IF failed THEN failures \cup {i} ELSE failures,
           UNCHANGED handled
    PROVE  BatchTypes' /\ Total' = Total
<1>1. /\ stack' = Append(stack, Random!Call(IF failed THEN "fail" ELSE "succeed", i))
      /\ UNCHANGED <<Random!batch, waiting, fired, endings>>
    BY DEF Random!RequestDone, Random!RequestDoneIn
<1>2. Random!Call(IF failed THEN "fail" ELSE "succeed", i) \in Random!Frame
    BY TotalFacts, CallIsFrame DEF Random!Pcs
<1>3. stack' \in Seq(Random!Frame)
    BY <1>1, <1>2 DEF BatchTypes
<1> QED
    BY <1>1, <1>3 DEF BatchTypes, Random!batch, Total

LEMMA SettlesTypes ==
    ASSUME BatchTypes, StackInv,
           Mode(Random!BatchOperationCallback, Ordered!BatchOperationCallback),
           UNCHANGED <<failures, handled>>
    PROVE  BatchTypes' /\ Total' = Total
<1> DEFINE state == IF ~InOrder /\ Random!Running("fail") THEN "error" ELSE "callback"
           below == Append(Random!Caller, Random!Call("tryDrain", 0))
<1>1. /\ Random!Running("succeed") \/ Random!Running("fail")
      /\ queued' = queued - 1 /\ error' = (error \/ Random!Running("fail"))
      /\ status' = [status EXCEPT ![Random!Top.op] = state]
      /\ stack' = IF InOrder /\ current # Random!Top.op THEN below
                  ELSE Append(below, Random!Call("fire", Random!Top.op))
      /\ UNCHANGED <<operations, current, active, paused, completing, ended,
                     waiting, fired, endings>>
    BY SettlesInMode, Zenon DEF BatchTypes
<1>2. stack # <<>>
    BY <1>1 DEF Random!Running
<1>3. /\ below \in Seq(Random!Frame)
      /\ Random!Call("fire", Random!Top.op) \in Random!Frame
    BY <1>2, CallTypes, CallIsFrame DEF Random!Pcs
<1>4. state \in Random!OperationState
    BY DEF Random!OperationState
<1> HIDE DEF state, below
<1>5. stack' \in Seq(Random!Frame)
    BY <1>1, <1>3, PushCall
<1>6. status' \in Seq(Random!OperationState) /\ Total' = Total
    <2>1. status \in Seq(Random!OperationState)
        BY DEF BatchTypes
    <2>2. status' = [status EXCEPT ![Random!Top.op] = state]
        BY <1>1
    <2> QED
        BY <1>4, <2>1, <2>2, OverwriteSeq DEF Total
<1>7. error' \in BOOLEAN
    BY <1>1 DEF BatchTypes
<1> QED
    BY <1>1, <1>5, <1>6, <1>7 DEF BatchTypes

LEMMA FiresTypes ==
    ASSUME BatchTypes, StackInv, Mode(Random!FireUserCallback, Ordered!FireUserCallback),
           UNCHANGED <<failures, handled>>
    PROVE  BatchTypes' /\ Total' = Total
<1> DEFINE i == IF Random!Top.op # 0 \/ NextIndex = 0 THEN Random!Top.op
                ELSE operations[NextIndex]
           f == [pc |-> "userCallback", op |-> i, index |-> NextIndex]
<1>1. /\ Random!Running("fire")
      /\ stack' = Append(Random!Caller, f) /\ fired' = Append(fired, i)
      /\ UNCHANGED <<Random!batch, waiting, endings>>
    BY FiresInMode, Zenon
<1>2. Random!Caller \in Seq(Random!Frame) /\ Random!Top.op \in Nat
    BY <1>1, CallTypes DEF Random!Running
<1>3. i \in Nat /\ NextIndex \in Nat
    <2>1. /\ Total \in Nat /\ Len(operations) \in Nat
          /\ NextIndex \in 0..Len(operations)
          /\ NextIndex # 0 => operations[NextIndex] \in 1..Total
        BY NextIndexFacts, TotalFacts
    <2> QED
        BY <1>2, <2>1
<1> HIDE DEF i
<1>4. f \in Random!Frame
    BY <1>3 DEF Random!Frame, Random!Pcs
<1> HIDE DEF f
<1>5. stack' \in Seq(Random!Frame) /\ fired' \in Seq(Nat)
    BY <1>1, <1>2, <1>3, <1>4 DEF BatchTypes
<1> QED
    BY <1>1, <1>5 DEF BatchTypes, Random!batch, Total

(* The rest leaves the operations alone.                                    *)
LEMMA ControlTypes ==
    ASSUME BatchTypes, StackInv, stack # <<>>,
           \/ stack' = Random!Caller
           \/ \E pc \in Idling : stack' = Append(Random!Caller, Random!Call(pc, 0)),
           UNCHANGED <<status, operations, current, queued, paused, error, completing, fired,
                       failures, handled>>,
           active' \in Int, ended' \in BOOLEAN, waiting' \in BOOLEAN, endings' \in Nat
    PROVE  BatchTypes' /\ Total' = Total
<1>1. stack' \in Seq(Random!Frame)
    BY CallTypes DEF Idling, Random!Pcs
<1> QED
    BY <1>1 DEF BatchTypes, Total

LEMMA ReturnsTypes ==
    ASSUME BatchTypes, StackInv,
           Mode(Random!UserCallbackReturns, Ordered!UserCallbackReturns),
           UNCHANGED <<failures, handled>>
    PROVE  BatchTypes' /\ Total' = Total
<1>1. /\ Random!Running("userCallback")
      /\ operations' = Random!Splice(operations, Random!Top.index)
      /\ active' = active - 1
      /\ status' = [status EXCEPT ![Random!Top.op] = "complete"]
      /\ current' = IF InOrder THEN current + 1 ELSE current
      /\ stack' = Append(Random!Caller, Random!Call("fire", 0))
      /\ UNCHANGED <<queued, paused, error, completing, ended, waiting, fired, endings>>
    BY ReturnsInMode, Zenon
<1>2. stack # <<>> /\ Random!Top.pc = "userCallback"
    BY <1>1 DEF Random!Running
<1>3. stack' \in Seq(Random!Frame)
    BY <1>1, <1>2, CallTypes DEF Random!Pcs
<1>4. status' \in Seq(Random!OperationState) /\ Total' = Total
    <2>1. status \in Seq(Random!OperationState) /\ "complete" \in Random!OperationState
        BY DEF BatchTypes, Random!OperationState
    <2> QED
        BY <1>1, <2>1, OverwriteSeq DEF Total
<1>5. operations' \in Seq(1..Total')
    <2>1. Random!Top.index \in 0..Len(operations)
        BY <1>2, TopFacts DEF FrameOK
    <2> QED
        BY <1>1, <1>4, <2>1, SpliceKeepsIds DEF BatchTypes
<1>6. current' \in Int
    BY <1>1 DEF BatchTypes
<1> QED
    BY <1>1, <1>3, <1>4, <1>5, <1>6 DEF BatchTypes
-----------------------------------------------------------------------------
(* The calls of the chunk stream.                                           *)
LEMMA TopWithShape ==
    ASSUME calls \in Seq(CallSet), calls # <<>>, NEW left \in Data, NEW out \in Data
    PROVE  /\ TopWith(left, out) \in Seq(CallSet) /\ Len(TopWith(left, out)) = Len(calls)
           /\ \A n \in 1..(Len(calls) - 1) : TopWith(left, out)[n] = calls[n]
           /\ TopWith(left, out)[Len(calls)] =
                 [height |-> Top.height, left |-> left, out |-> out, then |-> Top.then]
<1> DEFINE k == Len(calls)
           c == [height |-> Top.height, left |-> left, out |-> out, then |-> Top.then]
           half == [calls EXCEPT ![k].left = left]
           t == TopWith(left, out)
<1>1. /\ k \in 1..Len(calls) /\ k \in Nat /\ calls \in [1..k -> CallSet]
      /\ Top \in CallSet /\ Top = calls[k]
    BY EmptySeq, LenProperties, ElementOfSeq DEF Top, Last
<1>2. PICK h \in Nat, l \in Data, o \in Data, w \in {"read", "write", "end"} :
         Top = [height |-> h, left |-> l, out |-> o, then |-> w]
    BY <1>1, Zenon DEF CallSet
<1>3. /\ Top.height = h /\ Top.then = w
      /\ [[Top EXCEPT !.left = left] EXCEPT !.out = out] = c
    <2>1. Top.height = h /\ Top.then = w
        BY <1>2
    <2>2. [Top EXCEPT !.left = left] = [height |-> h, left |-> left, out |-> o, then |-> w]
        BY <1>2
    <2>3. [[height |-> h, left |-> left, out |-> o, then |-> w] EXCEPT !.out = out]
             = [height |-> h, left |-> left, out |-> out, then |-> w]
        OBVIOUS
    <2> QED
        BY <2>1, <2>2, <2>3
<1>4. c \in CallSet
    BY <1>2, <1>3 DEF CallSet
<1> HIDE DEF c
<1>5. t = [calls EXCEPT ![k] = c]
    <2>1. half = [calls EXCEPT ![k] = [calls[k] EXCEPT !.left = left]]
        OBVIOUS
    <2>2. t = [half EXCEPT ![k] = [half[k] EXCEPT !.out = out]]
        BY DEF TopWith
    <2>3. half[k] = [Top EXCEPT !.left = left]
        BY <1>1, <2>1
    <2>4. t = [half EXCEPT ![k] = c]
        BY <1>3, <2>2, <2>3
    <2>5. half \in [1..k -> {half[n] : n \in 1..k}] /\ DOMAIN half = 1..k
        BY <1>1, <2>1
    <2> QED
        BY <1>1, <2>1, <2>4
<1> HIDE DEF t
<1>6. /\ t \in Seq(CallSet) /\ Len(t) = k
      /\ \A n \in 1..k : t[n] = IF n = k THEN c ELSE calls[n]
    <2>1. /\ [calls EXCEPT ![k] = c] \in Seq(CallSet)
          /\ Len([calls EXCEPT ![k] = c]) = k
          /\ \A n \in 1..k : [calls EXCEPT ![k] = c][n] = IF n = k THEN c ELSE calls[n]
        BY <1>4, OverwriteSeq
    <2> QED
        BY <1>5, <2>1
<1> QED
    BY <1>1, <1>6 DEF t, c

LEMMA TopCallFacts ==
    ASSUME TypesInv, calls # <<>>
    PROVE  /\ Len(calls) \in Nat \ {0} /\ Top \in CallSet /\ Top = calls[Len(calls)]
           /\ LeftOK(Top.left) /\ Top.out \in Data
           /\ Front(calls) \in Seq(CallSet) /\ Len(Front(calls)) = Len(calls) - 1
           /\ \A n \in 1..(Len(calls) - 1) : Front(calls)[n] = calls[n]
<1>1. calls \in Seq(CallSet)
    BY DEF TypesInv, ChunkTypes, CallsOK
<1>2. Len(calls) \in Nat \ {0} /\ calls[Len(calls)] \in CallSet
    BY <1>1, PopCall
<1>3. LeftOK(calls[Len(calls)].left) /\ calls[Len(calls)].out \in Data
    BY <1>2 DEF TypesInv, ChunkTypes, CallsOK, CallSet
<1> QED
    BY <1>1, <1>2, <1>3, PopCall DEF Top, Last, Front

(* The data of a call changes, a call is added, a call returns.             *)
LEMMA TopWithOK ==
    ASSUME TypesInv, calls # <<>>, NEW left, NEW out, LeftOK(left), out \in Data
    PROVE  /\ CallsOK(TopWith(left, out)) /\ Len(TopWith(left, out)) = Len(calls)
           /\ \A n \in 1..(Len(calls) - 1) : TopWith(left, out)[n] = calls[n]
           /\ TopWith(left, out)[Len(calls)] =
                 [height |-> Top.height, left |-> left, out |-> out, then |-> Top.then]
           /\ TopWith(left, out) # <<>>
<1>1. calls \in Seq(CallSet) /\ left \in Data /\ out \in Data
    BY DEF TypesInv, ChunkTypes, LeftOK, CallsOK
<1> DEFINE t == TopWith(left, out)
<1>2. /\ t \in Seq(CallSet) /\ Len(t) = Len(calls)
      /\ \A n \in 1..(Len(calls) - 1) : t[n] = calls[n]
      /\ t[Len(calls)] = [height |-> Top.height, left |-> left, out |-> out, then |-> Top.then]
    BY <1>1, TopWithShape
<1>3. Len(calls) \in Nat \ {0}
    BY TopCallFacts
<1> HIDE DEF t
<1>4. \A n \in 1..Len(t) : LeftOK(t[n].left)
    <2>1. \A n \in 1..(Len(calls) - 1) : LeftOK(t[n].left)
        BY <1>2, <1>3 DEF TypesInv, ChunkTypes, CallsOK
    <2>2. LeftOK(t[Len(calls)].left)
        BY <1>2
    <2> QED
        BY <1>2, <1>3, <2>1, <2>2
<1>5. t # <<>>
    BY <1>2, <1>3
<1> QED
    BY <1>2, <1>4, <1>5 DEF t, CallsOK

LEMMA AppendCallOK ==
    ASSUME NEW s, CallsOK(s), NEW c \in CallSet, LeftOK(c.left)
    PROVE  /\ CallsOK(Append(s, c)) /\ Len(Append(s, c)) = Len(s) + 1 /\ Len(s) \in Nat
           /\ \A n \in 1..Len(s) : Append(s, c)[n] = s[n]
           /\ Append(s, c)[Len(s) + 1] = c
           /\ Append(s, c) # <<>>
<1>1. /\ Append(s, c) \in Seq(CallSet) /\ Append(s, c) # <<>>
      /\ Len(Append(s, c)) = Len(s) + 1 /\ Len(s) \in Nat
      /\ \A n \in 1..Len(s) : Append(s, c)[n] = s[n]
      /\ Append(s, c)[Len(s) + 1] = c
    BY PushCall DEF CallsOK
<1>2. \A n \in 1..(Len(s) + 1) : LeftOK(Append(s, c)[n].left)
    BY <1>1 DEF CallsOK
<1> QED
    BY <1>1, <1>2 DEF CallsOK

LEMMA OneCallOK ==
    ASSUME NEW c \in CallSet, LeftOK(c.left)
    PROVE  CallsOK(<<c>>) /\ Len(<<c>>) = 1 /\ <<c>>[1] = c
    BY DEF CallsOK

LEMMA FrontOK ==
    ASSUME TypesInv, calls # <<>>
    PROVE  CallsOK(Front(calls))
<1>1. \A n \in 1..Len(Front(calls)) : n \in 1..Len(calls) /\ Front(calls)[n] = calls[n]
    BY TopCallFacts
<1> QED
    BY <1>1, TopCallFacts DEF CallsOK, TypesInv, ChunkTypes

LEMMA NoDataOK ==
    ASSUME SourceTypes
    PROVE  LeftOK(NoData) /\ NoData \in Data /\ Size(NoData.run) = 0
    BY UploadFacts DEF LeftOK, NoData, Data, Nothing, Run, Size

LEMMA CallOK ==
    ASSUME TypesInv, NEW left, NEW out, NEW then \in {"read", "write", "end"},
           LeftOK(left), out \in Data
    PROVE  /\ Call(left, out, then) \in CallSet
           /\ LeftOK(Call(left, out, then).left)
           /\ Call(left, out, then).height = Len(stack) /\ Call(left, out, then).then = then
           /\ Call(left, out, then).left = left /\ Call(left, out, then).out = out
    BY TotalFacts DEF TypesInv, Call, CallSet, LeftOK
-----------------------------------------------------------------------------
(* The types after each of the upload's own steps.                          *)
LEMMA PoolsExcept ==
    ASSUME NEW as, PoolsOK(as), NEW p, PoolOK(p)
    PROVE  /\ PoolsOK([as EXCEPT !.source = p]) /\ PoolsOK([as EXCEPT !.chunk = p])
           /\ PoolsOK([as EXCEPT ![Level] = p])
<1>1. PICK q, r : as = [source |-> q, chunk |-> r] /\ PoolOK(q) /\ PoolOK(r)
    BY Zenon DEF PoolsOK
<1>2. [as EXCEPT !.source = p] = [source |-> p, chunk |-> r]
    BY <1>1
<1>3. [as EXCEPT !.chunk = p] = [source |-> q, chunk |-> p]
    BY <1>1
<1>4. ASSUME NEW level \in {"source", "chunk"}
      PROVE  \/ [as EXCEPT ![level] = p] = [source |-> p, chunk |-> r]
             \/ [as EXCEPT ![level] = p] = [source |-> q, chunk |-> p]
    BY <1>1, <1>4
<1>5. PoolsOK([source |-> p, chunk |-> r]) /\ PoolsOK([source |-> q, chunk |-> p])
    BY <1>1 DEF PoolsOK
<1>6. Level \in {"source", "chunk"}
    BY DEF Level
<1> QED
    BY <1>2, <1>3, <1>4, <1>5, <1>6

LEMMA PoolsFacts ==
    ASSUME TypesInv
    PROVE  /\ PoolsOK(allocators)
           /\ \A id \in Nat : /\ PoolsOK([allocators EXCEPT !.source = ReleaseBuffer(@, id)])
                              /\ PoolsOK([allocators EXCEPT !.chunk = ReleaseBuffer(@, id)])
           /\ PoolsOK([allocators EXCEPT !.source = DestroyAllocator(@)])
           /\ PoolsOK([allocators EXCEPT !.source = Obtain("source").allocator])
           /\ PoolsOK([allocators EXCEPT !.chunk = Obtain("chunk").allocator])
           /\ PoolsOK([allocators EXCEPT ![Level] = Obtain(Level).allocator])
<1>1. PoolsOK(allocators) /\ PoolOK(allocators.source) /\ PoolOK(allocators.chunk)
    BY DEF TypesInv, ChunkTypes, PoolsOK
<1>2. ASSUME NEW id \in Nat
      PROVE  /\ PoolOK(ReleaseBuffer(allocators.source, id))
             /\ PoolOK(ReleaseBuffer(allocators.chunk, id))
             /\ PoolOK(DestroyAllocator(allocators.source))
    BY <1>1, <1>2, ReleaseFacts
<1>3. ASSUME NEW id \in Nat
      PROVE  /\ PoolsOK([allocators EXCEPT !.source = ReleaseBuffer(allocators.source, id)])
             /\ PoolsOK([allocators EXCEPT !.chunk = ReleaseBuffer(allocators.chunk, id)])
             /\ PoolsOK([allocators EXCEPT !.source = DestroyAllocator(allocators.source)])
    BY <1>1, <1>2, <1>3, PoolsExcept
<1>4. /\ PoolOK(Obtain("source").allocator) /\ PoolOK(Obtain("chunk").allocator)
      /\ PoolOK(Obtain(Level).allocator)
    BY ObtainFacts DEF Level
<1>5. /\ PoolsOK([allocators EXCEPT !.source = Obtain("source").allocator])
      /\ PoolsOK([allocators EXCEPT !.chunk = Obtain("chunk").allocator])
      /\ PoolsOK([allocators EXCEPT ![Level] = Obtain(Level).allocator])
    BY <1>1, <1>4, PoolsExcept
<1>6. PoolsOK([allocators EXCEPT !.source = DestroyAllocator(allocators.source)])
    BY <1>3
<1> QED
    BY <1>1, <1>3, <1>5, <1>6

LEMMA EmitDataTypes ==
    ASSUME TypesInv, NEW at \in 0..upload.size, EmitData(at)
    PROVE  /\ reads' \in Seq(ReadSet)
           /\ \A n \in 1..Len(reads') : reads'[n].at <= upload.size
           /\ PoolsOK(allocators')
<1>1. /\ reads \in Seq(ReadSet) /\ \A n \in 1..Len(reads) : reads[n].at <= upload.size
      /\ at \in Nat /\ at <= upload.size
    BY UploadFacts DEF TypesInv, SourceTypes
<1>2. CASE UNCHANGED <<reads, allocators>>
    BY <1>1, <1>2, PoolsFacts
<1>3. CASE /\ reads' = Append(reads, [at |-> at, id |-> Obtain("source").buffer])
           /\ allocators' = [allocators EXCEPT !.source = Obtain("source").allocator]
    <2> DEFINE r == [at |-> at, id |-> Obtain("source").buffer]
    <2>1. r \in ReadSet /\ r.at <= upload.size
        BY <1>1, ObtainFacts DEF ReadSet
    <2> HIDE DEF r
    <2>2. /\ Append(reads, r) \in Seq(ReadSet) /\ Len(reads) \in Nat
          /\ Len(Append(reads, r)) = Len(reads) + 1
          /\ \A n \in 1..Len(reads) : Append(reads, r)[n] = reads[n]
          /\ Append(reads, r)[Len(reads) + 1] = r
        BY <1>1, <2>1, PushCall
    <2>3. reads' = Append(reads, r)
        BY <1>3 DEF r
    <2>4. \A n \in 1..Len(reads') : reads'[n].at <= upload.size
        BY <1>1, <2>1, <2>2, <2>3
    <2> QED
        BY <1>3, <2>2, <2>3, <2>4, PoolsFacts
<1> QED
    BY <1>2, <1>3 DEF EmitData

LEMMA DataFacts ==
    ASSUME NEW d \in Data
    PROVE  /\ d.run.first \in Nat /\ d.run.last \in Int /\ d.id \in Nat
           /\ d = [run |-> [first |-> d.run.first, last |-> d.run.last], id |-> d.id]
           /\ Size(d.run) = d.run.last - d.run.first + 1 /\ Size(d.run) \in Int
           /\ \A first \in Nat, last \in Int, id \in Nat :
                 [run |-> Run(first, last), id |-> id] \in Data
           /\ \A n \in Nat : /\ [d EXCEPT !.run.first = @ + n] \in Data
                             /\ [d EXCEPT !.run.first = @ + n].run.last = d.run.last
                             /\ [d EXCEPT !.run.first = @ + n].run.first = d.run.first + n
                             /\ [d EXCEPT !.run.first = @ + n].id = d.id
           /\ \A id \in Nat : [d EXCEPT !.id = id] \in Data /\ [d EXCEPT !.id = id].run = d.run
<1>1. PICK f \in Nat, l \in Int, i \in Nat : d = [run |-> [first |-> f, last |-> l], id |-> i]
    BY Zenon DEF Data
<1>2. d.run.first = f /\ d.run.last = l /\ d.id = i
    BY <1>1
<1>3. ASSUME NEW n \in Nat
      PROVE  [d EXCEPT !.run.first = @ + n] = [run |-> [first |-> f + n, last |-> l], id |-> i]
    <2>1. [d EXCEPT !.run.first = @ + n] = [d EXCEPT !.run = [d.run EXCEPT !.first = f + n]]
        BY <1>2
    <2>2. [d.run EXCEPT !.first = f + n] = [first |-> f + n, last |-> l]
        BY <1>1
    <2> QED
        BY <1>1, <2>1, <2>2
<1>4. ASSUME NEW id \in Nat
      PROVE  [d EXCEPT !.id = id] = [run |-> [first |-> f, last |-> l], id |-> id]
    BY <1>1, <1>4
<1>5. \A first \in Nat, last \in Int, id \in Nat :
         [run |-> [first |-> first, last |-> last], id |-> id] \in Data
    BY DEF Data
<1>6. \A n \in Nat : f + n \in Nat
    OBVIOUS
<1> QED
    BY <1>1, <1>2, <1>3, <1>4, <1>5, <1>6 DEF Size, Run

(* What a copy of n units makes of the data of the innermost call.          *)
LEMMA CopyTypes ==
    ASSUME TypesInv, calls # <<>>, NEW n \in Nat, CopyUpTo(n)
    PROVE  /\ buffer' \in Data /\ Size(buffer'.run) < upload.chunk /\ PoolsOK(allocators')
           /\ \E left, out : LeftOK(left) /\ out \in Data /\ calls' = TopWith(left, out)
<1> DEFINE fresh == buffer = NoData
           got == Obtain(Level)
           id == IF fresh THEN got.buffer ELSE buffer.id
           first == IF fresh THEN Top.left.run.first ELSE buffer.run.first
           run == Run(first, Top.left.run.first + n - 1)
           rest == [Top.left EXCEPT !.run.first = @ + n]
           pools == IF fresh THEN [allocators EXCEPT ![Level] = got.allocator] ELSE allocators
           whole == [run |-> run, id |-> id]
<1>1. /\ allocators' = AfterCopy(pools)
      /\ IF Size(run) < upload.chunk
         THEN buffer' = whole /\ calls' = TopWith(rest, NoData)
         ELSE buffer' = NoData /\ calls' = TopWith(rest, whole)
    BY Zenon DEF CopyUpTo, CopyAndPop
<1>2. /\ LeftOK(Top.left) /\ Top.left \in Data /\ Top.left.run.first \in Nat
      /\ Top.left.id \in Nat
    BY TopCallFacts, DataFacts DEF LeftOK
<1>3. first \in Nat /\ id \in Nat
    <2>1. buffer \in Data /\ got.buffer \in Nat
        BY ObtainFacts DEF TypesInv, ChunkTypes, Level
    <2>2. buffer.run.first \in Nat /\ buffer.id \in Nat
        BY <2>1, DataFacts
    <2> QED
        BY <1>2, <2>1, <2>2
<1>4. PoolsOK(pools)
    BY PoolsFacts
<1>5. PoolsOK(AfterCopy(pools))
    <2>1. PoolOK(ReleaseBuffer(pools.source, Top.left.id))
        BY <1>2, <1>4, ReleaseFacts DEF PoolsOK
    <2>2. PoolsOK([pools EXCEPT !.source = ReleaseBuffer(pools.source, Top.left.id)])
        BY <1>4, <2>1, PoolsExcept
    <2> HIDE DEF pools
    <2> QED
        BY <1>4, <2>2 DEF AfterCopy
<1>6. whole \in Data /\ whole.run = run
    <2>1. Top.left.run.first + n - 1 \in Int
        BY <1>2
    <2> HIDE DEF first, id
    <2>2. whole \in Data
        BY <1>2, <1>3, <2>1, DataFacts
    <2> QED
        BY <2>2
<1>7. LeftOK(rest)
    BY <1>2, DataFacts DEF LeftOK
<1>8. NoData \in Data /\ Size(NoData.run) < upload.chunk
    BY NoDataOK, UploadFacts DEF TypesInv
<1> HIDE DEF whole, rest, pools, run
<1> QED
    BY <1>1, <1>5, <1>6, <1>7, <1>8

LEMMA BatchKept ==
    ASSUME TypesInv, UNCHANGED <<batchVars, failures, handled>>
    PROVE  BatchTypes' /\ Total' = Total
    BY DEF TypesInv, BatchTypes, batchVars, Total

LEMMA SourceKept ==
    ASSUME TypesInv, UNCHANGED <<upload, ready, sourceVars>>
    PROVE  SourceTypes'
    BY DEF TypesInv, SourceTypes, sourceVars

LEMMA ChunkKept ==
    ASSUME upload' = upload, buffer' \in Data, Size(buffer'.run) < upload.chunk,
           offset' \in Int, CallsOK(calls'), PoolsOK(allocators'),
           assigned' \in Seq(ChunkSet), Len(assigned') = Total'
    PROVE  ChunkTypes'
<1>1. CallsOK(calls)'
    BY DEF CallsOK, LeftOK
<1>2. PoolsOK(allocators)'
    BY DEF PoolsOK, PoolOK
<1>3. (Size(buffer.run) < upload.chunk)'
    BY DEF Size
<1> QED
    BY <1>1, <1>2, <1>3 DEF ChunkTypes

LEMMA ResultKept ==
    ASSUME TypesInv, BatchTypes', UNCHANGED resultVars, Total' = Total
    PROVE  ResultTypes'
    BY DEF TypesInv, ResultTypes, resultVars

(* BuildChunk *)
LEMMA BuildTypes ==
    ASSUME TypesInv, BuildChunk
    PROVE  /\ TypesInv'
           /\ \E left, out : LeftOK(left) /\ out \in Data /\ calls' = TopWith(left, out)
<1>1. /\ calls # <<>> /\ Size(Top.left.run) > 0
      /\ UNCHANGED <<batchVars, Others, sourceVars, offset>>
    BY DEF BuildChunk, Calling
<1>2. /\ TypesInv /\ LeftOK(Top.left) /\ Top.left \in Data /\ Size(Top.left.run) \in Int
      /\ buffer \in Data /\ Size(buffer.run) \in Int /\ Size(buffer.run) < upload.chunk
      /\ upload.chunk \in Nat \ {0}
    BY <1>1, TopCallFacts, DataFacts, UploadFacts DEF LeftOK, TypesInv, ChunkTypes
<1>3. /\ buffer' \in Data /\ Size(buffer'.run) < upload.chunk /\ PoolsOK(allocators')
      /\ \E left, out : LeftOK(left) /\ out \in Data /\ calls' = TopWith(left, out)
    <2> DEFINE room == upload.chunk - (IF buffer = NoData THEN 0 ELSE Size(buffer.run))
               n == Smaller(room, Size(Top.left.run))
    <2>1. \/ calls' = TopWith(NoData, Top.left) /\ UNCHANGED <<buffer, allocators>>
          \/ CopyUpTo(n)
        BY Zenon DEF BuildChunk
    <2>2. n \in Nat
        BY <1>1, <1>2 DEF Smaller
    <2> HIDE DEF n
    <2>3. CASE CopyUpTo(n)
        BY <1>1, <2>2, <2>3, CopyTypes
    <2>4. CASE calls' = TopWith(NoData, Top.left) /\ UNCHANGED <<buffer, allocators>>
        BY <1>2, <2>4, NoDataOK, PoolsFacts DEF TypesInv
    <2> QED
        BY <2>1, <2>3, <2>4
<1>4. CallsOK(calls')
    BY <1>1, <1>3, TopWithOK
<1>5. BatchTypes' /\ Total' = Total /\ SourceTypes' /\ ResultTypes'
    BY <1>1, BatchKept, SourceKept, ResultKept DEF Others
<1>6. ChunkTypes'
    BY <1>1, <1>3, <1>4, <1>5, ChunkKept DEF TypesInv, ChunkTypes, Others
<1> QED
    BY <1>3, <1>5, <1>6 DEF TypesInv

LEMMA RewrappedFacts ==
    ASSUME TypesInv, calls # <<>>
    PROVE  Rewrapped.id \in Nat /\ PoolsOK(Rewrapped.allocators)
<1> DEFINE got == Obtain("chunk")
           source == ReleaseBuffer(allocators.source, Top.out.id)
           both == [chunk |-> got.allocator, source |-> source]
<1>1. Top.out.id \in Nat
    BY TopCallFacts, DataFacts
<1>2. /\ PoolOK(source) /\ PoolOK(got.allocator) /\ got.buffer \in Nat
      /\ PoolsOK(allocators)
    BY <1>1, ReleaseFacts, ObtainFacts DEF TypesInv, ChunkTypes, PoolsOK
<1>3. PoolsOK(both)
    BY <1>2 DEF PoolsOK
<1>4. Rewrapped = IF Wraps THEN [id |-> got.buffer, allocators |-> both]
                  ELSE [id |-> Top.out.id, allocators |-> allocators]
    BY Zenon DEF Rewrapped
<1> HIDE DEF got, both
<1> QED
    BY <1>1, <1>2, <1>3, <1>4

LEMMA StopTypes ==
    ASSUME TypesInv, NEW s, CallsOK(s), NEW a, PoolsOK(a), Stop(s, a),
           UNCHANGED <<upload, ready>>
    PROVE  /\ SourceTypes' /\ buffer' \in Data /\ Size(buffer'.run) < upload.chunk
           /\ PoolsOK(allocators') /\ CallsOK(calls')
           /\ \E out \in Data : calls' = Append(s, Call(NoData, out, "end"))
<1> DEFINE flushed == IF Local /\ ~IsFile THEN buffer ELSE NoData
           end == Call(NoData, flushed, "end")
<1>1. /\ fd' = "closed" /\ unpiped' = ~Local
      /\ sourceEnded' = (sourceEnded \/ (Local /\ IsFile))
      /\ allocators' = IF Local \/ IsFile THEN a
                       ELSE [a EXCEPT !.source = DestroyAllocator(@)]
      /\ calls' = Append(s, end)
      /\ buffer' = IF flushed = NoData THEN buffer ELSE NoData
      /\ UNCHANGED <<reads, position, held, awaiting>>
    BY Zenon DEF Stop
<1>2. /\ NoData \in Data /\ LeftOK(NoData) /\ Size(NoData.run) < upload.chunk
      /\ buffer \in Data /\ Size(buffer.run) < upload.chunk
    BY NoDataOK, UploadFacts DEF TypesInv, ChunkTypes
<1>3. flushed \in Data
    BY <1>2
<1> HIDE DEF flushed
<1>4. CallsOK(calls')
    <2>1. end \in CallSet /\ LeftOK(end.left)
        BY <1>2, <1>3, CallOK
    <2> HIDE DEF end
    <2> QED
        BY <1>1, <2>1, AppendCallOK
<1>5. PoolsOK(allocators')
    <2>1. PoolsOK([a EXCEPT !.source = DestroyAllocator(a.source)])
        <3>1. PoolOK(DestroyAllocator(a.source))
            BY ReleaseFacts DEF PoolsOK
        <3> QED
            BY <3>1, PoolsExcept
    <2> QED
        BY <1>1, <2>1
<1>6. SourceTypes'
    BY <1>1 DEF TypesInv, SourceTypes
<1> QED
    BY <1>1, <1>2, <1>3, <1>4, <1>5, <1>6

(* What the listener for 'data' does: the chunk is no longer to be emitted. *)
LEMMA EmittedOK ==
    ASSUME TypesInv, Emitting
    PROVE  /\ calls # <<>> /\ CallsOK(Emitted) /\ Len(Emitted) = Len(calls)
           /\ \A n \in 1..Len(calls) : Emitted[n].height = calls[n].height
           /\ \A n \in 1..Len(calls) : Emitted[n].then = calls[n].then
           /\ offset + Size(Top.out.run) \in Int
<1>1. calls # <<>> /\ NoData \in Data
    BY NoDataOK DEF Emitting, Calling, TypesInv
<1>2. LeftOK(Top.left) /\ Top.out \in Data /\ Top = calls[Len(calls)] /\ Len(calls) \in Nat \ {0}
    BY <1>1, TopCallFacts
<1>3. /\ CallsOK(Emitted) /\ Len(Emitted) = Len(calls)
      /\ \A n \in 1..(Len(calls) - 1) : Emitted[n] = calls[n]
      /\ Emitted[Len(calls)] =
            [height |-> Top.height, left |-> Top.left, out |-> NoData, then |-> Top.then]
    BY <1>1, <1>2, TopWithOK DEF Emitted
<1>4. \A n \in 1..Len(calls) : n \in 1..(Len(calls) - 1) \/ n = Len(calls)
    BY <1>2
<1>5. Emitted[Len(calls)].height = Top.height /\ Emitted[Len(calls)].then = Top.then
    BY <1>3
<1>6. offset + Size(Top.out.run) \in Int
    BY <1>2, DataFacts DEF TypesInv, ChunkTypes
<1>7. ASSUME NEW n \in 1..Len(calls)
      PROVE  Emitted[n].height = calls[n].height /\ Emitted[n].then = calls[n].then
    BY <1>2, <1>3, <1>4, <1>5
<1> QED
    BY <1>1, <1>3, <1>6, <1>7

LEMMA EmissionTypes ==
    ASSUME TypesInv, Emission
    PROVE  TypesInv'
<1>1. Emitting
    BY DEF Emission, EmitLost, EmitBeyond, EmitZeros, EmitChunk
<1>2. /\ calls # <<>> /\ CallsOK(Emitted) /\ offset + Size(Top.out.run) \in Int
      /\ offset \in Int /\ buffer \in Data /\ Size(buffer.run) < upload.chunk
      /\ PoolsOK(allocators) /\ PoolsOK(Rewrapped.allocators) /\ Rewrapped.id \in Nat
      /\ assigned \in Seq(ChunkSet) /\ Len(assigned) = Total
    BY <1>1, EmittedOK, RewrappedFacts, PoolsFacts DEF TypesInv, ChunkTypes
<1>3. CASE EmitLost
    <2>1. /\ UNCHANGED <<batchVars, Others, sourceVars, buffer, allocators>>
          /\ calls' = Emitted /\ offset' \in Int
        BY <1>2, <1>3 DEF EmitLost
    <2>2. BatchTypes' /\ Total' = Total /\ SourceTypes' /\ ResultTypes'
        BY <2>1, BatchKept, SourceKept, ResultKept DEF Others
    <2> QED
        BY <1>2, <2>1, <2>2, ChunkKept DEF TypesInv, Others
<1>4. CASE EmitBeyond
    <2>1. /\ UNCHANGED <<batchVars, Others>> /\ offset' \in Int
          /\ Stop(Emitted, Rewrapped.allocators)
        BY <1>2, <1>4 DEF EmitBeyond
    <2>2. BatchTypes' /\ Total' = Total /\ ResultTypes'
        BY <2>1, BatchKept, ResultKept DEF Others
    <2>3. /\ SourceTypes' /\ buffer' \in Data /\ Size(buffer'.run) < upload.chunk
          /\ PoolsOK(allocators') /\ CallsOK(calls')
        BY <1>2, <2>1, StopTypes DEF Others
    <2> QED
        BY <1>2, <2>1, <2>2, <2>3, ChunkKept DEF TypesInv, Others
<1>5. CASE EmitZeros
    <2>1. /\ UNCHANGED <<batchVars, Others, sourceVars, buffer>>
          /\ calls' = Emitted /\ offset' \in Int /\ allocators' = Rewrapped.allocators
        BY <1>2, <1>5 DEF EmitZeros
    <2>2. BatchTypes' /\ Total' = Total /\ SourceTypes' /\ ResultTypes'
        BY <2>1, BatchKept, SourceKept, ResultKept DEF Others
    <2> QED
        BY <1>2, <2>1, <2>2, ChunkKept DEF TypesInv, Others
<1>6. CASE EmitChunk
    <2> DEFINE chunk == [run |-> Clipped(Top.out.run), start |-> offset, id |-> Rewrapped.id]
    <2>1. /\ UNCHANGED <<upload, ready, sourceVars, buffer, failures, handled, resultVars>>
          /\ calls' = Emitted /\ offset' \in Int /\ allocators' = Rewrapped.allocators
          /\ assigned' = Append(assigned, chunk) /\ Random!AddOperation(stack)
        BY <1>2, <1>6 DEF EmitChunk
    <2>2. BatchTypes' /\ Total' = Total + 1 /\ SourceTypes'
        BY <2>1, AddsTypes, SourceKept DEF TypesInv
    <2>3. chunk \in ChunkSet
        <3>1. Top.out.run.first \in Nat /\ Top.out.run.last \in Int
            BY <1>2, TopCallFacts, DataFacts
        <3>2. Top.out.run \in [first : Nat, last : Int]
            BY <1>2, TopCallFacts DEF Data
        <3>3. upload.limit \in Nat
            BY UploadFacts DEF TypesInv
        <3>4. Clipped(Top.out.run) \in [first : Nat, last : Int]
            BY <1>2, <3>1, <3>2, <3>3 DEF Clipped, Run
        <3> QED
            BY <1>2, <3>4 DEF ChunkSet
    <2> HIDE DEF chunk
    <2>4. assigned' \in Seq(ChunkSet) /\ Len(assigned') = Total'
        BY <1>2, <2>1, <2>2, <2>3, PushCall
    <2>5. ResultTypes'
        <3>1. Total \in Nat
            BY TotalFacts DEF TypesInv
        <3> QED
            BY <2>1, <2>2, <3>1 DEF TypesInv, ResultTypes, resultVars
    <2> QED
        BY <1>2, <2>1, <2>2, <2>4, <2>5, ChunkKept DEF TypesInv
<1> QED
    BY <1>3, <1>4, <1>5, <1>6 DEF Emission

(* Calls of the chunk stream return.                                        *)
LEMMA ReturningTypes ==
    ASSUME TypesInv, ReadReturns \/ WriteReturns \/ EndReturns
    PROVE  TypesInv'
<1>1. /\ calls # <<>> /\ calls' = Front(calls) /\ UNCHANGED Others
      /\ UNCHANGED <<buffer, offset>>
    BY DEF ReadReturns, WriteReturns, EndReturns, Returning, Calling
<1>2. /\ CallsOK(calls') /\ offset \in Int /\ buffer \in Data /\ Size(buffer.run) < upload.chunk
      /\ PoolsOK(allocators)
      /\ assigned \in Seq(ChunkSet) /\ Len(assigned) = Total
    BY <1>1, FrontOK, PoolsFacts DEF TypesInv, ChunkTypes
<1>3. CASE ReadReturns
    <2>1. /\ UNCHANGED <<batchVars, sourceEnded, awaiting, unpiped, fd, held>>
          /\ position' = Top.left.run.last /\ EmitData(position')
        BY <1>3 DEF ReadReturns
    <2>2. position' \in 0..upload.size
        BY <1>1, <2>1, TopCallFacts DEF LeftOK
    <2>3. /\ reads' \in Seq(ReadSet) /\ \A n \in 1..Len(reads') : reads'[n].at <= upload.size
          /\ PoolsOK(allocators')
        BY <2>1, <2>2, EmitDataTypes
    <2>4. SourceTypes'
        BY <1>1, <2>1, <2>2, <2>3 DEF TypesInv, SourceTypes, Others
    <2>5. BatchTypes' /\ Total' = Total /\ ResultTypes'
        BY <1>1, <2>1, BatchKept, ResultKept DEF Others
    <2> QED
        BY <1>1, <1>2, <2>3, <2>4, <2>5, ChunkKept DEF TypesInv, Others
<1>4. CASE WriteReturns
    <2>1. /\ UNCHANGED <<batchVars, fd, reads, position, sourceEnded, held, unpiped, allocators>>
          /\ awaiting' = held
        BY <1>4 DEF WriteReturns
    <2>2. SourceTypes'
        BY <1>1, <2>1 DEF TypesInv, SourceTypes, Others
    <2>3. BatchTypes' /\ Total' = Total /\ ResultTypes'
        BY <1>1, <2>1, BatchKept, ResultKept DEF Others
    <2> QED
        BY <1>1, <1>2, <2>1, <2>2, <2>3, ChunkKept DEF TypesInv, Others
<1>5. CASE EndReturns
    <2>1. /\ UNCHANGED <<sourceVars, allocators>>
          /\ Random!EnableComplete(stack) \/ UNCHANGED batchVars
        BY <1>5 DEF EndReturns
    <2>2. BatchTypes' /\ Total' = Total
        BY <1>1, <2>1, BatchKept, EnablesTypes DEF Others, TypesInv
    <2>3. SourceTypes' /\ ResultTypes'
        BY <1>1, <2>1, <2>2, SourceKept, ResultKept DEF Others
    <2> QED
        BY <1>1, <1>2, <2>1, <2>2, <2>3, ChunkKept DEF TypesInv, Others
<1> QED
    BY <1>3, <1>4, <1>5

(* The source: a file is opened and read, a program writes or ends.         *)
LEMMA FileFailsTypes ==
    ASSUME TypesInv, FileOpenFails \/ ReadFails
    PROVE  TypesInv'
<1>1. UNCHANGED <<batchVars, Others, position, awaiting, unpiped, sourceEnded, held, chunkVars>>
    BY DEF FileOpenFails, ReadFails
<1>2. /\ reads \in Seq(ReadSet) /\ \A n \in 1..Len(reads) : reads[n].at <= upload.size
      /\ fd \in {"opening", "open", "closed"}
    BY DEF TypesInv, SourceTypes
<1>3. /\ reads' \in Seq(ReadSet) /\ \A n \in 1..Len(reads') : reads'[n].at <= upload.size
      /\ fd' \in {"opening", "open", "closed"}
    <2>1. CASE FileOpenFails
        BY <1>2, <2>1 DEF FileOpenFails
    <2>2. CASE ReadFails
        <3>1. reads # <<>> /\ reads' = Tail(reads) /\ fd' = fd
            BY <2>2 DEF ReadFails
        <3>2. /\ Tail(reads) \in Seq(ReadSet) /\ Len(Tail(reads)) = Len(reads) - 1
              /\ \A n \in 1..Len(Tail(reads)) : Tail(reads)[n] = reads[n + 1] /\ n + 1 \in 1..Len(reads)
            BY <1>2, <3>1
        <3> QED
            BY <1>2, <3>1, <3>2
    <2> QED
        BY <2>1, <2>2
<1>4. BatchTypes' /\ Total' = Total /\ ResultTypes'
    BY <1>1, BatchKept, ResultKept DEF Others, TypesInv
<1>5. SourceTypes'
    BY <1>1, <1>3 DEF TypesInv, SourceTypes, Others
<1>6. ChunkTypes'
    <2>1. UNCHANGED <<upload, assigned, buffer, offset, calls, allocators>>
        BY <1>1 DEF Others, chunkVars
    <2> QED
        BY <1>4, <2>1 DEF TypesInv, ChunkTypes, CallsOK, PoolsOK, PoolOK, LeftOK
<1> QED
    BY <1>4, <1>5, <1>6 DEF TypesInv

LEMMA FileTypes ==
    ASSUME TypesInv, FileOpens \/ ReadEmits \/ ReadEnds
    PROVE  TypesInv'
<1>1. UNCHANGED <<batchVars, Others, position, awaiting, unpiped, offset>>
    BY DEF FileOpens, ReadEmits, ReadEnds
<1>2. /\ offset \in Int /\ buffer \in Data /\ Size(buffer.run) < upload.chunk
      /\ PoolsOK(allocators) /\ CallsOK(calls)
      /\ assigned \in Seq(ChunkSet) /\ Len(assigned) = Total
      /\ position \in 0..upload.size
      /\ reads \in Seq(ReadSet) /\ \A n \in 1..Len(reads) : reads[n].at <= upload.size
      /\ NoData \in Data /\ LeftOK(NoData) /\ Size(NoData.run) < upload.chunk
      /\ upload.size \in Nat /\ upload.piece \in Nat \ {0}
    BY PoolsFacts, NoDataOK, UploadFacts DEF TypesInv, ChunkTypes, SourceTypes
<1>3. BatchTypes' /\ Total' = Total /\ ResultTypes'
    BY <1>1, BatchKept, ResultKept DEF Others
<1>4. CASE FileOpens
    <2>1. /\ fd' = "open" /\ EmitData(position)
          /\ UNCHANGED <<sourceEnded, held, buffer, calls>>
        BY <1>4 DEF FileOpens
    <2>2. /\ reads' \in Seq(ReadSet) /\ \A n \in 1..Len(reads') : reads'[n].at <= upload.size
          /\ PoolsOK(allocators')
        BY <1>2, <2>1, EmitDataTypes
    <2>3. SourceTypes'
        BY <1>1, <2>1, <2>2 DEF TypesInv, SourceTypes, Others
    <2> QED
        BY <1>1, <1>2, <1>3, <2>1, <2>2, <2>3, ChunkKept DEF TypesInv, Others
<1>5. ASSUME reads # <<>>, reads' = Tail(reads)
      PROVE  /\ reads' \in Seq(ReadSet) /\ \A n \in 1..Len(reads') : reads'[n].at <= upload.size
             /\ Head(reads) \in ReadSet /\ Head(reads).at \in Nat /\ Head(reads).id \in Nat
             /\ Head(reads).at <= upload.size
    <2>1. /\ Tail(reads) \in Seq(ReadSet) /\ Len(Tail(reads)) = Len(reads) - 1
          /\ \A n \in 1..Len(Tail(reads)) : Tail(reads)[n] = reads[n + 1]
          /\ Len(reads) \in Nat \ {0} /\ Head(reads) = reads[1] /\ reads[1] \in ReadSet
        BY <1>2, <1>5, HeadTailProperties, EmptySeq, LenProperties, ElementOfSeq
    <2>2. \A n \in 1..Len(Tail(reads)) : n + 1 \in 1..Len(reads)
        BY <2>1
    <2> QED
        BY <1>2, <1>5, <2>1, <2>2 DEF ReadSet
<1>6. CASE ReadEmits
    <2>1. PICK n \in 1..upload.piece :
             LET r == Head(reads)
                 data == [run |-> Run(r.at + 1, r.at + n), id |-> r.id]
             IN  /\ ReadGets(n)
                 /\ allocators' = IF n < upload.piece /\ ~IsFile
                                  THEN [allocators EXCEPT !.source = ReleaseBuffer(@, r.id)]
                                  ELSE allocators
                 /\ calls' = <<IF IsFile THEN Call([data EXCEPT !.run.first = @ + n], data, "read")
                               ELSE Call(data, NoData, "read")>>
                 /\ UNCHANGED <<fd, sourceEnded, held, buffer>>
        BY <1>6, Zenon DEF ReadEmits
    <2> DEFINE r == Head(reads)
               data == [run |-> Run(r.at + 1, r.at + n), id |-> r.id]
               rest == [data EXCEPT !.run.first = @ + n]
               call == IF IsFile THEN Call(rest, data, "read") ELSE Call(data, NoData, "read")
    <2>2. /\ reads # <<>> /\ reads' = Tail(reads)
          /\ n = Smaller(upload.piece, upload.size - r.at)
        BY <2>1 DEF ReadGets
    <2>3. /\ r.at \in Nat /\ r.id \in Nat /\ r.at <= upload.size
          /\ reads' \in Seq(ReadSet) /\ \A m \in 1..Len(reads') : reads'[m].at <= upload.size
        BY <1>5, <2>2
    <2>4. n \in Nat /\ r.at + n <= upload.size
        BY <1>2, <2>2, <2>3 DEF Smaller
    <2>5. data \in Data /\ data.run.last = r.at + n
        BY <2>3, <2>4, DataFacts DEF Data, Run
    <2> HIDE DEF r
    <2>6. calls' = <<call>>
        BY <2>1 DEF r
    <2>7. PoolsOK(allocators')
        BY <1>2, <2>1, <2>3, PoolsFacts DEF r
    <2> HIDE DEF data
    <2>8. LeftOK(data) /\ LeftOK(rest)
        <3>1. rest \in Data /\ rest.run.last = data.run.last
            BY <2>4, <2>5, DataFacts
        <3>2. r.at + n \in 0..upload.size
            BY <1>2, <2>3, <2>4
        <3> HIDE DEF rest
        <3> QED
            BY <2>5, <3>1, <3>2 DEF LeftOK
    <2> HIDE DEF rest
    <2>9. call \in CallSet /\ LeftOK(call.left)
        BY <1>2, <2>5, <2>8, CallOK
    <2> HIDE DEF call
    <2>10. CallsOK(calls')
        BY <2>6, <2>9, OneCallOK
    <2>11. SourceTypes'
        BY <1>1, <2>1, <2>3 DEF TypesInv, SourceTypes, Others
    <2> QED
        BY <1>1, <1>2, <1>3, <2>1, <2>7, <2>10, <2>11, ChunkKept DEF TypesInv, Others
<1>7. CASE ReadEnds
    <2>1. /\ reads # <<>> /\ reads' = Tail(reads) /\ sourceEnded' = TRUE
          /\ UNCHANGED <<fd, held, allocators>>
          /\ \/ UNCHANGED <<calls, buffer>>
             \/ calls' = <<Call(NoData, buffer, "end")>> /\ buffer' = NoData
        BY <1>7 DEF ReadEnds, ReadGets
    <2>2. SourceTypes'
        BY <1>1, <1>5, <2>1 DEF TypesInv, SourceTypes, Others
    <2>3. CallsOK(<<Call(NoData, buffer, "end")>>)
        BY <1>2, CallOK, OneCallOK
    <2>4. CallsOK(calls') /\ buffer' \in Data /\ Size(buffer'.run) < upload.chunk
        BY <1>2, <2>1, <2>3
    <2> QED
        BY <1>1, <1>2, <1>3, <2>1, <2>2, <2>4, ChunkKept DEF TypesInv, Others
<1> QED
    BY <1>4, <1>6, <1>7

LEMMA PipeTypes ==
    ASSUME TypesInv, PipeWrites \/ PipeEnds
    PROVE  TypesInv'
<1>1. UNCHANGED <<batchVars, Others, fd, reads, held, awaiting, unpiped, offset>>
    BY DEF PipeWrites, PipeEnds
<1>2. /\ offset \in Int /\ buffer \in Data /\ Size(buffer.run) < upload.chunk
      /\ PoolsOK(allocators) /\ CallsOK(calls)
      /\ assigned \in Seq(ChunkSet) /\ Len(assigned) = Total
      /\ position \in 0..upload.size
      /\ NoData \in Data /\ LeftOK(NoData) /\ Size(NoData.run) < upload.chunk
      /\ upload.size \in Nat /\ upload.piece \in Nat \ {0}
    BY PoolsFacts, NoDataOK, UploadFacts DEF TypesInv, ChunkTypes, SourceTypes
<1>3. BatchTypes' /\ Total' = Total /\ ResultTypes'
    BY <1>1, BatchKept, ResultKept DEF Others
<1>4. CASE PipeWrites
    <2> DEFINE n == Smaller(upload.piece, upload.size - position)
               id == FreshBuffers(1, Referred)[1]
               data == [run |-> Run(position + 1, position + n), id |-> id]
               call == [Call(NoData, NoData, "write") EXCEPT !.left = data]
    <2>1. /\ n > 0 /\ position' = position + n /\ calls' = Append(calls, call)
          /\ UNCHANGED <<sourceEnded, buffer, allocators>>
        BY <1>4, Zenon DEF PipeWrites
    <2>2. n \in Nat /\ position + n <= upload.size
        BY <1>2, <2>1 DEF Smaller
    <2>3. id \in Nat
        BY ReferredFinite, FreshFacts, ElementOfSeq
    <2> HIDE DEF id, n
    <2>4. data \in Data /\ data.run.last = position + n
        BY <1>2, <2>2, <2>3 DEF Data, Run
    <2>5. LeftOK(data)
        BY <1>2, <2>2, <2>4 DEF LeftOK
    <2> HIDE DEF data
    <2>6. call = Call(data, NoData, "write")
        BY DEF Call
    <2>7. call \in CallSet /\ LeftOK(call.left)
        BY <1>2, <2>5, <2>6, CallOK
    <2> HIDE DEF call
    <2>8. CallsOK(calls')
        BY <1>2, <2>1, <2>7, AppendCallOK
    <2>9. SourceTypes'
        BY <1>1, <1>2, <2>1, <2>2 DEF TypesInv, SourceTypes, Others
    <2> QED
        BY <1>1, <1>2, <1>3, <2>1, <2>8, <2>9, ChunkKept DEF TypesInv, Others
<1>5. CASE PipeEnds
    <2> DEFINE got == Obtain("chunk")
               wrapped == ~IsFile /\ ready = "yes" /\ buffer # NoData
               out == IF wrapped THEN [buffer EXCEPT !.id = got.buffer] ELSE buffer
    <2>1. /\ sourceEnded' = TRUE
          /\ allocators' = IF wrapped THEN [allocators EXCEPT !.chunk = got.allocator]
                           ELSE allocators
          /\ calls' = <<Call(NoData, out, "end")>> /\ buffer' = NoData
          /\ UNCHANGED position
        BY <1>5, Zenon DEF PipeEnds
    <2>2. out \in Data
        BY <1>2, ObtainFacts, DataFacts
    <2>3. PoolsOK(allocators')
        BY <1>2, <2>1, PoolsFacts
    <2> HIDE DEF out
    <2>4. CallsOK(<<Call(NoData, out, "end")>>)
        BY <1>2, <2>2, CallOK, OneCallOK
    <2>5. SourceTypes'
        BY <1>1, <2>1 DEF TypesInv, SourceTypes, Others
    <2> QED
        BY <1>1, <1>2, <1>3, <2>1, <2>3, <2>4, <2>5, ChunkKept DEF TypesInv, Others
<1> QED
    BY <1>4, <1>5

(* What the caller and the destination answer.                              *)
LEMMA AnswerTypes ==
    ASSUME TypesInv, NEW outcome \in {"success", "error"}, Answer(outcome)
    PROVE  answers' \in Seq({"success", "error"})
    BY DEF Answer, TypesInv, ResultTypes

LEMMA DestinationTypes ==
    ASSUME TypesInv, DestinationReady
    PROVE  TypesInv'
<1>1. /\ UNCHANGED <<batchVars, upload, fd, reads, position, sourceEnded, unpiped,
                     chunkVars, assigned, failures, handled, stored, committing>>
      /\ ready' \in {"yes", "failed"}
      /\ held' \in BOOLEAN /\ awaiting' \in BOOLEAN
      /\ Answer("error") \/ UNCHANGED answers
    BY DEF DestinationReady, TypesInv, SourceTypes
<1>2. BatchTypes' /\ Total' = Total
    BY <1>1, BatchKept
<1>3. SourceTypes'
    BY <1>1 DEF TypesInv, SourceTypes
<1>4. ChunkTypes'
    BY <1>1, <1>2, ChunkKept DEF TypesInv, ChunkTypes, chunkVars
<1>5. ResultTypes'
    BY <1>1, <1>2, AnswerTypes DEF TypesInv, ResultTypes
<1> QED
    BY <1>2, <1>3, <1>4, <1>5 DEF TypesInv

LEMMA CommitTypes ==
    ASSUME TypesInv, CommitDone
    PROVE  TypesInv'
<1>1. /\ UNCHANGED <<batchVars, upload, ready, sourceVars, chunkVars, assigned, failures,
                     handled, stored>>
      /\ committing > 0 /\ committing' = committing - 1
      /\ \E outcome \in {"success", "error"} : Answer(outcome)
    BY DEF CommitDone
<1>2. BatchTypes' /\ Total' = Total /\ SourceTypes'
    BY <1>1, BatchKept, SourceKept
<1>3. ChunkTypes'
    BY <1>1, <1>2, ChunkKept DEF TypesInv, ChunkTypes, chunkVars
<1>4. ResultTypes'
    BY <1>1, <1>2, AnswerTypes DEF TypesInv, ResultTypes
<1> QED
    BY <1>2, <1>3, <1>4 DEF TypesInv

(* The steps of the batch and of the code that it calls.                    *)
LEMMA StoresKept ==
    ASSUME TypesInv, BatchTypes', Total' = Total,
           UNCHANGED <<upload, buffer, offset, calls, assigned, resultVars>>,
           PoolsOK(allocators')
    PROVE  ChunkTypes' /\ ResultTypes'
<1>1. /\ buffer \in Data /\ Size(buffer.run) < upload.chunk /\ offset \in Int
      /\ CallsOK(calls) /\ assigned \in Seq(ChunkSet) /\ Len(assigned) = Total
    BY DEF TypesInv, ChunkTypes
<1>2. CallsOK(calls')
    BY <1>1 DEF CallsOK, LeftOK
<1> QED
    BY <1>1, <1>2, ChunkKept, ResultKept

LEMMA RunsAnswersTypes ==
    ASSUME TypesInv, StackInv,
           BatchRuns \/ Ran \/ \E i \in 1..Total, failed \in BOOLEAN : RequestDone(i, failed)
    PROVE  TypesInv'
<1>1. BatchTypes /\ PoolsOK(allocators)
    BY DEF TypesInv, ChunkTypes
<1>2. CASE BatchRuns
    <2>1. /\ UNCHANGED <<quietVars, sourceVars, allocators, handled>>
          /\ \/ Random!RunAfterError /\ failures' = failures \cup {Random!Top.op}
             \/ Random!RunRequest /\ failures' = failures
        BY <1>2 DEF BatchRuns
    <2>2. BatchTypes' /\ Total' = Total
        BY <1>1, <2>1, RunsTypes
    <2>3. ChunkTypes' /\ ResultTypes' /\ SourceTypes'
        BY <1>1, <2>1, <2>2, StoresKept, SourceKept DEF quietVars
    <2> QED
        BY <2>2, <2>3 DEF TypesInv
<1>3. CASE Ran
    <2>1. /\ UNCHANGED <<quietVars, fd, reads, position, sourceEnded, awaiting, unpiped,
                         allocators, failures, handled>>
          /\ Random!Ran /\ waiting' = waiting
          /\ \E lowMemory \in BOOLEAN :
               held' = (held \/ (TRUE /\ Mode(Random!IsWorkloadHeavy(active + 1, lowMemory),
                                              Ordered!IsWorkloadHeavy(active + 1, lowMemory))))
        BY <1>3 DEF Ran, RanThen
    <2>2. held' \in BOOLEAN
        <3>1. Mode(Random!IsWorkloadHeavy(active + 1, TRUE), Ordered!IsWorkloadHeavy(active + 1, TRUE)) \in BOOLEAN
            BY DEF Mode, Random!IsWorkloadHeavy, Ordered!IsWorkloadHeavy
        <3> QED
            BY <2>1 DEF TypesInv, SourceTypes, Mode, Random!IsWorkloadHeavy, Ordered!IsWorkloadHeavy
    <2>3. /\ stack # <<>> /\ stack' = Random!Caller /\ active' = active + 1
          /\ UNCHANGED <<status, operations, current, queued, paused, error, completing,
                         ended, fired, endings>>
        BY <2>1 DEF Random!Ran, Random!Running
    <2>4. active' \in Int /\ ended' \in BOOLEAN /\ waiting' \in BOOLEAN /\ endings' \in Nat
        BY <1>1, <2>1, <2>3 DEF BatchTypes
    <2>5. BatchTypes' /\ Total' = Total
        BY <1>1, <2>1, <2>3, <2>4, ControlTypes
    <2>6. ChunkTypes' /\ ResultTypes'
        BY <1>1, <2>1, <2>5, StoresKept DEF quietVars
    <2>7. SourceTypes'
        BY <2>1, <2>2 DEF TypesInv, SourceTypes, quietVars
    <2> QED
        BY <2>5, <2>6, <2>7 DEF TypesInv
<1>4. ASSUME NEW i \in 1..Total, NEW failed \in BOOLEAN, RequestDone(i, failed)
      PROVE  TypesInv'
    <2>1. /\ Random!RequestDone(i, failed)
          /\ failures' = IF failed THEN failures \cup {i} ELSE failures
          /\ stored' = IF failed THEN stored ELSE stored \cup {i}
          /\ UNCHANGED <<upload, ready, sourceVars, chunkVars, assigned, handled, committing, answers>>
        BY <1>4 DEF RequestDone
    <2>2. BatchTypes' /\ Total' = Total
        BY <1>1, <2>1, AnswersTypes
    <2>3. SourceTypes' /\ ResultTypes'
        BY <2>1, <2>2, SourceKept DEF TypesInv, ResultTypes
    <2>4. ChunkTypes'
        <3>1. CallsOK(calls') /\ PoolsOK(allocators')
            BY <1>1, <2>1 DEF TypesInv, ChunkTypes, CallsOK, LeftOK, chunkVars
        <3> QED
            BY <2>1, <2>2, <3>1, ChunkKept DEF TypesInv, ChunkTypes, chunkVars
    <2> QED
        BY <2>2, <2>3, <2>4 DEF TypesInv
<1> QED
    BY <1>2, <1>3, <1>4

LEMMA BatchStepsTypes ==
    ASSUME TypesInv, StackInv, BatchSteps
    PROVE  TypesInv'
<1>1. /\ UNCHANGED <<quietVars, sourceVars, allocators, failures, handled>>
      /\ BatchTypes /\ PoolsOK(allocators)
    BY DEF BatchSteps, TypesInv, ChunkTypes
<1>2. /\ "tryEnd" \in Idling /\ "tryDrain" \in Idling /\ "onEnd" \in Idling
      /\ "onDrain" \in Idling
    BY DEF Idling
<1>3. /\ active \in Int /\ ended \in BOOLEAN /\ waiting \in BOOLEAN /\ endings \in Nat
      /\ endings + 1 \in Nat
    BY <1>1 DEF BatchTypes
<1>4. BatchTypes' /\ Total' = Total
    <2>1. CASE Mode(Random!BatchOperationCallback, Ordered!BatchOperationCallback)
        BY <1>1, <2>1, SettlesTypes
    <2>2. CASE Mode(Random!FireUserCallback, Ordered!FireUserCallback)
        BY <1>1, <2>2, FiresTypes
    <2>3. CASE Mode(Random!FireNothing, Ordered!FireNothing)
        <3>1. /\ stack # <<>> /\ stack' = Append(Random!Caller, Random!Call("tryEnd", 0))
              /\ UNCHANGED <<Random!batch, waiting, fired, endings>>
            BY <2>3, NothingInMode DEF Random!Running
        <3> QED
            BY <1>1, <1>2, <1>3, <3>1, ControlTypes DEF Random!batch
    <2>4. CASE Mode(Random!NoDrain, Ordered!NoDrain)
        <3>1. /\ stack # <<>> /\ stack' = Random!Caller
              /\ UNCHANGED <<Random!batch, waiting, fired, endings>>
            BY <2>4, NoDrainInMode DEF Random!Running
        <3> QED
            BY <1>1, <1>3, <3>1, ControlTypes DEF Random!batch
    <2>5. CASE Random!EmitEnd
        <3>1. /\ stack # <<>> /\ stack' = Append(Random!Caller, Random!Call("onEnd", 0))
              /\ ended' = TRUE /\ endings' = endings + 1
              /\ UNCHANGED <<status, operations, current, active, queued, paused, error,
                             completing, waiting, fired>>
            BY <2>5 DEF Random!EmitEnd, Random!Running
        <3> QED
            BY <1>1, <1>2, <1>3, <3>1, ControlTypes
    <2>6. CASE Random!NotComplete
        <3>1. /\ stack # <<>> /\ stack' = Append(Random!Caller, Random!Call("tryDrain", 0))
              /\ UNCHANGED <<Random!batch, waiting, fired, endings>>
            BY <2>6 DEF Random!NotComplete, Random!Running
        <3> QED
            BY <1>1, <1>2, <1>3, <3>1, ControlTypes DEF Random!batch
    <2>7. CASE Random!Running("onDrain") /\ Random!ListenerReturns
        <3>1. /\ stack # <<>> /\ stack' = Random!Caller
              /\ UNCHANGED <<Random!batch, waiting, fired, endings>>
            BY <2>7 DEF Random!ListenerReturns, Random!Running
        <3> QED
            BY <1>1, <1>3, <3>1, ControlTypes DEF Random!batch
    <2> QED
        BY <2>1, <2>2, <2>3, <2>4, <2>5, <2>6, <2>7 DEF BatchSteps
<1>5. ChunkTypes' /\ ResultTypes' /\ SourceTypes'
    BY <1>1, <1>4, StoresKept, SourceKept DEF quietVars
<1> QED
    BY <1>4, <1>5 DEF TypesInv

LEMMA DrainTypes ==
    ASSUME TypesInv, StackInv, Drain
    PROVE  TypesInv'
<1>1. /\ Mode(Random!EmitDrain, Ordered!EmitDrain)
      /\ held' = FALSE /\ fd' = fd /\ awaiting' = (awaiting /\ ~held)
      /\ EmitData(position) \/ UNCHANGED <<reads, allocators>>
      /\ UNCHANGED <<quietVars, position, sourceEnded, unpiped, failures, handled>>
    BY DEF Drain, DrainThen
<1>2. /\ stack # <<>> /\ stack' = Append(Random!Caller, Random!Call("onDrain", 0))
      /\ waiting' = FALSE /\ UNCHANGED <<Random!batch, fired, endings>>
      /\ "onDrain" \in Idling
    BY <1>1, DrainInMode DEF Random!Running, Idling
<1>3. BatchTypes /\ active \in Int /\ ended \in BOOLEAN /\ endings \in Nat
    BY DEF TypesInv, BatchTypes
<1>4. BatchTypes' /\ Total' = Total
    BY <1>1, <1>2, <1>3, ControlTypes DEF Random!batch
<1>5. /\ reads' \in Seq(ReadSet) /\ \A n \in 1..Len(reads') : reads'[n].at <= upload.size
      /\ PoolsOK(allocators')
    <2>1. CASE EmitData(position)
        <3>1. position \in 0..upload.size
            BY DEF TypesInv, SourceTypes
        <3> QED
            BY <2>1, <3>1, EmitDataTypes
    <2>2. CASE UNCHANGED <<reads, allocators>>
        BY <2>2 DEF TypesInv, SourceTypes, ChunkTypes
    <2> QED
        BY <1>1, <2>1, <2>2
<1>6. SourceTypes'
    BY <1>1, <1>5 DEF TypesInv, SourceTypes, quietVars
<1>7. ChunkTypes' /\ ResultTypes'
    BY <1>1, <1>4, <1>5, StoresKept DEF quietVars
<1> QED
    BY <1>4, <1>6, <1>7 DEF TypesInv

LEMMA CallbackTypes ==
    ASSUME TypesInv, StackInv, UserCallbackStops \/ UserCallbackReturns \/ End
    PROVE  TypesInv'
<1>1. /\ BatchTypes /\ PoolsOK(allocators) /\ CallsOK(calls) /\ offset \in Int
      /\ assigned \in Seq(ChunkSet) /\ Len(assigned) = Total
    BY DEF TypesInv, ChunkTypes
<1>2. CASE UserCallbackStops
    <2>1. /\ Random!Top.op \in failures /\ handled' = handled \cup {Random!Top.op}
          /\ Stop(calls, allocators)
          /\ UNCHANGED <<batchVars, upload, ready, offset, assigned, failures, resultVars>>
        BY <1>2 DEF UserCallbackStops
    <2>2. BatchTypes' /\ Total' = Total
        BY <1>1, <2>1 DEF BatchTypes, batchVars, Total
    <2>3. /\ SourceTypes' /\ buffer' \in Data /\ Size(buffer'.run) < upload.chunk
          /\ PoolsOK(allocators') /\ CallsOK(calls')
        BY <1>1, <2>1, StopTypes
    <2>4. ResultTypes'
        BY <2>1, <2>2, ResultKept
    <2> QED
        BY <1>1, <2>1, <2>2, <2>3, <2>4, ChunkKept DEF TypesInv
<1>3. CASE UserCallbackReturns
    <2>1. /\ Mode(Random!UserCallbackReturns, Ordered!UserCallbackReturns)
          /\ allocators' = IF Size(assigned[Random!Top.op].run) # upload.chunk THEN allocators
                           ELSE [allocators EXCEPT !.chunk =
                                   ReleaseBuffer(@, assigned[Random!Top.op].id)]
          /\ UNCHANGED <<quietVars, sourceVars, failures, handled>>
          /\ Random!Running("userCallback")
        BY <1>3 DEF UserCallbackReturns
    <2>2. BatchTypes' /\ Total' = Total
        BY <1>1, <2>1, ReturnsTypes
    <2>3. assigned[Random!Top.op].id \in Nat
        <3>1. Random!Top.op \in 1..Total
            BY <1>1, <2>1, TopFacts DEF FrameOK, Random!Running, Total
        <3>2. assigned[Random!Top.op] \in ChunkSet
            BY <1>1, <3>1
        <3> QED
            BY <3>2 DEF ChunkSet
    <2>4. PoolsOK(allocators')
        BY <2>1, <2>3, PoolsFacts
    <2>5. ChunkTypes' /\ ResultTypes' /\ SourceTypes'
        BY <2>1, <2>2, <2>4, StoresKept, SourceKept DEF quietVars
    <2> QED
        BY <2>2, <2>5 DEF TypesInv
<1>4. CASE End
    <2>1. /\ Random!ListenerReturns /\ Random!Running("onEnd")
          /\ \/ Answer("error") /\ UNCHANGED committing
             \/ committing' = committing + 1 /\ UNCHANGED answers
          /\ UNCHANGED <<upload, ready, sourceVars, chunkVars, assigned, failures, handled, stored>>
        BY <1>4 DEF End
    <2>2. /\ stack # <<>> /\ stack' = Random!Caller
          /\ UNCHANGED <<Random!batch, waiting, fired, endings>>
        BY <2>1 DEF Random!ListenerReturns, Random!Running
    <2>3. active \in Int /\ ended \in BOOLEAN /\ waiting \in BOOLEAN /\ endings \in Nat
        BY <1>1 DEF BatchTypes
    <2>4. BatchTypes' /\ Total' = Total
        BY <1>1, <2>1, <2>2, <2>3, ControlTypes DEF Random!batch
    <2>5. SourceTypes'
        BY <2>1, SourceKept
    <2>6. ResultTypes'
        BY <2>1, <2>4, AnswerTypes DEF TypesInv, ResultTypes
    <2>7. CallsOK(calls') /\ PoolsOK(allocators')
        BY <1>1, <2>1 DEF CallsOK, LeftOK, chunkVars
    <2>8. ChunkTypes'
        BY <1>1, <2>1, <2>4, <2>7, ChunkKept DEF TypesInv, ChunkTypes, chunkVars
    <2> QED
        BY <2>4, <2>5, <2>6, <2>8 DEF TypesInv
<1> QED
    BY <1>2, <1>3, <1>4

LEMMA InitTypes ==
    ASSUME Init
    PROVE  TypesInv
<1>1. /\ upload \in Uploads /\ upload \in Scenario
      /\ upload.size \in Nat /\ upload.chunk \in Nat \ {0}
    BY UploadAssumption DEF Init, UploadAssumption, Scenario
<1>2. BatchTypes
    <2>1. /\ status = <<>> /\ operations = <<>> /\ active = 0 /\ queued = 0
          /\ paused = FALSE /\ error = FALSE /\ completing = FALSE /\ ended = FALSE
          /\ stack = <<>> /\ waiting = FALSE /\ fired = <<>> /\ endings = 0
          /\ current = IF InOrder THEN 1 ELSE -1
          /\ failures = {} /\ handled = {}
        BY DEF Init
    <2>2. status \in Seq(Random!OperationState) /\ operations \in Seq(1..Total)
        BY <2>1
    <2>3. stack \in Seq(Random!Frame) /\ fired \in Seq(Nat)
        BY <2>1
    <2>4. current \in Int /\ active \in Int /\ queued \in Int /\ endings \in Nat
        BY <2>1
    <2>5. error \in BOOLEAN /\ completing \in BOOLEAN /\ ended \in BOOLEAN
        BY <2>1
    <2>6. waiting \in BOOLEAN
        BY <2>1
    <2>7. failures \subseteq 1..Total /\ handled \subseteq failures
        BY <2>1
    <2> QED
        BY <2>1, <2>2, <2>3, <2>4, <2>5, <2>6, <2>7 DEF BatchTypes
<1>3. SourceTypes
    <2>1. /\ ready = (IF Local THEN "yes" ELSE "no")
          /\ fd = (IF Local THEN "opening" ELSE "closed")
          /\ reads = <<>> /\ position = 0 /\ sourceEnded = FALSE
          /\ held = ~Local /\ awaiting = FALSE /\ unpiped = FALSE
        BY DEF Init
    <2>2. ready \in {"no", "yes", "failed"} /\ fd \in {"opening", "open", "closed"}
        BY <2>1
    <2>3. held \in BOOLEAN
        BY <2>1
    <2>4. reads \in Seq(ReadSet) /\ Len(reads) = 0
        BY <2>1
    <2>5. awaiting \in BOOLEAN /\ unpiped \in BOOLEAN /\ sourceEnded \in BOOLEAN
        BY <2>1
    <2>6. position \in 0..upload.size
        BY <1>1, <2>1
    <2>7. \A n \in 1..Len(reads) : reads[n].at <= upload.size
        BY <2>4
    <2> QED
        BY <1>1, <2>2, <2>3, <2>4, <2>5, <2>6, <2>7 DEF SourceTypes
<1>4. ChunkTypes
    <2>1. Threads(upload) \in Nat \ {0}
        BY UploadAssumption DEF UploadAssumption, Threads
    <2> DEFINE chunk == NewAllocator(Threads(upload), {})
               source == NewAllocator(Threads(upload), ToSet(chunk.pool))
    <2>2. PoolOK(chunk)
        BY <2>1, NewFacts, FS_EmptySet
    <2>3. IsFiniteSet(ToSet(chunk.pool))
        BY <2>2, PoolFinite
    <2>4. PoolOK(source)
        BY <2>1, <2>3, NewFacts
    <2>5. allocators = [chunk |-> chunk, source |-> source]
        BY Zenon DEF Init
    <2> HIDE DEF chunk, source
    <2>6. PoolsOK(allocators)
        BY <2>2, <2>4, <2>5 DEF PoolsOK
    <2>7. buffer \in Data /\ Size(buffer.run) < upload.chunk
        BY <1>1 DEF Init, NoData, Nothing, Run, Data, Size
    <2> QED
        BY <2>6, <2>7 DEF Init, ChunkTypes, CallsOK, Total
<1>5. ResultTypes
    BY DEF Init, ResultTypes
<1> QED
    BY <1>2, <1>3, <1>4, <1>5 DEF TypesInv
-----------------------------------------------------------------------------
(* The calls of the chunk stream and those of the batch are one stack: a    *)
(* call of the chunk stream was made by the event loop, by a 'drain'        *)
(* listener or by the user callback of a chunk that failed.                 *)
CallerOK(f, done) == f.pc = "onDrain" \/ (f.pc = "userCallback" /\ f.op \in done)
HeightsOK(s, frames, done) ==
    /\ \A n \in 1..Len(s) : /\ s[n].height \in 0..Len(frames)
                            /\ s[n].height > 0 => CallerOK(frames[s[n].height], done)
    /\ \A m, n \in 1..Len(s) : m <= n => s[m].height <= s[n].height
HeightInv == HeightsOK(calls, stack, handled)

LEMMA HeightsKept ==
    ASSUME NEW s, NEW frames, NEW done, HeightsOK(s, frames, done),
           NEW s2, NEW frames2, NEW done2,
           Len(s) \in Nat, Len(s2) \in 0..Len(s), Len(frames) \in Nat, Len(frames2) \in Nat,
           \A n \in 1..Len(s2) : s2[n].height = s[n].height,
           \A n \in 1..Len(s2) :
              /\ s[n].height <= Len(frames2)
              /\ s[n].height > 0 => frames2[s[n].height] = frames[s[n].height],
           done \subseteq done2
    PROVE  HeightsOK(s2, frames2, done2)
<1>1. ASSUME NEW n \in 1..Len(s2)
      PROVE  /\ s2[n].height \in 0..Len(frames2)
             /\ s2[n].height > 0 => CallerOK(frames2[s2[n].height], done2)
    <2>1. /\ n \in 1..Len(s) /\ s2[n].height = s[n].height
          /\ s[n].height \in 0..Len(frames) /\ s[n].height <= Len(frames2)
          /\ s[n].height > 0 => /\ frames2[s[n].height] = frames[s[n].height]
                                /\ CallerOK(frames[s[n].height], done)
        BY <1>1 DEF HeightsOK
    <2> QED
        BY <2>1 DEF CallerOK
<1>2. ASSUME NEW m \in 1..Len(s2), NEW n \in 1..Len(s2), m <= n
      PROVE  s2[m].height <= s2[n].height
    <2>1. m \in 1..Len(s) /\ n \in 1..Len(s)
        OBVIOUS
    <2>2. s[m].height <= s[n].height
        BY <1>2, <2>1 DEF HeightsOK
    <2>3. s2[m].height = s[m].height /\ s2[n].height = s[n].height
        BY <1>2
    <2> QED
        BY <2>2, <2>3
<1> QED
    BY <1>1, <1>2 DEF HeightsOK

LEMMA HeightsPush ==
    ASSUME NEW s, NEW frames, NEW done, HeightsOK(s, frames, done), NEW s2,
           Len(s) \in Nat, Len(s2) = Len(s) + 1, Len(frames) \in Nat,
           \A n \in 1..Len(s) : s2[n] = s[n],
           s2[Len(s) + 1].height = Len(frames),
           Len(frames) > 0 => CallerOK(frames[Len(frames)], done)
    PROVE  HeightsOK(s2, frames, done)
<1>1. ASSUME NEW n \in 1..Len(s2)
      PROVE  /\ s2[n].height \in 0..Len(frames)
             /\ s2[n].height > 0 => CallerOK(frames[s2[n].height], done)
    <2>1. CASE n = Len(s) + 1
        BY <2>1
    <2>2. CASE n \in 1..Len(s)
        BY <2>2 DEF HeightsOK
    <2> QED
        BY <2>1, <2>2
<1>2. ASSUME NEW m \in 1..Len(s2), NEW n \in 1..Len(s2), m <= n
      PROVE  s2[m].height <= s2[n].height
    <2>1. CASE n = Len(s) + 1
        BY <1>1, <2>1
    <2>2. CASE n \in 1..Len(s)
        <3>1. m \in 1..Len(s) /\ s2[m] = s[m] /\ s2[n] = s[n]
            BY <1>2, <2>2
        <3>2. s[m].height <= s[n].height
            BY <1>2, <2>2, <3>1 DEF HeightsOK
        <3> QED
            BY <3>1, <3>2
    <2> QED
        BY <2>1, <2>2
<1> QED
    BY <1>1, <1>2 DEF HeightsOK

(* The innermost call may be the chunk stream's only where the batch may be *)
(* called; it is not where a call of the batch is.                          *)
LEMMA HeightFacts ==
    ASSUME TypesInv, HeightInv
    PROVE  /\ Len(calls) \in Nat /\ Len(stack) \in Nat /\ (stack = <<>> <=> Len(stack) = 0)
           /\ calls = <<>> <=> Len(calls) = 0
           /\ Calling => calls # <<>> /\ Top.height = Len(stack) /\ Open
           /\ \A n \in 1..Len(calls) : calls[n].height \in Nat /\ calls[n].height <= Len(stack)
           /\ ~Calling => \A n \in 1..Len(calls) : calls[n].height <= Len(stack) - 1
<1>1. /\ Len(calls) \in Nat /\ Len(stack) \in Nat /\ (stack = <<>> <=> Len(stack) = 0)
      /\ calls = <<>> <=> Len(calls) = 0
      /\ calls \in Seq(CallSet)
    BY EmptySeq DEF TypesInv, BatchTypes, ChunkTypes, CallsOK
<1>2. \A n \in 1..Len(calls) : calls[n].height \in Nat /\ calls[n].height <= Len(stack)
    BY <1>1 DEF HeightInv, HeightsOK
<1>3. ASSUME Calling PROVE calls # <<>> /\ Top.height = Len(stack) /\ Open
    <2>1. calls # <<>> /\ Top.height = Len(stack) /\ Top = calls[Len(calls)]
        BY <1>3, TopCallFacts DEF Calling, Top
    <2>2. Len(calls) \in 1..Len(calls)
        BY <1>1, <2>1
    <2>3. Len(stack) > 0 => CallerOK(stack[Len(stack)], handled)
        BY <2>1, <2>2 DEF HeightInv, HeightsOK
    <2> QED
        BY <1>1, <2>1, <2>3 DEF CallerOK, Open, Random!Running, Random!Top
<1>4. ASSUME ~Calling, NEW n \in 1..Len(calls) PROVE calls[n].height <= Len(stack) - 1
    <2>1. calls # <<>> /\ Top = calls[Len(calls)] /\ Len(calls) \in 1..Len(calls) /\ n <= Len(calls)
        BY <1>1, TopCallFacts
    <2>2. Top.height # Len(stack)
        BY <1>4, <2>1 DEF Calling, Top
    <2>3. calls[n].height <= calls[Len(calls)].height
        BY <2>1 DEF HeightInv, HeightsOK
    <2> QED
        BY <1>1, <1>2, <2>1, <2>2, <2>3
<1> QED
    BY <1>1, <1>2, <1>3, <1>4

(* A step of the batch leaves the calls below the innermost one alone.      *)
Below == /\ Len(stack') \in Nat /\ Len(stack') >= Len(stack) - 1
         /\ \A n \in 1..(Len(stack) - 1) : stack'[n] = stack[n]

LEMMA BelowFacts ==
    ASSUME BatchTypes, StackInv, stack # <<>>,
           \/ stack' = Random!Caller
           \/ \E f \in Random!Frame : stack' = Append(Random!Caller, f)
           \/ \E f, g \in Random!Frame : stack' = Append(Append(Random!Caller, f), g)
    PROVE  Below
<1>1. /\ Random!Caller \in Seq(Random!Frame) /\ Len(Random!Caller) = Len(stack) - 1
      /\ \A n \in 1..(Len(stack) - 1) : Random!Caller[n] = stack[n]
      /\ Len(stack) \in Nat \ {0}
    BY TopFacts
<1>2. CASE stack' = Random!Caller
    BY <1>1, <1>2 DEF Below
<1>3. ASSUME NEW f \in Random!Frame, stack' = Append(Random!Caller, f) PROVE Below
    BY <1>1, <1>3, PushCall DEF Below
<1>4. ASSUME NEW f \in Random!Frame, NEW g \in Random!Frame,
             stack' = Append(Append(Random!Caller, f), g) PROVE Below
    <2>1. /\ Append(Random!Caller, f) \in Seq(Random!Frame)
          /\ Len(Append(Random!Caller, f)) = Len(stack)
          /\ \A n \in 1..(Len(stack) - 1) : Append(Random!Caller, f)[n] = stack[n]
        BY <1>1, <1>4, PushCall
    <2>2. /\ Len(stack') = Len(stack) + 1
          /\ \A n \in 1..Len(stack) : stack'[n] = Append(Random!Caller, f)[n]
        BY <1>4, <2>1, PushCall
    <2> QED
        BY <1>1, <2>1, <2>2 DEF Below
<1> QED
    BY <1>2, <1>3, <1>4

LEMMA HeightsBelow ==
    ASSUME TypesInv, HeightInv, ~Calling, Below, calls' = calls, handled \subseteq handled'
    PROVE  HeightInv'
<1>1. /\ Len(calls) \in Nat /\ Len(stack) \in Nat /\ Len(stack') \in Nat
      /\ \A n \in 1..Len(calls) : calls[n].height \in Nat /\ calls[n].height <= Len(stack) - 1
    BY HeightFacts DEF Below
<1>2. ASSUME NEW n \in 1..Len(calls)
      PROVE  /\ calls[n].height <= Len(stack')
             /\ calls[n].height > 0 => stack'[calls[n].height] = stack[calls[n].height]
    BY <1>1 DEF Below
<1>3. HeightsOK(calls, stack', handled')
    BY <1>1, <1>2, HeightsKept DEF HeightInv
<1> QED
    BY <1>3 DEF HeightInv, HeightsOK, CallerOK

UploadInv == TypesInv /\ BatchInv /\ HeightInv

(* Steps of the chunk stream that leave the batch alone.                    *)
LEMMA HeightsTouched ==
    ASSUME TypesInv, HeightInv, Calling, handled' = handled,
           Len(calls') \in 0..Len(calls),
           \A n \in 1..Len(calls') : calls'[n].height = calls[n].height,
           stack' = stack \/ \E f \in Random!Frame : stack' = Append(stack, f)
    PROVE  HeightInv'
<1>1. /\ Len(calls) \in Nat /\ Len(stack) \in Nat
      /\ \A n \in 1..Len(calls) : calls[n].height \in Nat /\ calls[n].height <= Len(stack)
      /\ stack \in Seq(Random!Frame)
    BY HeightFacts DEF TypesInv, BatchTypes
<1>2. /\ Len(stack') \in Nat /\ Len(stack') >= Len(stack)
      /\ \A n \in 1..Len(stack) : stack'[n] = stack[n]
    BY <1>1, PushCall
<1>3. ASSUME NEW n \in 1..Len(calls')
      PROVE  /\ calls[n].height <= Len(stack')
             /\ calls[n].height > 0 => stack'[calls[n].height] = stack[calls[n].height]
    BY <1>1, <1>2
<1>4. HeightsOK(calls', stack', handled')
    BY <1>1, <1>2, <1>3, HeightsKept DEF HeightInv
<1> QED
    BY <1>4 DEF HeightInv, HeightsOK, CallerOK

LEMMA HeightsSame ==
    ASSUME HeightInv, UNCHANGED <<calls, stack, handled>>
    PROVE  HeightInv'
    BY DEF HeightInv, HeightsOK, CallerOK

LEMMA HeightsFirst ==
    ASSUME TypesInv, EventLoop, NEW c \in CallSet, c.height = Len(stack), calls' = <<c>>,
           UNCHANGED <<stack, handled>>
    PROVE  HeightInv'
<1>1. Len(stack) = 0 /\ Len(stack') = 0 /\ Len(calls') = 1 /\ calls'[1].height = 0
    BY DEF EventLoop
<1> QED
    BY <1>1 DEF HeightInv, HeightsOK

LEMMA OpenCaller ==
    ASSUME TypesInv, Open, Len(stack) > 0
    PROVE  CallerOK(stack[Len(stack)], handled)
    BY DEF Open, CallerOK, Random!Running, Random!Top

LEMMA ChunkHeights ==
    ASSUME TypesInv, HeightInv, BuildChunk \/ Emission \/ ReadReturns \/ WriteReturns \/ EndReturns
    PROVE  HeightInv'
<1>1. /\ Calling /\ calls # <<>> /\ Len(calls) \in Nat \ {0} /\ Len(stack) \in Nat /\ Open
      /\ Top.height = Len(stack)
    <2>1. Calling
        BY DEF BuildChunk, Emission, EmitLost, EmitBeyond, EmitZeros, EmitChunk, Emitting,
               ReadReturns, WriteReturns, EndReturns, Returning
    <2> QED
        BY <2>1, HeightFacts
<1>2. CASE BuildChunk
    <2>1. PICK left, out : LeftOK(left) /\ out \in Data /\ calls' = TopWith(left, out)
        BY <1>2, BuildTypes
    <2>2. /\ Len(calls') = Len(calls)
          /\ \A n \in 1..(Len(calls) - 1) : calls'[n] = calls[n]
          /\ calls'[Len(calls)].height = Top.height /\ Top = calls[Len(calls)]
        <3> DEFINE s == TopWith(left, out)
        <3>1. /\ Len(s) = Len(calls)
              /\ \A n \in 1..(Len(calls) - 1) : s[n] = calls[n]
              /\ s[Len(calls)] = [height |-> Top.height, left |-> left, out |-> out,
                                  then |-> Top.then]
            BY <1>1, <2>1, TopWithOK
        <3> HIDE DEF s
        <3>2. s[Len(calls)].height = Top.height
            BY <3>1
        <3>3. calls' = s
            BY <2>1 DEF s
        <3>4. Top = calls[Len(calls)]
            BY <1>1, TopCallFacts
        <3> QED
            BY <3>1, <3>2, <3>3, <3>4
    <2>3. \A n \in 1..Len(calls') : calls'[n].height = calls[n].height
        BY <1>1, <2>2
    <2>4. stack' = stack /\ handled' = handled
        BY <1>2 DEF BuildChunk, batchVars, Others
    <2> QED
        BY <1>1, <2>2, <2>3, <2>4, HeightsTouched
<1>3. CASE Emission
    <2>1. /\ CallsOK(Emitted) /\ Len(Emitted) = Len(calls)
          /\ \A n \in 1..Len(calls) : Emitted[n].height = calls[n].height
        BY <1>3, EmittedOK DEF Emission, EmitLost, EmitBeyond, EmitZeros, EmitChunk
    <2>2. CASE EmitLost \/ EmitZeros
        <3>1. calls' = Emitted /\ stack' = stack /\ handled' = handled
            BY <2>2 DEF EmitLost, EmitZeros, batchVars, Others
        <3> QED
            BY <1>1, <2>1, <3>1, HeightsTouched
    <2>3. CASE EmitChunk
        <3>1. /\ calls' = Emitted /\ handled' = handled
              /\ stack' = Append(stack, Random!Call("run", Random!Total + 1))
            BY <2>3 DEF EmitChunk, Random!AddOperation, Random!AddOperationAs
        <3>2. Random!Call("run", Random!Total + 1) \in Random!Frame
            BY TotalFacts, CallIsFrame DEF TypesInv, Random!Pcs
        <3> QED
            BY <1>1, <2>1, <3>1, <3>2, HeightsTouched
    <2>4. CASE EmitBeyond
        <3>1. /\ stack' = stack /\ handled' = handled /\ UNCHANGED <<upload, ready>>
              /\ Stop(Emitted, Rewrapped.allocators)
            BY <2>4 DEF EmitBeyond, batchVars, Others
        <3>2. PICK out \in Data : calls' = Append(Emitted, Call(NoData, out, "end"))
            BY <1>1, <2>1, <3>1, RewrappedFacts, StopTypes
        <3>3. Call(NoData, out, "end").height = Len(stack)
            BY DEF Call
        <3>4. Call(NoData, out, "end") \in CallSet /\ LeftOK(Call(NoData, out, "end").left)
            BY CallOK, NoDataOK DEF TypesInv
        <3>5. /\ Len(calls') = Len(Emitted) + 1 /\ calls'[Len(Emitted) + 1].height = Len(stack)
              /\ \A n \in 1..Len(Emitted) : calls'[n] = Emitted[n]
            BY <2>1, <3>2, <3>3, <3>4, AppendCallOK
        <3>6. HeightsOK(Emitted, stack, handled)
            <4>1. \A n \in 1..Len(calls) : calls[n].height <= Len(stack)
                BY HeightFacts
            <4> QED
                BY <1>1, <2>1, <4>1, HeightsKept DEF HeightInv
        <3>7. HeightsOK(calls', stack, handled)
            BY <1>1, <2>1, <3>5, <3>6, OpenCaller, HeightsPush
        <3> QED
            BY <3>1, <3>7 DEF HeightInv, HeightsOK, CallerOK
    <2> QED
        BY <1>3, <2>2, <2>3, <2>4 DEF Emission
<1>4. CASE ReadReturns \/ WriteReturns \/ EndReturns
    <2>1. calls' = Front(calls) /\ handled' = handled
        BY <1>4 DEF ReadReturns, WriteReturns, EndReturns, Returning, Others
    <2>2. /\ Len(calls') = Len(calls) - 1
          /\ \A n \in 1..Len(calls') : calls'[n].height = calls[n].height
        BY <1>1, <2>1, TopCallFacts
    <2>3. stack' = stack \/ stack' = Append(stack, Random!Call("tryEnd", 0))
        BY <1>4 DEF ReadReturns, WriteReturns, EndReturns, Random!EnableComplete, batchVars
    <2>4. Random!Call("tryEnd", 0) \in Random!Frame
        BY CallIsFrame DEF Random!Pcs
    <2> QED
        BY <1>1, <2>1, <2>2, <2>3, <2>4, HeightsTouched
<1> QED
    BY <1>2, <1>3, <1>4

LEMMA SourceHeights ==
    ASSUME TypesInv, HeightInv,
           FileOpens \/ FileOpenFails \/ ReadEmits \/ ReadEnds \/ ReadFails
           \/ PipeWrites \/ PipeEnds
    PROVE  HeightInv'
<1>1. stack' = stack /\ handled' = handled
    BY DEF FileOpens, FileOpenFails, ReadEmits, ReadEnds, ReadFails, PipeWrites, PipeEnds,
           batchVars, Others
<1>2. CASE FileOpens \/ FileOpenFails \/ ReadFails
    <2>1. calls' = calls
        BY <1>2 DEF FileOpens, FileOpenFails, ReadFails, chunkVars
    <2> QED
        BY <1>1, <2>1, HeightsSame
<1>3. CASE ReadEmits \/ ReadEnds \/ PipeEnds
    <2>1. EventLoop
        BY <1>3 DEF ReadEmits, ReadEnds, ReadGets, PipeEnds
    <2>2. calls' = calls \/ \E left, out, then : calls' = <<Call(left, out, then)>>
        BY <1>3 DEF ReadEmits, ReadEnds, PipeEnds
    <2>3. CASE calls' = calls
        BY <1>1, <2>3, HeightsSame
    <2>4. ASSUME NEW left, NEW out, NEW then, calls' = <<Call(left, out, then)>>
          PROVE  HeightInv'
        <3>1. Len(calls') = 1 /\ calls'[1].height = Len(stack)
            BY <2>4 DEF Call
        <3>2. Len(stack) = 0
            BY <2>1 DEF EventLoop
        <3> QED
            BY <1>1, <3>1, <3>2 DEF HeightInv, HeightsOK
    <2> QED
        BY <2>2, <2>3, <2>4
<1>4. CASE PipeWrites
    <2>1. PICK c : calls' = Append(calls, c) /\ c.height = Len(stack) /\ c \in CallSet
        <3>1. PICK n \in {Smaller(upload.piece, upload.size - position)} :
              /\ n > 0
              /\ calls' = Append(calls,
                   [Call(NoData, NoData, "write") EXCEPT !.left =
                      [run |-> Run(position + 1, position + n),
                       id |-> FreshBuffers(1, Referred)[1]]])
            BY <1>4 DEF PipeWrites
        <3> DEFINE left == [run |-> Run(position + 1, position + n),
                            id |-> FreshBuffers(1, Referred)[1]]
        <3>2. [Call(NoData, NoData, "write") EXCEPT !.left = left] = Call(left, NoData, "write")
            BY DEF Call
        <3>3. /\ position \in Nat /\ upload.size \in Nat /\ upload.piece \in Nat
              /\ n \in Int
            BY UploadFacts DEF TypesInv, SourceTypes, Smaller
        <3>4. FreshBuffers(1, Referred)[1] \in Nat
            BY ReferredFinite, FreshFacts
        <3>5. left \in Data
            BY <3>3, <3>4 DEF Data, Run
        <3> HIDE DEF left
        <3>6. NoData \in Data /\ Len(stack) \in Nat
            BY NoDataOK, HeightFacts DEF TypesInv
        <3>7. Call(left, NoData, "write") \in CallSet /\ Call(left, NoData, "write").height = Len(stack)
            BY <3>5, <3>6 DEF Call, CallSet
        <3>8. calls' = Append(calls, Call(left, NoData, "write"))
            BY <3>1, <3>2 DEF left
        <3> QED
            BY <3>7, <3>8
    <2>2. calls \in Seq(CallSet)
        BY DEF TypesInv, ChunkTypes, CallsOK
    <2>3. /\ Len(calls) \in Nat /\ Len(calls') = Len(calls) + 1
          /\ \A n \in 1..Len(calls) : calls'[n] = calls[n]
          /\ calls'[Len(calls) + 1].height = Len(stack)
        BY <2>1, <2>2, PushCall
    <2>4. Open
        BY <1>4 DEF PipeWrites, PipeMayCall, EventLoop, Open
    <2>5. HeightsOK(calls', stack, handled)
        BY <2>3, <2>4, HeightFacts, OpenCaller, HeightsPush DEF HeightInv
    <2> QED
        BY <1>1, <2>5 DEF HeightInv, HeightsOK, CallerOK
<1> QED
    BY <1>2, <1>3, <1>4
-----------------------------------------------------------------------------
(* Every step preserves the invariant.                                      *)
LEMMA InvParts ==
    ASSUME UploadInv
    PROVE  /\ TypesInv /\ BatchInv /\ HeightInv /\ BatchTypes /\ StackInv /\ SourceTypes
           /\ ChunkTypes
    BY DEF UploadInv, TypesInv, BatchInv

LEMMA ChunkInv ==
    ASSUME UploadInv, BuildChunk \/ Emission \/ ReadReturns \/ WriteReturns \/ EndReturns
    PROVE  UploadInv'
<1>1. TypesInv' /\ BatchTypes'
    <2>1. TypesInv'
        BY InvParts, BuildTypes, EmissionTypes, ReturningTypes
    <2> QED
        BY <2>1 DEF TypesInv
<1>2. HeightInv'
    BY InvParts, ChunkHeights
<1>3. BatchInv'
    <2>1. CASE UNCHANGED batchVars
        <3>1. UNCHANGED <<failures, handled, upload>>
            BY DEF BuildChunk, Emission, EmitLost, EmitBeyond, EmitZeros, EmitChunk,
                   ReadReturns, WriteReturns, EndReturns, Others
        <3> QED
            BY <2>1, <3>1, InvParts, QuietStep
    <2>2. CASE EmitChunk
        <3>1. Calling /\ Random!AddOperation(stack) /\ UNCHANGED <<failures, handled, upload>>
            BY <2>2 DEF EmitChunk, Emitting
        <3>2. Open
            BY <3>1, InvParts, HeightFacts
        <3> QED
            BY <1>1, <3>1, <3>2, InvParts, AddsStep
    <2>3. CASE EndReturns /\ Random!EnableComplete(stack)
        <3>1. Calling /\ UNCHANGED <<failures, handled, upload>>
            BY <2>3 DEF EndReturns, Returning, Others
        <3>2. Open
            BY <3>1, InvParts, HeightFacts
        <3> QED
            BY <1>1, <2>3, <3>1, <3>2, InvParts, EnablesStep
    <2> QED
        BY <2>1, <2>2, <2>3 DEF BuildChunk, Emission, EmitLost, EmitBeyond, EmitZeros,
               ReadReturns, WriteReturns, EndReturns
<1> QED
    BY <1>1, <1>2, <1>3 DEF UploadInv

LEMMA SourceInv ==
    ASSUME UploadInv, FileOpens \/ FileOpenFails \/ ReadEmits \/ ReadEnds \/ ReadFails
                      \/ PipeWrites \/ PipeEnds \/ DestinationReady \/ CommitDone
    PROVE  UploadInv'
<1>1. TypesInv'
    BY InvParts, FileTypes, FileFailsTypes, PipeTypes, DestinationTypes, CommitTypes
<1>2. UNCHANGED <<batchVars, failures, handled, upload>>
    BY DEF FileOpens, FileOpenFails, ReadEmits, ReadEnds, ReadFails, PipeWrites, PipeEnds,
           DestinationReady, CommitDone, Others
<1>3. BatchInv'
    BY <1>2, InvParts, QuietStep
<1>4. HeightInv'
    <2>1. CASE DestinationReady \/ CommitDone
        <3>1. UNCHANGED <<calls, stack, handled>>
            BY <2>1 DEF DestinationReady, CommitDone, chunkVars, batchVars
        <3> QED
            BY <3>1, InvParts, HeightsSame
    <2> QED
        BY <2>1, InvParts, SourceHeights
<1> QED
    BY <1>1, <1>3, <1>4 DEF UploadInv

LEMMA RunsInv ==
    ASSUME UploadInv, BatchRuns
    PROVE  UploadInv'
<1>1. /\ ~Calling /\ UNCHANGED <<quietVars, sourceVars, allocators, handled>>
      /\ \/ Random!RunRequest /\ failures' = failures
         \/ Random!RunAfterError /\ failures' = failures \cup {Random!Top.op}
    BY DEF BatchRuns
<1>2. TypesInv' /\ BatchTypes'
    BY InvParts, RunsAnswersTypes DEF TypesInv
<1>3. BatchInv'
    BY <1>1, <1>2, InvParts, RunsStep DEF quietVars
<1>4. Below
    <2>1. /\ stack # <<>>
          /\ \/ stack' = Append(Random!Caller, Random!Call("ran", Random!Top.op))
             \/ stack' = Append(Append(Random!Caller, Random!Call("ran", Random!Top.op)),
                                Random!Call("fail", Random!Top.op))
        BY <1>1 DEF Random!RunRequest, Random!RunAfterError, Random!Running
    <2>2. Random!Top.op \in Nat
        BY <2>1, InvParts, TopFacts
    <2>3. /\ Random!Call("ran", Random!Top.op) \in Random!Frame
          /\ Random!Call("fail", Random!Top.op) \in Random!Frame
        BY <2>2, CallIsFrame DEF Random!Pcs
    <2> QED
        BY <2>1, <2>3, InvParts, BelowFacts
<1>5. HeightInv'
    BY <1>1, <1>4, InvParts, HeightsBelow DEF quietVars
<1> QED
    BY <1>2, <1>3, <1>5 DEF UploadInv

LEMMA RanInv ==
    ASSUME UploadInv, Ran
    PROVE  UploadInv'
<1>1. /\ ~Calling /\ UNCHANGED <<quietVars, failures, handled>>
      /\ Random!Running("ran") /\ stack' = Random!Caller
      /\ UNCHANGED <<status, operations, current, fired>>
    BY DEF Ran, RanThen, Random!Ran
<1>2. TypesInv' /\ BatchTypes'
    BY InvParts, RunsAnswersTypes DEF TypesInv
<1>3. stack # <<>> /\ Random!Top.pc = "ran"
    BY <1>1 DEF Random!Running
<1>4. BatchInv'
    BY <1>1, <1>2, <1>3, InvParts, ControlStep DEF quietVars
<1>5. HeightInv'
    BY <1>1, <1>3, InvParts, BelowFacts, HeightsBelow DEF quietVars
<1> QED
    BY <1>2, <1>4, <1>5 DEF UploadInv

LEMMA AnswerInv ==
    ASSUME UploadInv, NEW i \in 1..Total, NEW failed \in BOOLEAN, RequestDone(i, failed)
    PROVE  UploadInv'
<1>1. /\ EventLoop /\ Random!RequestDone(i, failed)
      /\ failures' = IF failed THEN failures \cup {i} ELSE failures
      /\ UNCHANGED <<upload, handled, calls>>
    BY DEF RequestDone, chunkVars
<1>2. TypesInv' /\ BatchTypes'
    BY InvParts, RunsAnswersTypes DEF TypesInv
<1>3. BatchInv'
    BY <1>1, <1>2, InvParts, AnswersStep
<1>4. HeightInv'
    <2>1. calls' = <<>> /\ Len(calls') = 0
        BY <1>1 DEF EventLoop
    <2> QED
        BY <2>1 DEF HeightInv, HeightsOK
<1> QED
    BY <1>2, <1>3, <1>4 DEF UploadInv

LEMMA StepsInv ==
    ASSUME UploadInv, BatchSteps
    PROVE  UploadInv'
<1>1. ~Calling /\ UNCHANGED <<quietVars, failures, handled>> /\ UNCHANGED <<upload, calls>>
    BY DEF BatchSteps, quietVars
<1>2. TypesInv' /\ BatchTypes'
    BY InvParts, BatchStepsTypes DEF TypesInv
<1>3. /\ "tryEnd" \in Idling /\ "tryDrain" \in Idling /\ "onEnd" \in Idling
      /\ "onDrain" \in Idling
      /\ Random!Call("tryEnd", 0) \in Random!Frame /\ Random!Call("tryDrain", 0) \in Random!Frame
      /\ Random!Call("onEnd", 0) \in Random!Frame
    BY CallIsFrame DEF Idling, Random!Pcs
<1>4. BatchInv' /\ Below
    <2>1. CASE Mode(Random!BatchOperationCallback, Ordered!BatchOperationCallback)
        <3>1. paused = FALSE
            BY InvParts DEF BatchTypes
        <3>2. /\ stack # <<>>
              /\ \/ stack' = Append(Random!Caller, Random!Call("tryDrain", 0))
                 \/ stack' = Append(Append(Random!Caller, Random!Call("tryDrain", 0)),
                                    Random!Call("fire", Random!Top.op))
            BY <2>1, <3>1, SettlesInMode DEF Random!Running
        <3>3. Random!Top.op \in Nat
            BY <3>2, InvParts, TopFacts
        <3>4. Random!Call("fire", Random!Top.op) \in Random!Frame
            BY <3>3, CallIsFrame DEF Random!Pcs
        <3>5. Below
            BY <1>3, <3>2, <3>4, InvParts, BelowFacts
        <3> QED
            BY <1>1, <1>2, <2>1, <3>5, InvParts, SettlesStep
    <2>2. CASE Mode(Random!FireUserCallback, Ordered!FireUserCallback)
        <3>1. PICK f : Random!Running("fire") /\ stack' = Append(Random!Caller, f)
            BY <2>2, FiresInMode
        <3>2. /\ stack # <<>> /\ stack' \in Seq(Random!Frame)
              /\ Random!Caller \in Seq(Random!Frame)
            BY <1>2, <3>1, InvParts, TopFacts DEF BatchTypes, Random!Running
        <3>3. f \in Random!Frame
            <4>1. Len(Append(Random!Caller, f)) = Len(Random!Caller) + 1
                  /\ Append(Random!Caller, f)[Len(Random!Caller) + 1] = f /\ Len(Random!Caller) \in Nat
                BY <3>2
            <4> QED
                BY <3>1, <3>2, <4>1
        <3>4. Below
            BY <3>1, <3>2, <3>3, InvParts, BelowFacts
        <3> QED
            BY <1>1, <1>2, <2>2, <3>4, InvParts, FiresStep
    <2>3. CASE Mode(Random!FireNothing, Ordered!FireNothing)
        <3>1. /\ stack # <<>> /\ Random!Top.pc = "fire" /\ Random!Top.op = 0
              /\ stack' = Append(Random!Caller, Random!Call("tryEnd", 0))
              /\ UNCHANGED <<Random!batch, fired>>
            BY <2>3, NothingInMode DEF Random!Running
        <3> QED
            BY <1>1, <1>2, <1>3, <3>1, InvParts, ControlStep, BelowFacts DEF Random!batch
    <2>4. CASE Mode(Random!NoDrain, Ordered!NoDrain)
        <3>1. /\ stack # <<>> /\ Random!Top.pc = "tryDrain" /\ stack' = Random!Caller
              /\ UNCHANGED <<Random!batch, fired>>
            BY <2>4, NoDrainInMode DEF Random!Running
        <3> QED
            BY <1>1, <1>2, <1>3, <3>1, InvParts, ControlStep, BelowFacts DEF Random!batch
    <2>5. CASE Random!EmitEnd
        <3>1. /\ stack # <<>> /\ Random!Top.pc = "tryEnd"
              /\ stack' = Append(Random!Caller, Random!Call("onEnd", 0))
              /\ UNCHANGED <<status, operations, current, fired>>
            BY <2>5 DEF Random!EmitEnd, Random!Running
        <3> QED
            BY <1>1, <1>2, <1>3, <3>1, InvParts, ControlStep, BelowFacts
    <2>6. CASE Random!NotComplete
        <3>1. /\ stack # <<>> /\ Random!Top.pc = "tryEnd"
              /\ stack' = Append(Random!Caller, Random!Call("tryDrain", 0))
              /\ UNCHANGED <<Random!batch, fired>>
            BY <2>6 DEF Random!NotComplete, Random!Running
        <3> QED
            BY <1>1, <1>2, <1>3, <3>1, InvParts, ControlStep, BelowFacts DEF Random!batch
    <2>7. CASE Random!Running("onDrain") /\ Random!ListenerReturns
        <3>1. /\ stack # <<>> /\ Random!Top.pc = "onDrain" /\ stack' = Random!Caller
              /\ UNCHANGED <<Random!batch, fired>>
            BY <2>7 DEF Random!ListenerReturns, Random!Running
        <3> QED
            BY <1>1, <1>2, <1>3, <3>1, InvParts, ControlStep, BelowFacts DEF Random!batch
    <2> QED
        BY <2>1, <2>2, <2>3, <2>4, <2>5, <2>6, <2>7 DEF BatchSteps
<1>5. HeightInv'
    BY <1>1, <1>4, InvParts, HeightsBelow
<1> QED
    BY <1>2, <1>4, <1>5 DEF UploadInv

LEMMA DrainInv ==
    ASSUME UploadInv, Drain
    PROVE  UploadInv'
<1>1. /\ ~Calling /\ UNCHANGED <<failures, handled, upload, calls>>
      /\ Mode(Random!EmitDrain, Ordered!EmitDrain)
    BY DEF Drain, DrainThen, quietVars
<1>2. TypesInv' /\ BatchTypes'
    BY InvParts, DrainTypes DEF TypesInv
<1>3. /\ stack # <<>> /\ Random!Top.pc = "tryDrain"
      /\ stack' = Append(Random!Caller, Random!Call("onDrain", 0))
      /\ UNCHANGED <<Random!batch, fired>>
    BY <1>1, DrainInMode DEF Random!Running
<1>4. "onDrain" \in Idling /\ "tryDrain" \in Idling /\ Random!Call("onDrain", 0) \in Random!Frame
    BY CallIsFrame DEF Idling, Random!Pcs
<1>5. BatchInv'
    BY <1>1, <1>2, <1>3, <1>4, InvParts, ControlStep DEF Random!batch
<1>6. HeightInv'
    BY <1>1, <1>3, <1>4, InvParts, BelowFacts, HeightsBelow
<1> QED
    BY <1>2, <1>5, <1>6 DEF UploadInv

LEMMA CallbackStepsInv ==
    ASSUME UploadInv, UserCallbackStops \/ UserCallbackReturns \/ End
    PROVE  UploadInv'
<1>1. TypesInv' /\ BatchTypes'
    BY InvParts, CallbackTypes DEF TypesInv
<1>2. CASE UserCallbackStops
    <2>1. /\ ~Calling /\ Random!Running("userCallback")
          /\ handled' = handled \cup {Random!Top.op}
          /\ Stop(calls, allocators)
          /\ UNCHANGED <<status, operations, current, stack, fired, failures, upload, ready>>
        BY <1>2 DEF UserCallbackStops, batchVars
    <2>2. BatchInv'
        BY <1>1, <2>1, InvParts, StopsStep
    <2>3. PICK out \in Data : calls' = Append(calls, Call(NoData, out, "end"))
        <3>1. CallsOK(calls) /\ PoolsOK(allocators)
            BY InvParts DEF ChunkTypes
        <3> QED
            BY <2>1, <3>1, InvParts, StopTypes
    <2>4. Call(NoData, out, "end").height = Len(stack)
        BY DEF Call
    <2>5. Call(NoData, out, "end") \in CallSet /\ LeftOK(Call(NoData, out, "end").left)
        BY InvParts, CallOK, NoDataOK
    <2>6. CallsOK(calls)
        BY InvParts DEF ChunkTypes
    <2>7. /\ Len(calls') = Len(calls) + 1 /\ Len(calls) \in Nat
          /\ calls'[Len(calls) + 1].height = Len(stack)
          /\ \A n \in 1..Len(calls) : calls'[n] = calls[n]
        BY <2>3, <2>4, <2>5, <2>6, AppendCallOK
    <2>8. Len(stack) \in Nat /\ \A n \in 1..Len(calls) : calls[n].height <= Len(stack)
        BY InvParts, HeightFacts
    <2>9. HeightsOK(calls, stack, handled')
        BY <2>1, <2>7, <2>8, InvParts, HeightsKept DEF HeightInv
    <2>10. CallerOK(stack[Len(stack)], handled')
        BY <2>1 DEF CallerOK, Random!Running, Random!Top
    <2>11. HeightsOK(calls', stack, handled')
        BY <2>7, <2>8, <2>9, <2>10, HeightsPush
    <2>12. HeightInv'
        BY <2>1, <2>11 DEF HeightInv, HeightsOK, CallerOK
    <2> QED
        BY <1>1, <2>2, <2>12 DEF UploadInv
<1>3. CASE UserCallbackReturns
    <2>1. /\ ~Calling /\ UNCHANGED <<failures, handled, upload, calls>>
          /\ Mode(Random!UserCallbackReturns, Ordered!UserCallbackReturns)
        BY <1>3 DEF UserCallbackReturns, quietVars
    <2>2. stack # <<>> /\ stack' = Append(Random!Caller, Random!Call("fire", 0))
        BY <2>1, ReturnsInMode DEF Random!Running
    <2>3. Random!Call("fire", 0) \in Random!Frame
        BY CallIsFrame DEF Random!Pcs
    <2>4. BatchInv'
        BY <1>1, <2>1, InvParts, ReturnsStep
    <2>5. HeightInv'
        BY <2>1, <2>2, <2>3, InvParts, BelowFacts, HeightsBelow
    <2> QED
        BY <1>1, <2>4, <2>5 DEF UploadInv
<1>4. CASE End
    <2>1. /\ ~Calling /\ UNCHANGED <<failures, handled, upload, calls>>
          /\ Random!Running("onEnd") /\ stack' = Random!Caller
          /\ UNCHANGED <<Random!batch, fired>>
        BY <1>4 DEF End, Random!ListenerReturns, chunkVars
    <2>2. stack # <<>> /\ Random!Top.pc = "onEnd" /\ "onEnd" \in Idling
        BY <2>1 DEF Random!Running, Idling
    <2>3. BatchInv'
        BY <1>1, <2>1, <2>2, InvParts, ControlStep DEF Random!batch
    <2>4. HeightInv'
        BY <2>1, <2>2, InvParts, BelowFacts, HeightsBelow
    <2> QED
        BY <1>1, <2>3, <2>4 DEF UploadInv
<1> QED
    BY <1>2, <1>3, <1>4

LEMMA UploadStep ==
    ASSUME UploadInv, [Next]_vars
    PROVE  UploadInv'
<1>1. CASE Internal
    BY <1>1, ChunkInv, RunsInv, RanInv, StepsInv, DrainInv, CallbackStepsInv DEF Internal
<1>2. CASE External
    BY <1>2, SourceInv, AnswerInv DEF External
<1>3. CASE UNCHANGED vars
    <2>1. UNCHANGED <<batchVars, failures, handled, upload, calls, stack>>
        BY <1>3 DEF vars, batchVars, chunkVars
    <2>2. BatchInv' /\ HeightInv'
        BY <2>1, InvParts, QuietStep, HeightsSame
    <2>3. BatchTypes' /\ Total' = Total /\ SourceTypes'
        BY <1>3, InvParts, BatchKept, SourceKept DEF vars
    <2>4. PoolsOK(allocators')
        BY <1>3, InvParts DEF ChunkTypes, vars, chunkVars
    <2>5. ChunkTypes' /\ ResultTypes'
        BY <1>3, <2>3, <2>4, InvParts, StoresKept DEF vars, chunkVars
    <2> QED
        BY <2>2, <2>3, <2>5 DEF UploadInv, TypesInv
<1> QED
    BY <1>1, <1>2, <1>3 DEF Next, Stopped

LEMMA UploadInit ==
    ASSUME Init
    PROVE  UploadInv
<1>1. TypesInv /\ BatchTypes
    BY InitTypes DEF TypesInv
<1>2. /\ stack = <<>> /\ fired = <<>> /\ status = <<>> /\ calls = <<>> /\ failures = {}
      /\ handled = {}
    BY DEF Init
<1>3. StackInv /\ FireInv
    BY <1>2 DEF StackInv, StackOK, Users, FireInv, Random!Running
<1>4. CallbackInv /\ FailInv
    BY <1>2 DEF CallbackInv, FailInv, Random!Running, Total
<1>5. FiringsInv
    BY <1>2 DEF FiringsInv, FiredOnce, Random!FiredOnce, Total
<1>6. HeightInv
    BY <1>2 DEF HeightInv, HeightsOK
<1> QED
    BY <1>1, <1>3, <1>4, <1>5, <1>6 DEF UploadInv, BatchInv

LEMMA UploadInvariant == Spec => []UploadInv
<1>1. Init => UploadInv
    BY UploadInit
<1>2. UploadInv /\ [Next]_vars => UploadInv'
    BY UploadStep
<1> QED
    BY <1>1, <1>2, PTL DEF Spec

(* No chunk of an upload has its user callback fired twice: neither its     *)
(* buffer is released twice nor is an error taken for another, although     *)
(* user callbacks nest and operations are added while one is in progress.   *)
THEOREM UploadFiresOnce == Spec => []FiredOnce
<1>1. UploadInv => FiredOnce
    BY DEF UploadInv, BatchInv, FiringsInv
<1> QED
    BY <1>1, UploadInvariant, PTL
-----------------------------------------------------------------------------
(* The counters of the batch.  What _runOperation has not returned from is  *)
(* unfinished, but not active yet.                                          *)
Starts(pc) == pc \in {"run", "ran"}
Starting(s) == {n \in 1..Len(s) : Starts(s[n].pc)}
Unfinished == {i \in 1..Total : status[i] # "complete"}
Outstanding == {i \in 1..Total : status[i] \in {"queued", "running"}}

CountsInv ==
    /\ active = Cardinality(Unfinished) - Cardinality(Starting(stack))
    /\ queued = Cardinality(Outstanding)
    /\ Len(operations) = Cardinality(Unfinished)

LEMMA StartingFacts ==
    ASSUME NEW s \in Seq(Random!Frame)
    PROVE  /\ IsFiniteSet(Starting(s)) /\ Cardinality(Starting(s)) \in Nat
           /\ \A f \in Random!Frame :
                 Cardinality(Starting(Append(s, f))) =
                    Cardinality(Starting(s)) + IF Starts(f.pc) THEN 1 ELSE 0
           /\ s # <<>> =>
                 Cardinality(Starting(SubSeq(s, 1, Len(s) - 1))) =
                    Cardinality(Starting(s)) - IF Starts(s[Len(s)].pc) THEN 1 ELSE 0
<1>1. IsFiniteSet(Starting(s)) /\ Cardinality(Starting(s)) \in Nat /\ Len(s) \in Nat
    <2>1. IsFiniteSet(1..Len(s)) /\ Len(s) \in Nat
        BY FS_Interval
    <2> QED
        BY <2>1, FS_Subset, FS_CardinalityType DEF Starting
<1>2. ASSUME NEW f \in Random!Frame
      PROVE  Cardinality(Starting(Append(s, f))) =
                Cardinality(Starting(s)) + IF Starts(f.pc) THEN 1 ELSE 0
    <2>1. /\ Len(Append(s, f)) = Len(s) + 1 /\ Append(s, f)[Len(s) + 1] = f
          /\ \A n \in 1..Len(s) : Append(s, f)[n] = s[n]
        BY PushCall
    <2>2. CASE Starts(f.pc)
        <3>1. Starting(Append(s, f)) = Starting(s) \cup {Len(s) + 1}
            BY <1>1, <2>1, <2>2 DEF Starting
        <3>2. Len(s) + 1 \notin Starting(s)
            BY <1>1 DEF Starting
        <3> QED
            BY <1>1, <2>2, <3>1, <3>2, FS_AddElement
    <2>3. CASE ~Starts(f.pc)
        <3>1. Starting(Append(s, f)) = Starting(s)
            BY <1>1, <2>1, <2>3 DEF Starting
        <3> QED
            BY <1>1, <2>3, <3>1
    <2> QED
        BY <2>2, <2>3
<1>3. ASSUME s # <<>>
      PROVE  Cardinality(Starting(SubSeq(s, 1, Len(s) - 1))) =
                Cardinality(Starting(s)) - IF Starts(s[Len(s)].pc) THEN 1 ELSE 0
    <2>1. /\ Len(s) \in Nat \ {0} /\ Len(SubSeq(s, 1, Len(s) - 1)) = Len(s) - 1
          /\ \A n \in 1..(Len(s) - 1) : SubSeq(s, 1, Len(s) - 1)[n] = s[n]
        BY <1>3, PopCall
    <2>2. CASE Starts(s[Len(s)].pc)
        <3>1. Starting(SubSeq(s, 1, Len(s) - 1)) = Starting(s) \ {Len(s)}
            BY <2>1, <2>2 DEF Starting
        <3>2. Len(s) \in Starting(s)
            BY <2>1, <2>2 DEF Starting
        <3> QED
            BY <1>1, <2>2, <3>1, <3>2, FS_RemoveElement
    <2>3. CASE ~Starts(s[Len(s)].pc)
        <3>1. Starting(SubSeq(s, 1, Len(s) - 1)) = Starting(s)
            BY <2>1, <2>3 DEF Starting
        <3> QED
            BY <1>1, <2>3, <3>1
    <2> QED
        BY <2>2, <2>3
<1> QED
    BY <1>1, <1>2, <1>3

LEMMA CountedFinite ==
    ASSUME BatchTypes
    PROVE  /\ IsFiniteSet(Unfinished) /\ Cardinality(Unfinished) \in Nat
           /\ IsFiniteSet(Outstanding) /\ Cardinality(Outstanding) \in Nat
           /\ Total \in Nat
<1>1. Total \in Nat
    BY TotalFacts
<1>2. IsFiniteSet(1..Total)
    BY <1>1, FS_Interval
<1> QED
    BY <1>1, <1>2, FS_Subset, FS_CardinalityType DEF Unfinished, Outstanding

LEMMA SameCardinality ==
    ASSUME NEW S
    PROVE  Random!Cardinality(S) = Cardinality(S)
    BY Zenon DEF Cardinality, Random!Cardinality

LEMMA DisjointSum ==
    ASSUME NEW S, IsFiniteSet(S), NEW T, IsFiniteSet(T), S \cap T = {}
    PROVE  Cardinality(S \cup T) = Cardinality(S) + Cardinality(T)
<1> DEFINE common == S \cap T
<1>1. Cardinality(S \cup T) = Cardinality(S) + Cardinality(T) - Cardinality(common)
    BY FS_Union
<1>2. common = {}
    OBVIOUS
<1> HIDE DEF common
<1>3. Cardinality(common) = 0
    BY <1>2, FS_EmptySet
<1>4. Cardinality(S) \in Nat /\ Cardinality(T) \in Nat
    BY FS_CardinalityType
<1> QED
    BY <1>1, <1>3, <1>4

LEMMA CountsAgree ==
    ASSUME BatchTypes, CountsInv
    PROVE  CountersAgree
<1> DEFINE runs == Random!InProgress("run")
           rans == Random!InProgress("ran")
           pending == {i \in 1..Random!Total : status[i] \in {"queued", "running"}}
<1>1. /\ stack \in Seq(Random!Frame) /\ Len(stack) \in Nat
      /\ IsFiniteSet(1..Len(stack))
    BY FS_Interval DEF BatchTypes
<1>2. /\ IsFiniteSet(runs) /\ IsFiniteSet(rans) /\ runs \cap rans = {}
      /\ Starting(stack) = runs \cup rans
    BY <1>1, FS_Subset DEF Random!InProgress, Random!CallsOf, Starting, Starts
<1>3. Random!Unfinished = Unfinished /\ Outstanding = pending
    BY DEF Random!Unfinished, Unfinished, Outstanding, Random!Total, Total
<1>4. CountersAgree <=>
         /\ active = Cardinality(Unfinished) - Cardinality(runs) - Cardinality(rans)
         /\ queued = Cardinality(pending) /\ Len(operations) = Cardinality(Unfinished)
    <2>1. CountersAgree <=>
             /\ active = Cardinality(Random!Unfinished) - Cardinality(runs) - Cardinality(rans)
             /\ queued = Cardinality(pending)
             /\ Len(operations) = Cardinality(Random!Unfinished)
        BY SameCardinality, Zenon DEF CountersAgree, Random!CountersAgree
    <2> HIDE DEF runs, rans, pending
    <2> QED
        BY <1>3, <2>1
<1> HIDE DEF runs, rans, pending
<1>5. Cardinality({}) = 0 /\ Cardinality(runs) \in Nat /\ Cardinality(rans) \in Nat
    BY <1>2, FS_EmptySet, FS_CardinalityType
<1>6. Cardinality(runs \cup rans) = Cardinality(runs) + Cardinality(rans)
    BY <1>2, DisjointSum
<1>7. Cardinality(Starting(stack)) = Cardinality(runs) + Cardinality(rans)
    BY <1>2, <1>6
<1>8. Cardinality(Unfinished) \in Nat
    BY CountedFinite
<1> QED
    BY <1>3, <1>4, <1>5, <1>7, <1>8 DEF CountsInv

LEMMA StatusCounts ==
    ASSUME BatchTypes, NEW i \in 1..Total, NEW state \in Random!OperationState,
           status' = [status EXCEPT ![i] = state], status[i] # "complete"
    PROVE  /\ state # "complete" => Unfinished' = Unfinished
           /\ state = "complete" =>
                 Cardinality(Unfinished') = Cardinality(Unfinished) - 1
           /\ status[i] \in {"queued", "running"} <=> state \in {"queued", "running"}
                 => Outstanding' = Outstanding
           /\ status[i] \in {"queued", "running"} /\ state \notin {"queued", "running"}
                 => Cardinality(Outstanding') = Cardinality(Outstanding) - 1
<1>1. /\ Total' = Total /\ Total \in Nat
      /\ \A n \in 1..Total : status'[n] = IF n = i THEN state ELSE status[n]
    <2>1. status \in Seq(Random!OperationState)
        BY DEF BatchTypes
    <2> QED
        BY <2>1, OverwriteSeq, TotalFacts DEF Total
<1>2. state # "complete" => Unfinished' = Unfinished
    BY <1>1 DEF Unfinished
<1>3. state = "complete" => Unfinished' = Unfinished \ {i} /\ i \in Unfinished
    BY <1>1 DEF Unfinished
<1>4. status[i] \in {"queued", "running"} <=> state \in {"queued", "running"}
        => Outstanding' = Outstanding
    BY <1>1 DEF Outstanding
<1>5. status[i] \in {"queued", "running"} /\ state \notin {"queued", "running"}
        => Outstanding' = Outstanding \ {i} /\ i \in Outstanding
    BY <1>1 DEF Outstanding
<1> QED
    BY <1>2, <1>3, <1>4, <1>5, CountedFinite, FS_RemoveElement

(* The calls that have begun to run an operation, after the innermost call  *)
(* was replaced.                                                            *)
One(pc) == IF Starts(pc) THEN 1 ELSE 0

LEMMA ReplacedStarts ==
    ASSUME BatchTypes, StackInv, stack # <<>>
    PROVE  LET rest == Cardinality(Starting(Random!Caller)) IN
           /\ rest \in Nat /\ Cardinality(Starting(stack)) = rest + One(Random!Top.pc)
           /\ \A f \in Random!Frame :
                 Cardinality(Starting(Append(Random!Caller, f))) = rest + One(f.pc)
           /\ \A f, g \in Random!Frame :
                 Cardinality(Starting(Append(Append(Random!Caller, f), g))) =
                    rest + One(f.pc) + One(g.pc)
<1>1. /\ Random!Caller \in Seq(Random!Frame) /\ stack \in Seq(Random!Frame)
      /\ Random!Caller = SubSeq(stack, 1, Len(stack) - 1) /\ Random!Top = stack[Len(stack)]
    BY TopFacts DEF BatchTypes, Random!Caller, Random!Top
<1>2. /\ Cardinality(Starting(Random!Caller)) \in Nat /\ Cardinality(Starting(stack)) \in Nat
      /\ Cardinality(Starting(Random!Caller)) = Cardinality(Starting(stack)) - One(Random!Top.pc)
    BY <1>1, StartingFacts DEF One
<1>3. \A f \in Random!Frame : /\ Append(Random!Caller, f) \in Seq(Random!Frame)
                              /\ Cardinality(Starting(Append(Random!Caller, f))) =
                                   Cardinality(Starting(Random!Caller)) + One(f.pc)
    BY <1>1, StartingFacts, PushCall DEF One
<1>4. ASSUME NEW f \in Random!Frame, NEW g \in Random!Frame
      PROVE  Cardinality(Starting(Append(Append(Random!Caller, f), g))) =
                Cardinality(Starting(Random!Caller)) + One(f.pc) + One(g.pc)
    <2>1. Append(Random!Caller, f) \in Seq(Random!Frame)
        BY <1>3
    <2>2. Cardinality(Starting(Append(Append(Random!Caller, f), g))) =
             Cardinality(Starting(Append(Random!Caller, f))) + One(g.pc)
        BY <2>1, StartingFacts DEF One
    <2> QED
        BY <1>3, <2>2
<1>5. One(Random!Top.pc) \in {0, 1}
    BY DEF One
<1> QED
    BY <1>2, <1>3, <1>4, <1>5

LEMMA CountsControl ==
    ASSUME BatchTypes, CountsInv, UNCHANGED <<status, operations, queued>>,
           active' + Cardinality(Starting(stack')) = active + Cardinality(Starting(stack)),
           active' \in Int, Cardinality(Starting(stack')) \in Nat
    PROVE  CountsInv'
<1>1. Unfinished' = Unfinished /\ Outstanding' = Outstanding
    BY DEF Unfinished, Outstanding, Total
<1>2. active \in Int /\ Cardinality(Starting(stack)) \in Nat /\ Cardinality(Unfinished) \in Nat
    BY CountedFinite, StartingFacts DEF BatchTypes
<1>3. active' = Cardinality(Unfinished) - Cardinality(Starting(stack'))
    BY <1>2 DEF CountsInv
<1>4. /\ Cardinality(Unfinished)' = Cardinality(Unfinished)
      /\ Cardinality(Outstanding)' = Cardinality(Outstanding)
      /\ Cardinality(Starting(stack))' = Cardinality(Starting(stack'))
    BY <1>1 DEF Starting
<1> QED
    BY <1>3, <1>4 DEF CountsInv

(* The counters after a step that replaces the innermost call and does not  *)
(* touch the operations.                                                    *)
LEMMA CountsReplaced ==
    ASSUME BatchTypes, StackInv, CountsInv, stack # <<>>,
           UNCHANGED <<status, operations, queued>>, active' = active + One(Random!Top.pc),
           \/ stack' = Random!Caller
           \/ \E f \in Random!Frame : stack' = Append(Random!Caller, f) /\ ~Starts(f.pc)
    PROVE  CountsInv'
<1>1. /\ Cardinality(Starting(Random!Caller)) \in Nat
      /\ Cardinality(Starting(stack)) =
            Cardinality(Starting(Random!Caller)) + One(Random!Top.pc)
    BY ReplacedStarts
<1>2. Cardinality(Starting(stack')) = Cardinality(Starting(Random!Caller))
    <2>1. CASE stack' = Random!Caller
        BY <2>1
    <2>2. ASSUME NEW f \in Random!Frame, stack' = Append(Random!Caller, f), ~Starts(f.pc)
          PROVE  Cardinality(Starting(stack')) = Cardinality(Starting(Random!Caller))
        <3>1. Cardinality(Starting(Append(Random!Caller, f))) =
                 Cardinality(Starting(Random!Caller)) + One(f.pc)
            BY ReplacedStarts
        <3>2. One(f.pc) = 0
            BY <2>2 DEF One
        <3> QED
            BY <1>1, <2>2, <3>1, <3>2
    <2> QED
        BY <2>1, <2>2
<1>3. active \in Int /\ One(Random!Top.pc) \in {0, 1}
    BY DEF BatchTypes, One
<1> QED
    BY <1>1, <1>2, <1>3, CountsControl

LEMMA CountsQuiet ==
    ASSUME CountsInv, UNCHANGED batchVars
    PROVE  CountsInv'
    BY DEF CountsInv, batchVars, Unfinished, Outstanding, Starting, Total

LEMMA CountsPushed ==
    ASSUME BatchTypes, CountsInv, NEW f \in Random!Frame, ~Starts(f.pc),
           stack' = Append(stack, f), UNCHANGED <<status, operations, queued, active>>
    PROVE  CountsInv'
<1>1. stack \in Seq(Random!Frame) /\ active \in Int
    BY DEF BatchTypes
<1>2. /\ Cardinality(Starting(stack')) = Cardinality(Starting(stack))
      /\ Cardinality(Starting(stack)) \in Nat
    BY <1>1, StartingFacts
<1> QED
    BY <1>1, <1>2, CountsControl

LEMMA CountsAdded ==
    ASSUME BatchTypes, CountsInv, Random!AddOperation(stack)
    PROVE  CountsInv'
<1>1. /\ status' = Append(status, "queued") /\ operations' = Append(operations, Total + 1)
      /\ queued' = queued + 1 /\ active' = active
      /\ stack' = Append(stack, Random!Call("run", Total + 1))
    BY DEF Random!AddOperation, Random!AddOperationAs, Random!Total, Total
<1>2. /\ status \in Seq(Random!OperationState) /\ "queued" \in Random!OperationState
      /\ operations \in Seq(1..Total) /\ Total \in Nat /\ stack \in Seq(Random!Frame)
      /\ queued \in Int /\ active \in Int
    BY TotalFacts DEF BatchTypes, Random!OperationState
<1>3. /\ Total' = Total + 1 /\ status'[Total + 1] = "queued"
      /\ \A n \in 1..Total : status'[n] = status[n]
    BY <1>1, <1>2, PushCall DEF Total
<1>4. /\ Unfinished' = Unfinished \cup {Total + 1} /\ Total + 1 \notin Unfinished
      /\ Outstanding' = Outstanding \cup {Total + 1} /\ Total + 1 \notin Outstanding
    BY <1>2, <1>3 DEF Unfinished, Outstanding
<1>5. /\ Cardinality(Unfinished') = Cardinality(Unfinished) + 1
      /\ Cardinality(Outstanding') = Cardinality(Outstanding) + 1
      /\ Cardinality(Unfinished) \in Nat /\ Cardinality(Outstanding) \in Nat
    BY <1>4, CountedFinite, FS_AddElement
<1>6. /\ Cardinality(Starting(stack')) = Cardinality(Starting(stack)) + 1
      /\ Cardinality(Starting(stack)) \in Nat
    <2>1. Random!Call("run", Total + 1) \in Random!Frame
        BY <1>2, CallIsFrame DEF Random!Pcs
    <2>2. Random!Call("run", Total + 1).pc = "run"
        BY DEF Random!Call
    <2> QED
        BY <1>1, <1>2, <2>1, <2>2, StartingFacts DEF Starts
<1>7. Len(operations') = Len(operations) + 1
    BY <1>1, <1>2
<1>8. /\ Cardinality(Unfinished)' = Cardinality(Unfinished')
      /\ Cardinality(Outstanding)' = Cardinality(Outstanding')
      /\ Cardinality(Starting(stack))' = Cardinality(Starting(stack'))
    BY DEF Starting
<1>9. /\ active' = Cardinality(Unfinished') - Cardinality(Starting(stack'))
      /\ queued' = Cardinality(Outstanding') /\ Len(operations') = Cardinality(Unfinished')
    BY <1>1, <1>2, <1>5, <1>6, <1>7 DEF CountsInv
<1> QED
    BY <1>8, <1>9 DEF CountsInv

LEMMA CountsRun ==
    ASSUME BatchTypes, StackInv, CountsInv, Random!RunRequest \/ Random!RunAfterError
    PROVE  CountsInv'
<1>1. stack # <<>> /\ Random!Top.pc = "run" /\ UNCHANGED <<operations, queued, active>>
    BY DEF Random!RunRequest, Random!RunAfterError, Random!Running, Random!batch
<1>2. /\ Random!Top.op \in 1..Total /\ Random!Top.op \in Nat
      /\ status[Random!Top.op] = "queued"
    BY <1>1, TopFacts DEF FrameOK, Total
<1> DEFINE f == Random!Call("ran", Random!Top.op)
           g == Random!Call("fail", Random!Top.op)
<1>3. /\ f \in Random!Frame /\ g \in Random!Frame /\ f.pc = "ran" /\ g.pc = "fail"
    BY <1>2, CallIsFrame DEF Random!Pcs, Random!Call
<1>4. stack' = Append(Random!Caller, f) \/ stack' = Append(Append(Random!Caller, f), g)
    BY DEF Random!RunRequest, Random!RunAfterError
<1> HIDE DEF f, g
<1>5. /\ Cardinality(Starting(stack')) = Cardinality(Starting(stack))
      /\ Cardinality(Starting(stack)) \in Nat
    <2>1. One(f.pc) = 1 /\ One(g.pc) = 0 /\ One(Random!Top.pc) = 1
        BY <1>1, <1>3 DEF One, Starts
    <2>2. /\ Cardinality(Starting(Random!Caller)) \in Nat
          /\ Cardinality(Starting(stack)) =
                Cardinality(Starting(Random!Caller)) + One(Random!Top.pc)
          /\ Cardinality(Starting(Append(Random!Caller, f))) =
                Cardinality(Starting(Random!Caller)) + One(f.pc)
          /\ Cardinality(Starting(Append(Append(Random!Caller, f), g))) =
                Cardinality(Starting(Random!Caller)) + One(f.pc) + One(g.pc)
        BY <1>1, <1>3, ReplacedStarts
    <2>3. CASE stack' = Append(Random!Caller, f)
        BY <2>1, <2>2, <2>3
    <2>4. CASE stack' = Append(Append(Random!Caller, f), g)
        BY <2>1, <2>2, <2>4
    <2> QED
        BY <1>4, <2>3, <2>4
<1>6. active \in Int
    BY DEF BatchTypes
<1>7. CASE status' = status
    BY <1>1, <1>5, <1>6, <1>7, CountsControl
<1>8. CASE status' = [status EXCEPT ![Random!Top.op] = "running"]
    <2>1. Unfinished' = Unfinished /\ Outstanding' = Outstanding
        BY <1>2, <1>8, StatusCounts DEF Random!OperationState
    <2>2. /\ Cardinality(Unfinished)' = Cardinality(Unfinished)
          /\ Cardinality(Outstanding)' = Cardinality(Outstanding)
          /\ Cardinality(Starting(stack))' = Cardinality(Starting(stack'))
        BY <2>1 DEF Starting
    <2> QED
        BY <1>1, <1>5, <2>2 DEF CountsInv
<1> QED
    BY <1>7, <1>8 DEF Random!RunRequest, Random!RunAfterError, Random!batch

LEMMA CountsSettle ==
    ASSUME BatchTypes, StackInv, CountsInv,
           Mode(Random!BatchOperationCallback, Ordered!BatchOperationCallback)
    PROVE  CountsInv'
<1> DEFINE state == IF ~InOrder /\ Random!Running("fail") THEN "error" ELSE "callback"
           f == Random!Call("tryDrain", 0)
           g == Random!Call("fire", Random!Top.op)
<1>1. /\ stack # <<>> /\ Random!Top.pc \in {"succeed", "fail"}
      /\ queued' = queued - 1 /\ UNCHANGED <<operations, active>>
      /\ status' = [status EXCEPT ![Random!Top.op] = state]
      /\ stack' = Append(Random!Caller, f) \/ stack' = Append(Append(Random!Caller, f), g)
    <2>1. paused = FALSE
        BY DEF BatchTypes
    <2> QED
        BY <2>1, SettlesInMode DEF Random!Running
<1>2. /\ Random!Top.op \in 1..Total /\ Random!Top.op \in Nat
      /\ status[Random!Top.op] \in {"queued", "running"}
    BY <1>1, TopFacts DEF FrameOK, Total
<1>3. /\ f \in Random!Frame /\ g \in Random!Frame /\ f.pc = "tryDrain" /\ g.pc = "fire"
    BY <1>2, CallIsFrame DEF Random!Pcs, Random!Call
<1>4. state \in {"callback", "error"} /\ state \in Random!OperationState
    BY DEF Random!OperationState
<1> HIDE DEF f, g, state
<1>5. /\ Cardinality(Starting(stack')) = Cardinality(Starting(stack))
      /\ Cardinality(Starting(stack)) \in Nat
    <2>1. One(f.pc) = 0 /\ One(g.pc) = 0 /\ One(Random!Top.pc) = 0
        BY <1>1, <1>3 DEF One, Starts
    <2>2. /\ Cardinality(Starting(Random!Caller)) \in Nat
          /\ Cardinality(Starting(stack)) =
                Cardinality(Starting(Random!Caller)) + One(Random!Top.pc)
          /\ Cardinality(Starting(Append(Random!Caller, f))) =
                Cardinality(Starting(Random!Caller)) + One(f.pc)
          /\ Cardinality(Starting(Append(Append(Random!Caller, f), g))) =
                Cardinality(Starting(Random!Caller)) + One(f.pc) + One(g.pc)
        BY <1>1, <1>3, ReplacedStarts
    <2>3. CASE stack' = Append(Random!Caller, f)
        BY <2>1, <2>2, <2>3
    <2>4. CASE stack' = Append(Append(Random!Caller, f), g)
        BY <2>1, <2>2, <2>4
    <2> QED
        BY <1>1, <2>3, <2>4
<1>6. /\ Unfinished' = Unfinished
      /\ Cardinality(Outstanding') = Cardinality(Outstanding) - 1
    <2>1. status[Random!Top.op] # "complete" /\ state # "complete"
          /\ state \notin {"queued", "running"}
        BY <1>2, <1>4
    <2> QED
        BY <1>1, <1>2, <1>4, <2>1, StatusCounts
<1>7. /\ Cardinality(Unfinished)' = Cardinality(Unfinished)
      /\ Cardinality(Outstanding)' = Cardinality(Outstanding')
      /\ Cardinality(Starting(stack))' = Cardinality(Starting(stack'))
    BY <1>6 DEF Starting
<1>8. queued \in Int /\ Cardinality(Outstanding) \in Nat
    BY CountedFinite DEF BatchTypes
<1> QED
    BY <1>1, <1>5, <1>6, <1>7, <1>8 DEF CountsInv

LEMMA CountsReturn ==
    ASSUME BatchTypes, StackInv, CountsInv,
           Mode(Random!UserCallbackReturns, Ordered!UserCallbackReturns)
    PROVE  CountsInv'
<1> DEFINE f == Random!Call("fire", 0)
<1>1. /\ stack # <<>> /\ Random!Top.pc = "userCallback"
      /\ operations' = Random!Splice(operations, Random!Top.index)
      /\ active' = active - 1 /\ queued' = queued
      /\ status' = [status EXCEPT ![Random!Top.op] = "complete"]
      /\ stack' = Append(Random!Caller, f)
    BY ReturnsInMode DEF Random!Running
<1>2. /\ Random!Top.op \in 1..Total /\ status[Random!Top.op] \in {"callback", "error"}
      /\ Random!Top.index \in 0..Len(operations)
    BY <1>1, TopFacts DEF FrameOK, Total
<1>3. f \in Random!Frame /\ f.pc = "fire"
    BY CallIsFrame DEF Random!Pcs, Random!Call
<1> HIDE DEF f
<1>4. /\ Cardinality(Starting(stack')) = Cardinality(Starting(stack))
      /\ Cardinality(Starting(stack)) \in Nat
    <2>1. One(f.pc) = 0 /\ One(Random!Top.pc) = 0
        BY <1>1, <1>3 DEF One, Starts
    <2>2. /\ Cardinality(Starting(Random!Caller)) \in Nat
          /\ Cardinality(Starting(stack)) =
                Cardinality(Starting(Random!Caller)) + One(Random!Top.pc)
          /\ Cardinality(Starting(Append(Random!Caller, f))) =
                Cardinality(Starting(Random!Caller)) + One(f.pc)
        BY <1>1, <1>3, ReplacedStarts
    <2> QED
        BY <1>1, <2>1, <2>2
<1>5. /\ Cardinality(Unfinished') = Cardinality(Unfinished) - 1 /\ Outstanding' = Outstanding
    <2>1. /\ status[Random!Top.op] # "complete" /\ "complete" \in Random!OperationState
          /\ status[Random!Top.op] \notin {"queued", "running"}
        BY <1>2 DEF Random!OperationState
    <2>2. /\ Random!Top.op \in 1..Total
          /\ status' = [status EXCEPT ![Random!Top.op] = "complete"]
        BY <1>1, <1>2
    <2>3. Cardinality(Unfinished') = Cardinality(Unfinished) - 1
        BY <2>1, <2>2, StatusCounts, Zenon
    <2>4. status[Random!Top.op] \in {"queued", "running"} <=> "complete" \in {"queued", "running"}
        BY <2>1
    <2>5. Outstanding' = Outstanding
        BY <2>1, <2>2, <2>4, StatusCounts, Zenon
    <2> QED
        BY <2>3, <2>5
<1>6. Len(operations') = Len(operations) - 1
    <2>1. Random!Top.op \in Unfinished
        BY <1>2 DEF Unfinished
    <2>2. Cardinality(Unfinished) # 0
        BY <2>1, CountedFinite, FS_EmptySet
    <2>3. operations # <<>> /\ operations \in Seq(1..Total)
        BY <2>2 DEF CountsInv, BatchTypes
    <2> QED
        BY <1>1, <1>2, <2>3, SpliceRemovesOne
<1>7. /\ Cardinality(Unfinished)' = Cardinality(Unfinished')
      /\ Cardinality(Outstanding)' = Cardinality(Outstanding)
      /\ Cardinality(Starting(stack))' = Cardinality(Starting(stack'))
    BY <1>5 DEF Starting
<1>8. active \in Int /\ Cardinality(Unfinished) \in Nat
    BY CountedFinite DEF BatchTypes
<1>9. /\ active' = Cardinality(Unfinished') - Cardinality(Starting(stack'))
      /\ queued' = Cardinality(Outstanding) /\ Len(operations') = Cardinality(Unfinished')
    BY <1>1, <1>4, <1>5, <1>6, <1>8 DEF CountsInv
<1> QED
    BY <1>7, <1>9 DEF CountsInv

LEMMA CountsSteps ==
    ASSUME BatchTypes, StackInv, CountsInv, BatchSteps \/ Drain \/ End
    PROVE  CountsInv'
<1>1. active \in Int
    BY DEF BatchTypes
<1>2. /\ Random!Call("tryEnd", 0) \in Random!Frame /\ Random!Call("tryDrain", 0) \in Random!Frame
      /\ Random!Call("onEnd", 0) \in Random!Frame /\ Random!Call("onDrain", 0) \in Random!Frame
      /\ ~Starts(Random!Call("tryEnd", 0).pc) /\ ~Starts(Random!Call("tryDrain", 0).pc)
      /\ ~Starts(Random!Call("onEnd", 0).pc) /\ ~Starts(Random!Call("onDrain", 0).pc)
    BY CallIsFrame DEF Random!Pcs, Starts, Random!Call
<1>3. CASE /\ stack # <<>> /\ ~Starts(Random!Top.pc)
           /\ UNCHANGED <<status, operations, queued, active>>
           /\ \/ stack' = Random!Caller
              \/ \E f \in Random!Frame : stack' = Append(Random!Caller, f) /\ ~Starts(f.pc)
    <2>1. active' = active + One(Random!Top.pc)
        BY <1>1, <1>3 DEF One
    <2> QED
        BY <1>3, <2>1, CountsReplaced
<1>4. CASE Mode(Random!BatchOperationCallback, Ordered!BatchOperationCallback)
    BY <1>4, CountsSettle
<1>5. CASE Mode(Random!FireUserCallback, Ordered!FireUserCallback)
    <2>1. PICK i : /\ Random!Running("fire") /\ UNCHANGED Random!batch
                   /\ stack' = Append(Random!Caller,
                                  [pc |-> "userCallback", op |-> i, index |-> NextIndex])
                   /\ i = IF Random!Top.op # 0 \/ NextIndex = 0 THEN Random!Top.op
                          ELSE operations[NextIndex]
        BY <1>5, FiresInMode
    <2>2. stack # <<>> /\ Random!Top.pc = "fire" /\ ~Starts(Random!Top.pc)
        BY <2>1 DEF Random!Running, Starts
    <2>3. i \in Nat /\ NextIndex \in Nat
        <3>1. NextIndex \in 0..Len(operations) /\ Len(operations) \in Nat /\ Total \in Nat
              /\ (NextIndex # 0 => operations[NextIndex] \in 1..Total)
            BY NextIndexFacts, TotalFacts
        <3>2. Random!Top.op \in Nat
            BY <2>2, TopFacts
        <3> QED
            BY <2>1, <3>1, <3>2
    <2> DEFINE f == [pc |-> "userCallback", op |-> i, index |-> NextIndex]
    <2>4. f \in Random!Frame /\ f.pc = "userCallback" /\ ~Starts(f.pc)
        BY <2>3 DEF Random!Frame, Random!Pcs, Starts
    <2>5. stack' = Append(Random!Caller, f)
        BY <2>1
    <2> HIDE DEF f
    <2> QED
        BY <1>3, <2>1, <2>2, <2>4, <2>5 DEF Random!batch
<1>6. CASE Mode(Random!FireNothing, Ordered!FireNothing)
    <2>1. /\ Random!Running("fire") /\ UNCHANGED Random!batch
          /\ stack' = Append(Random!Caller, Random!Call("tryEnd", 0))
        BY <1>6, NothingInMode
    <2> QED
        BY <1>2, <1>3, <2>1 DEF Random!Running, Starts, Random!batch
<1>7. CASE Mode(Random!NoDrain, Ordered!NoDrain)
    <2>1. /\ Random!Running("tryDrain") /\ UNCHANGED Random!batch /\ stack' = Random!Caller
        BY <1>7, NoDrainInMode
    <2> QED
        BY <1>3, <2>1 DEF Random!Running, Starts, Random!batch
<1>8. CASE Random!EmitEnd
    <2>1. /\ Random!Running("tryEnd") /\ UNCHANGED <<status, operations, queued, active>>
          /\ stack' = Append(Random!Caller, Random!Call("onEnd", 0))
        BY <1>8 DEF Random!EmitEnd
    <2> QED
        BY <1>2, <1>3, <2>1 DEF Random!Running, Starts
<1>9. CASE Random!NotComplete
    <2>1. /\ Random!Running("tryEnd") /\ UNCHANGED Random!batch
          /\ stack' = Append(Random!Caller, Random!Call("tryDrain", 0))
        BY <1>9 DEF Random!NotComplete
    <2> QED
        BY <1>2, <1>3, <2>1 DEF Random!Running, Starts, Random!batch
<1>10. CASE Random!ListenerReturns
    <2>1. /\ Random!Running("onDrain") \/ Random!Running("onEnd")
          /\ UNCHANGED Random!batch /\ stack' = Random!Caller
        BY <1>10 DEF Random!ListenerReturns
    <2> QED
        BY <1>3, <2>1 DEF Random!Running, Starts, Random!batch
<1>11. CASE Mode(Random!EmitDrain, Ordered!EmitDrain)
    <2>1. /\ Random!Running("tryDrain") /\ UNCHANGED Random!batch
          /\ stack' = Append(Random!Caller, Random!Call("onDrain", 0))
        BY <1>11, DrainInMode
    <2> QED
        BY <1>2, <1>3, <2>1 DEF Random!Running, Starts, Random!batch
<1> QED
    BY <1>4, <1>5, <1>6, <1>7, <1>8, <1>9, <1>10, <1>11 DEF BatchSteps, Drain, DrainThen, End

LEMMA CountsStep ==
    ASSUME UploadInv, CountsInv, [Next]_vars
    PROVE  CountsInv'
<1>1. CASE EmitChunk
    BY <1>1, InvParts, CountsAdded DEF EmitChunk
<1>2. CASE EndReturns
    <2>1. CASE Random!EnableComplete(stack)
        <3> DEFINE f == Random!Call("tryEnd", 0)
        <3>1. f \in Random!Frame /\ ~Starts(f.pc)
            BY CallIsFrame DEF Random!Pcs, Starts, Random!Call
        <3>2. stack' = Append(stack, f) /\ UNCHANGED <<status, operations, queued, active>>
            BY <2>1 DEF Random!EnableComplete
        <3> HIDE DEF f
        <3> QED
            BY <3>1, <3>2, InvParts, CountsPushed
    <2> QED
        BY <1>2, <2>1, CountsQuiet DEF EndReturns
<1>3. CASE BatchRuns
    BY <1>3, InvParts, CountsRun DEF BatchRuns
<1>4. CASE Ran
    <2>1. /\ stack # <<>> /\ Random!Top.pc = "ran" /\ stack' = Random!Caller
          /\ active' = active + 1 /\ UNCHANGED <<status, operations, queued>>
        BY <1>4 DEF Ran, RanThen, Random!Ran, Random!Running
    <2>2. active' = active + One(Random!Top.pc)
        BY <2>1 DEF One, Starts
    <2> QED
        BY <2>1, <2>2, InvParts, CountsReplaced
<1>5. ASSUME NEW i \in 1..Total, NEW failed \in BOOLEAN, RequestDone(i, failed)
      PROVE  CountsInv'
    <2> DEFINE f == Random!Call(IF failed THEN "fail" ELSE "succeed", i)
    <2>1. i \in Nat
        BY InvParts, TotalFacts
    <2>2. f \in Random!Frame /\ ~Starts(f.pc)
        BY <2>1, CallIsFrame DEF Random!Pcs, Starts, Random!Call
    <2>3. stack' = Append(stack, f) /\ UNCHANGED <<status, operations, queued, active>>
        BY <1>5 DEF RequestDone, Random!RequestDone, Random!RequestDoneIn, Random!batch
    <2> HIDE DEF f
    <2> QED
        BY <2>2, <2>3, InvParts, CountsPushed
<1>6. CASE BatchSteps \/ Drain \/ End
    BY <1>6, InvParts, CountsSteps
<1>7. CASE UserCallbackReturns
    BY <1>7, InvParts, CountsReturn DEF UserCallbackReturns
<1>8. CASE UNCHANGED batchVars
    BY <1>8, CountsQuiet
<1>9. CASE Internal
    BY <1>1, <1>2, <1>3, <1>4, <1>6, <1>7, <1>8, <1>9
       DEF Internal, BuildChunk, Emission, EmitLost, EmitBeyond, EmitZeros, ReadReturns,
           WriteReturns, UserCallbackStops
<1>10. CASE External
    BY <1>5, <1>8, <1>10
       DEF External, FileOpens, FileOpenFails, ReadEmits, ReadEnds, ReadFails, PipeWrites,
           PipeEnds, DestinationReady, CommitDone
<1> QED
    BY <1>8, <1>9, <1>10 DEF Next, Stopped, vars

LEMMA CountsInit ==
    ASSUME Init
    PROVE  CountsInv
<1>1. status = <<>> /\ operations = <<>> /\ stack = <<>> /\ active = 0 /\ queued = 0
    BY DEF Init
<1>2. Unfinished = {} /\ Outstanding = {} /\ Starting(stack) = {}
    BY <1>1 DEF Unfinished, Outstanding, Starting, Total
<1>3. Cardinality(Unfinished) = 0 /\ Cardinality(Outstanding) = 0
      /\ Cardinality(Starting(stack)) = 0
    BY <1>2, FS_EmptySet
<1> QED
    BY <1>1, <1>3 DEF CountsInv

LEMMA CountsInvariant == Spec => [](UploadInv /\ CountsInv)
<1>1. Init => UploadInv /\ CountsInv
    BY UploadInit, CountsInit
<1>2. (UploadInv /\ CountsInv) /\ [Next]_vars => (UploadInv /\ CountsInv)'
    BY UploadStep, CountsStep
<1> QED
    BY <1>1, <1>2, PTL DEF Spec

(* The counters of the batch agree with its operations at every step of an  *)
(* upload, however user callbacks nest: active never counts an operation    *)
(* twice, so that the batch ends, and drains, when it should.               *)
THEOREM UploadCountersAgree == Spec => []CountersAgree
<1>1. UploadInv /\ CountsInv => CountersAgree
    BY InvParts, CountsAgree
<1> QED
    BY <1>1, CountsInvariant, PTL
-----------------------------------------------------------------------------
(* Failed operations.  Their user callback does not return before it has    *)
(* stopped the stream; the error of the batch is that of one of them.       *)
FailedInv ==
    /\ \A i \in failures \ handled : status[i] # "complete"
    /\ error => \E i \in failures : status[i] \notin {"queued", "running"}

LEMMA FailedKept ==
    ASSUME BatchTypes, FailedInv, error' = error, failures \subseteq failures',
           handled \subseteq handled',
           \A i \in failures' \ (failures \cup handled') : status'[i] # "complete",
           \A i \in failures \ handled' : status'[i] = "complete" => status[i] = "complete",
           \A i \in failures : status[i] \notin {"queued", "running"}
                                  => status'[i] \notin {"queued", "running"}
    PROVE  FailedInv'
<1>1. ASSUME NEW i \in failures' \ handled' PROVE status'[i] # "complete"
    <2>1. CASE i \in failures
        BY <1>1, <2>1 DEF FailedInv
    <2>2. CASE i \notin failures
        BY <1>1, <2>2
    <2> QED
        BY <2>1, <2>2
<1>2. ASSUME error' PROVE \E i \in failures' : status'[i] \notin {"queued", "running"}
    BY <1>2 DEF FailedInv
<1> QED
    BY <1>1, <1>2 DEF FailedInv

LEMMA FailedStatus ==
    ASSUME BatchTypes, StackInv, FailedInv, NEW i \in 1..Total,
           NEW state \in Random!OperationState,
           status' = [status EXCEPT ![i] = state], UNCHANGED <<error, failures, handled>>,
           state = "complete" => i \notin failures \ handled,
           status[i] \in {"queued", "running"} \/ state \notin {"queued", "running"}
    PROVE  FailedInv'
<1>1. \A n \in 1..Total : status'[n] = IF n = i THEN state ELSE status[n]
    <2>1. status \in Seq(Random!OperationState)
        BY DEF BatchTypes
    <2> QED
        BY <2>1, OverwriteSeq DEF Total
<1>2. failures \subseteq 1..Total
    BY DEF BatchTypes
<1>3. ASSUME NEW n \in failures \ handled PROVE status'[n] # "complete"
    BY <1>1, <1>2 DEF FailedInv
<1>4. ASSUME error PROVE \E n \in failures : status'[n] \notin {"queued", "running"}
    <2>1. PICK n \in failures : status[n] \notin {"queued", "running"}
        BY <1>4 DEF FailedInv
    <2> QED
        BY <1>1, <1>2, <2>1
<1> QED
    BY <1>3, <1>4 DEF FailedInv

LEMMA FailedStep ==
    ASSUME UploadInv, FailedInv, [Next]_vars
    PROVE  FailedInv'
<1>1. BatchTypes /\ StackInv /\ failures \subseteq 1..Total /\ FailInv
    BY InvParts DEF BatchTypes, BatchInv
<1>2. CASE UNCHANGED <<status, error, failures, handled>>
    BY <1>2 DEF FailedInv
<1>3. CASE EmitChunk
    <2>1. status' = Append(status, "queued") /\ UNCHANGED <<error, failures, handled>>
        BY <1>3 DEF EmitChunk, Random!AddOperation, Random!AddOperationAs
    <2>2. \A i \in failures : status'[i] = status[i]
        <3>1. status \in Seq(Random!OperationState) /\ "queued" \in Random!OperationState
            BY <1>1 DEF BatchTypes, Random!OperationState
        <3> QED
            BY <1>1, <2>1, <3>1, PushCall DEF Total
    <2> QED
        BY <1>1, <2>1, <2>2, FailedKept
<1>4. CASE BatchRuns
    <2>1. CASE Random!RunRequest
        <3>1. /\ status' = [status EXCEPT ![Random!Top.op] = "running"]
              /\ UNCHANGED <<error, failures, handled>>
              /\ stack # <<>> /\ Random!Top.pc = "run" /\ ~error
            BY <1>4, <2>1 DEF BatchRuns, Random!RunRequest, Random!Running,
                  Random!RunAfterError
        <3>2. Random!Top.op \in 1..Total /\ status[Random!Top.op] = "queued"
            BY <1>1, <3>1, TopFacts DEF FrameOK, Total
        <3> QED
            BY <1>1, <3>1, <3>2, FailedStatus DEF Random!OperationState
    <2>2. CASE Random!RunAfterError
        <3>1. /\ failures' = failures \cup {Random!Top.op} /\ UNCHANGED <<status, error, handled>>
              /\ stack # <<>> /\ Random!Top.pc = "run"
            BY <1>4, <2>2 DEF BatchRuns, Random!RunRequest, Random!Running,
                  Random!RunAfterError, Random!batch
        <3>2. status[Random!Top.op] = "queued"
            BY <1>1, <3>1, TopFacts DEF FrameOK
        <3> QED
            BY <1>1, <3>1, <3>2, FailedKept
    <2> QED
        BY <1>4, <2>1, <2>2 DEF BatchRuns
<1>5. ASSUME NEW i \in 1..Total, NEW failed \in BOOLEAN, RequestDone(i, failed)
      PROVE  FailedInv'
    <2>1. /\ status[i] = "running" /\ UNCHANGED <<status, error, handled>>
          /\ failures' = IF failed THEN failures \cup {i} ELSE failures
        BY <1>5 DEF RequestDone, Random!RequestDone, Random!RequestDoneIn, Random!batch
    <2> QED
        BY <1>1, <2>1, FailedKept
<1>6. CASE BatchSteps
    <2>1. UNCHANGED <<failures, handled>>
        BY <1>6 DEF BatchSteps
    <2>2. CASE Mode(Random!BatchOperationCallback, Ordered!BatchOperationCallback)
        <3> DEFINE i == Random!Top.op
                   state == IF ~InOrder /\ Random!Running("fail") THEN "error" ELSE "callback"
        <3>1. /\ stack # <<>> /\ Random!Top.pc \in {"succeed", "fail"}
              /\ status' = [status EXCEPT ![i] = state]
              /\ error' = (error \/ Random!Running("fail"))
            <4>1. paused = FALSE
                BY <1>1 DEF BatchTypes
            <4> QED
                BY <2>2, <4>1, SettlesInMode DEF Random!Running
        <3>2. i \in 1..Total /\ status[i] \in {"queued", "running"}
            BY <1>1, <3>1, TopFacts DEF FrameOK, Total
        <3>3. /\ state \in Random!OperationState
              /\ state \notin {"queued", "running"} /\ state # "complete"
            BY DEF Random!OperationState
        <3>4. Random!Running("fail") => i \in failures
            BY <1>1 DEF FailInv
        <3> HIDE DEF i, state
        <3>5. \A n \in 1..Total : status'[n] = IF n = i THEN state ELSE status[n]
            <4>1. status \in Seq(Random!OperationState)
                BY <1>1 DEF BatchTypes
            <4> QED
                BY <3>1, <3>3, <4>1, OverwriteSeq DEF Total
        <3>6. ASSUME NEW n \in failures \ handled PROVE status'[n] # "complete"
            BY <1>1, <3>3, <3>5 DEF FailedInv
        <3>7. ASSUME error' PROVE \E n \in failures : status'[n] \notin {"queued", "running"}
            <4>1. CASE error
                <5>1. PICK n \in failures : status[n] \notin {"queued", "running"}
                    BY <4>1 DEF FailedInv
                <5> QED
                    BY <1>1, <3>3, <3>5, <5>1
            <4>2. CASE Random!Running("fail")
                BY <1>1, <3>3, <3>4, <3>5, <4>2
            <4> QED
                BY <3>1, <3>7, <4>1, <4>2
        <3> QED
            BY <2>1, <3>6, <3>7 DEF FailedInv
    <2>3. CASE UNCHANGED Random!batch
        BY <1>2, <2>1, <2>3 DEF Random!batch
    <2>4. CASE Random!EmitEnd
        BY <1>2, <2>1, <2>4 DEF Random!EmitEnd
    <2> QED
        BY <1>6, <2>2, <2>3, <2>4, FiresInMode, NothingInMode, NoDrainInMode
           DEF BatchSteps, Random!NotComplete, Random!ListenerReturns
<1>7. CASE UserCallbackReturns
    <2>1. /\ Random!Top.op \notin failures \ handled /\ UNCHANGED <<failures, handled>>
          /\ Mode(Random!UserCallbackReturns, Ordered!UserCallbackReturns)
        BY <1>7 DEF UserCallbackReturns
    <2>2. /\ stack # <<>> /\ Random!Top.pc = "userCallback" /\ error' = error
          /\ status' = [status EXCEPT ![Random!Top.op] = "complete"]
        BY <2>1, ReturnsInMode DEF Random!Running
    <2>3. Random!Top.op \in 1..Total
        BY <1>1, <2>2, TopFacts DEF FrameOK, Total
    <2> QED
        BY <1>1, <2>1, <2>2, <2>3, FailedStatus DEF Random!OperationState
<1>8. CASE Drain
    BY <1>2, <1>8, DrainInMode DEF Drain, DrainThen, Random!batch
<1>9. CASE UserCallbackStops
    <2>1. handled \subseteq handled' /\ UNCHANGED <<status, error, failures>>
        BY <1>9 DEF UserCallbackStops, batchVars
    <2> QED
        BY <1>1, <2>1, FailedKept
<1>10. CASE Ran \/ End
    BY <1>2, <1>10 DEF Ran, RanThen, End, Random!Ran, Random!ListenerReturns, Random!batch
<1>11. CASE EndReturns
    BY <1>2, <1>11 DEF EndReturns, Random!EnableComplete, Others, batchVars
<1>12. CASE UNCHANGED <<batchVars, failures, handled>>
    BY <1>2, <1>12 DEF batchVars
<1>13. CASE Internal
    BY <1>3, <1>4, <1>6, <1>7, <1>8, <1>9, <1>10, <1>11, <1>12, <1>13
       DEF Internal, BuildChunk, Emission, EmitLost, EmitBeyond, EmitZeros, ReadReturns,
           WriteReturns, Others
<1>14. CASE External
    BY <1>5, <1>12, <1>14
       DEF External, FileOpens, FileOpenFails, ReadEmits, ReadEnds, ReadFails, PipeWrites,
           PipeEnds, DestinationReady, CommitDone, Others
<1> QED
    BY <1>12, <1>13, <1>14 DEF Next, Stopped, vars
-----------------------------------------------------------------------------
(* The reads of a file.  A read may be started while the file is read: it   *)
(* is open and has not ended.                                               *)
Reading == fd = "open" /\ ~sourceEnded
ReadCall == fd = "open" /\ calls # <<>> /\ calls[1].then = "read"

OriginInv ==
    /\ Local => ready = "yes"
    /\ ~Local => reads = <<>> /\ fd = "closed"
KindsInv ==
    \A n \in 1..Len(calls) :
       /\ calls[n].then = "read" => Local /\ n = 1 /\ calls[n].height = 0
       /\ calls[n].then = "write" => ~Local
       /\ calls[n].then = "end" => ~Reading
OpeningInv ==
    fd = "opening" =>
        /\ reads = <<>> /\ calls = <<>> /\ stack = <<>> /\ status = <<>>
        /\ ~error
EndedInv ==
    /\ fd = "open" /\ sourceEnded => reads = <<>>
    /\ handled # {} => fd = "closed"
HeldInv == Reading /\ held => reads = <<>>

(* An append blob is read only while no block is stored; when nothing of    *)
(* the chunk stream is in progress, whatever was added is active; what the  *)
(* batch does while a chunk of a read is emitted is a call of addOperation, *)
(* which either returns or stops the stream; no append has failed before.   *)
ActiveInv == InOrder /\ Local /\ active > 0 => held
QuietInv == Reading /\ calls = <<>> => active = Cardinality(Unfinished)
CallShape ==
    \/ stack = <<>>
    \/ Len(stack) = 1 /\ Random!Top.pc \in {"run", "ran"}
    \/ Len(stack) = 2 /\ Random!Top.pc = "fail" /\ ~InOrder
    \/ /\ Len(stack) = 3 /\ Random!Top.pc \in {"fire", "userCallback"}
       /\ Random!Top.op \in failures \ handled /\ ~InOrder
CallInv == ReadCall => Len(calls) = 1 /\ ~sourceEnded /\ CallShape
OrderedInv ==
    InOrder /\ Reading /\ (calls # <<>> \/ reads # <<>>) => ~error /\ ~Random!Running("fail")

SourceShape == OriginInv /\ KindsInv /\ OpeningInv /\ EndedInv /\ HeldInv /\ OneRead
BatchShape == ActiveInv /\ QuietInv /\ CallInv /\ OrderedInv
ReadInv == SourceShape /\ BatchShape
WholeInv == UploadInv /\ CountsInv /\ FailedInv /\ ReadInv

LEMMA CallKinds ==
    ASSUME TypesInv
    PROVE  /\ calls \in Seq(CallSet) /\ Len(calls) \in Nat
           /\ \A n \in 1..Len(calls) : calls[n].then \in {"read", "write", "end"}
           /\ calls # <<>> => 1 \in 1..Len(calls)
<1>1. calls \in Seq(CallSet)
    BY DEF TypesInv, ChunkTypes, CallsOK
<1>2. \A n \in 1..Len(calls) : calls[n] \in CallSet
    BY <1>1, ElementOfSeq
<1>3. Len(calls) \in Nat /\ (calls # <<>> => Len(calls) # 0)
    BY <1>1, EmptySeq
<1> QED
    BY <1>1, <1>2, <1>3 DEF CallSet

(* While a file is read the only call of the chunk stream is that of a      *)
(* read.                                                                    *)
LEMMA ReadingCalls ==
    ASSUME TypesInv, SourceShape, Reading, calls # <<>>
    PROVE  ReadCall /\ Local /\ reads = <<>>
<1>1. calls[1].then \in {"read", "write", "end"} /\ 1 \in 1..Len(calls)
    BY CallKinds
<1>2. Local
    BY DEF SourceShape, OriginInv, Reading
<1>3. calls[1].then = "read"
    BY <1>1, <1>2 DEF SourceShape, KindsInv
<1>4. reads = <<>>
    <2>1. reads \in Seq(ReadSet)
        BY DEF TypesInv, SourceTypes
    <2>2. Len(reads) \in Nat /\ (reads # <<>> => Len(reads) # 0)
        BY <2>1, EmptySeq
    <2> QED
        BY <1>1, <1>3, <2>2 DEF SourceShape, OneRead
<1> QED
    BY <1>2, <1>3, <1>4 DEF ReadCall, Reading

LEMMA SourceShapeKept ==
    ASSUME SourceShape, fd # "opening",
           UNCHANGED <<upload, ready, fd, reads, position, sourceEnded, held, calls, handled>>
    PROVE  SourceShape'
    BY DEF SourceShape, OriginInv, KindsInv, OpeningInv, EndedInv, HeldInv, OneRead, Reading,
           Local

(* A step of the chunk stream that neither begins nor ends a call.          *)
LEMMA EmittingKept ==
    ASSUME TypesInv, ReadInv, calls # <<>>, Len(calls') = Len(calls),
           \A n \in 1..Len(calls) : /\ calls'[n].then = calls[n].then
                                    /\ calls'[n].height = calls[n].height,
           calls' # <<>>,
           UNCHANGED <<upload, ready, fd, reads, position, sourceEnded, held, handled, error,
                       active, failures>>,
           CallInv', ~Random!Running("fail")' \/ stack' = stack
    PROVE  ReadInv'
<1>1. 1 \in 1..Len(calls) /\ Len(calls) \in Nat
    BY CallKinds
<1>2. fd # "opening"
    BY DEF ReadInv, SourceShape, OpeningInv
<1>3. OriginInv' /\ OpeningInv' /\ EndedInv' /\ HeldInv'
    BY <1>2 DEF ReadInv, SourceShape, OriginInv, OpeningInv, EndedInv, HeldInv, Reading, Local
<1>4. KindsInv'
    BY DEF ReadInv, SourceShape, KindsInv, Reading, Local
<1>5. OneRead'
    BY DEF ReadInv, SourceShape, OneRead
<1>6. ActiveInv' /\ QuietInv'
    BY DEF ReadInv, BatchShape, ActiveInv, QuietInv, InOrder, Local, Reading
<1>7. OrderedInv'
    BY DEF ReadInv, BatchShape, OrderedInv, InOrder, Reading, Random!Running, Random!Top
<1> QED
    BY <1>3, <1>4, <1>5, <1>6, <1>7 DEF ReadInv, SourceShape, BatchShape

(* The source is closed.                                                    *)
LEMMA ClosingKept ==
    ASSUME TypesInv, ReadInv, NEW s, NEW c, CallsOK(s), c \in CallSet, LeftOK(c.left),
           c.then = "end", calls' = Append(s, c), Len(s) = Len(calls),
           \A n \in 1..Len(calls) : s[n].then = calls[n].then /\ s[n].height = calls[n].height,
           fd' = "closed", UNCHANGED <<upload, ready, reads, position, held, active>>
    PROVE  ReadInv'
<1>1. /\ Len(calls') = Len(calls) + 1 /\ Len(calls) \in Nat
      /\ calls'[Len(calls) + 1].then = "end"
      /\ \A n \in 1..Len(calls) : /\ calls'[n].then = calls[n].then
                                  /\ calls'[n].height = calls[n].height
    BY AppendCallOK
<1>2. OriginInv' /\ OpeningInv' /\ EndedInv' /\ HeldInv'
    BY DEF ReadInv, SourceShape, OriginInv, OpeningInv, EndedInv, HeldInv, Reading, Local
<1>3. KindsInv'
    BY <1>1 DEF ReadInv, SourceShape, KindsInv, Reading, Local
<1>4. OneRead'
    BY <1>1 DEF ReadInv, SourceShape, OneRead
<1>5. BatchShape'
    BY DEF ReadInv, BatchShape, ActiveInv, QuietInv, CallInv, OrderedInv, InOrder, Local,
           Reading, ReadCall
<1> QED
    BY <1>2, <1>3, <1>4, <1>5 DEF ReadInv, SourceShape

(* A call returns that is not that of a read.                               *)
LEMMA OtherReturns ==
    ASSUME TypesInv, ReadInv, calls # <<>>, Top.then # "read", calls' = Front(calls),
           UNCHANGED <<upload, ready, fd, reads, position, sourceEnded, held, handled, active>>
    PROVE  ReadInv'
<1>1. /\ Len(calls) \in Nat \ {0} /\ Top = calls[Len(calls)]
      /\ Len(calls') = Len(calls) - 1
      /\ \A n \in 1..(Len(calls) - 1) : calls'[n] = calls[n]
    BY TopCallFacts
<1>2. calls' \in Seq(CallSet)
    BY FrontOK DEF CallsOK
<1>3. ~Reading /\ fd # "opening"
    <2>1. Top.then = "end" => ~Reading
        BY <1>1 DEF ReadInv, SourceShape, KindsInv
    <2>2. Top.then = "write" => ~Reading
        BY <1>1 DEF ReadInv, SourceShape, KindsInv, OriginInv, Reading
    <2>3. Top.then \in {"end", "write"}
        BY <1>1, CallKinds
    <2>4. fd # "opening"
        BY DEF ReadInv, SourceShape, OpeningInv
    <2> QED
        BY <2>1, <2>2, <2>3, <2>4
<1>4. ~Reading'
    BY <1>3 DEF Reading
<1>5. OriginInv' /\ OpeningInv' /\ EndedInv' /\ HeldInv'
    BY <1>3, <1>4 DEF ReadInv, SourceShape, OriginInv, OpeningInv, EndedInv, HeldInv, Local
<1>6. KindsInv'
    BY <1>1, <1>4 DEF ReadInv, SourceShape, KindsInv, Local
<1>7. OneRead'
    BY <1>1 DEF ReadInv, SourceShape, OneRead
<1>8. ActiveInv' /\ QuietInv' /\ OrderedInv'
    BY <1>4 DEF ReadInv, BatchShape, ActiveInv, QuietInv, OrderedInv, InOrder, Local
<1>9. ~ReadCall'
    <2>1. ASSUME ReadCall' PROVE FALSE
        <3>1. Len(calls') # 0
            BY <1>2, <2>1, EmptySeq DEF ReadCall
        <3>2. calls'[1] = calls[1] /\ Len(calls) > 1
            BY <1>1, <3>1
        <3>3. ReadCall
            BY <2>1, <3>2 DEF ReadCall
        <3>4. Len(calls) = 1
            BY <3>3, Zenon DEF ReadInv, BatchShape, CallInv
        <3> QED
            BY <3>2, <3>4
    <2> QED
        BY <2>1
<1> QED
    BY <1>5, <1>6, <1>7, <1>8, <1>9 DEF ReadInv, SourceShape, BatchShape, CallInv

LEMMA EmitDataReads ==
    ASSUME NEW at, EmitData(at)
    PROVE  \/ reads' = reads
           \/ /\ fd' = "open" /\ ~held' /\ ~sourceEnded
              /\ \E id : reads' = Append(reads, [at |-> at, id |-> id])
    BY DEF EmitData

LEMMA ChunkReads ==
    ASSUME WholeInv, BuildChunk \/ Emission
    PROVE  ReadInv'
<1>1. /\ TypesInv /\ ReadInv /\ CountsInv /\ Calling /\ calls # <<>>
      /\ Top.height = Len(stack) /\ Len(stack) \in Nat
      /\ (stack = <<>> <=> Len(stack) = 0)
    <2>1. UploadInv /\ ReadInv /\ CountsInv /\ Calling
        BY DEF WholeInv, BuildChunk, Emission, EmitLost, EmitBeyond, EmitZeros, EmitChunk,
               Emitting
    <2> QED
        BY <2>1, InvParts, HeightFacts
<1>2. Len(calls) \in Nat \ {0} /\ Top = calls[Len(calls)]
    BY <1>1, TopCallFacts
<1>3. ReadCall => Top.then = "read" /\ Top.height = 0 /\ stack = <<>>
    <2>1. ReadCall => Len(calls) = 1
        BY <1>1 DEF ReadInv, BatchShape, CallInv
    <2>2. calls[1].then = "read" => calls[1].height = 0
        BY <1>1, <1>2 DEF ReadInv, SourceShape, KindsInv
    <2> QED
        BY <1>1, <1>2, <2>1, <2>2 DEF ReadCall
<1>4. CASE BuildChunk
    <2>1. PICK left, out : LeftOK(left) /\ out \in Data /\ calls' = TopWith(left, out)
        BY <1>1, <1>4, BuildTypes
    <2>2. /\ Len(calls') = Len(calls) /\ calls' # <<>>
          /\ \A n \in 1..(Len(calls) - 1) : calls'[n] = calls[n]
          /\ calls'[Len(calls)].then = Top.then /\ calls'[Len(calls)].height = Top.height
        <3>1. /\ Len(TopWith(left, out)) = Len(calls) /\ TopWith(left, out) # <<>>
              /\ \A n \in 1..(Len(calls) - 1) : TopWith(left, out)[n] = calls[n]
              /\ TopWith(left, out)[Len(calls)] =
                    [height |-> Top.height, left |-> left, out |-> out, then |-> Top.then]
            BY <1>1, <2>1, TopWithOK
        <3> QED
            BY <2>1, <3>1
    <2>3. \A n \in 1..Len(calls) : /\ calls'[n].then = calls[n].then
                                   /\ calls'[n].height = calls[n].height
        BY <1>2, <2>2
    <2>4. UNCHANGED <<batchVars, upload, ready, sourceVars, handled, failures>>
        BY <1>4 DEF BuildChunk, Others
    <2>5. CallInv'
        <3>1. ReadCall' => ReadCall
            BY <1>2, <2>3, <2>4, <1>1 DEF ReadCall, sourceVars
        <3> QED
            BY <1>1, <2>2, <2>4, <3>1
               DEF ReadInv, BatchShape, CallInv, CallShape, sourceVars, batchVars, Random!Top,
                   InOrder
    <2> QED
        BY <1>1, <2>2, <2>3, <2>4, <2>5, EmittingKept DEF sourceVars, batchVars
<1>5. CASE Emission
    <2>1. Emitting
        BY <1>5 DEF Emission, EmitLost, EmitBeyond, EmitZeros, EmitChunk
    <2>2. /\ Len(Emitted) = Len(calls) /\ CallsOK(Emitted)
          /\ \A n \in 1..Len(calls) : /\ Emitted[n].then = calls[n].then
                                      /\ Emitted[n].height = calls[n].height
        BY <1>1, <2>1, EmittedOK
    <2>3. Emitted # <<>>
        <3>1. Len(Emitted) # 0
            BY <1>2, <2>2
        <3> QED
            BY <3>1, EmptySeq
    <2>4. CASE EmitLost \/ EmitZeros
        <3>1. calls' = Emitted /\ UNCHANGED <<batchVars, upload, ready, sourceVars, handled,
                                              failures>>
            BY <2>4 DEF EmitLost, EmitZeros, Others
        <3>2. CallInv'
            <4>1. ReadCall' => ReadCall
                BY <1>1, <1>2, <2>2, <3>1 DEF ReadCall, sourceVars
            <4> QED
                BY <1>1, <2>2, <3>1, <4>1
                   DEF ReadInv, BatchShape, CallInv, CallShape, sourceVars, batchVars,
                       Random!Top, InOrder
        <3> QED
            BY <1>1, <2>2, <2>3, <3>1, <3>2, EmittingKept DEF sourceVars, batchVars
    <2>5. CASE EmitChunk
        <3> DEFINE f == Random!Call("run", Random!Total + 1)
        <3>1. /\ calls' = Emitted /\ UNCHANGED <<upload, ready, sourceVars, handled, failures>>
              /\ stack' = Append(stack, f) /\ UNCHANGED <<error, active>>
            BY <2>5 DEF EmitChunk, Random!AddOperation, Random!AddOperationAs
        <3>2. f \in Random!Frame /\ f.pc = "run"
            <4>1. Random!Total + 1 \in Nat
                BY <1>1, TotalFacts DEF TypesInv
            <4> QED
                BY <4>1, CallIsFrame DEF Random!Pcs, Random!Call
        <3> HIDE DEF f
        <3>3. /\ stack' # <<>> /\ stack'[Len(stack) + 1] = f /\ Len(stack') = Len(stack) + 1
            <4>1. stack \in Seq(Random!Frame)
                BY <1>1 DEF TypesInv, BatchTypes
            <4> QED
                BY <3>1, <3>2, <4>1, PushCall
        <3>4. Random!Top' = f
            BY <1>1, <3>3 DEF Random!Top
        <3>5. ~Random!Running("fail")'
            BY <3>2, <3>4 DEF Random!Running
        <3>6. CallInv'
            <4>1. ReadCall' => ReadCall
                BY <1>1, <1>2, <2>2, <3>1 DEF ReadCall, sourceVars
            <4>2. ASSUME ReadCall' PROVE CallShape'
                <5>1. Len(stack') = 1 /\ Random!Top'.pc = "run"
                    BY <1>1, <1>3, <3>2, <3>3, <3>4, <4>1, <4>2
                <5> QED
                    BY <5>1 DEF CallShape
            <4>3. ReadCall => Len(calls) = 1 /\ ~sourceEnded
                BY <1>1 DEF ReadInv, BatchShape, CallInv
            <4> QED
                BY <2>2, <3>1, <4>1, <4>2, <4>3 DEF CallInv, sourceVars
        <3> QED
            BY <1>1, <2>2, <2>3, <3>1, <3>5, <3>6, EmittingKept DEF sourceVars
    <2>6. CASE EmitBeyond
        <3>1. /\ Stop(Emitted, Rewrapped.allocators) /\ fd' = "closed"
              /\ UNCHANGED <<batchVars, upload, ready, reads, position, held>>
            BY <2>6 DEF EmitBeyond, Others, Stop
        <3> DEFINE out == IF Local /\ ~IsFile THEN buffer ELSE NoData
                   c == Call(NoData, out, "end")
        <3>2. calls' = Append(Emitted, c)
            BY <3>1 DEF Stop
        <3>3. out \in Data
            BY <1>1, NoDataOK DEF TypesInv, ChunkTypes
        <3> HIDE DEF out
        <3>4. c \in CallSet /\ LeftOK(c.left) /\ c.then = "end"
            BY <1>1, <3>3, CallOK, NoDataOK DEF TypesInv
        <3> HIDE DEF c
        <3> QED
            BY <1>1, <2>2, <3>1, <3>2, <3>4, ClosingKept DEF batchVars
    <2> QED
        BY <1>5, <2>4, <2>5, <2>6 DEF Emission
<1> QED
    BY <1>4, <1>5

LEMMA CountsIdle ==
    ASSUME BatchTypes, CountsInv, stack = <<>>
    PROVE  active = Cardinality(Unfinished)
<1>1. Starting(stack) = {}
    BY DEF Starting
<1>2. Cardinality(Starting(stack)) = 0
    BY <1>1, FS_EmptySet
<1>3. active = Cardinality(Unfinished) - Cardinality(Starting(stack))
    BY DEF CountsInv
<1>4. active \in Int /\ Cardinality(Unfinished) \in Nat
    BY CountedFinite DEF BatchTypes
<1> QED
    BY <1>2, <1>3, <1>4

LEMMA ReadsFacts ==
    ASSUME TypesInv, OneRead
    PROVE  /\ reads \in Seq(ReadSet) /\ Len(reads) \in {0, 1} /\ (reads = <<>> <=> Len(reads) = 0)
           /\ reads # <<>> => Tail(reads) = <<>> /\ \A m \in 1..Len(calls) : calls[m].then # "read"
<1>1. reads \in Seq(ReadSet)
    BY DEF TypesInv, SourceTypes
<1>2. Len(reads) \in Nat /\ (reads = <<>> <=> Len(reads) = 0)
    BY <1>1, EmptySeq
<1>3. Len(reads) \in {0, 1}
    <2>1. Len(reads) <= 1
        BY Zenon DEF OneRead
    <2> QED
        BY <1>2, <2>1
<1>4. ASSUME reads # <<>> PROVE Tail(reads) = <<>>
    <2>1. Tail(reads) \in Seq(ReadSet) /\ Len(Tail(reads)) = Len(reads) - 1
        BY <1>1, <1>4
    <2> QED
        BY <1>2, <1>3, <1>4, <2>1, EmptySeq
<1> QED
    BY <1>1, <1>2, <1>3, <1>4 DEF OneRead

(* Nothing of the chunk stream or the batch is in progress and a read may   *)
(* be started, at the position.                                             *)
LEMMA ReadStarted ==
    ASSUME BatchTypes, CountsInv, stack = <<>>, stack' = stack, reads = <<>>, calls' = <<>>,
           EmitData(position'), Local, ready = "yes", handled = {} \/ fd' = "closed",
           ~InOrder \/ ~error \/ ~(fd' = "open" /\ ~sourceEnded), fd' # "opening",
           UNCHANGED <<batchVars, upload, ready, sourceEnded, handled>>,
           InOrder /\ active > 0 => held'
    PROVE  ReadInv'
<1>1. \/ reads' = <<>>
      \/ /\ fd' = "open" /\ ~held' /\ ~sourceEnded
         /\ Len(reads') = 1 /\ reads'[1].at = position'
    <2>1. \A r : Len(Append(<<>>, r)) = 1 /\ Append(<<>>, r)[1] = r
        OBVIOUS
    <2> QED
        BY <2>1, EmitDataReads
<1>2. Len(calls') = 0 /\ Len(<<>>) = 0
    OBVIOUS
<1>3. OneRead'
    BY <1>1, <1>2 DEF OneRead
<1>4. OriginInv' /\ OpeningInv' /\ EndedInv'
    BY <1>1 DEF OriginInv, OpeningInv, EndedInv, Local
<1>5. HeldInv'
    BY <1>1 DEF HeldInv, Reading
<1>6. KindsInv'
    BY <1>2 DEF KindsInv
<1>7. ActiveInv'
    BY DEF ActiveInv, InOrder, Local, batchVars
<1>8. QuietInv'
    <2>1. active = Cardinality(Unfinished)
        BY CountsIdle
    <2>2. Unfinished' = Unfinished /\ active' = active
        BY DEF Unfinished, Total, batchVars
    <2> QED
        BY <2>1, <2>2 DEF QuietInv
<1>9. CallInv'
    BY DEF CallInv, ReadCall
<1>10. OrderedInv'
    BY DEF OrderedInv, InOrder, Reading, Random!Running, batchVars
<1> QED
    BY <1>3, <1>4, <1>5, <1>6, <1>7, <1>8, <1>9, <1>10 DEF ReadInv, SourceShape, BatchShape

LEMMA ReturnReads ==
    ASSUME WholeInv, ReadReturns \/ WriteReturns \/ EndReturns
    PROVE  ReadInv'
<1>1. /\ TypesInv /\ BatchTypes /\ ReadInv /\ CountsInv /\ Calling /\ calls # <<>>
      /\ Top.height = Len(stack) /\ Len(stack) \in Nat
      /\ (stack = <<>> <=> Len(stack) = 0) /\ calls' = Front(calls)
    <2>1. UploadInv /\ ReadInv /\ CountsInv /\ Calling /\ calls' = Front(calls)
        BY DEF WholeInv, ReadReturns, WriteReturns, EndReturns, Returning
    <2> QED
        BY <2>1, InvParts, HeightFacts
<1>2. CASE WriteReturns \/ EndReturns
    <2>1. /\ Top.then # "read"
          /\ UNCHANGED <<upload, ready, fd, reads, position, sourceEnded, held, handled, active>>
        BY <1>2 DEF WriteReturns, EndReturns, Returning, Others, sourceVars, batchVars,
               Random!EnableComplete
    <2> QED
        BY <1>1, <2>1, OtherReturns
<1>3. CASE ReadReturns
    <2>1. /\ Len(calls) \in Nat \ {0} /\ Top = calls[Len(calls)] /\ Top.then = "read"
          /\ Front(calls) \in Seq(CallSet) /\ Len(Front(calls)) = Len(calls) - 1
        BY <1>1, <1>3, TopCallFacts DEF ReadReturns, Returning
    <2>2. Len(calls) = 1 /\ Top.height = 0 /\ Local /\ ready = "yes"
        BY <1>1, <2>1 DEF ReadInv, SourceShape, KindsInv, OriginInv
    <2>3. calls' = <<>> /\ stack = <<>>
        BY <1>1, <2>1, <2>2, EmptySeq
    <2>4. reads = <<>> /\ fd # "opening" /\ (handled = {} \/ fd = "closed")
        <3>1. reads = <<>>
            BY <1>1, <2>1, <2>2, ReadsFacts DEF ReadInv, SourceShape
        <3> QED
            BY <1>1, <3>1 DEF ReadInv, SourceShape, OpeningInv, EndedInv
    <2>5. /\ EmitData(position') /\ fd' = fd /\ held' = held
          /\ UNCHANGED <<batchVars, upload, ready, sourceEnded, handled, stack>>
        BY <1>3 DEF ReadReturns, Others, batchVars
    <2>6. InOrder /\ active > 0 => held'
        BY <1>1, <2>2, <2>5 DEF ReadInv, BatchShape, ActiveInv
    <2>7. ~InOrder \/ ~error \/ ~(fd' = "open" /\ ~sourceEnded)
        BY <1>1, <2>5 DEF ReadInv, BatchShape, OrderedInv, Reading
    <2> QED
        BY <1>1, <2>2, <2>3, <2>4, <2>5, <2>6, <2>7, ReadStarted
<1> QED
    BY <1>2, <1>3

LEMMA OpenReads ==
    ASSUME WholeInv, FileOpens
    PROVE  ReadInv'
<1>1. BatchTypes /\ CountsInv /\ ReadInv
    BY InvParts DEF WholeInv
<1>2. /\ fd = "opening" /\ fd' = "open" /\ stack = <<>> /\ calls = <<>> /\ held' = held
      /\ position' = position /\ EmitData(position)
      /\ UNCHANGED <<batchVars, upload, ready, sourceEnded, handled, stack, calls>>
    BY DEF FileOpens, EventLoop, Others, batchVars
<1>3. reads = <<>> /\ ~error /\ Local /\ ready = "yes" /\ handled = {}
    BY <1>1, <1>2 DEF ReadInv, SourceShape, OpeningInv, OriginInv, EndedInv
<1>4. InOrder /\ active > 0 => held'
    BY <1>1, <1>2, <1>3 DEF ReadInv, BatchShape, ActiveInv
<1> QED
    BY <1>1, <1>2, <1>3, <1>4, ReadStarted

LEMMA SourceReads ==
    ASSUME WholeInv, FileOpenFails \/ ReadEmits \/ ReadEnds \/ ReadFails \/ PipeWrites
                     \/ PipeEnds \/ DestinationReady \/ CommitDone \/ UNCHANGED vars
    PROVE  ReadInv'
<1>1. TypesInv /\ BatchTypes /\ CountsInv /\ ReadInv /\ OneRead
    BY InvParts DEF WholeInv, ReadInv, SourceShape
<1>2. CASE CommitDone \/ UNCHANGED vars
    <2>1. UNCHANGED <<upload, ready, fd, reads, position, sourceEnded, held, calls, handled,
                      error, active, failures, stack, status>>
        BY <1>2 DEF CommitDone, vars, batchVars, sourceVars, chunkVars
    <2>2. SourceShape'
        BY <1>1, <2>1 DEF ReadInv, SourceShape, OriginInv, KindsInv, OpeningInv, EndedInv,
               HeldInv, OneRead, Reading, Local
    <2>3. BatchShape'
        BY <1>1, <2>1 DEF ReadInv, BatchShape, ActiveInv, QuietInv, CallInv, CallShape, OrderedInv,
               Reading, ReadCall, Local, InOrder, Unfinished, Total, Random!Top, Random!Running
    <2> QED
        BY <2>2, <2>3 DEF ReadInv
<1>5. CASE FileOpenFails \/ ReadFails
    <2>1. /\ stack = <<>> /\ calls = <<>> /\ fd' \in {fd, "closed"}
          /\ UNCHANGED <<batchVars, upload, ready, position, sourceEnded, held, handled, calls,
                         error, active, failures, stack, status>>
        BY <1>5 DEF FileOpenFails, ReadFails, EventLoop, Others, batchVars, chunkVars
    <2>2. reads' = reads \/ (reads # <<>> /\ reads' = <<>>)
        BY <1>1, <1>5, ReadsFacts DEF FileOpenFails, ReadFails
    <2>3. reads' = <<>> => Len(reads') = 0
        OBVIOUS
    <2>4. fd' # "closed" => fd' = fd /\ fd # "opening"
        BY <1>1, <1>5, <2>1 DEF FileOpenFails, ReadFails, ReadInv, SourceShape, OpeningInv
    <2>5. SourceShape'
        BY <1>1, <2>1, <2>2, <2>3, <2>4 DEF ReadInv, SourceShape, OriginInv, KindsInv,
               OpeningInv, EndedInv, HeldInv, OneRead, Reading, Local
    <2>6. Reading' => Reading
        BY <2>1, <2>4 DEF Reading
    <2>7. QuietInv'
        <3>1. Unfinished' = Unfinished
            BY <2>1 DEF Unfinished, Total
        <3> QED
            BY <1>1, <2>1, <2>6, <3>1 DEF ReadInv, BatchShape, QuietInv
    <2>8. ActiveInv' /\ CallInv'
        BY <1>1, <2>1 DEF ReadInv, BatchShape, ActiveInv, CallInv, ReadCall, Local, InOrder
    <2>9. OrderedInv'
        <3>1. InOrder' = InOrder /\ error' = error /\ Random!Running("fail")' = Random!Running("fail")
            BY <2>1 DEF InOrder, Random!Running, Random!Top
        <3>2. calls' # <<>> \/ reads' # <<>> => calls # <<>> \/ reads # <<>>
            BY <2>1, <2>2
        <3> QED
            BY <1>1, <2>6, <3>1, <3>2 DEF ReadInv, BatchShape, OrderedInv
    <2> QED
        BY <2>5, <2>7, <2>8, <2>9 DEF ReadInv, BatchShape
<1>3. CASE ReadEmits \/ ReadEnds
    <2>1. /\ stack = <<>> /\ calls = <<>> /\ reads # <<>> /\ reads' = Tail(reads)
          /\ UNCHANGED <<batchVars, upload, ready, fd, position, held, handled, failures, stack>>
        BY <1>3 DEF ReadEmits, ReadEnds, ReadGets, EventLoop, Others, batchVars
    <2>2. reads' = <<>> /\ Len(reads') = 0
        BY <1>1, <2>1, ReadsFacts
    <2>3. Local /\ ready = "yes" /\ fd # "opening" /\ (handled # {} => fd = "closed")
          /\ ~(fd = "open" /\ sourceEnded)
        BY <1>1, <2>1 DEF ReadInv, SourceShape, OriginInv, OpeningInv, EndedInv
    <2>4. OriginInv' /\ OpeningInv' /\ EndedInv' /\ HeldInv'
        BY <2>1, <2>2, <2>3 DEF OriginInv, OpeningInv, EndedInv, HeldInv, Local
    <2>5. OneRead'
        BY <2>2 DEF OneRead
    <2>6. ActiveInv'
        BY <1>1, <2>1 DEF ReadInv, BatchShape, ActiveInv, InOrder, Local, batchVars
    <2>7. QuietInv'
        <3>1. active = Cardinality(Unfinished) /\ Unfinished' = Unfinished /\ active' = active
            BY <1>1, <2>1, CountsIdle DEF Unfinished, Total, batchVars
        <3> QED
            BY <3>1 DEF QuietInv
    <2>8. ASSUME NEW c, calls' = <<c>>, c.then \in {"read", "end"}, c.height = 0,
                 c.then = "read" => sourceEnded' = sourceEnded, c.then = "end" => sourceEnded'
          PROVE  ReadInv'
        <3>1. Len(calls') = 1 /\ calls'[1] = c
            BY <2>8
        <3>2. KindsInv'
            BY <2>1, <2>3, <2>8, <3>1 DEF KindsInv, Local, Reading
        <3>3. CallInv'
            BY <2>1, <2>3, <2>8, <3>1 DEF CallInv, CallShape, ReadCall
        <3>4. OrderedInv'
            <4>1. InOrder /\ Reading => ~error
                BY <1>1, <2>1 DEF ReadInv, BatchShape, OrderedInv
            <4> QED
                BY <2>1, <2>8, <4>1 DEF OrderedInv, InOrder, Reading, batchVars, Random!Running
        <3> QED
            BY <2>4, <2>5, <2>6, <2>7, <3>2, <3>3, <3>4 DEF ReadInv, SourceShape, BatchShape
    <2>9. Len(stack) = 0
        BY <2>1
    <2>10. CASE ReadEmits
        <3>1. PICK left, out : calls' = <<Call(left, out, "read")>>
            BY <2>10 DEF ReadEmits
        <3>2. Call(left, out, "read").then = "read" /\ Call(left, out, "read").height = 0
            BY <2>9 DEF Call
        <3>3. sourceEnded' = sourceEnded
            BY <2>10 DEF ReadEmits
        <3> QED
            BY <2>8, <3>1, <3>2, <3>3
    <2>11. CASE ReadEnds
        <3>1. sourceEnded' /\ (calls' = <<Call(NoData, buffer, "end")>> \/ calls' = calls)
            BY <2>11 DEF ReadEnds
        <3>2. CASE calls' = calls
            <4>1. calls' = <<>> /\ Len(calls') = 0
                BY <2>1, <3>2
            <4>2. KindsInv' /\ CallInv'
                BY <4>1 DEF KindsInv, CallInv, ReadCall
            <4>3. OrderedInv'
                BY <3>1 DEF OrderedInv, Reading
            <4> QED
                BY <2>4, <2>5, <2>6, <2>7, <4>2, <4>3 DEF ReadInv, SourceShape, BatchShape
        <3>3. CASE calls' = <<Call(NoData, buffer, "end")>>
            <4>1. /\ Call(NoData, buffer, "end").then = "end"
                  /\ Call(NoData, buffer, "end").height = 0
                BY <2>9 DEF Call
            <4> QED
                BY <2>8, <3>1, <3>3, <4>1
        <3> QED
            BY <3>1, <3>2, <3>3
    <2> QED
        BY <1>3, <2>10, <2>11
<1>4. CASE PipeWrites \/ PipeEnds \/ DestinationReady
    <2>1. ~Local /\ UNCHANGED <<batchVars, upload, fd, reads, handled>>
        <3>1. DestinationReady => ready = "no"
            BY DEF DestinationReady
        <3>2. ~Local
            BY <1>1, <1>4, <3>1 DEF PipeWrites, PipeEnds, ReadInv, SourceShape, OriginInv
        <3> QED
            BY <1>4, <3>2 DEF PipeWrites, PipeEnds, DestinationReady, Others
    <2>2. reads = <<>> /\ fd = "closed" /\ ~Local'
        BY <1>1, <2>1 DEF ReadInv, SourceShape, OriginInv, Local
    <2>3. Len(reads') = 0
        BY <2>1, <2>2
    <2>4. OriginInv' /\ OpeningInv' /\ EndedInv' /\ HeldInv' /\ OneRead'
        BY <2>1, <2>2, <2>3 DEF OriginInv, OpeningInv, EndedInv, HeldInv, OneRead
    <2>5. BatchShape'
        BY <2>1, <2>2 DEF BatchShape, ActiveInv, QuietInv, CallInv, OrderedInv, Reading, ReadCall
    <2>6. Len(calls) \in Nat /\ ~Reading'
        BY <1>1, <2>1, <2>2, CallKinds DEF Reading
    <2>7. KindsInv'
        <3>1. CASE DestinationReady
            <4>1. calls' = calls
                BY <3>1 DEF DestinationReady, chunkVars
            <4> QED
                BY <1>1, <2>2, <2>6, <2>1, <4>1 DEF ReadInv, SourceShape, KindsInv, Local
        <3>2. CASE PipeEnds
            <4>1. PICK out : calls' = <<Call(NoData, out, "end")>>
                BY <3>2 DEF PipeEnds
            <4>2. Len(calls') = 1 /\ calls'[1].then = "end"
                BY <4>1 DEF Call
            <4> QED
                BY <2>6, <4>2 DEF KindsInv
        <3>3. CASE PipeWrites
            <4>1. PICK n : calls' = Append(calls,
                [Call(NoData, NoData, "write") EXCEPT !.left =
                    [run |-> Run(position + 1, position + n),
                     id |-> FreshBuffers(1, Referred)[1]]])
                BY <3>3 DEF PipeWrites
            <4> DEFINE c == [Call(NoData, NoData, "write") EXCEPT !.left =
                                [run |-> Run(position + 1, position + n),
                                 id |-> FreshBuffers(1, Referred)[1]]]
            <4>2. c.then = "write"
                BY DEF Call
            <4>3. calls' = Append(calls, c)
                BY <4>1
            <4> HIDE DEF c
            <4>4. calls \in Seq(CallSet)
                BY <1>1, CallKinds
            <4>5. /\ Len(calls') = Len(calls) + 1 /\ calls'[Len(calls) + 1] = c
                  /\ \A m \in 1..Len(calls) : calls'[m] = calls[m]
                BY <4>3, <4>4
            <4>6. ASSUME NEW m \in 1..Len(calls') PROVE calls'[m].then # "read"
                <5>1. CASE m \in 1..Len(calls)
                    BY <1>1, <2>1, <4>5, <5>1 DEF ReadInv, SourceShape, KindsInv
                <5>2. CASE m = Len(calls) + 1
                    BY <4>2, <4>5, <5>2
                <5> QED
                    BY <2>6, <4>5, <5>1, <5>2
            <4> QED
                BY <2>2, <2>6, <4>6 DEF KindsInv
        <3> QED
            BY <1>4, <3>1, <3>2, <3>3
    <2> QED
        BY <2>4, <2>5, <2>7 DEF ReadInv, SourceShape
<1> QED
    BY <1>2, <1>3, <1>4, <1>5

LEMMA FrameOnTop ==
    ASSUME BatchTypes, StackInv, stack # <<>>, NEW f \in Random!Frame,
           stack' = Append(Random!Caller, f)
    PROVE  /\ Random!Top' = f /\ Len(stack') = Len(stack) /\ stack' # <<>>
           /\ Len(stack) \in Nat \ {0}
<1>1. /\ Random!Caller \in Seq(Random!Frame) /\ Len(Random!Caller) = Len(stack) - 1
      /\ Len(stack) \in Nat \ {0}
    BY TopFacts
<1>2. /\ Len(stack') = Len(Random!Caller) + 1 /\ stack' # <<>>
      /\ stack'[Len(Random!Caller) + 1] = f
    BY <1>1, PushCall
<1> QED
    BY <1>1, <1>2 DEF Random!Top

LEMMA FramesOnTop ==
    ASSUME BatchTypes, StackInv, stack # <<>>, NEW f \in Random!Frame, NEW g \in Random!Frame,
           stack' = Append(Append(Random!Caller, f), g)
    PROVE  /\ Random!Top' = g /\ Len(stack') = Len(stack) + 1 /\ stack' # <<>>
           /\ Len(stack) \in Nat \ {0}
<1>1. /\ Random!Caller \in Seq(Random!Frame) /\ Len(Random!Caller) = Len(stack) - 1
      /\ Len(stack) \in Nat \ {0}
    BY TopFacts
<1>2. /\ Append(Random!Caller, f) \in Seq(Random!Frame)
      /\ Len(Append(Random!Caller, f)) = Len(Random!Caller) + 1
    BY <1>1, PushCall
<1>3. /\ Len(stack') = Len(Random!Caller) + 2 /\ stack' # <<>>
      /\ stack'[Len(Random!Caller) + 2] = g
    <2>1. /\ Len(stack') = Len(Append(Random!Caller, f)) + 1 /\ stack' # <<>>
          /\ stack'[Len(Append(Random!Caller, f)) + 1] = g
        BY <1>2, PushCall
    <2> QED
        BY <1>1, <1>2, <2>1
<1> QED
    BY <1>1, <1>3 DEF Random!Top

(* What lies below a call is not a callback that settles.                   *)
LEMMA CallerSettlesNot ==
    ASSUME BatchTypes, StackInv, stack # <<>>, stack' = Random!Caller
    PROVE  ~Random!Running("fail")'
<1>1. Random!Caller \in Seq(Random!Frame) /\ AllSuspended(Random!Caller)
    BY TopFacts
<1>2. "fail" \notin Random!Suspended
    BY DEF Random!Suspended
<1>3. ~(Random!Caller # <<>> /\ Random!Caller[Len(Random!Caller)].pc = "fail")
    BY <1>1, <1>2, NotRunning, Zenon
<1> QED
    BY <1>3 DEF Random!Running, Random!Top

(* A step of the batch while no read is emitted.                            *)
LEMMA IdleReads ==
    ASSUME ReadInv, stack # <<>>, ~ReadCall, ~Random!Running("fail")',
           UNCHANGED <<upload, ready, fd, reads, position, sourceEnded, held, calls, handled,
                       status, error, active>>
    PROVE  ReadInv'
<1>1. SourceShape'
    <2>1. fd # "opening"
        BY DEF ReadInv, SourceShape, OpeningInv
    <2> QED
        BY <2>1, SourceShapeKept DEF ReadInv
<1>2. ActiveInv' /\ CallInv'
    BY DEF ReadInv, BatchShape, ActiveInv, CallInv, ReadCall, InOrder, Local
<1>3. QuietInv'
    BY DEF ReadInv, BatchShape, QuietInv, Reading, Unfinished, Total
<1>4. OrderedInv'
    BY DEF ReadInv, BatchShape, OrderedInv, InOrder, Reading
<1> QED
    BY <1>1, <1>2, <1>3, <1>4 DEF ReadInv, BatchShape

LEMMA RunReads ==
    ASSUME WholeInv, BatchRuns
    PROVE  ReadInv'
<1>1. /\ TypesInv /\ BatchTypes /\ StackInv /\ ReadInv /\ BatchInv
      /\ stack # <<>> /\ Random!Top.pc = "run"
      /\ UNCHANGED <<upload, ready, fd, reads, position, sourceEnded, held, calls, handled,
                     error, active>>
    BY InvParts DEF WholeInv, BatchRuns, Random!RunRequest, Random!RunAfterError, Random!Running,
           Random!batch, quietVars, sourceVars
<1> DEFINE f == Random!Call("ran", Random!Top.op)
           g == Random!Call("fail", Random!Top.op)
<1>2. /\ f \in Random!Frame /\ g \in Random!Frame /\ f.pc = "ran" /\ g.pc = "fail"
      /\ Random!Top.op \in 1..Total /\ status[Random!Top.op] = "queued"
    <2>1. Random!Top.op \in Nat /\ FrameOK(Random!Top, status, Len(operations), Turn)
        BY <1>1, TopFacts
    <2> QED
        BY <1>1, <2>1, CallIsFrame DEF Random!Pcs, Random!Call, FrameOK, Total
<1>3. \/ /\ stack' = Append(Random!Caller, f) /\ ~error
         /\ status' = [status EXCEPT ![Random!Top.op] = "running"]
      \/ /\ stack' = Append(Append(Random!Caller, f), g) /\ error /\ status' = status
    BY DEF BatchRuns, Random!RunRequest, Random!RunAfterError, Random!batch
<1> HIDE DEF f, g
<1>4. \/ Len(stack') = Len(stack) /\ Random!Top' = f /\ ~error
      \/ Len(stack') = Len(stack) + 1 /\ Random!Top' = g /\ error
    <2>1. CASE stack' = Append(Random!Caller, f) /\ ~error
        BY <1>1, <1>2, <2>1, FrameOnTop
    <2>2. CASE stack' = Append(Append(Random!Caller, f), g) /\ error
        BY <1>1, <1>2, <2>2, FramesOnTop
    <2> QED
        BY <1>3, <2>1, <2>2
<1>5. Unfinished' = Unfinished
    <2>1. CASE status' = status
        BY <2>1 DEF Unfinished, Total
    <2>2. CASE status' = [status EXCEPT ![Random!Top.op] = "running"]
        BY <1>1, <1>2, <2>2, StatusCounts DEF Random!OperationState
    <2> QED
        BY <1>3, <2>1, <2>2
<1>6. ReadCall => Len(stack) = 1 /\ Reading /\ calls # <<>>
    BY <1>1 DEF ReadInv, BatchShape, CallInv, CallShape, ReadCall, Reading
<1>7. OrderedInv'
    <2>1. InOrder /\ Reading /\ (calls # <<>> \/ reads # <<>>) => ~error
        BY <1>1 DEF ReadInv, BatchShape, OrderedInv
    <2> QED
        BY <1>1, <1>2, <1>4, <2>1 DEF OrderedInv, InOrder, Reading, Random!Running
<1>8. CallInv'
    <2>1. ReadCall' => ReadCall /\ Len(calls) = 1 /\ ~sourceEnded
        BY <1>1 DEF ReadInv, BatchShape, CallInv, ReadCall
    <2>2. ASSUME ReadCall PROVE CallShape'
        <3>1. InOrder => ~error
            BY <1>1, <1>6, <2>2 DEF ReadInv, BatchShape, OrderedInv
        <3>2. CASE ~error
            <4>1. Len(stack') = 1 /\ Random!Top'.pc = "ran"
                BY <1>2, <1>4, <1>6, <2>2, <3>2
            <4> QED
                BY <4>1 DEF CallShape
        <3>3. CASE error
            <4>1. ~InOrder
                BY <3>1, <3>3
            <4>2. ~InOrder'
                BY <1>1, <4>1 DEF InOrder
            <4>3. Len(stack') = Len(stack) + 1 /\ Random!Top' = g /\ Len(stack) = 1
                BY <1>4, <1>6, <2>2, <3>3
            <4>4. Len(stack') = 2 /\ Random!Top'.pc = "fail"
                BY <1>2, <4>3
            <4> QED
                BY <4>2, <4>4 DEF CallShape
        <3> QED
            BY <3>2, <3>3
    <2> QED
        BY <1>1, <2>1, <2>2 DEF CallInv
<1>9. SourceShape'
    <2>1. fd # "opening"
        BY <1>1 DEF ReadInv, SourceShape, OpeningInv
    <2> QED
        BY <1>1, <2>1, SourceShapeKept DEF ReadInv
<1>10. ActiveInv' /\ QuietInv'
    BY <1>1, <1>5 DEF ReadInv, BatchShape, ActiveInv, QuietInv, Reading, InOrder, Local
<1> QED
    BY <1>7, <1>8, <1>9, <1>10 DEF ReadInv, BatchShape

LEMMA RanReads ==
    ASSUME WholeInv, Ran
    PROVE  ReadInv'
<1>1. /\ TypesInv /\ BatchTypes /\ StackInv /\ ReadInv /\ CountsInv
      /\ stack # <<>> /\ Random!Top.pc = "ran" /\ stack' = Random!Caller
      /\ active' = active + 1
      /\ UNCHANGED <<upload, ready, fd, reads, position, sourceEnded, calls, handled, status,
                     error>>
    BY InvParts DEF WholeInv, Ran, RanThen, Random!Ran, Random!Running, quietVars
<1>2. Reading => calls # <<>> /\ ReadCall /\ Local /\ reads = <<>>
    <2>1. ASSUME Reading, calls = <<>> PROVE FALSE
        <3>1. active = Cardinality(Unfinished)
            BY <1>1, <2>1 DEF ReadInv, BatchShape, QuietInv
        <3>2. /\ Cardinality(Starting(stack)) =
                    Cardinality(Starting(Random!Caller)) + One(Random!Top.pc)
              /\ Cardinality(Starting(Random!Caller)) \in Nat
            BY <1>1, ReplacedStarts
        <3>3. One(Random!Top.pc) = 1
            BY <1>1 DEF One, Starts
        <3>4. active = Cardinality(Unfinished) - Cardinality(Starting(stack))
            BY <1>1 DEF CountsInv
        <3>5. active \in Int /\ Cardinality(Unfinished) \in Nat
            BY <1>1, CountedFinite DEF BatchTypes
        <3> QED
            BY <3>1, <3>2, <3>3, <3>4, <3>5
    <2> QED
        BY <1>1, <2>1, ReadingCalls DEF ReadInv
<1>3. ReadCall => Reading /\ Len(stack) = 1
    BY <1>1 DEF ReadInv, BatchShape, CallInv, CallShape, ReadCall, Reading
<1>4. fd # "opening"
    BY <1>1 DEF ReadInv, SourceShape, OpeningInv
<1>5. SourceShape'
    <2>1. OriginInv' /\ KindsInv' /\ OpeningInv' /\ EndedInv' /\ OneRead'
        BY <1>1, <1>4 DEF ReadInv, SourceShape, OriginInv, KindsInv, OpeningInv, EndedInv, OneRead,
               Reading, Local
    <2>2. HeldInv'
        BY <1>1, <1>2 DEF HeldInv, Reading
    <2> QED
        BY <2>1, <2>2 DEF SourceShape
<1>6. ActiveInv'
    <2>1. ASSUME InOrder, active' > 0 PROVE held'
        <3>1. PICK lowMemory \in BOOLEAN :
                 held' = (held \/ Ordered!IsWorkloadHeavy(active + 1, lowMemory))
            BY <2>1 DEF Ran, RanThen, Mode
        <3>2. active \in Int
            BY <1>1 DEF BatchTypes
        <3>3. Ordered!IsWorkloadHeavy(active + 1, lowMemory)
            BY <1>1, <2>1, <3>2 DEF Ordered!IsWorkloadHeavy
        <3> QED
            BY <3>1, <3>3
    <2> QED
        BY <1>1, <2>1 DEF ActiveInv, InOrder
<1>7. QuietInv'
    BY <1>1, <1>2 DEF QuietInv, Reading
<1>8. CallInv'
    <2>1. ReadCall' => ReadCall /\ Len(calls) = 1 /\ ~sourceEnded
        BY <1>1 DEF ReadInv, BatchShape, CallInv, ReadCall
    <2>2. ReadCall => stack' = <<>>
        <3>1. Random!Caller \in Seq(Random!Frame) /\ Len(Random!Caller) = Len(stack) - 1
            BY <1>1, TopFacts
        <3>2. ReadCall => Len(Random!Caller) = 0
            BY <1>3, <3>1
        <3>3. Len(Random!Caller) = 0 => Random!Caller = <<>>
            BY <3>1, EmptySeq
        <3> QED
            BY <1>1, <3>2, <3>3
    <2> QED
        BY <1>1, <2>1, <2>2 DEF CallInv, CallShape
<1>9. OrderedInv'
    <2>1. ~Random!Running("fail")'
        BY <1>1, CallerSettlesNot
    <2> QED
        BY <1>1, <2>1 DEF ReadInv, BatchShape, OrderedInv, InOrder, Reading
<1> QED
    BY <1>5, <1>6, <1>7, <1>8, <1>9 DEF ReadInv, BatchShape

LEMMA AnswerReads ==
    ASSUME WholeInv, NEW i \in 1..Total, NEW failed \in BOOLEAN, RequestDone(i, failed)
    PROVE  ReadInv'
<1>1. /\ TypesInv /\ BatchTypes /\ StackInv /\ ReadInv
      /\ stack = <<>> /\ calls = <<>> /\ status[i] = "running"
      /\ UNCHANGED <<upload, ready, fd, reads, position, sourceEnded, held, calls, handled,
                     status, error, active>>
    BY InvParts DEF WholeInv, RequestDone, EventLoop, Random!RequestDone, Random!RequestDoneIn,
           Random!batch, sourceVars, chunkVars
<1>2. (active > 0 /\ reads = <<>>) \/ ~(InOrder /\ Reading)
    <2>1. ASSUME InOrder, Reading PROVE active > 0 /\ reads = <<>>
        <3>1. active = Cardinality(Unfinished)
            BY <1>1, <2>1 DEF ReadInv, BatchShape, QuietInv
        <3>2. i \in Unfinished
            BY <1>1 DEF Unfinished
        <3>3. Cardinality(Unfinished) \in Nat /\ Cardinality(Unfinished) # 0
            BY <1>1, <3>2, CountedFinite, FS_EmptySet
        <3>4. Local
            BY <1>1, <2>1 DEF ReadInv, SourceShape, OriginInv, Reading
        <3>5. active > 0
            BY <3>1, <3>3
        <3>6. held
            BY <1>1, <2>1, <3>4, <3>5 DEF ReadInv, BatchShape, ActiveInv
        <3> QED
            BY <1>1, <2>1, <3>5, <3>6 DEF ReadInv, SourceShape, HeldInv
    <2> QED
        BY <2>1
<1>3. OrderedInv'
    BY <1>1, <1>2 DEF OrderedInv, InOrder, Reading
<1>4. ActiveInv' /\ QuietInv' /\ CallInv'
    BY <1>1 DEF ReadInv, BatchShape, ActiveInv, QuietInv, CallInv, Reading, ReadCall, InOrder,
           Local, Unfinished, Total
<1>5. fd # "opening"
    <2>1. status # <<>>
        BY DEF Total
    <2> QED
        BY <1>1, <2>1 DEF ReadInv, SourceShape, OpeningInv
<1>6. SourceShape'
    BY <1>1, <1>5, SourceShapeKept DEF ReadInv
<1> QED
    BY <1>3, <1>4, <1>6 DEF ReadInv, BatchShape

LEMMA SettleReads ==
    ASSUME WholeInv, Mode(Random!BatchOperationCallback, Ordered!BatchOperationCallback),
           UNCHANGED <<quietVars, sourceVars, failures, handled>>
    PROVE  ReadInv'
<1> DEFINE state == IF ~InOrder /\ Random!Running("fail") THEN "error" ELSE "callback"
           f == Random!Call("tryDrain", 0)
           g == Random!Call("fire", Random!Top.op)
<1>1. /\ TypesInv /\ BatchTypes /\ StackInv /\ ReadInv /\ FailInv
      /\ UNCHANGED <<upload, ready, fd, reads, position, sourceEnded, held, calls, handled,
                     failures>>
    BY InvParts DEF WholeInv, BatchInv, quietVars, sourceVars
<1>2. /\ stack # <<>> /\ Random!Top.pc \in {"succeed", "fail"} /\ active' = active
      /\ error' = (error \/ Random!Running("fail"))
      /\ status' = [status EXCEPT ![Random!Top.op] = state]
      /\ \/ stack' = Append(Random!Caller, f) /\ InOrder
         \/ stack' = Append(Append(Random!Caller, f), g)
    <2>1. paused = FALSE
        BY <1>1 DEF BatchTypes
    <2> QED
        BY <2>1, SettlesInMode DEF Random!Running
<1>3. /\ f \in Random!Frame /\ g \in Random!Frame /\ f.pc = "tryDrain" /\ g.pc = "fire"
      /\ g.op = Random!Top.op
      /\ Random!Top.op \in 1..Total /\ status[Random!Top.op] \in {"queued", "running"}
    <2>1. Random!Top.op \in Nat /\ FrameOK(Random!Top, status, Len(operations), Turn)
        BY <1>1, <1>2, TopFacts
    <2> QED
        BY <1>2, <2>1, CallIsFrame DEF Random!Pcs, Random!Call, FrameOK, Total
<1>4. state \in Random!OperationState /\ state # "complete"
    BY DEF Random!OperationState
<1> HIDE DEF f, g, state
<1>5. \/ Random!Top' = f /\ InOrder
      \/ Random!Top' = g /\ Len(stack') = Len(stack) + 1
    <2>1. CASE stack' = Append(Random!Caller, f) /\ InOrder
        BY <1>1, <1>2, <1>3, <2>1, FrameOnTop
    <2>2. CASE stack' = Append(Append(Random!Caller, f), g)
        BY <1>1, <1>2, <1>3, <2>2, FramesOnTop
    <2> QED
        BY <1>2, <2>1, <2>2
<1>6. Unfinished' = Unfinished
    <2>1. status[Random!Top.op] # "complete"
        BY <1>3
    <2> QED
        BY <1>1, <1>2, <1>3, <1>4, <2>1, StatusCounts
<1>7. ReadCall => Len(stack) = 2 /\ Random!Top.pc = "fail" /\ ~InOrder
    <2>1. ReadCall => CallShape
        BY <1>1 DEF ReadInv, BatchShape, CallInv
    <2> QED
        BY <1>2, <2>1 DEF CallShape
<1>8. OrderedInv'
    <2>1. InOrder /\ Reading /\ (calls # <<>> \/ reads # <<>>) => ~error /\ ~Random!Running("fail")
        BY <1>1 DEF ReadInv, BatchShape, OrderedInv
    <2>2. ~Random!Running("fail")'
        BY <1>3, <1>5 DEF Random!Running
    <2> QED
        BY <1>1, <1>2, <2>1, <2>2 DEF OrderedInv, InOrder, Reading
<1>9. CallInv'
    <2>1. ReadCall' => ReadCall /\ Len(calls) = 1 /\ ~sourceEnded
        BY <1>1 DEF ReadInv, BatchShape, CallInv, ReadCall
    <2>2. ASSUME ReadCall PROVE CallShape'
        <3>1. Random!Top.op \in failures
            BY <1>1, <1>2, <1>7, <2>2 DEF FailInv, Random!Running
        <3>2. Random!Top.op \notin handled
            BY <1>1, <1>3 DEF FailInv
        <3>3. Len(stack') = 3 /\ Random!Top' = g /\ ~InOrder'
            <4>1. ~InOrder /\ Len(stack) = 2
                BY <1>7, <2>2
            <4>2. Random!Top' = g /\ Len(stack') = Len(stack) + 1
                BY <1>5, <4>1
            <4>3. ~InOrder'
                BY <1>1, <4>1 DEF InOrder
            <4> QED
                BY <4>1, <4>2, <4>3
        <3>4. Random!Top'.pc = "fire" /\ Random!Top'.op \in failures' \ handled'
            BY <1>1, <1>3, <3>1, <3>2, <3>3
        <3> QED
            BY <3>3, <3>4 DEF CallShape
    <2> QED
        BY <1>1, <2>1, <2>2 DEF CallInv
<1>10. ActiveInv' /\ QuietInv'
    BY <1>1, <1>2, <1>6 DEF ReadInv, BatchShape, ActiveInv, QuietInv, Reading, InOrder, Local
<1>11. SourceShape'
    <2>1. fd # "opening"
        BY <1>1, <1>2 DEF ReadInv, SourceShape, OpeningInv
    <2> QED
        BY <1>1, <2>1, SourceShapeKept DEF ReadInv
<1> QED
    BY <1>8, <1>9, <1>10, <1>11 DEF ReadInv, BatchShape

LEMMA FireReads ==
    ASSUME WholeInv, Mode(Random!FireUserCallback, Ordered!FireUserCallback),
           UNCHANGED <<quietVars, sourceVars, failures, handled>>
    PROVE  ReadInv'
<1>1. /\ TypesInv /\ BatchTypes /\ StackInv /\ ReadInv /\ failures \subseteq 1..Total
      /\ BatchTypes'
      /\ UNCHANGED <<upload, ready, fd, reads, position, sourceEnded, held, calls, handled,
                     failures>>
    BY InvParts, FiresTypes DEF WholeInv, BatchTypes, quietVars, sourceVars
<1>2. PICK i : /\ stack # <<>> /\ Random!Top.pc = "fire" /\ UNCHANGED Random!batch
               /\ stack' = Append(Random!Caller,
                              [pc |-> "userCallback", op |-> i, index |-> NextIndex])
               /\ (Random!Top.op # 0 => i = Random!Top.op)
    BY FiresInMode DEF Random!Running
<1> DEFINE f == [pc |-> "userCallback", op |-> i, index |-> NextIndex]
<1>3. f.pc = "userCallback" /\ f.op = i /\ stack' = Append(Random!Caller, f)
    BY <1>2
<1> HIDE DEF f
<1>4. Random!Top' = f /\ Len(stack') = Len(stack)
    <2>1. /\ Random!Caller \in Seq(Random!Frame) /\ Len(Random!Caller) = Len(stack) - 1
          /\ Len(stack) \in Nat \ {0} /\ stack' \in Seq(Random!Frame)
        BY <1>1, <1>2, TopFacts DEF BatchTypes
    <2>2. Len(stack') = Len(Random!Caller) + 1 /\ stack'[Len(Random!Caller) + 1] = f
        BY <1>3, <2>1
    <2> QED
        BY <2>1, <2>2 DEF Random!Top
<1>5. UNCHANGED <<status, error, active>>
    BY <1>2 DEF Random!batch
<1>6. ~Random!Running("fail")'
    BY <1>3, <1>4 DEF Random!Running
<1>7. CASE ~ReadCall
    BY <1>1, <1>2, <1>5, <1>6, <1>7, IdleReads
<1>8. CASE ReadCall
    <2>1. /\ Len(stack) = 3 /\ Random!Top.op \in failures \ handled /\ ~InOrder
          /\ Len(calls) = 1 /\ ~sourceEnded
        BY <1>1, <1>2, <1>8 DEF ReadInv, BatchShape, CallInv, CallShape
    <2>2. Random!Top.op # 0
        <3>1. Total \in Nat
            BY <1>1, TotalFacts
        <3> QED
            BY <1>1, <2>1, <3>1
    <2>3. /\ Len(stack') = 3 /\ Random!Top'.pc = "userCallback"
          /\ Random!Top'.op \in failures' \ handled' /\ ~InOrder'
        BY <1>1, <1>2, <1>3, <1>4, <2>1, <2>2 DEF InOrder
    <2>4. CallInv'
        BY <1>1, <2>1, <2>3 DEF CallInv, CallShape
    <2>5. ActiveInv' /\ QuietInv' /\ OrderedInv'
        BY <1>1, <1>5, <1>6
           DEF ReadInv, BatchShape, ActiveInv, QuietInv, OrderedInv, Reading, InOrder, Local,
               Unfinished, Total
    <2>6. SourceShape'
        <3>1. fd # "opening"
            BY <1>1, <1>2 DEF ReadInv, SourceShape, OpeningInv
        <3> QED
            BY <1>1, <3>1, SourceShapeKept DEF ReadInv
    <2> QED
        BY <2>4, <2>5, <2>6 DEF ReadInv, BatchShape
<1> QED
    BY <1>7, <1>8

LEMMA StepReads ==
    ASSUME WholeInv, BatchSteps \/ End
    PROVE  ReadInv'
<1>1. /\ TypesInv /\ BatchTypes /\ StackInv /\ ReadInv /\ failures \subseteq 1..Total
      /\ Total \in Nat
      /\ UNCHANGED <<upload, ready, fd, reads, position, sourceEnded, held, calls, handled,
                     failures>>
    BY InvParts, TotalFacts
       DEF WholeInv, BatchTypes, BatchSteps, End, quietVars, sourceVars, chunkVars
<1>2. ReadCall => \/ stack = <<>>
                  \/ Random!Top.pc \in {"run", "ran", "fail", "userCallback"}
                  \/ Random!Top.pc = "fire" /\ Random!Top.op \in failures
    BY <1>1 DEF ReadInv, BatchShape, CallInv, CallShape
<1>3. CASE /\ stack # <<>>
           /\ \/ Random!Top.pc \in {"tryEnd", "tryDrain", "onEnd", "onDrain"}
              \/ Random!Top.pc = "fire" /\ Random!Top.op = 0
           /\ UNCHANGED <<status, error, active>>
           /\ \/ stack' = Random!Caller
              \/ \E f \in Random!Frame : stack' = Append(Random!Caller, f) /\ f.pc # "fail"
    <2>1. ~ReadCall
        <3>1. 0 \notin failures
            BY <1>1
        <3> QED
            BY <1>2, <1>3, <3>1
    <2>2. ~Random!Running("fail")'
        <3>1. CASE stack' = Random!Caller
            BY <1>1, <1>3, <3>1, CallerSettlesNot
        <3>2. ASSUME NEW f \in Random!Frame, stack' = Append(Random!Caller, f), f.pc # "fail"
              PROVE  ~Random!Running("fail")'
            <4>1. Random!Top' = f
                BY <1>1, <1>3, <3>2, FrameOnTop
            <4> QED
                BY <3>2, <4>1 DEF Random!Running
        <3> QED
            BY <1>3, <3>1, <3>2
    <2> QED
        BY <1>1, <1>3, <2>1, <2>2, IdleReads
<1>4. \A pc \in {"tryEnd", "tryDrain", "onEnd"} :
         Random!Call(pc, 0) \in Random!Frame /\ Random!Call(pc, 0).pc # "fail"
    BY CallIsFrame DEF Random!Pcs, Random!Call
<1>5. CASE Mode(Random!BatchOperationCallback, Ordered!BatchOperationCallback) /\ BatchSteps
    BY <1>5, SettleReads DEF BatchSteps
<1>6. CASE Mode(Random!FireUserCallback, Ordered!FireUserCallback) /\ BatchSteps
    BY <1>6, FireReads DEF BatchSteps
<1>7. CASE Mode(Random!FireNothing, Ordered!FireNothing)
    <2>1. /\ stack # <<>> /\ Random!Top.pc = "fire" /\ Random!Top.op = 0
          /\ UNCHANGED <<status, error, active>>
          /\ stack' = Append(Random!Caller, Random!Call("tryEnd", 0))
        BY <1>7, NothingInMode DEF Random!Running, Random!batch
    <2> QED
        BY <1>3, <1>4, <2>1
<1>8. CASE Mode(Random!NoDrain, Ordered!NoDrain)
    <2>1. /\ stack # <<>> /\ Random!Top.pc = "tryDrain" /\ stack' = Random!Caller
          /\ UNCHANGED <<status, error, active>>
        BY <1>8, NoDrainInMode DEF Random!Running, Random!batch
    <2> QED
        BY <1>3, <2>1
<1>9. CASE Random!EmitEnd
    <2>1. /\ stack # <<>> /\ Random!Top.pc = "tryEnd" /\ UNCHANGED <<status, error, active>>
          /\ stack' = Append(Random!Caller, Random!Call("onEnd", 0))
        BY <1>9 DEF Random!EmitEnd, Random!Running
    <2> QED
        BY <1>3, <1>4, <2>1
<1>10. CASE Random!NotComplete
    <2>1. /\ stack # <<>> /\ Random!Top.pc = "tryEnd" /\ UNCHANGED <<status, error, active>>
          /\ stack' = Append(Random!Caller, Random!Call("tryDrain", 0))
        BY <1>10 DEF Random!NotComplete, Random!Running, Random!batch
    <2> QED
        BY <1>3, <1>4, <2>1
<1>11. CASE Random!ListenerReturns
    <2>1. /\ stack # <<>> /\ Random!Top.pc \in {"onDrain", "onEnd"}
          /\ UNCHANGED <<status, error, active>> /\ stack' = Random!Caller
        BY <1>11 DEF Random!ListenerReturns, Random!Running, Random!batch
    <2> QED
        BY <1>3, <2>1
<1>12. CASE End
    BY <1>11, <1>12 DEF End
<1>13. CASE BatchSteps
    BY <1>5, <1>6, <1>7, <1>8, <1>9, <1>10, <1>11, <1>13 DEF BatchSteps
<1> QED
    BY <1>12, <1>13

LEMMA DrainedReads ==
    ASSUME WholeInv, Drain
    PROVE  ReadInv'
<1>1. /\ TypesInv /\ BatchTypes /\ StackInv /\ ReadInv /\ CountsInv /\ FailedInv
      /\ stack # <<>> /\ Random!Top.pc = "tryDrain"
      /\ stack' = Append(Random!Caller, Random!Call("onDrain", 0))
      /\ UNCHANGED <<status, error, active>>
      /\ UNCHANGED <<upload, ready, fd, position, sourceEnded, calls, handled, failures>>
      /\ held' = FALSE
    BY InvParts, DrainInMode DEF WholeInv, Drain, DrainThen, quietVars, Random!Running,
           Random!batch
<1>2. ~ReadCall /\ fd # "opening"
    BY <1>1 DEF ReadInv, SourceShape, OpeningInv, BatchShape, CallInv, CallShape
<1>3. ~Random!Running("fail")'
    <2>1. Random!Call("onDrain", 0) \in Random!Frame /\ Random!Call("onDrain", 0).pc = "onDrain"
        BY CallIsFrame DEF Random!Pcs, Random!Call
    <2>2. Random!Top' = Random!Call("onDrain", 0)
        BY <1>1, <2>1, FrameOnTop
    <2> QED
        BY <2>1, <2>2 DEF Random!Running
<1>4. Reading => calls = <<>>
    BY <1>1, <1>2, ReadingCalls DEF ReadInv
<1>5. InOrder => active < 1
    <2>1. ASSUME InOrder PROVE active < 1
        <3>1. PICK lowMemory \in BOOLEAN : Ordered!ShouldDrain(lowMemory)
            BY <2>1 DEF Drain, DrainThen, Mode, Ordered!EmitDrain
        <3>2. active \in Int
            BY <1>1 DEF BatchTypes
        <3> QED
            BY <3>1, <3>2 DEF Ordered!ShouldDrain, Ordered!IsWorkloadHeavy
    <2> QED
        BY <2>1
<1>6. InOrder /\ Reading => ~error
    <2>1. ASSUME InOrder, Reading, error PROVE FALSE
        <3>1. PICK i \in failures : status[i] \notin {"queued", "running"}
            BY <1>1, <2>1 DEF FailedInv
        <3>2. handled = {}
            BY <1>1, <2>1 DEF ReadInv, SourceShape, EndedInv, Reading
        <3>3. i \in Unfinished
            BY <1>1, <3>1, <3>2 DEF FailedInv, Unfinished, BatchTypes
        <3>4. Cardinality(Unfinished) \in Nat /\ Cardinality(Unfinished) # 0
            BY <1>1, <3>3, CountedFinite, FS_EmptySet
        <3>5. active = Cardinality(Unfinished)
            BY <1>1, <1>4, <2>1 DEF ReadInv, BatchShape, QuietInv
        <3> QED
            BY <1>5, <2>1, <3>4, <3>5
    <2> QED
        BY <2>1
<1>7. \/ reads' = reads
      \/ /\ Reading /\ Local /\ reads = <<>>
         /\ Len(reads') = 1 /\ reads'[1].at = position
    <2>1. CASE Local /\ held
        <3>1. EmitData(position)
            BY <2>1 DEF Drain, DrainThen
        <3>2. \/ reads' = reads
              \/ /\ fd' = "open" /\ ~sourceEnded
                 /\ \E id : reads' = Append(reads, [at |-> position, id |-> id])
            BY <3>1, EmitDataReads
        <3>3. Reading => reads = <<>>
            BY <1>1, <2>1 DEF ReadInv, SourceShape, HeldInv
        <3>4. fd' = "open" /\ ~sourceEnded => Reading
            BY <1>1 DEF Reading
        <3>5. \A r : Len(Append(<<>>, r)) = 1 /\ Append(<<>>, r)[1] = r
            OBVIOUS
        <3>6. CASE reads' # reads
            <4>1. PICK id : reads' = Append(reads, [at |-> position, id |-> id])
                BY <3>2, <3>6
            <4>2. Reading /\ reads = <<>>
                BY <3>2, <3>3, <3>4, <3>6
            <4>3. Len(reads') = 1 /\ reads'[1] = [at |-> position, id |-> id]
                BY <3>5, <4>1, <4>2
            <4> QED
                BY <2>1, <4>2, <4>3
        <3> QED
            BY <3>6
    <2>2. CASE ~(Local /\ held)
        BY <2>2 DEF Drain, DrainThen
    <2> QED
        BY <2>1, <2>2
<1>8. OneRead'
    <2>1. CASE reads' = reads
        BY <1>1, <2>1 DEF ReadInv, SourceShape, OneRead
    <2>2. CASE reads' # reads
        <3>1. Len(calls') = 0 /\ Len(reads') = 1 /\ reads'[1].at = position'
            BY <1>1, <1>4, <1>7, <2>2
        <3> QED
            BY <3>1 DEF OneRead
    <2> QED
        BY <2>1, <2>2
<1>9. OriginInv' /\ OpeningInv' /\ EndedInv'
    BY <1>1, <1>2, <1>7
       DEF ReadInv, SourceShape, OriginInv, OpeningInv, EndedInv, Local, Reading
<1>10. KindsInv' /\ HeldInv'
    BY <1>1 DEF ReadInv, SourceShape, KindsInv, HeldInv, Local, Reading
<1>11. ActiveInv' /\ QuietInv' /\ CallInv'
    <2>1. active \in Int
        BY <1>1 DEF BatchTypes
    <2>2. ActiveInv'
        BY <1>1, <1>5, <2>1 DEF ActiveInv, InOrder
    <2>3. QuietInv'
        BY <1>1 DEF ReadInv, BatchShape, QuietInv, Reading, Unfinished, Total
    <2> QED
        BY <1>1, <1>2, <2>2, <2>3 DEF CallInv, ReadCall
<1>12. OrderedInv'
    BY <1>1, <1>3, <1>6 DEF OrderedInv, InOrder, Reading
<1> QED
    BY <1>8, <1>9, <1>10, <1>11, <1>12 DEF ReadInv, SourceShape, BatchShape

LEMMA CallbackReads ==
    ASSUME WholeInv, UserCallbackStops \/ UserCallbackReturns
    PROVE  ReadInv'
<1>1. TypesInv /\ BatchTypes /\ StackInv /\ SourceTypes /\ ChunkTypes /\ ReadInv
    BY InvParts DEF WholeInv
<1>2. CASE UserCallbackStops
    <2>1. /\ Stop(calls, allocators) /\ fd' = "closed"
          /\ UNCHANGED <<upload, ready, reads, position, held, active>>
        BY <1>2 DEF UserCallbackStops, Stop, batchVars
    <2> DEFINE out == IF Local /\ ~IsFile THEN buffer ELSE NoData
               c == Call(NoData, out, "end")
    <2>2. calls' = Append(calls, c)
        BY <2>1 DEF Stop
    <2>3. out \in Data
        BY <1>1, NoDataOK DEF ChunkTypes
    <2> HIDE DEF out
    <2>4. c \in CallSet /\ LeftOK(c.left) /\ c.then = "end"
        BY <1>1, <2>3, CallOK, NoDataOK
    <2>5. CallsOK(calls)
        BY <1>1 DEF ChunkTypes
    <2> HIDE DEF c
    <2> QED
        BY <1>1, <2>1, <2>2, <2>4, <2>5, ClosingKept
<1>3. CASE UserCallbackReturns
    <2> DEFINE i == Random!Top.op
               f == Random!Call("fire", 0)
    <2>1. /\ stack # <<>> /\ Random!Top.pc = "userCallback" /\ i \notin failures \ handled
          /\ active' = active - 1 /\ status' = [status EXCEPT ![i] = "complete"]
          /\ stack' = Append(Random!Caller, f) /\ error' = error
          /\ UNCHANGED <<upload, ready, fd, reads, position, sourceEnded, held, calls, handled>>
        BY <1>3, ReturnsInMode DEF UserCallbackReturns, quietVars, sourceVars, Random!Running
    <2>2. i \in 1..Total /\ status[i] # "complete"
        BY <1>1, <2>1, TopFacts DEF FrameOK, Total
    <2>3. f \in Random!Frame /\ f.pc = "fire"
        BY CallIsFrame DEF Random!Pcs, Random!Call
    <2> HIDE DEF i, f
    <2>4. ~Random!Running("fail")'
        BY <1>1, <2>1, <2>3, FrameOnTop DEF Random!Running
    <2>5. Cardinality(Unfinished') = Cardinality(Unfinished) - 1
        <3>1. "complete" \in Random!OperationState
            BY DEF Random!OperationState
        <3> QED
            BY <1>1, <2>1, <2>2, <3>1, StatusCounts
    <2>6. ~ReadCall
        BY <1>1, <2>1 DEF ReadInv, BatchShape, CallInv, CallShape, i
    <2>7. active \in Int
        BY <1>1 DEF BatchTypes
    <2>8. QuietInv'
        <3>1. Cardinality(Unfinished)' = Cardinality(Unfinished')
            OBVIOUS
        <3> QED
            BY <1>1, <2>1, <2>5, <2>7, <3>1 DEF ReadInv, BatchShape, QuietInv, Reading
    <2>9. ActiveInv' /\ CallInv' /\ OrderedInv'
        BY <1>1, <2>1, <2>4, <2>6, <2>7
           DEF ReadInv, BatchShape, ActiveInv, CallInv, OrderedInv, ReadCall, Reading, InOrder,
               Local
    <2>10. SourceShape'
        <3>1. fd # "opening"
            BY <1>1, <2>1 DEF ReadInv, SourceShape, OpeningInv
        <3> QED
            BY <1>1, <2>1, <3>1, SourceShapeKept DEF ReadInv
    <2> QED
        BY <2>8, <2>9, <2>10 DEF ReadInv, BatchShape
<1> QED
    BY <1>2, <1>3

LEMMA ReadStep ==
    ASSUME WholeInv, [Next]_vars
    PROVE  WholeInv'
<1>1. UploadInv' /\ CountsInv' /\ FailedInv'
    BY UploadStep, CountsStep, FailedStep DEF WholeInv
<1>2. CASE Internal
    BY <1>1, <1>2, ChunkReads, ReturnReads, RunReads, RanReads, StepReads, DrainedReads,
       CallbackReads DEF Internal, WholeInv
<1>3. CASE External
    BY <1>1, <1>3, OpenReads, SourceReads, AnswerReads DEF External, WholeInv
<1>4. CASE UNCHANGED vars
    BY <1>1, <1>4, SourceReads DEF WholeInv
<1> QED
    BY <1>2, <1>3, <1>4 DEF Next, Stopped

LEMMA ReadInit ==
    ASSUME Init
    PROVE  WholeInv
<1>1. UploadInv /\ CountsInv
    BY UploadInit, CountsInit
<1>2. /\ reads = <<>> /\ calls = <<>> /\ stack = <<>> /\ status = <<>> /\ error = FALSE
      /\ active = 0 /\ failures = {} /\ handled = {}
      /\ ready = IF Local THEN "yes" ELSE "no"
      /\ fd = IF Local THEN "opening" ELSE "closed"
    BY DEF Init
<1>3. FailedInv
    BY <1>2 DEF FailedInv
<1>4. Len(reads) = 0 /\ Len(calls) = 0
    BY <1>2
<1>5. SourceShape
    BY <1>2, <1>4 DEF SourceShape, OriginInv, KindsInv, OpeningInv, EndedInv, HeldInv, OneRead,
           Reading
<1>6. BatchShape
    BY <1>2 DEF BatchShape, ActiveInv, QuietInv, CallInv, OrderedInv, Reading, ReadCall
<1> QED
    BY <1>1, <1>3, <1>5, <1>6 DEF WholeInv, ReadInv

LEMMA WholeInvariant == Spec => []WholeInv
<1>1. Init => WholeInv
    BY ReadInit
<1>2. WholeInv /\ [Next]_vars => WholeInv'
    BY ReadStep
<1> QED
    BY <1>1, <1>2, PTL DEF Spec

(* A file is read by one read at a time, never where it was read already,   *)
(* whatever pauses and resumes the source: 'drain' of the batch resumes it  *)
(* while the chunks of a read are still emitted, and a failed one stops it. *)
THEOREM UploadReadsOnce == Spec => []OneRead
<1>1. WholeInv => OneRead
    BY DEF WholeInv, ReadInv, SourceShape
<1> QED
    BY <1>1, WholeInvariant, PTL

(***************************************************************************)
(* Control.  In sequence mode the operations before the current one are    *)
(* complete; an operation is added by a call of the chunk stream; a        *)
(* program writes only when no call of the stream is in progress.          *)
(***************************************************************************)
ProgressInv ==
    InOrder => /\ current \in 1..(Total + 1)
               /\ \A i \in 1..Total : status[i] = "complete" <=> i < current

StartInv ==
    \A n \in 1..Len(stack) : Starts(stack[n].pc) =>
        \E m \in 1..Len(calls) : calls[m].height = n - 1

(* What the call of write waits for while its stream is not stopped: its    *)
(* chunk is an operation that starts, or fails at once since another one    *)
(* has failed, and then its user callback stops the stream, unless it has   *)
(* to wait for the operations before it.                                    *)
WriteCall == calls # <<>> /\ calls[1].then = "write"
WriteShape(k, top, failing, busy) ==
    \/ k = 0
    \/ k = 1 /\ Starts(top.pc)
    \/ k = 2 /\ top.pc = "fail"
    \/ k = 3 /\ top.pc \in {"fire", "userCallback"} /\ top.op \in failing
    \/ k = 2 /\ top.pc = "tryDrain" /\ busy
WriteInv ==
    WriteCall /\ ~unpiped =>
        /\ Len(calls) = 1
        /\ WriteShape(Len(stack) - calls[1].height, Random!Top, failures \ handled,
                      InOrder /\ active > 0)
        /\ Len(stack) > calls[1].height => Starts(stack[calls[1].height + 1].pc)

StoppedInv ==
    \A n \in 1..Len(calls) : calls[n].then = "end" /\ ~Local => unpiped \/ sourceEnded

ControlInv == ProgressInv /\ StartInv /\ WriteInv /\ StoppedInv

LEMMA WholeParts ==
    ASSUME WholeInv
    PROVE  /\ UploadInv /\ TypesInv /\ BatchInv /\ HeightInv /\ BatchTypes /\ StackInv
           /\ SourceTypes /\ ChunkTypes /\ ResultTypes /\ CountsInv /\ FailedInv /\ SourceShape
           /\ BatchShape /\ OriginInv /\ KindsInv /\ FailInv
    BY InvParts DEF WholeInv, TypesInv, ReadInv, SourceShape, BatchInv

(* A call of the chunk stream that does not end: it copies or emits.        *)
LEMMA TouchedCalls ==
    ASSUME UploadInv, BuildChunk \/ EmitLost \/ EmitZeros \/ EmitChunk
    PROVE  /\ Calling /\ calls # <<>> /\ calls' # <<>>
           /\ Len(calls') = Len(calls)
           /\ \A n \in 1..Len(calls) : /\ calls'[n].then = calls[n].then
                                       /\ calls'[n].height = calls[n].height
           /\ \A n \in 1..(Len(calls) - 1) : calls'[n] = calls[n]
           /\ UNCHANGED <<upload, ready, sourceVars, failures, handled, stored, committing,
                          answers>>
<1>1. TypesInv /\ HeightInv
    BY InvParts
<1>2. Calling /\ calls # <<>>
    BY <1>1, HeightFacts DEF BuildChunk, EmitLost, EmitZeros, EmitChunk, Emitting
<1>3. Len(calls) \in Nat \ {0} /\ Top = calls[Len(calls)]
    BY <1>1, <1>2, TopCallFacts
<1>4. \E left, out : LeftOK(left) /\ out \in Data /\ calls' = TopWith(left, out)
    <2>1. CASE BuildChunk
        BY <1>1, <2>1, BuildTypes
    <2>2. CASE EmitLost \/ EmitZeros \/ EmitChunk
        <3>1. calls' = TopWith(Top.left, NoData)
            BY <2>2 DEF EmitLost, EmitZeros, EmitChunk, Emitted
        <3>2. LeftOK(Top.left) /\ NoData \in Data
            BY <1>1, <1>2, TopCallFacts, NoDataOK DEF TypesInv
        <3> QED
            BY <3>1, <3>2
    <2> QED
        BY <2>1, <2>2
<1>5. PICK left, out : LeftOK(left) /\ out \in Data /\ calls' = TopWith(left, out)
    BY <1>4
<1>6. /\ Len(TopWith(left, out)) = Len(calls) /\ TopWith(left, out) # <<>>
      /\ \A n \in 1..(Len(calls) - 1) : TopWith(left, out)[n] = calls[n]
      /\ TopWith(left, out)[Len(calls)] =
            [height |-> Top.height, left |-> left, out |-> out, then |-> Top.then]
    BY <1>1, <1>2, <1>5, TopWithOK
<1>7. /\ calls' # <<>> /\ Len(calls') = Len(calls)
      /\ \A n \in 1..(Len(calls) - 1) : calls'[n] = calls[n]
      /\ calls'[Len(calls)].then = Top.then /\ calls'[Len(calls)].height = Top.height
    BY <1>5, <1>6
<1>8. \A n \in 1..Len(calls) : /\ calls'[n].then = calls[n].then
                               /\ calls'[n].height = calls[n].height
    BY <1>3, <1>7
<1>9. UNCHANGED <<upload, ready, sourceVars, failures, handled, stored, committing, answers>>
    BY DEF BuildChunk, EmitLost, EmitZeros, EmitChunk, Others, resultVars
<1> QED
    BY <1>2, <1>7, <1>8, <1>9

(* The stream is stopped: a call of end is made above the others.           *)
LEMMA StoppedCalls ==
    ASSUME UploadInv, EmitBeyond \/ UserCallbackStops
    PROVE  /\ Len(calls') = Len(calls) + 1 /\ Len(calls) \in Nat
           /\ \A n \in 1..Len(calls) : /\ calls'[n].then = calls[n].then
                                       /\ calls'[n].height = calls[n].height
                                       /\ calls'[n].left = calls[n].left
                                       /\ n < Len(calls) \/ UserCallbackStops => calls'[n] = calls[n]
                                       /\ EmitBeyond /\ n = Len(calls) => calls'[n].out = NoData
           /\ calls'[Len(calls) + 1] =
                 Call(NoData, IF Local /\ ~IsFile THEN buffer ELSE NoData, "end")
           /\ buffer' = IF Local /\ ~IsFile THEN NoData ELSE buffer
           /\ unpiped' = ~Local /\ fd' = "closed"
           /\ sourceEnded' = (sourceEnded \/ (Local /\ IsFile))
           /\ UNCHANGED <<batchVars, upload, ready, reads, position, held, awaiting, assigned,
                          failures, resultVars>>
<1>1. TypesInv /\ HeightInv
    BY InvParts
<1> DEFINE s == IF EmitBeyond THEN Emitted ELSE calls
           c == Call(NoData, IF Local /\ ~IsFile THEN buffer ELSE NoData, "end")
<1>2. /\ calls' = Append(s, c) /\ unpiped' = ~Local /\ fd' = "closed"
      /\ buffer' = IF Local /\ ~IsFile THEN NoData ELSE buffer
      /\ sourceEnded' = (sourceEnded \/ (Local /\ IsFile))
      /\ UNCHANGED <<batchVars, upload, ready, reads, position, held, awaiting, assigned,
                          failures, resultVars>>
    <2>1. CASE EmitBeyond
        BY <2>1 DEF EmitBeyond, Stop, Others
    <2>2. CASE UserCallbackStops /\ ~EmitBeyond
        BY <2>2 DEF UserCallbackStops, Stop
    <2> QED
        BY <2>1, <2>2
<1>3. CASE EmitBeyond
    <2>1. Emitting /\ s = Emitted
        BY <1>3 DEF EmitBeyond
    <2>2. /\ Len(calls) \in Nat \ {0} /\ Top = calls[Len(calls)] /\ calls # <<>>
          /\ LeftOK(Top.left) /\ NoData \in Data
        BY <1>1, <2>1, HeightFacts, TopCallFacts, NoDataOK DEF Emitting, TypesInv
    <2>3. /\ CallsOK(s) /\ Len(s) = Len(calls)
          /\ \A n \in 1..(Len(calls) - 1) : s[n] = calls[n]
          /\ s[Len(calls)] =
               [height |-> Top.height, left |-> Top.left, out |-> NoData, then |-> Top.then]
        BY <1>1, <2>1, <2>2, TopWithOK DEF Emitted
    <2>4. /\ Len(calls') = Len(calls) + 1 /\ calls'[Len(calls) + 1] = c
          /\ \A n \in 1..Len(calls) : calls'[n] = s[n]
        <3>1. s \in Seq(CallSet)
            BY <2>3 DEF CallsOK
        <3> HIDE DEF s, c
        <3> QED
            BY <1>2, <2>3, <3>1
    <2>5. ~UserCallbackStops
        BY <1>3, <1>1, HeightFacts DEF EmitBeyond, Emitting, UserCallbackStops
    <2>6. \A n \in 1..Len(calls) : /\ s[n].then = calls[n].then
                                   /\ s[n].height = calls[n].height
                                   /\ s[n].left = calls[n].left
                                   /\ n < Len(calls) => s[n] = calls[n]
                                   /\ n = Len(calls) => s[n].out = NoData
        BY <2>2, <2>3
    <2> HIDE DEF s
    <2> QED
        BY <1>2, <2>2, <2>4, <2>5, <2>6
<1>4. CASE UserCallbackStops /\ ~EmitBeyond
    <2>1. s = calls
        BY <1>4
    <2>2. calls \in Seq(CallSet) /\ Len(calls) \in Nat
        BY <1>1 DEF TypesInv, ChunkTypes, CallsOK
    <2>3. /\ Len(calls') = Len(calls) + 1 /\ calls'[Len(calls) + 1] = c
          /\ \A n \in 1..Len(calls) : calls'[n] = calls[n]
        <3> HIDE DEF c
        <3> QED
            BY <1>2, <2>1, <2>2
    <2> QED
        BY <1>2, <1>4, <2>2, <2>3
<1> QED
    BY <1>3, <1>4

(* A call of the chunk stream returns.                                      *)
LEMMA ReturnedCalls ==
    ASSUME UploadInv, NEW then, Returning(then)
    PROVE  /\ Calling /\ calls # <<>> /\ Top = calls[Len(calls)] /\ Top.then = then
           /\ Top.height = Len(stack)
           /\ Len(calls) \in Nat \ {0} /\ Len(calls') = Len(calls) - 1
           /\ \A n \in 1..(Len(calls) - 1) : calls'[n] = calls[n]
<1>1. TypesInv /\ HeightInv /\ Calling
    BY InvParts DEF Returning
<1>2. calls # <<>> /\ Top.height = Len(stack)
    BY <1>1, HeightFacts
<1> QED
    BY <1>1, <1>2, TopCallFacts DEF Returning

LEMMA StoppedStep ==
    ASSUME WholeInv, StoppedInv, [Next]_vars
    PROVE  StoppedInv'
<1>1. UploadInv /\ OriginInv /\ Len(calls) \in Nat
    BY WholeParts, CallKinds
<1>2. CASE UNCHANGED <<upload, calls, unpiped, sourceEnded>>
    BY <1>2 DEF StoppedInv, Local
<1>3. CASE BuildChunk \/ EmitLost \/ EmitZeros \/ EmitChunk
    BY <1>1, <1>3, TouchedCalls DEF StoppedInv, Local, sourceVars
<1>4. CASE EmitBeyond \/ UserCallbackStops
    BY <1>1, <1>4, StoppedCalls DEF StoppedInv, Local
<1>5. ASSUME NEW then, Returning(then), UNCHANGED <<upload, unpiped, sourceEnded>>
      PROVE  StoppedInv'
    BY <1>1, <1>5, ReturnedCalls DEF StoppedInv, Local
<1>6. CASE ReadEmits \/ PipeWrites \/ ReadEnds \/ PipeEnds
    <2>1. CASE ReadEmits \/ ReadEnds
        <3>1. reads # <<>> /\ upload' = upload
            BY <2>1 DEF ReadEmits, ReadEnds, ReadGets, Others
        <3>2. Local'
            BY <1>1, <3>1 DEF OriginInv, Local
        <3> QED
            BY <3>2 DEF StoppedInv
    <2>2. CASE PipeEnds
        BY <2>2 DEF PipeEnds, StoppedInv
    <2>3. CASE PipeWrites
        <3>1. PICK c : calls' = Append(calls, c) /\ c.then = "write"
            BY <2>3 DEF PipeWrites, Call
        <3>2. calls \in Seq(CallSet)
            BY <1>1, InvParts, CallKinds
        <3>3. UNCHANGED <<upload, unpiped, sourceEnded>>
            BY <2>3 DEF PipeWrites, Others
        <3> QED
            BY <3>1, <3>2, <3>3 DEF StoppedInv, Local
    <2> QED
        BY <1>6, <2>1, <2>2, <2>3
<1>7. CASE ReadReturns \/ WriteReturns \/ EndReturns
    BY <1>5, <1>7 DEF ReadReturns, WriteReturns, EndReturns, Others, sourceVars
<1>8. CASE DestinationReady \/ FileOpens \/ FileOpenFails \/ ReadFails \/ CommitDone
            \/ \E i \in 1..Total, failed \in BOOLEAN : RequestDone(i, failed)
    BY <1>2, <1>8 DEF DestinationReady, FileOpens, FileOpenFails, ReadFails, CommitDone,
       RequestDone, Others, sourceVars, chunkVars
<1>9. CASE BatchRuns \/ Ran \/ BatchSteps \/ Drain \/ UserCallbackReturns \/ End
    BY <1>2, <1>9 DEF BatchRuns, Ran, RanThen, BatchSteps, Drain, DrainThen, UserCallbackReturns,
       End, quietVars, sourceVars, chunkVars
<1>10. CASE UNCHANGED vars
    BY <1>2, <1>10 DEF vars, sourceVars, chunkVars
<1> QED
    BY <1>3, <1>4, <1>6, <1>7, <1>8, <1>9, <1>10
       DEF Next, Internal, External, Emission, Stopped

LEMMA ProgressStep ==
    ASSUME WholeInv, ProgressInv, [Next]_vars
    PROVE  ProgressInv'
<1>1. /\ UploadInv /\ BatchTypes /\ StackInv /\ Total \in Nat /\ current \in Int
      /\ status \in Seq(Random!OperationState) /\ Total = Len(status)
    BY WholeParts, TotalFacts DEF BatchTypes
<1>2. CASE UNCHANGED <<upload, current, status>>
    BY <1>2 DEF ProgressInv, Total, InOrder
<1>3. ASSUME NEW i \in 1..Total, NEW state \in Random!OperationState \ {"complete"},
             status[i] # "complete", UNCHANGED <<upload, current>>,
             status' = [status EXCEPT ![i] = state]
      PROVE  ProgressInv'
    <2>1. Len(status') = Len(status)
          /\ \A n \in 1..Total : status'[n] = IF n = i THEN state ELSE status[n]
        BY <1>1, <1>3, OverwriteSeq
    <2> QED
        BY <1>1, <1>3, <2>1 DEF ProgressInv, Total, InOrder
<1>4. CASE EmitChunk
    <2>1. status' = Append(status, "queued") /\ UNCHANGED <<upload, current>>
        BY <1>4 DEF EmitChunk, Random!AddOperation, Random!AddOperationAs
    <2>2. "queued" \in Random!OperationState
        BY DEF Random!OperationState
    <2>3. /\ Len(status') = Len(status) + 1 /\ status'[Len(status) + 1] = "queued"
          /\ \A n \in 1..Len(status) : status'[n] = status[n]
        BY <1>1, <2>1, <2>2, PushCall
    <2> QED
        BY <1>1, <2>1, <2>3 DEF ProgressInv, Total, InOrder
<1>5. CASE BatchRuns
    <2>1. CASE Random!RunAfterError
        BY <1>2, <1>5, <2>1 DEF BatchRuns, quietVars, Random!RunAfterError, Random!batch
    <2>2. CASE Random!RunRequest
        <3>1. /\ status' = [status EXCEPT ![Random!Top.op] = "running"]
              /\ stack # <<>> /\ Random!Top.pc = "run" /\ UNCHANGED <<upload, current>>
            BY <1>5, <2>2 DEF BatchRuns, quietVars, Random!RunRequest, Random!Running
        <3>2. Random!Top.op \in 1..Total /\ status[Random!Top.op] = "queued"
            BY <1>1, <3>1, TopFacts DEF FrameOK
        <3> QED
            BY <1>3, <3>1, <3>2 DEF Random!OperationState
    <2> QED
        BY <1>5, <2>1, <2>2 DEF BatchRuns
<1>6. CASE BatchSteps
    <2>1. upload' = upload
        BY <1>6 DEF BatchSteps, quietVars
    <2>2. CASE Mode(Random!BatchOperationCallback, Ordered!BatchOperationCallback)
        <3> DEFINE state == IF ~InOrder /\ Random!Running("fail") THEN "error" ELSE "callback"
        <3>1. /\ stack # <<>> /\ Random!Top.pc \in {"succeed", "fail"}
              /\ status' = [status EXCEPT ![Random!Top.op] = state] /\ current' = current
            <4>1. paused = FALSE
                BY <1>1 DEF BatchTypes
            <4> QED
                BY <2>2, <4>1, SettlesInMode DEF Random!Running
        <3>2. Random!Top.op \in 1..Total /\ status[Random!Top.op] \in {"queued", "running"}
            BY <1>1, <3>1, TopFacts DEF FrameOK
        <3>3. state \in Random!OperationState \ {"complete"}
            BY DEF Random!OperationState
        <3> HIDE DEF state
        <3> QED
            BY <1>3, <2>1, <3>1, <3>2, <3>3
    <2>3. CASE UNCHANGED Random!batch
        BY <1>2, <2>1, <2>3 DEF Random!batch
    <2>4. CASE Random!EmitEnd
        BY <1>2, <2>1, <2>4 DEF Random!EmitEnd
    <2> QED
        BY <1>6, <2>2, <2>3, <2>4, FiresInMode, NothingInMode, NoDrainInMode
           DEF BatchSteps, Random!NotComplete, Random!ListenerReturns
<1>7. CASE UserCallbackReturns
    <2>1. /\ Mode(Random!UserCallbackReturns, Ordered!UserCallbackReturns) /\ upload' = upload
        BY <1>7 DEF UserCallbackReturns, quietVars
    <2>2. /\ stack # <<>> /\ Random!Top.pc = "userCallback"
          /\ status' = [status EXCEPT ![Random!Top.op] = "complete"]
          /\ current' = IF InOrder THEN current + 1 ELSE current
        BY <2>1, ReturnsInMode DEF Random!Running
    <2>3. /\ Random!Top.op \in 1..Total /\ status[Random!Top.op] # "complete"
          /\ InOrder => Random!Top.op = current
        BY <1>1, <2>2, TopFacts DEF FrameOK, Turn
    <2>4. "complete" \in Random!OperationState
        BY DEF Random!OperationState
    <2>5. Len(status') = Len(status)
          /\ \A n \in 1..Total : status'[n] = IF n = Random!Top.op THEN "complete" ELSE status[n]
        BY <1>1, <2>2, <2>4, OverwriteSeq
    <2> QED
        BY <1>1, <2>1, <2>2, <2>3, <2>5 DEF ProgressInv, Total, InOrder
<1>8. CASE Drain
    BY <1>2, <1>8, DrainInMode DEF Drain, DrainThen, Random!batch, quietVars
<1>9. CASE UserCallbackStops
    BY <1>2, <1>9 DEF UserCallbackStops, batchVars
<1>10. CASE Ran \/ End
    BY <1>2, <1>10 DEF Ran, RanThen, End, Random!Ran, Random!ListenerReturns, Random!batch,
       quietVars
<1>11. CASE EndReturns
    BY <1>2, <1>11 DEF EndReturns, Random!EnableComplete, Others, batchVars
<1>12. ASSUME NEW i \in 1..Total, NEW failed \in BOOLEAN, RequestDone(i, failed)
       PROVE  ProgressInv'
    BY <1>2, <1>12 DEF RequestDone, Random!RequestDone, Random!RequestDoneIn, Random!batch
<1>13. CASE UNCHANGED <<batchVars, upload>>
    BY <1>2, <1>13 DEF batchVars
<1>14. CASE Internal
    BY <1>4, <1>5, <1>6, <1>7, <1>8, <1>9, <1>10, <1>11, <1>13, <1>14
       DEF Internal, BuildChunk, Emission, EmitLost, EmitBeyond, EmitZeros, ReadReturns,
           WriteReturns, Others
<1>15. CASE External
    BY <1>12, <1>13, <1>15
       DEF External, FileOpens, FileOpenFails, ReadEmits, ReadEnds, ReadFails, PipeWrites,
           PipeEnds, DestinationReady, CommitDone, Others
<1> QED
    BY <1>13, <1>14, <1>15 DEF Next, Stopped, vars

(* The innermost call of the batch makes way: what starts an operation now  *)
(* is what started one before, at the same height.                          *)
LEMMA StartsBelow ==
    ASSUME StartInv, Len(stack) \in Nat, stack # <<>>, Len(stack') \in Nat,
           \A n \in 1..(Len(stack) - 1) : stack'[n] = stack[n],
           \A n \in Len(stack)..Len(stack') : Starts(stack'[n].pc) =>
               n = Len(stack) /\ Starts(Random!Top.pc),
           Len(calls) \in Nat, Len(calls') \in Nat, Len(calls') >= Len(calls),
           \A m \in 1..Len(calls) : calls'[m].height = calls[m].height
    PROVE  StartInv'
<1>2. ASSUME NEW n \in 1..Len(stack'), Starts(stack'[n].pc)
      PROVE  n \in 1..Len(stack) /\ Starts(stack[n].pc)
    <2>1. CASE n < Len(stack)
        BY <1>2, <2>1
    <2>2. CASE n >= Len(stack)
        <3>1. Len(stack) > 0
            BY EmptySeq
        <3> QED
            BY <1>2, <2>2, <3>1 DEF Random!Top
    <2> QED
        BY <2>1, <2>2
<1>3. ASSUME NEW n \in 1..Len(stack'), Starts(stack'[n].pc)
      PROVE  \E m \in 1..Len(calls') : calls'[m].height = n - 1
    <2>1. PICK m \in 1..Len(calls) : calls[m].height = n - 1
        BY <1>2, <1>3 DEF StartInv
    <2>2. m \in 1..Len(calls') /\ calls'[m].height = n - 1
        BY <2>1
    <2> QED
        BY <2>2
<1> QED
    BY <1>3 DEF StartInv

(* How the stack of the batch changes.                                      *)
LEMMA ReplacedTop ==
    ASSUME BatchTypes, StackInv, stack # <<>>
    PROVE  /\ Len(stack) \in Nat \ {0} /\ Random!Top = stack[Len(stack)]
           /\ stack' = Random!Caller =>
                 /\ Len(stack') = Len(stack) - 1
                 /\ \A n \in 1..(Len(stack) - 1) : stack'[n] = stack[n]
           /\ \A f \in Random!Frame : stack' = Append(Random!Caller, f) =>
                 /\ Len(stack') = Len(stack) /\ stack' # <<>>
                 /\ \A n \in 1..(Len(stack) - 1) : stack'[n] = stack[n]
                 /\ stack'[Len(stack)] = f /\ Random!Top' = f
           /\ \A f, g \in Random!Frame : stack' = Append(Append(Random!Caller, f), g) =>
                 /\ Len(stack') = Len(stack) + 1 /\ stack' # <<>>
                 /\ \A n \in 1..(Len(stack) - 1) : stack'[n] = stack[n]
                 /\ stack'[Len(stack)] = f /\ stack'[Len(stack) + 1] = g /\ Random!Top' = g
<1>1. /\ Len(stack) \in Nat \ {0} /\ Random!Top = stack[Len(stack)]
      /\ Random!Caller \in Seq(Random!Frame) /\ Len(Random!Caller) = Len(stack) - 1
      /\ \A n \in 1..(Len(stack) - 1) : Random!Caller[n] = stack[n]
    BY TopFacts DEF Random!Top
<1> DEFINE s == Random!Caller
<1>2. /\ s \in Seq(Random!Frame) /\ Len(s) = Len(stack) - 1
      /\ \A n \in 1..(Len(stack) - 1) : s[n] = stack[n]
    BY <1>1
<1> HIDE DEF s
<1>3. ASSUME NEW f \in Random!Frame
      PROVE  /\ Append(s, f) \in Seq(Random!Frame) /\ Append(s, f) # <<>>
             /\ Len(Append(s, f)) = Len(stack)
             /\ \A n \in 1..(Len(stack) - 1) : Append(s, f)[n] = stack[n]
             /\ Append(s, f)[Len(stack)] = f
    <2>1. /\ Append(s, f) \in Seq(Random!Frame) /\ Append(s, f) # <<>>
          /\ Len(Append(s, f)) = Len(s) + 1
          /\ \A n \in 1..Len(s) : Append(s, f)[n] = s[n]
          /\ Append(s, f)[Len(s) + 1] = f
        BY <1>2, PushCall
    <2> QED
        BY <1>1, <1>2, <2>1
<1>4. ASSUME NEW f \in Random!Frame, NEW g \in Random!Frame
      PROVE  /\ Append(Append(s, f), g) # <<>>
             /\ Len(Append(Append(s, f), g)) = Len(stack) + 1
             /\ \A n \in 1..(Len(stack) - 1) : Append(Append(s, f), g)[n] = stack[n]
             /\ Append(Append(s, f), g)[Len(stack)] = f
             /\ Append(Append(s, f), g)[Len(stack) + 1] = g
    <2> DEFINE t == Append(s, f)
    <2>1. /\ t \in Seq(Random!Frame) /\ Len(t) = Len(stack) /\ t[Len(stack)] = f
          /\ \A n \in 1..(Len(stack) - 1) : t[n] = stack[n]
        BY <1>3
    <2> HIDE DEF t
    <2>2. /\ Append(t, g) # <<>> /\ Len(Append(t, g)) = Len(t) + 1
          /\ \A n \in 1..Len(t) : Append(t, g)[n] = t[n]
          /\ Append(t, g)[Len(t) + 1] = g
        BY <2>1, PushCall
    <2>3. Len(stack) \in 1..Len(t) /\ \A n \in 1..(Len(stack) - 1) : n \in 1..Len(t)
        BY <1>1, <2>1
    <2>4. /\ Append(t, g) # <<>>
          /\ Len(Append(t, g)) = Len(stack) + 1
          /\ \A n \in 1..(Len(stack) - 1) : Append(t, g)[n] = stack[n]
          /\ Append(t, g)[Len(stack)] = f
          /\ Append(t, g)[Len(stack) + 1] = g
        BY <2>1, <2>2, <2>3
    <2> QED
        BY <2>4 DEF t
<1>5. stack' = s => /\ Len(stack') = Len(stack) - 1
                    /\ \A n \in 1..(Len(stack) - 1) : stack'[n] = stack[n]
    BY <1>2
<1>6. \A f \in Random!Frame : stack' = Append(s, f) =>
          /\ Len(stack') = Len(stack) /\ stack' # <<>>
          /\ \A n \in 1..(Len(stack) - 1) : stack'[n] = stack[n]
          /\ stack'[Len(stack)] = f /\ Random!Top' = f
    BY <1>3 DEF Random!Top
<1>7. \A f, g \in Random!Frame : stack' = Append(Append(s, f), g) =>
          /\ Len(stack') = Len(stack) + 1 /\ stack' # <<>>
          /\ \A n \in 1..(Len(stack) - 1) : stack'[n] = stack[n]
          /\ stack'[Len(stack)] = f /\ stack'[Len(stack) + 1] = g /\ Random!Top' = g
    BY <1>1, <1>4 DEF Random!Top
<1> QED
    BY <1>1, <1>5, <1>6, <1>7 DEF s

LEMMA Pcs ==
    /\ \A pc \in Random!Pcs, op \in Nat :
          Random!Call(pc, op) \in Random!Frame /\ Random!Call(pc, op).pc = pc
             /\ Random!Call(pc, op).op = op
    /\ \A pc \in {"run", "ran", "succeed", "fail", "fire", "userCallback",
                  "tryEnd", "tryDrain", "onEnd", "onDrain"} : pc \in Random!Pcs
<1>1. \A pc \in Random!Pcs, op \in Nat : Random!Call(pc, op) \in Random!Frame
    BY CallIsFrame
<1> QED
    BY <1>1 DEF Random!Call, Random!Pcs

(* What the steps of the batch do to its stack.                             *)
LEMMA StepStacks ==
    ASSUME BatchTypes, StackInv, BatchSteps
    PROVE  /\ stack # <<>> /\ ~Calling
           /\ \/ /\ Mode(Random!BatchOperationCallback, Ordered!BatchOperationCallback)
                 /\ Random!Top.pc \in {"succeed", "fail"}
              \/ /\ Mode(Random!FireUserCallback, Ordered!FireUserCallback)
                 /\ Random!Top.pc = "fire"
              \/ /\ Random!Top.pc = "fire" /\ Random!Top.op = 0
                 /\ stack' = Append(Random!Caller, Random!Call("tryEnd", 0))
                 /\ UNCHANGED <<Random!batch, endings>>
              \/ /\ Random!Top.pc = "tryDrain" /\ stack' = Random!Caller
                 /\ UNCHANGED <<Random!batch, endings>>
              \/ /\ Random!Top.pc = "tryEnd" /\ Random!Complete
                 /\ stack' = Append(Random!Caller, Random!Call("onEnd", 0))
                 /\ UNCHANGED <<status, operations, current, active, queued, paused, error,
                                completing>>
              \/ /\ Random!Top.pc = "tryEnd"
                 /\ stack' = Append(Random!Caller, Random!Call("tryDrain", 0))
                 /\ UNCHANGED <<Random!batch, endings>>
              \/ /\ Random!Top.pc = "onDrain" /\ stack' = Random!Caller
                 /\ UNCHANGED <<Random!batch, endings>>
           /\ UNCHANGED <<quietVars, sourceVars, allocators, failures, handled>>
<1>1. ~Calling /\ UNCHANGED <<quietVars, sourceVars, allocators, failures, handled>>
    BY DEF BatchSteps
<1>2. CASE Mode(Random!BatchOperationCallback, Ordered!BatchOperationCallback)
    <2>1. paused = FALSE
        BY DEF BatchTypes
    <2> QED
        BY <1>1, <1>2, <2>1, SettlesInMode DEF Random!Running
<1>3. CASE Mode(Random!FireUserCallback, Ordered!FireUserCallback)
    <2>1. stack # <<>> /\ Random!Top.pc = "fire"
        BY <1>3, FiresInMode DEF Random!Running
    <2> QED
        BY <1>1, <1>3, <2>1
<1>4. CASE Mode(Random!FireNothing, Ordered!FireNothing)
    BY <1>1, <1>4, NothingInMode DEF Random!Running
<1>5. CASE Mode(Random!NoDrain, Ordered!NoDrain)
    BY <1>1, <1>5, NoDrainInMode DEF Random!Running
<1>6. CASE Random!EmitEnd
    BY <1>1, <1>6 DEF Random!EmitEnd, Random!Running
<1>7. CASE Random!NotComplete
    BY <1>1, <1>7 DEF Random!NotComplete, Random!Running
<1>8. CASE Random!Running("onDrain") /\ Random!ListenerReturns
    BY <1>1, <1>8 DEF Random!ListenerReturns, Random!Running
<1> QED
    BY <1>2, <1>3, <1>4, <1>5, <1>6, <1>7, <1>8 DEF BatchSteps

(* The settling of an operation, whether it is fired at once or not.        *)
LEMMA SettleStacks ==
    ASSUME BatchTypes, StackInv,
           Mode(Random!BatchOperationCallback, Ordered!BatchOperationCallback)
    PROVE  /\ stack # <<>> /\ Random!Top.pc \in {"succeed", "fail"}
           /\ Random!Top.op \in 1..Total /\ status[Random!Top.op] \in {"queued", "running"}
           /\ stack' # <<>>
           /\ \A n \in 1..(Len(stack) - 1) : stack'[n] = stack[n]
           /\ stack'[Len(stack)] = Random!Call("tryDrain", 0)
           /\ \/ /\ InOrder /\ current # Random!Top.op
                 /\ Len(stack') = Len(stack) /\ Random!Top' = Random!Call("tryDrain", 0)
              \/ /\ Len(stack') = Len(stack) + 1
                 /\ stack'[Len(stack) + 1] = Random!Call("fire", Random!Top.op)
                 /\ Random!Top' = Random!Call("fire", Random!Top.op)
           /\ active' = active
           /\ error' = (error \/ Random!Top.pc = "fail")
           /\ completing' = completing /\ current' = current
           /\ \A n \in 1..Total : status'[n] = IF n = Random!Top.op
                 THEN IF ~InOrder /\ Random!Top.pc = "fail" THEN "error" ELSE "callback"
                 ELSE status[n]
           /\ Len(status') = Total
<1>1. paused = FALSE
    BY DEF BatchTypes
<1>2. /\ stack # <<>> /\ Random!Top.pc \in {"succeed", "fail"}
      /\ error' = (error \/ Random!Top.pc = "fail")
      /\ status' = [status EXCEPT ![Random!Top.op] =
                        IF ~InOrder /\ Random!Top.pc = "fail" THEN "error" ELSE "callback"]
      /\ stack' = IF InOrder /\ current # Random!Top.op
                  THEN Append(Random!Caller, Random!Call("tryDrain", 0))
                  ELSE Append(Append(Random!Caller, Random!Call("tryDrain", 0)),
                              Random!Call("fire", Random!Top.op))
      /\ UNCHANGED <<current, active, completing>>
    BY <1>1, SettlesInMode DEF Random!Running
<1>3. Random!Top.op \in 1..Total /\ status[Random!Top.op] \in {"queued", "running"}
    BY <1>2, TopFacts DEF FrameOK, Total
<1> DEFINE f == Random!Call("tryDrain", 0)
           g == Random!Call("fire", Random!Top.op)
           state == IF ~InOrder /\ Random!Top.pc = "fail" THEN "error" ELSE "callback"
<1>4. f \in Random!Frame /\ g \in Random!Frame
    BY <1>3, Pcs, TotalFacts
<1>5. state \in Random!OperationState /\ status \in Seq(Random!OperationState)
    BY DEF Random!OperationState, BatchTypes
<1>6. \/ stack' = Append(Random!Caller, f) /\ InOrder /\ current # Random!Top.op
      \/ stack' = Append(Append(Random!Caller, f), g)
    BY <1>2
<1> HIDE DEF f, g, state
<1>7. /\ stack' # <<>>
      /\ \A n \in 1..(Len(stack) - 1) : stack'[n] = stack[n]
      /\ stack'[Len(stack)] = f
      /\ \/ /\ InOrder /\ current # Random!Top.op
            /\ Len(stack') = Len(stack) /\ Random!Top' = f
         \/ /\ Len(stack') = Len(stack) + 1 /\ stack'[Len(stack) + 1] = g /\ Random!Top' = g
    BY <1>2, <1>4, <1>6, ReplacedTop
<1>8. /\ Len(status') = Total
      /\ \A n \in 1..Total : status'[n] = IF n = Random!Top.op THEN state ELSE status[n]
    <2>1. status' = [status EXCEPT ![Random!Top.op] = state]
        BY <1>2 DEF state
    <2> QED
        BY <1>5, <2>1, OverwriteSeq DEF Total
<1>9. \A n \in 1..Total : status'[n] = IF n = Random!Top.op
                 THEN IF ~InOrder /\ Random!Top.pc = "fail" THEN "error" ELSE "callback"
                 ELSE status[n]
    BY <1>8 DEF state
<1>10. stack'[Len(stack)] = Random!Call("tryDrain", 0)
    BY <1>7 DEF f
<1>11. \/ /\ InOrder /\ current # Random!Top.op
          /\ Len(stack') = Len(stack) /\ Random!Top' = Random!Call("tryDrain", 0)
       \/ /\ Len(stack') = Len(stack) + 1
          /\ stack'[Len(stack) + 1] = Random!Call("fire", Random!Top.op)
          /\ Random!Top' = Random!Call("fire", Random!Top.op)
    BY <1>7 DEF f, g
<1> QED
    BY <1>2, <1>3, <1>7, <1>8, <1>9, <1>10, <1>11

LEMMA FireStacks ==
    ASSUME BatchTypes, StackInv, Mode(Random!FireUserCallback, Ordered!FireUserCallback)
    PROVE  /\ stack # <<>> /\ Random!Top.pc = "fire"
           /\ stack' # <<>> /\ Len(stack') = Len(stack)
           /\ \A n \in 1..(Len(stack) - 1) : stack'[n] = stack[n]
           /\ stack'[Len(stack)] = Random!Top' /\ Random!Top'.pc = "userCallback"
           /\ Random!Top.op # 0 => Random!Top'.op = Random!Top.op
           /\ UNCHANGED <<Random!batch, waiting, endings>>
<1> DEFINE i == IF Random!Top.op # 0 \/ NextIndex = 0 THEN Random!Top.op ELSE operations[NextIndex]
           f == [pc |-> "userCallback", op |-> i, index |-> NextIndex]
<1>1. /\ stack # <<>> /\ Random!Top.pc = "fire" /\ stack' = Append(Random!Caller, f)
      /\ UNCHANGED <<Random!batch, waiting, endings>>
    BY FiresInMode DEF Random!Running
<1>2. NextIndex \in Nat /\ (NextIndex # 0 => operations[NextIndex] \in 1..Total) /\ Total \in Nat
    BY NextIndexFacts, TotalFacts
<1>3. i \in Nat
    BY <1>1, <1>2, TopFacts
<1>4. f \in Random!Frame /\ f.pc = "userCallback" /\ (Random!Top.op # 0 => f.op = Random!Top.op)
    BY <1>2, <1>3, Pcs DEF Random!Frame
<1> HIDE DEF f
<1>5. /\ Len(stack') = Len(stack) /\ stack' # <<>>
      /\ \A n \in 1..(Len(stack) - 1) : stack'[n] = stack[n]
      /\ stack'[Len(stack)] = f /\ Random!Top' = f
    BY <1>1, <1>4, ReplacedTop
<1> QED
    BY <1>1, <1>4, <1>5

(* The other steps of the batch.                                            *)
LEMMA RunStacks ==
    ASSUME WholeInv, BatchRuns
    PROVE  /\ stack # <<>> /\ ~Calling /\ calls' = calls /\ Random!Top.pc = "run"
           /\ Random!Top.op \in 1..Total /\ status[Random!Top.op] = "queued"
           /\ \A n \in 1..(Len(stack) - 1) : stack'[n] = stack[n]
           /\ stack'[Len(stack)].pc = "ran" /\ stack' # <<>>
           /\ \/ /\ Len(stack') = Len(stack) /\ Random!Top'.pc = "ran" /\ ~error
                 /\ Random!RunRequest /\ failures' = failures
                 /\ status' = [status EXCEPT ![Random!Top.op] = "running"]
              \/ /\ Len(stack') = Len(stack) + 1 /\ error
                 /\ Random!RunAfterError /\ failures' = failures \cup {Random!Top.op}
                 /\ stack'[Len(stack) + 1].pc = "fail" /\ Random!Top'.pc = "fail"
                 /\ status' = status
           /\ UNCHANGED <<operations, current, active, error, completing, handled, quietVars,
                          sourceVars, allocators>>
<1>1. BatchTypes /\ StackInv
    BY WholeParts
<1> DEFINE f == Random!Call("ran", Random!Top.op)
           g == Random!Call("fail", Random!Top.op)
<1>2. /\ stack # <<>> /\ Random!Top.pc = "run" /\ ~Calling /\ calls' = calls
      /\ \/ /\ stack' = Append(Random!Caller, f) /\ ~error /\ failures' = failures
            /\ status' = [status EXCEPT ![Random!Top.op] = "running"] /\ Random!RunRequest
         \/ /\ stack' = Append(Append(Random!Caller, f), g) /\ error
            /\ status' = status /\ Random!RunAfterError
            /\ failures' = failures \cup {Random!Top.op}
      /\ UNCHANGED <<operations, current, active, error, completing, handled, quietVars,
                     sourceVars, allocators>>
    BY DEF BatchRuns, Random!RunRequest, Random!RunAfterError, Random!Running, Random!batch,
       quietVars
<1>3. /\ f \in Random!Frame /\ g \in Random!Frame /\ f.pc = "ran" /\ g.pc = "fail"
      /\ Random!Top.op \in 1..Total /\ status[Random!Top.op] = "queued"
    BY <1>1, <1>2, TopFacts, Pcs DEF FrameOK, Total
<1> HIDE DEF f, g
<1>4. CASE stack' = Append(Random!Caller, f)
    <2>1. /\ Len(stack') = Len(stack) /\ stack' # <<>>
          /\ \A n \in 1..(Len(stack) - 1) : stack'[n] = stack[n]
          /\ stack'[Len(stack)] = f /\ Random!Top' = f
        BY <1>1, <1>2, <1>3, <1>4, ReplacedTop
    <2>2. stack' # Append(Append(Random!Caller, f), g)
        <3>1. ASSUME stack' = Append(Append(Random!Caller, f), g) PROVE Len(stack') = Len(stack) + 1
            BY <1>1, <1>2, <1>3, <3>1, ReplacedTop
        <3> QED
            BY <1>1, <2>1, <3>1, TotalFacts
    <2> QED
        BY <1>2, <1>3, <2>1, <2>2
<1>5. CASE stack' = Append(Append(Random!Caller, f), g)
    <2>1. /\ Len(stack') = Len(stack) + 1 /\ stack' # <<>>
          /\ \A n \in 1..(Len(stack) - 1) : stack'[n] = stack[n]
          /\ stack'[Len(stack)] = f /\ stack'[Len(stack) + 1] = g /\ Random!Top' = g
        BY <1>1, <1>2, <1>3, <1>5, ReplacedTop
    <2>2. stack' # Append(Random!Caller, f)
        <3>1. ASSUME stack' = Append(Random!Caller, f) PROVE Len(stack') = Len(stack)
            BY <1>1, <1>2, <1>3, <3>1, ReplacedTop
        <3> QED
            BY <1>1, <2>1, <3>1, TotalFacts
    <2> QED
        BY <1>2, <1>3, <2>1, <2>2
<1> QED
    BY <1>2, <1>4, <1>5

LEMMA RanStacks ==
    ASSUME WholeInv, Ran
    PROVE  /\ stack # <<>> /\ ~Calling /\ calls' = calls /\ Random!Top.pc = "ran"
           /\ Len(stack') = Len(stack) - 1 /\ active' = active + 1
           /\ \A n \in 1..(Len(stack) - 1) : stack'[n] = stack[n]
           /\ UNCHANGED <<status, operations, current, error, completing, failures, handled>>
           /\ stack' = Random!Caller
<1>1. /\ stack # <<>> /\ Random!Top.pc = "ran" /\ stack' = Random!Caller
      /\ active' = active + 1 /\ ~Calling /\ calls' = calls
      /\ UNCHANGED <<status, operations, current, error, completing, failures, handled>>
    BY DEF Ran, RanThen, Random!Ran, Random!Running, quietVars
<1> QED
    BY <1>1, WholeParts, ReplacedTop

LEMMA DrainStacks ==
    ASSUME WholeInv, Drain
    PROVE  /\ stack # <<>> /\ ~Calling /\ calls' = calls /\ Random!Top.pc = "tryDrain"
           /\ Len(stack') = Len(stack) /\ Random!Top'.pc = "onDrain" /\ stack' # <<>>
           /\ stack'[Len(stack)].pc = "onDrain"
           /\ \A n \in 1..(Len(stack) - 1) : stack'[n] = stack[n]
           /\ UNCHANGED <<Random!batch, failures, handled>>
<1>1. /\ stack # <<>> /\ Random!Top.pc = "tryDrain" /\ ~Calling /\ calls' = calls
      /\ stack' = Append(Random!Caller, Random!Call("onDrain", 0))
      /\ UNCHANGED <<Random!batch, failures, handled>>
    BY DrainInMode DEF Drain, DrainThen, Random!Running, quietVars
<1>2. Random!Call("onDrain", 0) \in Random!Frame /\ Random!Call("onDrain", 0).pc = "onDrain"
    BY Pcs
<1> QED
    BY <1>1, <1>2, WholeParts, ReplacedTop

LEMMA ReturnStacks ==
    ASSUME WholeInv, UserCallbackReturns
    PROVE  /\ stack # <<>> /\ ~Calling /\ calls' = calls /\ Random!Top.pc = "userCallback"
           /\ Random!Top.op \notin failures \ handled
           /\ Random!Top.op \in 1..Total
           /\ status[Random!Top.op] \in {"callback", "error"}
           /\ (InOrder => Random!Top.op = current)
           /\ status' = [status EXCEPT ![Random!Top.op] = "complete"]
           /\ active' = active - 1 /\ current' = IF InOrder THEN current + 1 ELSE current
           /\ Len(stack') = Len(stack) /\ Random!Top' = Random!Call("fire", 0) /\ stack' # <<>>
           /\ stack'[Len(stack)].pc = "fire"
           /\ \A n \in 1..(Len(stack) - 1) : stack'[n] = stack[n]
           /\ UNCHANGED <<error, completing, failures, handled, quietVars, sourceVars>>
<1>1. BatchTypes /\ StackInv
    BY WholeParts
<1>2. /\ stack # <<>> /\ Random!Top.pc = "userCallback" /\ ~Calling /\ calls' = calls
      /\ Random!Top.op \notin failures \ handled
      /\ status' = [status EXCEPT ![Random!Top.op] = "complete"]
      /\ active' = active - 1 /\ current' = IF InOrder THEN current + 1 ELSE current
      /\ stack' = Append(Random!Caller, Random!Call("fire", 0))
      /\ UNCHANGED <<error, completing, failures, handled, quietVars, sourceVars>>
    BY ReturnsInMode DEF UserCallbackReturns, Random!Running, quietVars
<1>3. Random!Call("fire", 0) \in Random!Frame /\ Random!Call("fire", 0).pc = "fire"
    BY Pcs
<1>4. /\ Random!Top.op \in 1..Total /\ status[Random!Top.op] \in {"callback", "error"}
      /\ InOrder => Random!Top.op = current
    BY <1>1, <1>2, TopFacts DEF FrameOK, Total, Turn
<1>5. /\ Len(stack') = Len(stack) /\ stack' # <<>>
      /\ \A n \in 1..(Len(stack) - 1) : stack'[n] = stack[n]
      /\ stack'[Len(stack)] = Random!Call("fire", 0) /\ Random!Top' = Random!Call("fire", 0)
    BY <1>1, <1>2, <1>3, ReplacedTop
<1> QED
    BY <1>2, <1>3, <1>4, <1>5

LEMMA EndStacks ==
    ASSUME WholeInv, End
    PROVE  /\ stack # <<>> /\ ~Calling /\ calls' = calls /\ Random!Top.pc = "onEnd"
           /\ Len(stack') = Len(stack) - 1
           /\ \A n \in 1..(Len(stack) - 1) : stack'[n] = stack[n]
           /\ UNCHANGED <<Random!batch, failures, handled>>
<1>1. /\ stack # <<>> /\ Random!Top.pc = "onEnd" /\ stack' = Random!Caller
      /\ ~Calling /\ calls' = calls /\ UNCHANGED <<Random!batch, failures, handled>>
    BY DEF End, Random!ListenerReturns, Random!Running, chunkVars
<1> QED
    BY <1>1, WholeParts, ReplacedTop

LEMMA StartStep ==
    ASSUME WholeInv, StartInv, [Next]_vars
    PROVE  StartInv'
<1>1. /\ UploadInv /\ BatchTypes /\ StackInv /\ Len(calls) \in Nat /\ calls \in Seq(CallSet)
      /\ stack \in Seq(Random!Frame) /\ Len(stack) \in Nat /\ TypesInv
    BY WholeParts, CallKinds, TotalFacts DEF BatchTypes
<1>2. ASSUME stack' = stack, Len(calls') \in Nat, Len(calls') >= Len(calls),
             \A m \in 1..Len(calls) : calls'[m].height = calls[m].height
      PROVE  StartInv'
    <2>1. ASSUME NEW n \in 1..Len(stack), Starts(stack[n].pc)
          PROVE  \E m \in 1..Len(calls') : calls'[m].height = n - 1
        <3>1. PICK m \in 1..Len(calls) : calls[m].height = n - 1
            BY <2>1 DEF StartInv
        <3>2. m \in 1..Len(calls') /\ calls'[m].height = n - 1
            BY <1>1, <1>2, <3>1
        <3> QED
            BY <3>2
    <2> QED
        BY <1>2, <2>1 DEF StartInv
<1>3. CASE UNCHANGED <<stack, calls>>
    BY <1>1, <1>2, <1>3
<1>4. CASE BuildChunk \/ EmitLost \/ EmitZeros
    <2>1. stack' = stack
        BY <1>4 DEF BuildChunk, EmitLost, EmitZeros, batchVars
    <2>2. Len(calls') = Len(calls) /\ \A n \in 1..Len(calls) : calls'[n].height = calls[n].height
        BY <1>1, <1>4, TouchedCalls
    <2> QED
        BY <1>1, <1>2, <2>1, <2>2
<1>5. CASE EmitChunk
    <2>1. /\ Len(calls') = Len(calls) /\ calls # <<>> /\ Calling
          /\ \A n \in 1..Len(calls) : calls'[n].height = calls[n].height
        BY <1>1, <1>5, TouchedCalls
    <2>2. calls[Len(calls)].height = Len(stack) /\ Len(calls) \in 1..Len(calls)
        BY <1>1, <2>1, TopCallFacts, HeightFacts, InvParts
    <2>3. stack' = Append(stack, Random!Call("run", Random!Total + 1))
        BY <1>5 DEF EmitChunk, Random!AddOperation, Random!AddOperationAs
    <2>4. Random!Call("run", Random!Total + 1) \in Random!Frame
        BY <1>1, TotalFacts, Pcs
    <2>5. Len(stack') = Len(stack) + 1 /\ \A n \in 1..Len(stack) : stack'[n] = stack[n]
        BY <1>1, <2>3, <2>4, PushCall
    <2>6. ASSUME NEW n \in 1..Len(stack'), Starts(stack'[n].pc)
          PROVE  \E m \in 1..Len(calls') : calls'[m].height = n - 1
        <3>1. CASE n <= Len(stack)
            <4>1. PICK m \in 1..Len(calls) : calls[m].height = n - 1
                BY <1>1, <2>5, <2>6, <3>1 DEF StartInv
            <4> QED
                BY <2>1, <4>1
        <3>2. CASE n = Len(stack) + 1
            <4>1. calls'[Len(calls)].height = n - 1
                BY <1>1, <2>1, <2>2, <3>2
            <4> QED
                BY <2>1, <2>2, <4>1
        <3> QED
            BY <1>1, <2>5, <2>6, <3>1, <3>2
    <2> QED
        BY <2>6 DEF StartInv
<1>6. CASE EmitBeyond \/ UserCallbackStops
    <2>1. /\ Len(calls') = Len(calls) + 1 /\ UNCHANGED batchVars
          /\ \A n \in 1..Len(calls) : calls'[n].height = calls[n].height
        BY <1>1, <1>6, StoppedCalls
    <2> QED
        BY <1>1, <1>2, <2>1 DEF batchVars
<1>7. CASE ReadReturns \/ WriteReturns \/ EndReturns
    <2>1. /\ calls # <<>> /\ Top.height = Len(stack) /\ Top = calls[Len(calls)]
          /\ Len(calls) \in Nat \ {0} /\ Len(calls') = Len(calls) - 1
          /\ \A n \in 1..(Len(calls) - 1) : calls'[n] = calls[n]
        BY <1>1, <1>7, ReturnedCalls DEF ReadReturns, WriteReturns, EndReturns
    <2>2. \/ stack' = stack
          \/ stack' = Append(stack, Random!Call("tryEnd", 0))
        BY <1>7 DEF ReadReturns, WriteReturns, EndReturns, batchVars, Random!EnableComplete
    <2>3. Random!Call("tryEnd", 0) \in Random!Frame /\ Random!Call("tryEnd", 0).pc = "tryEnd"
        BY Pcs
    <2>4. \A n \in 1..Len(stack') : Starts(stack'[n].pc) => n <= Len(stack) /\ stack'[n] = stack[n]
        <3>1. CASE stack' = stack
            BY <1>1, <3>1
        <3>2. CASE stack' = Append(stack, Random!Call("tryEnd", 0))
            <4>1. /\ Len(stack') = Len(stack) + 1
                  /\ \A n \in 1..Len(stack) : stack'[n] = stack[n]
                  /\ stack'[Len(stack) + 1].pc = "tryEnd"
                BY <1>1, <2>3, <3>2, PushCall
            <4>2. ~Starts("tryEnd")
                BY DEF Starts
            <4> QED
                BY <1>1, <4>1, <4>2
        <3> QED
            BY <2>2, <3>1, <3>2
    <2>5. ASSUME NEW n \in 1..Len(stack'), Starts(stack'[n].pc)
          PROVE  \E m \in 1..Len(calls') : calls'[m].height = n - 1
        <3>1. n \in 1..Len(stack) /\ Starts(stack[n].pc)
            BY <1>1, <2>4, <2>5
        <3>2. PICK m \in 1..Len(calls) : calls[m].height = n - 1
            BY <3>1 DEF StartInv
        <3>3. m # Len(calls)
            BY <1>1, <2>1, <3>1, <3>2
        <3>4. m \in 1..Len(calls') /\ calls'[m].height = n - 1
            BY <2>1, <3>2, <3>3
        <3> QED
            BY <3>4
    <2> QED
        BY <2>5 DEF StartInv
<1>8. CASE FileOpens \/ FileOpenFails \/ ReadEmits \/ ReadEnds \/ ReadFails \/ PipeEnds
            \/ DestinationReady \/ CommitDone
    <2>1. stack' = <<>>
        BY <1>8 DEF FileOpens, FileOpenFails, ReadEmits, ReadEnds, ReadFails, ReadGets, PipeEnds,
           DestinationReady, CommitDone, EventLoop, batchVars
    <2> QED
        BY <2>1 DEF StartInv
<1>9. CASE PipeWrites
    <2>1. PICK c : calls' = Append(calls, c) /\ stack' = stack
        BY <1>9 DEF PipeWrites, batchVars
    <2> QED
        BY <1>1, <1>2, <2>1
<1>10. ASSUME NEW i \in 1..Total, NEW failed \in BOOLEAN, RequestDone(i, failed)
       PROVE  StartInv'
    <2> DEFINE f == Random!Call(IF failed THEN "fail" ELSE "succeed", i)
    <2>1. stack = <<>> /\ stack' = Append(stack, f)
        BY <1>10 DEF RequestDone, EventLoop, Random!RequestDone, Random!RequestDoneIn
    <2>2. f \in Random!Frame /\ ~Starts(f.pc)
        BY <1>1, TotalFacts, Pcs DEF Starts
    <2> HIDE DEF f
    <2>3. Len(stack') = 1 /\ stack'[1] = f
        BY <1>1, <2>1, <2>2, PushCall, EmptySeq
    <2> QED
        BY <2>2, <2>3 DEF StartInv
<1>11. CASE BatchSteps
    <2>1. stack # <<>> /\ calls' = calls /\ Len(stack) \in Nat \ {0}
        BY <1>1, <1>11, StepStacks, TopFacts DEF quietVars
    <2>2. ASSUME Len(stack') \in Nat, \A n \in 1..(Len(stack) - 1) : stack'[n] = stack[n],
                 \A n \in Len(stack)..Len(stack') : ~Starts(stack'[n].pc)
          PROVE  StartInv'
        BY <1>1, <2>1, <2>2, StartsBelow
    <2>3. ASSUME stack' = Random!Caller PROVE StartInv'
        BY <1>1, <2>1, <2>2, <2>3, ReplacedTop
    <2>4. ASSUME NEW pc \in {"tryEnd", "onEnd", "tryDrain"},
                 stack' = Append(Random!Caller, Random!Call(pc, 0))
          PROVE  StartInv'
        <3>1. Random!Call(pc, 0) \in Random!Frame /\ Random!Call(pc, 0).pc = pc
            BY Pcs
        <3>2. Len(stack') = Len(stack) /\ stack'[Len(stack)].pc = pc
              /\ \A n \in 1..(Len(stack) - 1) : stack'[n] = stack[n]
            BY <1>1, <2>1, <2>4, <3>1, ReplacedTop
        <3>3. ~Starts(pc)
            BY DEF Starts
        <3> QED
            BY <2>1, <2>2, <3>2, <3>3
    <2>5. CASE Mode(Random!BatchOperationCallback, Ordered!BatchOperationCallback)
        <3>1. Random!Top.op \in Nat
            BY <1>1, <2>1, TopFacts
        <3>2. /\ Random!Call("tryDrain", 0).pc = "tryDrain"
              /\ Random!Call("fire", Random!Top.op).pc = "fire"
            BY <3>1, Pcs
        <3>3. /\ Len(stack') \in {Len(stack), Len(stack) + 1}
              /\ \A n \in 1..(Len(stack) - 1) : stack'[n] = stack[n]
              /\ stack'[Len(stack)].pc = "tryDrain"
              /\ Len(stack') = Len(stack) + 1 => stack'[Len(stack) + 1].pc = "fire"
            BY <1>1, <2>1, <2>5, <3>2, SettleStacks
        <3>4. ~Starts("tryDrain") /\ ~Starts("fire")
            BY DEF Starts
        <3> QED
            BY <2>1, <2>2, <3>3, <3>4
    <2>6. CASE Mode(Random!FireUserCallback, Ordered!FireUserCallback)
        <3>1. /\ Len(stack') = Len(stack)
              /\ \A n \in 1..(Len(stack) - 1) : stack'[n] = stack[n]
              /\ stack'[Len(stack)].pc = "userCallback"
            BY <1>1, <2>6, FireStacks
        <3>2. ~Starts("userCallback")
            BY DEF Starts
        <3> QED
            BY <2>1, <2>2, <3>1, <3>2
    <2> QED
        BY <1>1, <1>11, <2>3, <2>4, <2>5, <2>6, StepStacks
<1>12. CASE BatchRuns \/ Ran \/ Drain \/ UserCallbackReturns \/ End
    <2>1. /\ stack # <<>> /\ calls' = calls /\ Len(stack) \in Nat \ {0}
          /\ \A n \in 1..(Len(stack) - 1) : stack'[n] = stack[n]
          /\ Len(stack') \in Nat
          /\ \/ Len(stack') = Len(stack) - 1
             \/ Len(stack') = Len(stack) /\ stack'[Len(stack)].pc \in {"ran", "onDrain", "fire"}
             \/ Len(stack') = Len(stack) + 1 /\ stack'[Len(stack)].pc = "ran"
                /\ stack'[Len(stack) + 1].pc = "fail"
          /\ Len(stack') >= Len(stack) /\ stack'[Len(stack)].pc = "ran" => Random!Top.pc = "run"
        <3>2. CASE BatchRuns
            BY <1>1, <3>2, RunStacks, EmptySeq
        <3>3. CASE Ran
            BY <1>1, <3>3, RanStacks, EmptySeq
        <3>4. CASE Drain
            BY <1>1, <3>4, DrainStacks, EmptySeq
        <3>5. CASE UserCallbackReturns
            BY <1>1, <3>5, ReturnStacks, EmptySeq
        <3>6. CASE End
            BY <1>1, <3>6, EndStacks, EmptySeq
        <3> QED
            BY <1>12, <3>2, <3>3, <3>4, <3>5, <3>6
    <2>2. ~Starts("onDrain") /\ ~Starts("fire") /\ ~Starts("fail") /\ Starts("run")
        BY DEF Starts
    <2>3. \A n \in Len(stack)..Len(stack') : Starts(stack'[n].pc) =>
               n = Len(stack) /\ Starts(Random!Top.pc)
        BY <2>1, <2>2
    <2> QED
        BY <1>1, <2>1, <2>3, StartsBelow
<1>13. CASE UNCHANGED vars
    BY <1>3, <1>13 DEF vars, batchVars, chunkVars
<1> QED
    BY <1>4, <1>5, <1>6, <1>7, <1>8, <1>9, <1>10, <1>11, <1>12, <1>13
       DEF Next, Internal, External, Emission, Stopped

(* A program writes when no call of the chunk stream is in progress, also   *)
(* when it writes from its listener for 'drain'.                            *)
LEMMA WritesAlone ==
    ASSUME WholeInv, WriteInv, StoppedInv, PipeWrites
    PROVE  calls = <<>>
<1>1. /\ TypesInv /\ KindsInv /\ Len(calls) \in Nat /\ Len(stack) \in Nat
      /\ (stack = <<>> <=> Len(stack) = 0)
      /\ \A n \in 1..Len(calls) : calls[n].then \in {"read", "write", "end"}
      /\ calls # <<>> => 1 \in 1..Len(calls)
      /\ \A n \in 1..Len(calls) : calls[n].height \in Nat /\ calls[n].height <= Len(stack)
    BY WholeParts, CallKinds, HeightFacts
<1>2. ~Local /\ ~unpiped /\ ~sourceEnded /\ (EventLoop \/ (Random!Running("onDrain") /\ ~Calling))
    BY DEF PipeWrites, PipeMayCall
<1>3. SUFFICES ASSUME calls # <<>> PROVE FALSE
    OBVIOUS
<1>4. Random!Running("onDrain") /\ ~Calling
    BY <1>2, <1>3 DEF EventLoop
<1>5. calls[1].then = "write"
    BY <1>1, <1>2, <1>3 DEF StoppedInv, KindsInv
<1>6. Len(calls) = 1 /\ WriteShape(Len(stack) - calls[1].height, Random!Top, failures \ handled,
                                     InOrder /\ active > 0)
    BY <1>2, <1>3, <1>5 DEF WriteInv, WriteCall
<1>7. calls[1].height # Len(stack)
    <2>1. Top = calls[1]
        BY <1>1, <1>3, <1>6, TopCallFacts
    <2> QED
        BY <1>3, <1>4, <2>1 DEF Calling, Top
<1>8. Len(stack) - calls[1].height # 0
    BY <1>1, <1>3, <1>7
<1> QED
    BY <1>4, <1>6, <1>8 DEF WriteShape, Random!Running, Starts

(* A program that writes is a pipe.                                         *)
LEMMA WritesPipe ==
    ASSUME WholeInv, WriteCall
    PROVE  ~Local /\ 1 \in 1..Len(calls)
<1>1. 1 \in 1..Len(calls) /\ KindsInv
    BY WholeParts, CallKinds DEF WriteCall
<1> QED
    BY <1>1 DEF WriteCall, KindsInv

(* What is known of the innermost call of the batch while a program writes. *)
LEMMA WriteFacts ==
    ASSUME WholeInv, WriteInv, WriteCall, ~unpiped, ~Calling, stack # <<>>
    PROVE  LET h == calls[1].height IN
           /\ Len(calls) = 1 /\ h \in Nat /\ Len(stack) \in Nat /\ Len(stack) - h \in 1..3
           /\ Starts(stack[h + 1].pc)
           /\ Len(stack) - h = 1 => Starts(Random!Top.pc)
           /\ Len(stack) - h = 2 => Random!Top.pc = "fail"
                \/ (Random!Top.pc = "tryDrain" /\ InOrder /\ active > 0)
           /\ Len(stack) - h = 3 => /\ Random!Top.pc \in {"fire", "userCallback"}
                                     /\ Random!Top.op \in failures \ handled
<1>1. Len(calls) = 1 /\ WriteShape(Len(stack) - calls[1].height, Random!Top, failures \ handled,
                                     InOrder /\ active > 0)
      /\ (Len(stack) > calls[1].height => Starts(stack[calls[1].height + 1].pc))
    BY DEF WriteInv
<1>2. TypesInv /\ HeightInv /\ calls # <<>>
    BY WholeParts DEF WriteCall
<1>3. calls[1].height \in Nat /\ Len(stack) \in Nat /\ calls[1].height <= Len(stack)
    BY <1>1, <1>2, HeightFacts
<1>4. calls[1].height # Len(stack)
    <2>1. Top = calls[1]
        BY <1>1, <1>2, TopCallFacts
    <2> QED
        BY <1>2, <2>1 DEF Calling, Top
<1>5. Len(stack) - calls[1].height # 0 /\ Len(stack) > calls[1].height
    BY <1>3, <1>4
<1> QED
    BY <1>1, <1>3, <1>5 DEF WriteShape

(* A step of the batch, of which the write call waits for the end.          *)
LEMMA WriteStepped ==
    ASSUME WholeInv, WriteInv, calls' = calls, ~Calling, stack # <<>>, unpiped' = unpiped,
           Len(stack') \in Nat, \A n \in 1..(Len(stack) - 1) : stack'[n] = stack[n],
           NEW h, h = calls[1].height,
           WriteCall /\ ~unpiped /\ Len(stack) - h = 1 /\ Len(stack') > h =>
               Starts(stack'[Len(stack)].pc),
           WriteCall /\ ~unpiped =>
               WriteShape(Len(stack') - h, Random!Top', (failures \ handled)', (InOrder /\ active > 0)')
    PROVE  WriteInv'
<1>1. SUFFICES ASSUME WriteCall, ~unpiped
               PROVE  /\ Len(calls) = 1
                      /\ Len(stack') > h => Starts(stack'[h + 1].pc)
    BY DEF WriteInv, WriteCall
<1>2. /\ Len(calls) = 1 /\ h \in Nat /\ Len(stack) \in Nat /\ Len(stack) - h \in 1..3
      /\ Starts(stack[h + 1].pc)
    BY <1>1, WriteFacts
<1>3. CASE Len(stack) - h = 1
    BY <1>1, <1>2, <1>3
<1>4. CASE Len(stack) - h # 1
    <2>1. h + 1 \in 1..(Len(stack) - 1)
        BY <1>2, <1>4
    <2> QED
        BY <1>2, <2>1
<1> QED
    BY <1>3, <1>4

(* One operation starts; another one than the current one cannot be fired:  *)
(* at least the current one is active.                                      *)
LEMMA OthersActive ==
    ASSUME WholeInv, ProgressInv, StartInv, Len(calls) = 1, InOrder,
           NEW i \in 1..Total, status[i] # "complete", current # i
    PROVE  active > 0
<1>1. /\ BatchTypes /\ CountsInv /\ Total \in Nat /\ stack \in Seq(Random!Frame)
      /\ Len(stack) \in Nat
    BY WholeParts, TotalFacts DEF BatchTypes
<1>2. current \in 1..Total /\ status[current] # "complete"
    BY <1>1 DEF ProgressInv
<1>3. Cardinality(Unfinished) >= 2
    <2>1. {i, current} \subseteq Unfinished /\ IsFiniteSet(Unfinished)
        BY <1>1, <1>2, CountedFinite DEF Unfinished
    <2>2. Cardinality({i, current}) <= Cardinality(Unfinished)
        BY <2>1, FS_Subset
    <2>3. Cardinality({i, current}) = 2
        <3>1. Cardinality({current}) = 1 /\ IsFiniteSet({current})
            BY FS_Singleton
        <3>2. i \notin {current} /\ {current} \cup {i} = {i, current}
            OBVIOUS
        <3>3. Cardinality({current} \cup {i}) = Cardinality({current}) + 1
            BY <3>1, <3>2, FS_AddElement
        <3> QED
            BY <3>1, <3>2, <3>3
    <2>4. Cardinality(Unfinished) \in Nat
        BY <2>1, FS_CardinalityType
    <2> QED
        BY <2>2, <2>3, <2>4
<1>4. Cardinality(Starting(stack)) <= 1
    <2> DEFINE h == calls[1].height + 1
    <2>1. Starting(stack) \subseteq {h}
        <3>1. ASSUME NEW n \in Starting(stack) PROVE n = h
            <4>1. n \in 1..Len(stack) /\ Starts(stack[n].pc)
                BY <3>1 DEF Starting
            <4>2. PICK m \in 1..Len(calls) : calls[m].height = n - 1
                BY <4>1 DEF StartInv
            <4> QED
                BY <1>1, <4>1, <4>2
        <3> QED
            BY <3>1
    <2>2. Cardinality({h}) = 1 /\ IsFiniteSet({h})
        BY FS_Singleton
    <2>3. Cardinality(Starting(stack)) <= Cardinality({h})
        BY <2>1, <2>2, FS_Subset
    <2> QED
        BY <2>2, <2>3
<1>5. active = Cardinality(Unfinished) - Cardinality(Starting(stack))
    BY <1>1 DEF CountsInv
<1>6. Cardinality(Starting(stack)) \in Nat /\ Cardinality(Unfinished) \in Nat
    BY <1>1, StartingFacts, CountedFinite
<1> QED
    BY <1>3, <1>4, <1>5, <1>6

LEMMA NoneFails ==
    ASSUME WholeInv
    PROVE  0 \notin failures
    BY WholeParts DEF BatchTypes

LEMMA WriteStep ==
    ASSUME WholeInv, ControlInv, WholeInv', [Next]_vars
    PROVE  WriteInv'
<1>1. /\ UploadInv /\ BatchTypes /\ StackInv /\ TypesInv /\ HeightInv /\ FailInv
      /\ WriteInv /\ StartInv /\ StoppedInv /\ ProgressInv
      /\ Len(calls) \in Nat /\ Len(stack) \in Nat /\ (calls # <<>> => 1 \in 1..Len(calls))
    BY WholeParts, CallKinds, TotalFacts DEF ControlInv
<1>2. WriteCall => ~Local /\ 1 \in 1..Len(calls)
    BY WritesPipe
<1>3. CASE ~WriteCall'
    BY <1>3 DEF WriteInv
<1>4. CASE UNCHANGED <<calls, unpiped, stack, failures, handled, upload, active>>
    BY <1>1, <1>4 DEF WriteInv, WriteCall, Random!Top, InOrder
<1>5. CASE BuildChunk \/ EmitLost \/ EmitZeros
    <2>1. UNCHANGED <<unpiped, stack, failures, handled, upload, active>>
        BY <1>5 DEF BuildChunk, EmitLost, EmitZeros, batchVars, Others, sourceVars
    <2>2. /\ calls # <<>> /\ Len(calls') = Len(calls)
          /\ \A n \in 1..Len(calls) : /\ calls'[n].then = calls[n].then
                                      /\ calls'[n].height = calls[n].height
        BY <1>1, <1>5, TouchedCalls
    <2>3. calls'[1].then = calls[1].then /\ calls'[1].height = calls[1].height
        BY <1>1, <2>2
    <2> QED
        BY <1>1, <2>1, <2>2, <2>3 DEF WriteInv, WriteCall, Random!Top, InOrder
<1>6. CASE EmitChunk
    <2>1. /\ Calling /\ calls # <<>> /\ Len(calls') = Len(calls)
          /\ calls'[1].then = calls[1].then /\ calls'[1].height = calls[1].height
          /\ unpiped' = unpiped
        BY <1>1, <1>6, TouchedCalls DEF sourceVars
    <2> DEFINE f == Random!Call("run", Random!Total + 1)
    <2>2. stack' = Append(stack, f)
        BY <1>6 DEF EmitChunk, Random!AddOperation, Random!AddOperationAs
    <2>3. f \in Random!Frame /\ f.pc = "run" /\ stack \in Seq(Random!Frame)
        <3>1. Random!Total + 1 \in Nat /\ "run" \in Random!Pcs
            BY <1>1, TotalFacts, Pcs
        <3>2. f \in Random!Frame /\ f.pc = "run"
            BY <3>1, Pcs
        <3> QED
            BY <1>1, <3>2 DEF BatchTypes
    <2> HIDE DEF f
    <2>4. Len(stack') = Len(stack) + 1 /\ stack'[Len(stack) + 1] = f /\ Random!Top' = f
        BY <1>1, <2>2, <2>3, PushCall DEF Random!Top
    <2>5. ASSUME WriteCall', ~unpiped'
          PROVE  Len(calls) = 1 /\ calls[1].height = Len(stack)
        <3>1. WriteCall /\ Len(calls) = 1
            BY <1>1, <2>1, <2>5 DEF WriteInv, WriteCall
        <3> QED
            BY <1>1, <2>1, <3>1, TopCallFacts, HeightFacts
    <2>6. Starts("run")
        BY DEF Starts
    <2>7. ASSUME WriteCall', ~unpiped'
          PROVE  /\ Len(calls') = 1 /\ Len(stack') - calls'[1].height = 1
                 /\ Starts(Random!Top'.pc) /\ Starts(stack'[calls'[1].height + 1].pc)
        <3>1. Len(calls') = 1 /\ calls'[1].height = Len(stack)
            BY <2>1, <2>5, <2>7
        <3> QED
            BY <1>1, <2>3, <2>4, <2>6, <3>1
    <2> QED
        BY <2>7 DEF WriteInv, WriteShape
<1>7. CASE EmitBeyond \/ UserCallbackStops
    <2>1. \/ unpiped' = ~Local /\ calls'[1].then = calls[1].then
          \/ calls = <<>>
        BY <1>1, <1>7, StoppedCalls
    <2>2. WriteCall' => WriteCall \/ calls'[1].then = "end"
        <3>1. CASE calls = <<>>
            <4>1. calls'[1] = Call(NoData, IF Local /\ ~IsFile THEN buffer ELSE NoData, "end")
                BY <1>1, <1>7, <3>1, StoppedCalls, EmptySeq
            <4> QED
                BY <4>1 DEF Call
        <3>2. CASE calls # <<>>
            BY <2>1, <3>2 DEF WriteCall
        <3> QED
            BY <3>1, <3>2
    <2>3. unpiped' = ~Local
        BY <1>1, <1>7, StoppedCalls
    <2> QED
        BY <1>2, <2>2, <2>3 DEF WriteInv, WriteCall
<1>8. CASE ReadReturns \/ WriteReturns \/ EndReturns
    <2>1. /\ calls # <<>> /\ Len(calls) \in Nat \ {0} /\ Len(calls') = Len(calls) - 1
          /\ \A n \in 1..(Len(calls) - 1) : calls'[n] = calls[n]
        BY <1>1, <1>8, ReturnedCalls DEF ReadReturns, WriteReturns, EndReturns
    <2>2. unpiped' = unpiped
        BY <1>8 DEF ReadReturns, WriteReturns, EndReturns, sourceVars
    <2>3. ASSUME WriteCall', ~unpiped' PROVE FALSE
        <3>1. Len(calls') \in Nat /\ Len(calls') # 0
            BY <2>3, WholeParts, CallKinds, EmptySeq, <2>1, <1>1, FrontOK, <1>8
               DEF WriteCall, ReadReturns, WriteReturns, EndReturns, Returning, CallsOK
        <3>2. calls'[1] = calls[1]
            BY <2>1, <3>1
        <3>3. WriteCall /\ ~unpiped
            BY <2>1, <2>2, <2>3, <3>2 DEF WriteCall
        <3>4. Len(calls) = 1
            BY <1>1, <3>3 DEF WriteInv
        <3> QED
            BY <2>1, <3>1, <3>4
    <2> QED
        BY <2>3 DEF WriteInv
<1>9. CASE FileOpens \/ FileOpenFails \/ ReadFails \/ DestinationReady \/ CommitDone
            \/ \E i \in 1..Total, failed \in BOOLEAN : RequestDone(i, failed)
    <2>1. calls' = <<>>
        BY <1>9 DEF FileOpens, FileOpenFails, ReadFails, DestinationReady, CommitDone,
           RequestDone, EventLoop, chunkVars
    <2> QED
        BY <1>3, <2>1 DEF WriteCall
<1>10. CASE ReadEmits \/ ReadEnds \/ PipeEnds
    <2>1. CASE ReadEmits \/ ReadEnds
        <3>1. reads # <<>> /\ upload' = upload
            BY <2>1 DEF ReadEmits, ReadEnds, ReadGets, Others
        <3>2. Local'
            BY <3>1, WholeParts DEF OriginInv, Local
        <3>3. WriteCall' => ~Local'
            <4>1. KindsInv' /\ (calls' # <<>> => (1 \in 1..Len(calls))')
                <5>1. (WholeInv => KindsInv /\ (calls # <<>> => 1 \in 1..Len(calls)))'
                    BY WholeParts, CallKinds, PTL
                <5> QED
                    BY <5>1
            <4> QED
                BY <4>1 DEF KindsInv, WriteCall
        <3> QED
            BY <1>3, <3>2, <3>3
    <2>2. CASE PipeEnds
        <3>1. calls'[1].then = "end"
            BY <2>2 DEF PipeEnds, Call
        <3> QED
            BY <1>3, <3>1 DEF WriteCall
    <2> QED
        BY <1>10, <2>1, <2>2
<1>11. CASE PipeWrites
    <2>1. calls = <<>> /\ stack' = stack
        BY <1>1, <1>11, WritesAlone DEF PipeWrites, batchVars
    <2>2. PICK c : calls' = Append(calls, c) /\ c.height = Len(stack)
        BY <1>11 DEF PipeWrites, Call
    <2>3. Len(calls') = 1 /\ calls'[1] = c
        BY <2>1, <2>2
    <2> QED
        BY <1>1, <2>1, <2>2, <2>3 DEF WriteInv, WriteShape
<1>12. CASE BatchRuns
    <2>1. /\ stack # <<>> /\ ~Calling /\ calls' = calls /\ Random!Top.pc = "run"
          /\ \A n \in 1..(Len(stack) - 1) : stack'[n] = stack[n]
          /\ stack'[Len(stack)].pc = "ran" /\ Len(stack') \in Nat
          /\ \/ Len(stack') = Len(stack) /\ Random!Top'.pc = "ran"
             \/ Len(stack') = Len(stack) + 1 /\ Random!Top'.pc = "fail"
          /\ unpiped' = unpiped
        BY <1>1, <1>12, RunStacks DEF sourceVars
    <2>2. PICK h : h = calls[1].height
        OBVIOUS
    <2>3. ASSUME WriteCall, ~unpiped
          PROVE  WriteShape(Len(stack') - h, Random!Top', (failures \ handled)',
                            (InOrder /\ active > 0)')
        <3>1. Len(stack) - h = 1 /\ h \in Nat
            BY <1>1, <2>1, <2>2, <2>3, WriteFacts
        <3>2. Starts("ran")
            BY DEF Starts
        <3> QED
            BY <1>1, <2>1, <3>1, <3>2 DEF WriteShape
    <2>4. Starts("ran")
        BY DEF Starts
    <2> QED
        BY <1>1, <2>1, <2>2, <2>3, <2>4, WriteStepped
<1>13. CASE Ran
    <2>1. /\ stack # <<>> /\ ~Calling /\ calls' = calls /\ Random!Top.pc = "ran"
          /\ Len(stack) \in Nat \ {0} /\ Len(stack') = Len(stack) - 1
          /\ \A n \in 1..(Len(stack) - 1) : stack'[n] = stack[n] /\ unpiped' = unpiped
          /\ unpiped' = unpiped
        BY <1>1, <1>13, RanStacks, EmptySeq, TopFacts DEF Ran, RanThen
    <2>2. PICK h : h = calls[1].height
        OBVIOUS
    <2>3. ASSUME WriteCall, ~unpiped
          PROVE  Len(stack) - h = 1 /\ h \in Nat
        BY <1>1, <2>1, <2>2, <2>3, WriteFacts
    <2>4. ASSUME WriteCall, ~unpiped
          PROVE  WriteShape(Len(stack') - h, Random!Top', (failures \ handled)',
                            (InOrder /\ active > 0)')
        BY <1>1, <2>1, <2>3, <2>4 DEF WriteShape
    <2>5. ~(Len(stack) - h = 1 /\ Len(stack') > h /\ WriteCall /\ ~unpiped)
        BY <2>1, <2>3
    <2>6. Len(stack') \in Nat
        BY <2>1
    <2> QED
        BY <1>1, <2>1, <2>2, <2>4, <2>5, <2>6, WriteStepped
<1>14. CASE Drain \/ End \/ UserCallbackReturns
    <2>1. /\ stack # <<>> /\ ~Calling /\ calls' = calls /\ unpiped' = unpiped
          /\ \/ Random!Top.pc = "tryDrain" /\ Drain
             \/ Random!Top.pc = "onEnd"
             \/ Random!Top.pc = "userCallback" /\ Random!Top.op \notin failures \ handled
        <3>1. CASE Drain
            BY <3>1, DrainStacks DEF Drain, DrainThen
        <3>2. CASE End
            BY <3>2, EndStacks DEF End, sourceVars
        <3>3. CASE UserCallbackReturns
            BY <3>3, ReturnStacks DEF sourceVars
        <3> QED
            BY <1>14, <3>1, <3>2, <3>3
    <2>2. ~(WriteCall /\ ~unpiped)
        <3> SUFFICES ASSUME WriteCall, ~unpiped PROVE FALSE
            OBVIOUS
        <3>1. Random!Top.pc = "tryDrain" /\ Drain /\ InOrder /\ active > 0
            BY <1>1, <2>1, WriteFacts DEF Starts
        <3>2. \E lowMemory \in BOOLEAN : Ordered!ShouldDrain(lowMemory)
            BY <3>1 DEF Drain, DrainThen, Mode, Ordered!EmitDrain
        <3>3. active \in Int
            BY <1>1 DEF BatchTypes
        <3> QED
            BY <3>1, <3>2, <3>3 DEF Ordered!ShouldDrain, Ordered!IsWorkloadHeavy
    <2> QED
        BY <2>1, <2>2 DEF WriteInv, WriteCall
<1>15. CASE BatchSteps
    <2>1. stack # <<>> /\ ~Calling /\ UNCHANGED <<calls, failures, handled, unpiped, upload>>
        BY <1>1, <1>15, StepStacks DEF quietVars, sourceVars
    <2>2. Starts(Random!Top.pc) <=> Random!Top.pc \in {"run", "ran"}
        BY DEF Starts
    <2>3. SUFFICES ASSUME WriteCall, ~unpiped PROVE WriteInv'
        BY <2>1 DEF WriteInv, WriteCall
    <2>4. PICK h : h = calls[1].height
        OBVIOUS
    <2>5. /\ Len(calls) = 1 /\ h \in Nat /\ Len(stack) - h \in 1..3
          /\ Len(stack) - h = 1 => Starts(Random!Top.pc)
          /\ Len(stack) - h = 2 => Random!Top.pc = "fail"
                \/ (Random!Top.pc = "tryDrain" /\ InOrder /\ active > 0)
          /\ Len(stack) - h = 3 => /\ Random!Top.pc \in {"fire", "userCallback"}
                                   /\ Random!Top.op \in failures \ handled
          /\ Starts(stack[h + 1].pc)
        BY <1>1, <2>1, <2>3, <2>4, WriteFacts
    <2>6. CASE Mode(Random!BatchOperationCallback, Ordered!BatchOperationCallback)
        <3>1. /\ Random!Top.pc \in {"succeed", "fail"}
              /\ Random!Top.op \in 1..Total /\ status[Random!Top.op] \in {"queued", "running"}
              /\ \A n \in 1..(Len(stack) - 1) : stack'[n] = stack[n]
              /\ \/ /\ InOrder /\ current # Random!Top.op
                    /\ Len(stack') = Len(stack) /\ Random!Top' = Random!Call("tryDrain", 0)
                 \/ /\ Len(stack') = Len(stack) + 1
                    /\ Random!Top' = Random!Call("fire", Random!Top.op)
              /\ active' = active
            BY <1>1, <2>6, SettleStacks
        <3>2. Len(stack) - h = 2 /\ Random!Top.pc = "fail"
            BY <2>2, <2>5, <3>1
        <3>3. Random!Top.op \in failures \ handled
            BY <1>1, <2>1, <3>1, <3>2 DEF FailInv, Random!Running
        <3>4. Random!Call("tryDrain", 0).pc = "tryDrain"
              /\ Random!Call("fire", Random!Top.op).pc = "fire"
              /\ Random!Call("fire", Random!Top.op).op = Random!Top.op
            BY <1>1, <2>1, Pcs, TopFacts
        <3>5. InOrder' <=> InOrder
            BY <2>1 DEF InOrder
        <3>6. WriteShape(Len(stack') - h, Random!Top', (failures \ handled)',
                         (InOrder /\ active > 0)')
            <4>1. CASE Len(stack') = Len(stack) + 1
                <5>1. Len(stack') - h = 3
                    BY <1>1, <2>5, <3>2, <4>1
                <5>2. Random!Top'.pc = "fire" /\ Random!Top'.op \in failures \ handled
                    BY <1>1, <3>1, <3>3, <3>4, <4>1
                <5> QED
                    BY <2>1, <5>1, <5>2 DEF WriteShape
            <4>2. CASE InOrder /\ current # Random!Top.op /\ Len(stack') = Len(stack)
                <5>1. active > 0
                    BY <1>1, <2>5, <3>1, <4>2, OthersActive
                <5>2. Random!Top'.pc = "tryDrain"
                    BY <1>1, <3>1, <3>4, <4>2
                <5> QED
                    BY <3>1, <3>2, <3>5, <4>2, <5>1, <5>2 DEF WriteShape
            <4> QED
                BY <3>1, <4>1, <4>2
        <3>7. Len(stack') \in Nat /\ Len(stack) - h # 1
            BY <1>1, <3>1, <3>2
        <3> QED
            BY <1>1, <2>1, <2>4, <3>1, <3>6, <3>7, WriteStepped
    <2>7. CASE Mode(Random!FireUserCallback, Ordered!FireUserCallback)
        <3>1. /\ Random!Top.pc = "fire" /\ Len(stack') = Len(stack)
              /\ \A n \in 1..(Len(stack) - 1) : stack'[n] = stack[n]
              /\ Random!Top'.pc = "userCallback"
              /\ Random!Top.op # 0 => Random!Top'.op = Random!Top.op
            BY <1>1, <2>7, FireStacks
        <3>2. Len(stack) - h = 3 /\ Random!Top.op \in failures \ handled
            BY <2>2, <2>5, <3>1
        <3>3. Random!Top'.op \in (failures \ handled)'
            BY <2>1, <3>1, <3>2, NoneFails
        <3>4. WriteShape(Len(stack') - h, Random!Top', (failures \ handled)',
                         (InOrder /\ active > 0)')
            BY <3>1, <3>2, <3>3 DEF WriteShape
        <3>5. Len(stack') \in Nat /\ Len(stack) - h # 1
            BY <1>1, <3>1, <3>2
        <3> QED
            BY <1>1, <2>1, <2>4, <3>1, <3>4, <3>5, WriteStepped
    <2>8. CASE Random!Top.pc = "tryDrain" /\ stack' = Random!Caller /\ UNCHANGED Random!batch
        <3>1. Len(stack) - h = 2
            BY <2>2, <2>5, <2>8
        <3>2. /\ Len(stack') = Len(stack) - 1
              /\ \A n \in 1..(Len(stack) - 1) : stack'[n] = stack[n]
            BY <1>1, <2>1, <2>8, ReplacedTop
        <3>3. Len(stack') = h + 1 /\ h + 1 \in 1..(Len(stack) - 1) /\ Len(stack') \in Nat
            BY <1>1, <2>5, <3>1, <3>2
        <3>4. Starts(Random!Top'.pc)
            BY <2>5, <3>2, <3>3 DEF Random!Top
        <3>5. WriteShape(Len(stack') - h, Random!Top', (failures \ handled)',
                         (InOrder /\ active > 0)')
            BY <2>5, <3>3, <3>4 DEF WriteShape
        <3>6. Len(stack) - h # 1
            BY <3>1
        <3> QED
            BY <1>1, <2>1, <2>4, <3>2, <3>3, <3>5, <3>6, WriteStepped
    <2>9. Random!Top.pc \in {"succeed", "fail", "fire", "tryDrain", "tryEnd", "onDrain"}
          /\ (Random!Top.pc = "fire" =>
                Mode(Random!FireUserCallback, Ordered!FireUserCallback) \/ Random!Top.op = 0)
          /\ (Random!Top.pc = "tryDrain" => stack' = Random!Caller /\ UNCHANGED Random!batch)
          /\ (Random!Top.pc \in {"succeed", "fail"} =>
                Mode(Random!BatchOperationCallback, Ordered!BatchOperationCallback))
        BY <1>1, <1>15, StepStacks
    <2>10. Random!Top.pc = "fire" => Random!Top.op # 0
        BY <2>2, <2>5, NoneFails
    <2>11. Random!Top.pc \in {"succeed", "fail", "fire", "tryDrain"}
        BY <2>2, <2>5, <2>9
    <2> QED
        BY <2>6, <2>7, <2>8, <2>9, <2>10, <2>11
<1>16. CASE UNCHANGED vars
    BY <1>4, <1>16 DEF vars, batchVars, chunkVars, sourceVars
<1> QED
    BY <1>5, <1>6, <1>7, <1>8, <1>9, <1>10, <1>11, <1>12, <1>13, <1>14, <1>15, <1>16
       DEF Next, Internal, External, Emission, Stopped

LEMMA ControlStepped ==
    ASSUME WholeInv, ControlInv, WholeInv', [Next]_vars
    PROVE  ControlInv'
    BY StoppedStep, ProgressStep, StartStep, WriteStep DEF ControlInv

LEMMA ControlInit ==
    ASSUME Init
    PROVE  ControlInv
<1>1. /\ stack = <<>> /\ calls = <<>> /\ status = <<>>
      /\ current = IF InOrder THEN 1 ELSE -1
    BY DEF Init
<1>2. Len(stack) = 0 /\ Len(calls) = 0 /\ Total = 0
    BY <1>1 DEF Total
<1> QED
    BY <1>1, <1>2 DEF ControlInv, ProgressInv, StartInv, WriteInv, WriteCall, StoppedInv
=============================================================================
