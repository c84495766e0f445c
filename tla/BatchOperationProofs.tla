------------------------ MODULE BatchOperationProofs ------------------------
(***************************************************************************)
(* Proofs about BatchOperation, for every concurrency and every number of  *)
(* operations: type correctness, and in sequence mode, that of downloads,  *)
(* the order of the user callbacks, their mutual exclusion, the            *)
(* unreachability of the "Debug error" and the meaning of 'end'.           *)
(***************************************************************************)
EXTENDS BatchOperation, SequenceTheorems, WellFoundedInduction, TLAPS

(* What pushing a call, replacing the innermost one and returning from it   *)
(* do to a stack of calls.                                                  *)
LEMMA PushCall ==
    ASSUME NEW S, NEW s \in Seq(S), NEW f \in S
    PROVE  /\ Append(s, f) \in Seq(S)
           /\ Len(Append(s, f)) = Len(s) + 1
           /\ Append(s, f) # <<>>
           /\ \A n \in 1..Len(s) : Append(s, f)[n] = s[n]
           /\ Append(s, f)[Len(s) + 1] = f
    OBVIOUS

LEMMA PopCall ==
    ASSUME NEW S, NEW s \in Seq(S), s # <<>>
    PROVE  /\ Len(s) \in Nat \ {0}
           /\ s[Len(s)] \in S
           /\ SubSeq(s, 1, Len(s) - 1) \in Seq(S)
           /\ Len(SubSeq(s, 1, Len(s) - 1)) = Len(s) - 1
           /\ \A n \in 1..(Len(s) - 1) : SubSeq(s, 1, Len(s) - 1)[n] = s[n]
<1>1. Len(s) \in Nat \ {0}
    BY EmptySeq
<1>2. \A n \in 1..Len(s) : s[n] \in S
    BY ElementOfSeq
<1>3. \A i \in 1..(Len(s) - 1) : s[i] \in S
    BY <1>1, <1>2
<1> DEFINE last == Len(s) - 1
           t == SubSeq(s, 1, last)
<1>4. last \in Int
    BY <1>1
<1>5. /\ t \in Seq(S)
      /\ Len(t) = IF 1 <= last THEN last - 1 + 1 ELSE 0
      /\ \A i \in 1..(last - 1 + 1) : t[i] = s[1 + i - 1]
    BY <1>3, <1>4, SubSeqProperties
<1> HIDE DEF t
<1>6. Len(t) = last
    <2>1. Len(t) = IF 1 <= last THEN last - 1 + 1 ELSE 0
        BY <1>5
    <2> HIDE DEF last
    <2>2. last \in Nat
        BY <1>1 DEF last
    <2> QED
        BY <2>1, <2>2
<1>7. ASSUME NEW n \in 1..last PROVE t[n] = s[n]
    <2>1. last - 1 + 1 = last /\ 1 + n - 1 = n
        BY <1>4, <1>7
    <2> QED
        BY <1>5, <1>7, <2>1
<1> QED
    BY <1>1, <1>2, <1>5, <1>6, <1>7 DEF t

(* Overwriting an element keeps a sequence a sequence of the same length.   *)
LEMMA OverwriteSeq ==
    ASSUME NEW S, NEW s \in Seq(S), NEW i, NEW v \in S
    PROVE  /\ [s EXCEPT ![i] = v] \in Seq(S)
           /\ Len([s EXCEPT ![i] = v]) = Len(s)
           /\ \A n \in 1..Len(s) :
                 [s EXCEPT ![i] = v][n] = IF n = i THEN v ELSE s[n]
<1>1. CASE i \in 1..Len(s)
    BY <1>1, ExceptSeq
<1>2. CASE i \notin 1..Len(s)
    <2>1. s \in [1..Len(s) -> S]
        BY LenProperties
    <2>2. [s EXCEPT ![i] = v] = s
        BY <1>2, <2>1
    <2> QED
        BY <1>2, <2>2
<1> QED
    BY <1>1, <1>2

LEMMA CallIsFrame ==
    ASSUME NEW pc \in Pcs, NEW op \in Nat
    PROVE  Call(pc, op) \in Frame
    BY DEF Call, Frame

(* The innermost call and its callers, when there is one.                   *)
LEMMA StackFacts ==
    ASSUME stack \in Seq(Frame), stack # <<>>
    PROVE  /\ Len(stack) \in Nat \ {0}
           /\ Top \in Frame /\ Top.op \in Nat /\ Top.pc \in Pcs
           /\ Caller \in Seq(Frame)
           /\ Len(Caller) = Len(stack) - 1
           /\ \A n \in 1..(Len(stack) - 1) : Caller[n] = stack[n]
<1>1. /\ Len(stack) \in Nat \ {0}
      /\ stack[Len(stack)] \in Frame
      /\ SubSeq(stack, 1, Len(stack) - 1) \in Seq(Frame)
      /\ Len(SubSeq(stack, 1, Len(stack) - 1)) = Len(stack) - 1
      /\ \A n \in 1..(Len(stack) - 1) :
            SubSeq(stack, 1, Len(stack) - 1)[n] = stack[n]
    BY PopCall
<1>2. Top \in Frame
    BY <1>1 DEF Top
<1>3. Top.op \in Nat /\ Top.pc \in Pcs
    BY <1>2 DEF Frame
<1> QED
    BY <1>1, <1>2, <1>3 DEF Caller

(* One id is removed, whichever it is: index 0 removes the last.            *)
LEMMA SpliceRemovesOne ==
    ASSUME NEW S, NEW s \in Seq(S), s # <<>>, NEW index \in 0..Len(s)
    PROVE  Splice(s, index) \in Seq(S) /\ Len(Splice(s, index)) = Len(s) - 1
<1>1. Len(s) \in Nat \ {0}
    BY EmptySeq
<1>2. CASE index = 0
    BY <1>2, PopCall DEF Splice
<1>3. CASE index \in 1..Len(s)
    <2> DEFINE a == SubSeq(s, 1, index - 1)
               b == SubSeq(s, index + 1, Len(s))
    <2>1. \A m \in 1..Len(s) : s[m] \in S
        BY ElementOfSeq
    <2>2. /\ index - 1 \in Int /\ index + 1 \in Int /\ Len(s) \in Int
          /\ \A m \in 1..(index - 1) : s[m] \in S
          /\ \A m \in (index + 1)..Len(s) : s[m] \in S
        BY <1>1, <1>3, <2>1
    <2>3. /\ a \in Seq(S)
          /\ Len(a) = IF 1 <= index - 1 THEN index - 1 - 1 + 1 ELSE 0
        BY <2>2, SubSeqProperties
    <2>4. /\ b \in Seq(S)
          /\ Len(b) = IF index + 1 <= Len(s) THEN Len(s) - (index + 1) + 1 ELSE 0
        BY <2>2, SubSeqProperties
    <2>5. Splice(s, index) = a \o b
        <3>1. index # 0 /\ ~(index > Len(s))
            BY <1>1, <1>3
        <3> QED
            BY <1>3, <3>1, Zenon DEF Splice
    <2> HIDE DEF a, b
    <2>6. a \o b \in Seq(S) /\ Len(a \o b) = Len(a) + Len(b)
        BY <2>3, <2>4, ConcatProperties
    <2>7. Len(a) = index - 1 /\ Len(b) = Len(s) - index
        BY <1>1, <1>3, <2>3, <2>4
    <2> QED
        BY <1>1, <1>3, <2>5, <2>6, <2>7
<1> QED
    BY <1>2, <1>3

(* A set of natural numbers that is not empty has a least element.          *)
LEMMA LeastNatural ==
    ASSUME NEW T, T \subseteq Nat, T # {}
    PROVE  \E x \in T : \A y \in T : x <= y
<1>1. PICK x \in T : \A y \in T : <<y, x>> \notin OpToRel(<, Nat)
    BY WFMin, NatLessThanWellFounded, Zenon
<1>2. ASSUME NEW y \in T PROVE x <= y
    <2>1. x \in Nat /\ y \in Nat
        OBVIOUS
    <2>2. ~(y < x)
        BY <1>1, <2>1 DEF OpToRel
    <2> QED
        BY <2>1, <2>2
<1> QED
    BY <1>2

(* The index of the next callback is a place in operations, or 0.           *)
LEMMA CallbackOperationIndexType ==
    ASSUME operations \in Seq(Nat)
    PROVE  /\ CallbackOperationIndex \in 0..Len(operations)
           /\ CallbackOperationIndex # 0 =>
                 MayFire(operations[CallbackOperationIndex])
<1> DEFINE ready == {n \in 1..Len(operations) : MayFire(operations[n])}
<1>1. CASE ready = {}
    <2>1. CallbackOperationIndex = 0
        BY <1>1 DEF CallbackOperationIndex
    <2> QED
        BY <2>1, LenProperties
<1>2. CASE ready # {}
    <2>1. \E n \in ready : \A m \in ready : n <= m
        <3>1. ready \subseteq Nat
            BY LenProperties
        <3> QED
            BY <1>2, <3>1, LeastNatural
    <2>2. CallbackOperationIndex \in ready
        BY <1>2, <2>1 DEF CallbackOperationIndex
    <2> QED
        BY <2>2, LenProperties
<1> QED
    BY <1>1, <1>2

(* Removing an element that exists.                                         *)
LEMMA SpliceAt ==
    ASSUME NEW S, NEW s \in Seq(S), NEW k \in 1..Len(s)
    PROVE  Splice(s, k) = SubSeq(s, 1, k - 1) \o SubSeq(s, k + 1, Len(s))
<1>1. Len(s) \in Nat
    BY LenProperties
<1>2. k \in 1..Len(s) /\ ~(k = 0) /\ ~(k > Len(s))
    BY <1>1
<1> QED
    BY <1>2, Zenon DEF Splice

-----------------------------------------------------------------------------
(* Every variable keeps its type.                                           *)
LEMMA TypeInit == Init => TypeOK
<1>1. \A S : <<>> \in Seq(S)
    BY EmptySeq
<1>2. Init => current \in Int
    BY BatchAssumption DEF Init, BatchAssumption
<1> SUFFICES ASSUME Init PROVE TypeOK
    OBVIOUS
<1>3. /\ status \in Seq(OperationState) /\ operations \in Seq(Nat)
      /\ stack \in Seq(Frame) /\ fired \in Seq(Nat)
    BY <1>1 DEF Init
<1>4. active \in Int /\ queued \in Int /\ endings \in Nat
    BY DEF Init
<1> QED
    BY <1>2, <1>3, <1>4, Zenon DEF Init, TypeOK

LEMMA TypeNext == TypeOK /\ [Next]_vars => TypeOK'
<1> SUFFICES ASSUME TypeOK, [Next]_vars PROVE TypeOK'
    OBVIOUS
<1> USE DEF TypeOK
<1>t. Len(status) \in Nat /\ Total \in Nat /\ Total + 1 \in Nat
    BY LenProperties DEF Total
<1>c. ASSUME NEW s \in Seq(Frame), NEW pc \in Pcs, NEW op \in Nat
      PROVE  Append(s, Call(pc, op)) \in Seq(Frame)
    BY CallIsFrame, PushCall
<1>s. stack # <<>> => Caller \in Seq(Frame) /\ Top.op \in Nat /\ Top \in Frame
    BY StackFacts
<1>o. ASSUME NEW v \in OperationState, NEW i
      PROVE  [status EXCEPT ![i] = v] \in Seq(OperationState)
    BY OverwriteSeq
<1>1. CASE RunAfterError
    BY <1>1, <1>c, <1>s DEF RunAfterError, Running, Pcs, batch
<1>2. CASE RunRequest
    BY <1>2, <1>c, <1>s, <1>o DEF RunRequest, Running, Pcs, OperationState
<1>3. CASE RunNoOperation
    BY <1>3, <1>c, <1>s, <1>o DEF RunNoOperation, Running, Pcs, OperationState
<1>4. CASE Ran
    <2>1. active' \in Int /\ stack' \in Seq(Frame)
        BY <1>4, <1>s DEF Ran, Running
    <2>2. waiting' \in BOOLEAN
        BY <1>4, Zenon DEF Ran
    <2> QED
        BY <1>4, <2>1, <2>2 DEF Ran
<1>5. CASE BatchOperationCallback
    BY <1>5, <1>c, <1>s, <1>o
       DEF BatchOperationCallback, SettleWith, Settling, Running, Pcs, OperationState
<1>6. CASE FireUserCallback
    <2> DEFINE index == CallbackOperationIndex
               i == IF Top.op # 0 \/ index = 0 THEN Top.op ELSE operations[index]
    <2>1. index \in Nat /\ i \in Nat
        BY <1>6, <1>s, CallbackOperationIndexType, ElementOfSeq, LenProperties
           DEF FireUserCallback, Running
    <2>2. [pc |-> "userCallback", op |-> i, index |-> index] \in Frame
        BY <2>1 DEF Frame, Pcs
    <2> QED
        BY <1>6, <1>s, <2>1, <2>2, PushCall DEF FireUserCallback, Running, batch
<1>7. CASE FireWhilePaused
    BY <1>7, <1>c, <1>s DEF FireWhilePaused, Running, Pcs, batch
<1>8. CASE FireNothing
    BY <1>8, <1>c, <1>s DEF FireNothing, Running, Pcs, batch
<1>9. CASE UserCallbackReturns
    <2>1. Splice(operations, Top.index) \in Seq(Nat)
        <3>1. Top.index \in Nat /\ Len(operations) \in Nat
            BY <1>9, <1>s, LenProperties
               DEF UserCallbackReturns, RemoveOperation, Running, Frame
        <3>2. ASSUME NEW m \in Int, NEW n \in Int, m >= 1, n <= Len(operations)
              PROVE  SubSeq(operations, m, n) \in Seq(Nat)
            BY <3>1, <3>2, ElementOfSeq, SubSeqProperties
        <3>3. SubSeq(operations, 1, Len(operations) - 1) \in Seq(Nat)
            BY <3>1, <3>2
        <3>4. CASE Top.index = 0
            BY <3>3, <3>4 DEF Splice
        <3>5. CASE Top.index \in 1..Len(operations)
            <4>0. /\ Top.index - 1 \in Int /\ Top.index + 1 \in Int
                  /\ Top.index - 1 <= Len(operations) /\ Top.index + 1 >= 1
                  /\ Len(operations) \in Int /\ Len(operations) <= Len(operations)
                  /\ 1 \in Int /\ 1 >= 1
                BY <3>1, <3>5
            <4>1. /\ SubSeq(operations, 1, Top.index - 1) \in Seq(Nat)
                  /\ SubSeq(operations, Top.index + 1, Len(operations)) \in Seq(Nat)
                BY <3>2, <4>0, Zenon
            <4>2. SubSeq(operations, 1, Top.index - 1)
                    \o SubSeq(operations, Top.index + 1, Len(operations)) \in Seq(Nat)
                BY <4>1, ConcatProperties
            <4>4. Splice(operations, Top.index)
                    = SubSeq(operations, 1, Top.index - 1)
                        \o SubSeq(operations, Top.index + 1, Len(operations))
                BY <3>5, SpliceAt, Zenon
            <4> QED
                BY <4>2, <4>4
        <3>6. CASE Top.index > Len(operations)
            BY <3>1, <3>6 DEF Splice
        <3> QED
            BY <3>1, <3>4, <3>5, <3>6
    <2> QED
        BY <1>9, <1>c, <1>s, <1>o, <2>1
           DEF UserCallbackReturns, RemoveOperation, Running, Pcs, OperationState
<1>10. CASE EmitEnd
    BY <1>10, <1>c, <1>s DEF EmitEnd, Running, Pcs
<1>11. CASE NotComplete
    BY <1>11, <1>c, <1>s DEF NotComplete, Running, Pcs, batch
<1>12. CASE EmitDrain
    BY <1>12, <1>c, <1>s DEF EmitDrain, Running, Pcs, batch
<1>13. CASE NoDrain
    BY <1>13, <1>s DEF NoDrain, Running, batch
<1>14. CASE ListenerReturns
    BY <1>14, <1>s DEF ListenerReturns, Running, batch
<1>15. CASE UserAdds
    BY <1>15, <1>c, <1>t, PushCall
       DEF UserAdds, AddOperation, AddOperationAs, Pcs, OperationState
<1>16. CASE UserEnablesComplete
    BY <1>16, <1>c DEF UserEnablesComplete, EnableComplete, Pcs
<1>17. CASE UserPauses
    BY <1>17 DEF UserPauses, Pause
<1>18. CASE UserResumes
    BY <1>18, <1>c DEF UserResumes, Resume, Pcs
<1>19. ASSUME NEW i \in 1..Total, NEW failed \in BOOLEAN, RequestDone(i, failed)
       PROVE  TypeOK'
    <2>1. i \in Nat
        BY <1>t
    <2> QED
        BY <1>19, <1>c, <2>1 DEF RequestDone, RequestDoneIn, Pcs, batch
<1>20. CASE UNCHANGED vars
    BY <1>20 DEF vars
<1> QED
    BY <1>1, <1>2, <1>3, <1>4, <1>5, <1>6, <1>7, <1>8, <1>9, <1>10, <1>11,
       <1>12, <1>13, <1>14, <1>15, <1>16, <1>17, <1>18, <1>19, <1>20
       DEF Next, Step, Terminated

(* TypeOK: whatever the mode, the counters stay integers and the calls in   *)
(* progress well formed, in particular the index looked up before a user    *)
(* callback.                                                                *)
THEOREM TypeCorrect == Spec => []TypeOK
    BY TypeInit, TypeNext, PTL DEF Spec

-----------------------------------------------------------------------------
(* Sequence mode.  First, how the invariant of the call stack is affected   *)
(* by returning from a call, making one, and changing what the calls are    *)
(* about.                                                                   *)
AllSuspended(s) == \A n \in 1..Len(s) : s[n].pc \in Suspended
Users(s) == CallsOf(s, "userCallback")

LEMMA StackPop ==
    ASSUME NEW s \in Seq(Frame), s # <<>>, NEW st, NEW cur, StackOK(s, st, cur)
    PROVE  /\ AllSuspended(SubSeq(s, 1, Len(s) - 1))
           /\ StackOK(SubSeq(s, 1, Len(s) - 1), st, cur)
           /\ CallOK(s[Len(s)], st, cur)
           /\ Users(SubSeq(s, 1, Len(s) - 1)) = Users(s) \ {Len(s)}
<1> DEFINE t == SubSeq(s, 1, Len(s) - 1)
<1>1. /\ Len(s) \in Nat \ {0}
      /\ Len(t) = Len(s) - 1
      /\ \A n \in 1..(Len(s) - 1) : t[n] = s[n]
    BY PopCall
<1> HIDE DEF t
<1>2. AllSuspended(t) /\ StackOK(t, st, cur) /\ CallOK(s[Len(s)], st, cur)
    BY <1>1 DEF AllSuspended, StackOK
<1>3. Users(t) = Users(s) \ {Len(s)}
    BY <1>1 DEF Users, CallsOf
<1> QED
    BY <1>2, <1>3 DEF t

LEMMA StackPush ==
    ASSUME NEW s \in Seq(Frame), NEW f \in Frame, NEW st, NEW cur,
           AllSuspended(s), StackOK(s, st, cur), CallOK(f, st, cur)
    PROVE  /\ Append(s, f) \in Seq(Frame)
           /\ StackOK(Append(s, f), st, cur)
           /\ f.pc \in Suspended => AllSuspended(Append(s, f))
           /\ Append(s, f) # <<>> /\ Append(s, f)[Len(Append(s, f))] = f
           /\ f.pc # "userCallback" => Users(Append(s, f)) = Users(s)
           /\ f.pc = "userCallback" =>
                 Users(Append(s, f)) = Users(s) \cup {Len(s) + 1}
<1> DEFINE t == Append(s, f)
<1>1. /\ t \in Seq(Frame) /\ t # <<>>
      /\ Len(t) = Len(s) + 1 /\ Len(s) \in Nat
      /\ \A n \in 1..Len(s) : t[n] = s[n]
      /\ t[Len(s) + 1] = f
    BY PushCall, LenProperties
<1> HIDE DEF t
<1>2. StackOK(t, st, cur) /\ (f.pc \in Suspended => AllSuspended(t))
    BY <1>1 DEF AllSuspended, StackOK
<1>3. t # <<>> /\ t[Len(t)] = f
    BY <1>1
<1>4. /\ f.pc # "userCallback" => Users(t) = Users(s)
      /\ f.pc = "userCallback" => Users(t) = Users(s) \cup {Len(s) + 1}
    BY <1>1 DEF Users, CallsOf
<1> QED
    BY <1>1, <1>2, <1>3, <1>4 DEF t

LEMMA StackChange ==
    ASSUME NEW s \in Seq(Frame), NEW st, NEW st2, NEW cur, NEW cur2,
           AllSuspended(s), StackOK(s, st, cur),
           Len(st) \in Nat, Len(st2) \in Nat, Len(st) <= Len(st2),
           cur \in Nat, cur = cur2 \/ Users(s) = {}
    PROVE  StackOK(s, st2, cur2)
<1> SUFFICES ASSUME NEW n \in 1..Len(s) PROVE CallOK(s[n], st2, cur2)
    BY LenProperties DEF AllSuspended, StackOK
<1>1. s[n].pc \in Suspended /\ CallOK(s[n], st, cur)
    BY DEF AllSuspended, StackOK
<1>2. s[n].pc = "userCallback" => cur = cur2
    BY DEF Users, CallsOf
<1> QED
    BY <1>1, <1>2 DEF CallOK, Suspended

(* The calls of the batch's users are made from an empty stack, a 'drain'   *)
(* listener or a user callback.                                             *)
LEMMA UsersAreSuspended ==
    ASSUME TypeOK, StackInv, Idle \/ Running("onDrain") \/ Running("userCallback")
    PROVE  AllSuspended(stack) /\ Users(stack) = InProgress("userCallback")
<1>1. Len(stack) \in Nat
    BY LenProperties DEF TypeOK
<1>2. CASE Idle
    BY <1>2 DEF Idle, AllSuspended, Users, InProgress
<1>3. CASE ~Idle
    BY <1>1, <1>3 DEF Running, Idle, Top, AllSuspended, Users, InProgress,
                      StackInv, StackOK, Suspended
<1> QED
    BY <1>2, <1>3

LEMMA SuspendedIsNotFire ==
    ASSUME NEW s \in Seq(Frame), AllSuspended(s)
    PROVE  ~(s # <<>> /\ s[Len(s)].pc = "fire")
    BY EmptySeq DEF AllSuspended, Suspended

(* A step that changes neither the operations nor which user callbacks are  *)
(* in progress, and fires nothing while one is, keeps the rest.             *)
LEMMA QuietStep ==
    ASSUME ProgressInv, CallbackInv,
           UNCHANGED <<status, operations, current, fired>>,
           InProgress("userCallback")' = InProgress("userCallback"),
           Running("fire")' => InProgress("userCallback") = {},
           ended' => completing' /\ current = Total + 1
    PROVE  ProgressInv' /\ CallbackInv'
<1>1. Total' = Total
    BY DEF Total
<1>2. ProgressInv'
    BY <1>1 DEF ProgressInv
<1>3. CallbackInv'
    BY DEF CallbackInv, FiredOneByOne, FiredInOrder
<1> QED
    BY <1>2, <1>3

(* Replacing the innermost call, when it is not a user callback.            *)
LEMMA ReplaceTop ==
    ASSUME TypeOK, StackInv, stack # <<>>, Top.pc # "userCallback",
           NEW pc \in Pcs, pc # "userCallback", NEW op \in Nat,
           CallOK(Call(pc, op), status, current)
    PROVE  /\ StackOK(Caller, status, current) /\ AllSuspended(Caller)
           /\ Users(Caller) = InProgress("userCallback")
           /\ StackOK(Append(Caller, Call(pc, op)), status, current)
           /\ Users(Append(Caller, Call(pc, op))) = InProgress("userCallback")
           /\ Append(Caller, Call(pc, op)) # <<>>
           /\ Append(Caller, Call(pc, op)) \in Seq(Frame)
           /\ pc \in Suspended => AllSuspended(Append(Caller, Call(pc, op)))
           /\ Append(Caller, Call(pc, op))[Len(Append(Caller, Call(pc, op)))].pc = pc
<1>1. stack \in Seq(Frame) /\ Caller \in Seq(Frame) /\ Len(stack) \in Nat \ {0}
    BY StackFacts DEF TypeOK
<1>2. /\ StackOK(Caller, status, current) /\ AllSuspended(Caller)
      /\ Users(Caller) = Users(stack) \ {Len(stack)}
    BY <1>1, StackPop DEF StackInv, Caller
<1>3. Len(stack) \notin Users(stack)
    BY DEF Users, CallsOf, Top
<1>4. Users(Caller) = InProgress("userCallback")
    BY <1>2, <1>3 DEF Users, InProgress
<1>5. Call(pc, op) \in Frame /\ Call(pc, op).pc = pc
    BY CallIsFrame DEF Call
<1> QED
    BY <1>1, <1>2, <1>4, <1>5, StackPush

LEMMA QuietStack ==
    ASSUME ProgressInv, CallbackInv,
           UNCHANGED <<status, operations, current, fired>>,
           StackOK(stack', status, current),
           Users(stack') = InProgress("userCallback"),
           Running("fire")' => InProgress("userCallback") = {},
           ended' => completing' /\ current = Total + 1
    PROVE  (StackInv /\ ProgressInv /\ CallbackInv)'
<1>1. StackInv'
    BY DEF StackInv
<1>2. InProgress("userCallback")' = InProgress("userCallback")
    BY DEF InProgress, Users
<1> QED
    BY <1>1, <1>2, QuietStep

(* The steps that only replace, push or end a call.                         *)
LEMMA ControlSteps ==
    ASSUME TypeOK, StackInv, ProgressInv, CallbackInv,
           \/ RunAfterError \/ Ran \/ FireWhilePaused \/ FireNothing
           \/ EmitEnd \/ NotComplete \/ EmitDrain \/ NoDrain \/ ListenerReturns
    PROVE  (StackInv /\ ProgressInv /\ CallbackInv)'
<1> DEFINE users == InProgress("userCallback")
<1>1. /\ stack # <<>> /\ Top.pc # "userCallback" /\ Top.op \in Nat
      /\ UNCHANGED <<status, operations, current, fired>>
    BY StackFacts DEF TypeOK, Running, RunAfterError, Ran, FireWhilePaused,
       FireNothing, EmitEnd, NotComplete, EmitDrain, NoDrain, ListenerReturns, batch
<1>2. CallOK(Top, status, current)
    BY <1>1, StackFacts DEF TypeOK, StackInv, StackOK, Top
<1>3. \A pc \in {"tryDrain", "tryEnd", "onDrain", "onEnd"} :
          pc \in Pcs /\ CallOK(Call(pc, 0), status, current)
    BY DEF CallOK, Call, Pcs
<1>4. Caller \in Seq(Frame)
    BY <1>1, StackFacts DEF TypeOK
<1>5. StackOK(Caller, status, current) /\ Users(Caller) = users /\ AllSuspended(Caller)
    BY <1>1, <1>3, ReplaceTop
<1>6. ASSUME NEW pc \in {"tryDrain", "tryEnd", "onDrain", "onEnd"},
             stack' = Append(Caller, Call(pc, 0))
      PROVE  /\ StackOK(stack', status, current) /\ Users(stack') = users
             /\ ~Running("fire")'
    <2>1. /\ StackOK(stack', status, current) /\ Users(stack') = users
          /\ stack'[Len(stack')].pc = pc
        BY <1>1, <1>3, <1>6, ReplaceTop
    <2> QED
        BY <2>1 DEF Running, Top
<1>7. ASSUME stack' = Caller
      PROVE  /\ StackOK(stack', status, current) /\ Users(stack') = users
             /\ ~Running("fire")'
    BY <1>4, <1>5, <1>7, SuspendedIsNotFire DEF Running, Top
<1>8. CASE RunAfterError
    <2>1. Top.op \in 1..Total /\ status[Top.op] \in {"queued", "running"}
        BY <1>2, <1>8 DEF RunAfterError, Running, CallOK, Total
    <2> DEFINE ran == Append(Caller, Call("ran", Top.op))
               failing == Call("fail", Top.op)
    <2>2. CallOK(Call("ran", Top.op), status, current) /\ CallOK(failing, status, current)
        BY <2>1 DEF CallOK, Call, Total
    <2>3. /\ ran \in Seq(Frame) /\ AllSuspended(ran)
          /\ StackOK(ran, status, current) /\ Users(ran) = users
        BY <1>1, <2>2, ReplaceTop DEF Pcs, Suspended
    <2>4. failing \in Frame /\ failing.pc = "fail"
        BY <1>1, CallIsFrame DEF Call, Pcs
    <2> HIDE DEF ran, failing
    <2>5. /\ StackOK(Append(ran, failing), status, current)
          /\ Users(Append(ran, failing)) = users
          /\ Append(ran, failing)[Len(Append(ran, failing))].pc = "fail"
        BY <2>2, <2>3, <2>4, StackPush
    <2>6. stack' = Append(ran, failing) /\ UNCHANGED <<ended, completing>>
        BY <1>8 DEF RunAfterError, ran, failing, batch
    <2>7. ~Running("fire")'
        BY <2>5, <2>6 DEF Running, Top
    <2> QED
        BY <1>1, <2>5, <2>6, <2>7, QuietStack DEF ProgressInv
<1>9. CASE Ran \/ NoDrain \/ ListenerReturns
    <2>1. stack' = Caller /\ UNCHANGED <<ended, completing>>
        BY <1>9 DEF Ran, NoDrain, ListenerReturns, batch
    <2> QED
        BY <1>1, <1>7, <2>1, QuietStack DEF ProgressInv
<1>10. CASE FireWhilePaused \/ FireNothing \/ NotComplete \/ EmitDrain
    <2>1. /\ \E pc \in {"tryDrain", "tryEnd", "onDrain"} : stack' = Append(Caller, Call(pc, 0))
          /\ UNCHANGED <<ended, completing>>
        BY <1>10 DEF FireWhilePaused, FireNothing, NotComplete, EmitDrain, batch
    <2> QED
        BY <1>1, <1>6, <2>1, QuietStack DEF ProgressInv
<1>11. CASE EmitEnd
    <2>1. stack' = Append(Caller, Call("onEnd", 0)) /\ completing' = completing
        BY <1>11 DEF EmitEnd
    <2>2. completing /\ Len(operations) = 0
        BY <1>11 DEF EmitEnd, Complete
    <2>3. current = Total + 1
        BY <2>2, LenProperties DEF ProgressInv, TypeOK, Total
    <2> QED
        BY <1>1, <1>6, <2>1, <2>2, <2>3, QuietStack
<1> QED
    BY <1>8, <1>9, <1>10, <1>11

(* The calls of the users that add no operation.                            *)
LEMMA UserSteps ==
    ASSUME TypeOK, StackInv, ProgressInv, CallbackInv,
           UserEnablesComplete \/ UserPauses \/ UserResumes
    PROVE  (StackInv /\ ProgressInv /\ CallbackInv)'
<1> DEFINE users == InProgress("userCallback")
<1>1. UNCHANGED <<status, operations, current, fired, ended>>
    BY DEF UserEnablesComplete, UserPauses, UserResumes, EnableComplete, Pause, Resume
<1>2. /\ AllSuspended(stack) /\ Users(stack) = users /\ stack \in Seq(Frame)
      /\ StackOK(stack, status, current)
    BY UsersAreSuspended
       DEF UserEnablesComplete, UserPauses, UserResumes, StackInv, TypeOK
<1>3. ASSUME NEW pc \in {"tryEnd", "fire"}, stack' = Append(stack, Call(pc, 0))
      PROVE  /\ StackOK(stack', status, current) /\ Users(stack') = users
             /\ Running("fire")' => pc = "fire"
    <2>1. /\ CallOK(Call(pc, 0), status, current)
          /\ Call(pc, 0) \in Frame /\ Call(pc, 0).pc = pc
        BY CallIsFrame DEF CallOK, Call, Pcs
    <2>2. /\ StackOK(stack', status, current) /\ Users(stack') = users
          /\ stack'[Len(stack')].pc = pc
        BY <1>2, <1>3, <2>1, StackPush
    <2> QED
        BY <2>2 DEF Running, Top
<1>4. CASE UserEnablesComplete
    <2>1. stack' = Append(stack, Call("tryEnd", 0)) /\ completing'
        BY <1>4 DEF UserEnablesComplete, EnableComplete
    <2> QED
        BY <1>1, <1>3, <2>1, QuietStack DEF ProgressInv
<1>5. CASE UserPauses
    <2>1. stack' = stack /\ completing' = completing
        BY <1>5 DEF UserPauses, Pause
    <2>2. ~Running("fire")'
        BY <1>2, <2>1, SuspendedIsNotFire DEF Running, Top
    <2> QED
        BY <1>1, <1>2, <2>1, <2>2, QuietStack DEF ProgressInv
<1>6. CASE UserResumes
    <2>1. /\ stack' = Append(stack, Call("fire", 0)) /\ completing' = completing
          /\ stack = <<>>
        BY <1>6 DEF UserResumes, Resume, Idle
    <2>2. users = {}
        BY <2>1, EmptySeq DEF InProgress, CallsOf
    <2> QED
        BY <1>1, <1>3, <2>1, <2>2, QuietStack DEF ProgressInv
<1> QED
    BY <1>4, <1>5, <1>6

LEMMA RequestDoneStep ==
    ASSUME TypeOK, StackInv, ProgressInv, CallbackInv,
           NEW i \in 1..Total, NEW failed \in BOOLEAN, RequestDone(i, failed)
    PROVE  (StackInv /\ ProgressInv /\ CallbackInv)'
<1> DEFINE pc == IF failed THEN "fail" ELSE "succeed"
<1>1. /\ UNCHANGED <<status, operations, current, fired, ended, completing>>
      /\ stack' = Append(stack, Call(pc, i)) /\ Idle /\ status[i] = "running"
    BY DEF RequestDone, RequestDoneIn, batch
<1>2. i \in Nat /\ i \in 1..Len(status)
    BY LenProperties DEF TypeOK, Total
<1>3. /\ CallOK(Call(pc, i), status, current)
      /\ Call(pc, i) \in Frame /\ Call(pc, i).pc \in {"fail", "succeed"}
    BY <1>1, <1>2, CallIsFrame DEF CallOK, Call, Pcs
<1>4. /\ AllSuspended(stack) /\ Users(stack) = InProgress("userCallback")
      /\ StackOK(stack, status, current) /\ stack \in Seq(Frame)
    BY <1>1, UsersAreSuspended DEF StackInv, TypeOK
<1> HIDE DEF pc
<1>5. /\ StackOK(stack', status, current)
      /\ Users(stack') = InProgress("userCallback")
      /\ stack'[Len(stack')] = Call(pc, i)
    BY <1>1, <1>3, <1>4, StackPush
<1>6. ~Running("fire")'
    BY <1>3, <1>5 DEF Running, Top
<1> QED
    BY <1>1, <1>5, <1>6, QuietStack DEF ProgressInv

(* addOperation extends the sequence of ids at its end.                     *)
LEMMA UserAddsStep ==
    ASSUME TypeOK, StackInv, ProgressInv, CallbackInv, UserAdds
    PROVE  (StackInv /\ ProgressInv /\ CallbackInv)'
<1>1. /\ status' = Append(status, "queued")
      /\ operations' = Append(operations, Total + 1)
      /\ stack' = Append(stack, Call("run", Total + 1))
      /\ UNCHANGED <<current, fired, completing, ended>>
      /\ ~completing
    BY DEF UserAdds, AddOperation, AddOperationAs
<1>2. /\ AllSuspended(stack) /\ Users(stack) = InProgress("userCallback")
      /\ StackOK(stack, status, current) /\ stack \in Seq(Frame)
    BY UsersAreSuspended DEF UserAdds, StackInv, TypeOK
<1>3. /\ Total \in Nat /\ Len(status') = Total + 1 /\ Total' = Total + 1
      /\ \A i \in 1..Total : status'[i] = status[i]
      /\ status'[Total + 1] = "queued"
    BY <1>1, PushCall, LenProperties DEF TypeOK, Total, OperationState
<1>4. /\ Len(operations) \in Nat /\ Len(operations') = Len(operations) + 1
      /\ \A n \in 1..Len(operations) : operations'[n] = operations[n]
      /\ operations'[Len(operations) + 1] = Total + 1
    BY <1>1, <1>3, PushCall, LenProperties DEF TypeOK
<1>5. current \in Nat
    BY <1>3 DEF ProgressInv
<1>6. StackOK(stack, status', current)
    BY <1>2, <1>3, <1>5, StackChange DEF Total
<1>7. /\ Call("run", Total + 1) \in Frame /\ Call("run", Total + 1).pc = "run"
      /\ CallOK(Call("run", Total + 1), status', current)
    BY <1>3, CallIsFrame DEF Call, CallOK, Pcs
<1>8. /\ StackOK(stack', status', current') /\ Users(stack') = Users(stack)
      /\ stack'[Len(stack')].pc = "run"
    BY <1>1, <1>2, <1>6, <1>7, StackPush
<1>9. ProgressInv'
    <2>1. current' \in 1..(Total' + 1) /\ Len(operations') = Total' + 1 - current'
        BY <1>1, <1>3, <1>4 DEF ProgressInv
    <2>2. ASSUME NEW i \in 1..Total' PROVE status'[i] = "complete" <=> i < current'
        BY <1>1, <1>3 DEF ProgressInv
    <2>3. ASSUME NEW n \in 1..Len(operations') PROVE operations'[n] = current' + n - 1
        <3>1. CASE n \in 1..Len(operations)
            BY <1>1, <1>4, <3>1 DEF ProgressInv
        <3>2. CASE n = Len(operations) + 1
            BY <1>1, <1>3, <1>4, <1>5, <3>2 DEF ProgressInv
        <3> QED
            BY <1>4, <3>1, <3>2
    <2>4. ~ended'
        BY <1>1 DEF ProgressInv
    <2> QED
        BY <2>1, <2>2, <2>3, <2>4 DEF ProgressInv
<1>10. CallbackInv'
    <2>1. InProgress("userCallback")' = InProgress("userCallback")
        BY <1>2, <1>8 DEF InProgress, Users
    <2>2. ~Running("fire")'
        BY <1>8 DEF Running, Top
    <2>3. InProgress("userCallback") # {} => status'[current] = "callback"
        <3>1. CASE current \in 1..Total
            BY <1>3, <3>1 DEF CallbackInv
        <3>2. CASE current = Total + 1
            <4>1. ASSUME NEW n \in InProgress("userCallback") PROVE current <= Total
                BY DEF StackInv, StackOK, CallOK, InProgress, CallsOf, Total
            <4> QED
                BY <1>3, <3>2, <4>1
        <3> QED
            BY <1>3, <3>1, <3>2 DEF ProgressInv
    <2> QED
        BY <1>1, <2>1, <2>2, <2>3 DEF CallbackInv, FiredOneByOne, FiredInOrder
<1> QED
    BY <1>8, <1>9, <1>10 DEF StackInv

(* The operation of a call that runs or settles is not complete, is not the *)
(* one whose user callback is in progress, and may change its state to any  *)
(* other that is not complete.                                              *)
LEMMA StatusStep ==
    ASSUME TypeOK, StackInv, ProgressInv, CallbackInv,
           Running("run") \/ Settling,
           NEW state \in OperationState \ {"complete"},
           status' = [status EXCEPT ![Top.op] = state],
           UNCHANGED <<operations, current, fired, completing, ended>>
    PROVE  /\ Top.op \in Nat /\ Top.op \in 1..Total'
           /\ status'[Top.op] = state
           /\ ProgressInv'
           /\ InProgress("userCallback") # {} =>
                 current # Top.op /\ status'[current] = "callback"
           /\ StackOK(Caller, status', current) /\ AllSuspended(Caller)
           /\ Caller \in Seq(Frame) /\ Users(Caller) = InProgress("userCallback")
<1>1. stack # <<>> /\ Top.pc \in {"run", "succeed", "fail"}
    BY DEF Running, Settling
<1>2. CallOK(Top, status, current)
    BY <1>1, StackFacts DEF TypeOK, StackInv, StackOK, Top
<1>3. Top.op \in 1..Total /\ status[Top.op] \in {"queued", "running"}
    BY <1>1, <1>2 DEF CallOK, Total
<1>4. /\ Total' = Total /\ Total \in Nat
      /\ \A n \in 1..Total : status'[n] = IF n = Top.op THEN state ELSE status[n]
    BY OverwriteSeq, LenProperties DEF TypeOK, Total
<1>5. ProgressInv'
    BY <1>3, <1>4 DEF ProgressInv
<1>6. InProgress("userCallback") # {} => current \in 1..Total
    <2>1. ASSUME NEW n \in InProgress("userCallback") PROVE current <= Total
        BY DEF StackInv, StackOK, CallOK, InProgress, CallsOf, Total
    <2> QED
        BY <1>4, <2>1 DEF ProgressInv
<1>7. InProgress("userCallback") # {} =>
          current # Top.op /\ status'[current] = "callback"
    BY <1>3, <1>4, <1>6 DEF CallbackInv
<1>8. CallOK(Call("tryDrain", 0), status, current)
    BY DEF CallOK, Call
<1>9. /\ StackOK(Caller, status, current) /\ AllSuspended(Caller)
      /\ Users(Caller) = InProgress("userCallback") /\ Caller \in Seq(Frame)
    BY <1>1, <1>8, ReplaceTop, StackFacts DEF TypeOK, Pcs
<1>10. /\ Len(status) \in Nat /\ Len(status') \in Nat
       /\ Len(status) <= Len(status') /\ current \in Nat
    BY <1>4 DEF ProgressInv, Total
<1>11. StackOK(Caller, status', current)
    BY <1>9, <1>10, StackChange
<1>12. Top.op \in Nat /\ Top.op \in 1..Total' /\ status'[Top.op] = state
    BY <1>3, <1>4
<1> QED
    BY <1>3, <1>4, <1>5, <1>7, <1>9, <1>11, <1>12 DEF Total

LEMMA RunSteps ==
    ASSUME TypeOK, StackInv, ProgressInv, CallbackInv,
           RunRequest \/ RunNoOperation
    PROVE  (StackInv /\ ProgressInv /\ CallbackInv)'
<1> DEFINE ran == Append(Caller, Call("ran", Top.op))
           done == Call("succeed", Top.op)
<1>1. /\ Running("run") /\ status' = [status EXCEPT ![Top.op] = "running"]
      /\ UNCHANGED <<operations, current, fired, completing, ended>>
      /\ stack' = ran \/ stack' = Append(ran, done)
    BY DEF RunRequest, RunNoOperation
<1>2. /\ Top.op \in 1..Total' /\ status'[Top.op] = "running" /\ Top.op \in Nat
      /\ ProgressInv'
      /\ InProgress("userCallback") # {} => status'[current] = "callback"
      /\ StackOK(Caller, status', current) /\ AllSuspended(Caller)
      /\ Caller \in Seq(Frame) /\ Users(Caller) = InProgress("userCallback")
    <2>1. "running" \in OperationState \ {"complete"}
        BY DEF OperationState
    <2> QED
        BY <1>1, <2>1, StatusStep
<1>3. /\ CallOK(Call("ran", Top.op), status', current) /\ CallOK(done, status', current)
      /\ Call("ran", Top.op) \in Frame /\ Call("ran", Top.op).pc = "ran"
      /\ done \in Frame /\ done.pc = "succeed"
    BY <1>2, CallIsFrame DEF CallOK, Call, Pcs, Total
<1>4. /\ ran \in Seq(Frame) /\ AllSuspended(ran) /\ StackOK(ran, status', current)
      /\ Users(ran) = InProgress("userCallback")
    BY <1>2, <1>3, StackPush DEF Suspended
<1> HIDE DEF ran, done
<1>5. /\ StackOK(Append(ran, done), status', current)
      /\ Users(Append(ran, done)) = InProgress("userCallback")
      /\ Append(ran, done)[Len(Append(ran, done))] = done
    BY <1>3, <1>4, StackPush
<1>6. StackOK(stack', status', current) /\ Users(stack') = InProgress("userCallback")
    BY <1>1, <1>4, <1>5
<1>7. ~Running("fire")'
    BY <1>1, <1>3, <1>4, <1>5, SuspendedIsNotFire DEF Running, Top
<1>8. InProgress("userCallback")' = InProgress("userCallback")
    BY <1>6 DEF InProgress, Users
<1>9. CallbackInv'
    BY <1>1, <1>2, <1>7, <1>8 DEF CallbackInv, FiredOneByOne, FiredInOrder
<1> QED
    BY <1>1, <1>2, <1>6, <1>9 DEF StackInv

(* In sequence mode the callback of an operation fires only when it is the  *)
(* current one, and no user callback can be in progress then.               *)
LEMMA SettleStep ==
    ASSUME CallbackInOrder, TypeOK, StackInv, ProgressInv, CallbackInv,
           BatchOperationCallback
    PROVE  (StackInv /\ ProgressInv /\ CallbackInv)'
<1> DEFINE tail == Append(Caller, Call("tryDrain", 0))
           fire == Call("fire", Top.op)
<1>1. /\ Settling /\ status' = [status EXCEPT ![Top.op] = "callback"]
      /\ UNCHANGED <<operations, current, fired, completing, ended>>
      /\ stack' = IF MayFireNow THEN Append(tail, fire) ELSE tail
    BY DEF BatchOperationCallback, SettleWith
<1>2. /\ Top.op \in 1..Total' /\ status'[Top.op] = "callback" /\ Top.op \in Nat
      /\ ProgressInv'
      /\ InProgress("userCallback") # {} =>
            current # Top.op /\ status'[current] = "callback"
      /\ StackOK(Caller, status', current) /\ AllSuspended(Caller)
      /\ Caller \in Seq(Frame) /\ Users(Caller) = InProgress("userCallback")
    <2>1. "callback" \in OperationState \ {"complete"}
        BY DEF OperationState
    <2> QED
        BY <1>1, <2>1, StatusStep
<1>3. /\ CallOK(Call("tryDrain", 0), status', current)
      /\ Call("tryDrain", 0) \in Frame /\ Call("tryDrain", 0).pc = "tryDrain"
      /\ fire \in Frame /\ fire.pc = "fire"
    BY <1>2, CallIsFrame DEF CallOK, Call, Pcs
<1>4. /\ tail \in Seq(Frame) /\ AllSuspended(tail) /\ StackOK(tail, status', current)
      /\ Users(tail) = InProgress("userCallback")
    BY <1>2, <1>3, StackPush DEF Suspended
<1>5. MayFireNow => /\ InProgress("userCallback") = {} /\ current = Top.op
                    /\ CallOK(fire, status', current)
    BY <1>2 DEF MayFireNow, CallOK, Call, Total
<1> HIDE DEF tail, fire
<1>6. MayFireNow => /\ StackOK(Append(tail, fire), status', current)
                    /\ Users(Append(tail, fire)) = InProgress("userCallback")
    BY <1>3, <1>4, <1>5, StackPush
<1>7. StackOK(stack', status', current) /\ Users(stack') = InProgress("userCallback")
    BY <1>1, <1>4, <1>6
<1>8. Running("fire")' => InProgress("userCallback") = {}
    BY <1>1, <1>4, <1>5, SuspendedIsNotFire DEF Running, Top
<1>9. InProgress("userCallback")' = InProgress("userCallback")
    BY <1>7 DEF InProgress, Users
<1>10. CallbackInv'
    BY <1>1, <1>2, <1>8, <1>9 DEF CallbackInv, FiredOneByOne, FiredInOrder
<1> QED
    BY <1>1, <1>2, <1>7, <1>10 DEF StackInv

(* The callback that is fired is that of the current operation, which is    *)
(* the first one kept.                                                      *)
LEMMA FireStep ==
    ASSUME CallbackInOrder, TypeOK, StackInv, ProgressInv, CallbackInv,
           FireUserCallback
    PROVE  (StackInv /\ ProgressInv /\ CallbackInv)'
<1> DEFINE index == CallbackOperationIndex
           i == IF Top.op # 0 \/ index = 0 THEN Top.op ELSE operations[index]
           firing == [pc |-> "userCallback", op |-> i, index |-> index]
<1>1. /\ stack # <<>> /\ Top.pc = "fire" /\ i # 0
      /\ InProgress("userCallback") = {}
      /\ stack' = Append(Caller, firing)
      /\ fired' = Append(fired, i)
      /\ UNCHANGED <<status, operations, current, completing, ended>>
    BY DEF FireUserCallback, Running, batch, CallbackInv
<1>2. /\ Total \in Nat /\ current \in Nat \ {0} /\ Len(operations) \in Nat
      /\ Len(fired) \in Nat /\ Top.op \in Nat
    BY <1>1, LenProperties, StackFacts DEF TypeOK, Total, ProgressInv
<1>3. CallOK(Top, status, current)
    BY <1>1, StackFacts DEF TypeOK, StackInv, StackOK, Top
<1>4. index \in 0..Len(operations) /\ (index # 0 => MayFire(operations[index]))
    BY CallbackOperationIndexType DEF TypeOK
<1>5. i = current /\ current <= Total /\ status[current] = "callback"
    <2>1. CASE Top.op # 0
        BY <1>1, <1>3, <2>1 DEF CallOK, Total
    <2>2. CASE Top.op = 0
        <3>1. index \in 1..Len(operations) /\ i = operations[index]
            BY <1>1, <1>2, <1>4, <2>2
        <3>2. i = current /\ status[current] = "callback"
            BY <1>2, <1>4, <3>1 DEF MayFire
        <3>3. current <= Total
            BY <1>2, <3>1 DEF ProgressInv
        <3> QED
            BY <3>2, <3>3
    <2> QED
        BY <2>1, <2>2
<1>6. index = 1
    <2>1. 1 \in 1..Len(operations) /\ operations[1] = current
        BY <1>2, <1>5 DEF ProgressInv
    <2>2. MayFire(operations[1])
        BY <1>5, <2>1 DEF MayFire
    <2>3. index # 0
        <3> DEFINE ready == {n \in 1..Len(operations) : MayFire(operations[n])}
        <3>1. 1 \in ready /\ ready \subseteq Nat /\ 0 \notin ready
            BY <1>2, <2>1, <2>2
        <3>2. \E n \in ready : \A m \in ready : n <= m
            BY <3>1, LeastNatural
        <3>3. index \in ready
            BY <3>1, <3>2 DEF CallbackOperationIndex
        <3> QED
            BY <3>1, <3>3
    <2>4. operations[index] = current
        BY <1>4, <2>3 DEF MayFire
    <2> QED
        BY <1>2, <1>4, <2>3, <2>4 DEF ProgressInv
<1>7. /\ firing \in Frame /\ firing.pc = "userCallback"
      /\ CallOK(firing, status, current)
    BY <1>2, <1>5, <1>6 DEF Frame, Pcs, CallOK, Total
<1>8. /\ Caller \in Seq(Frame) /\ AllSuspended(Caller) /\ Users(Caller) = {}
      /\ StackOK(Caller, status, current)
    BY <1>1, StackFacts, StackPop DEF TypeOK, StackInv, Caller, Users, InProgress
<1>9. /\ StackOK(stack', status', current')
      /\ Users(stack') = {Len(Caller) + 1}
      /\ stack'[Len(stack')].pc = "userCallback"
    <2> HIDE DEF firing
    <2> QED
        BY <1>1, <1>7, <1>8, StackPush
<1>10. ProgressInv'
    BY <1>1 DEF ProgressInv, Total
<1>11. CallbackInv'
    <2>1. InProgress("userCallback")' = {Len(Caller) + 1}
        BY <1>9 DEF InProgress, Users
    <2>2. ~Running("fire")'
        BY <1>9 DEF Running, Top
    <2>3. /\ Len(fired') = Len(fired) + 1 /\ fired'[Len(fired) + 1] = i
          /\ \A n \in 1..Len(fired) : fired'[n] = fired[n]
        BY <1>1, <1>2, <1>5, PushCall DEF TypeOK
    <2>4. Len(fired) = current - 1
        BY <1>1 DEF CallbackInv
    <2>5. Len(fired') = current' /\ FiredInOrder'
        BY <1>1, <1>2, <1>5, <2>3, <2>4 DEF CallbackInv, FiredInOrder
    <2>6. FiredOneByOne'
        BY <2>1 DEF FiredOneByOne
    <2> QED
        BY <1>1, <1>5, <2>1, <2>2, <2>5, <2>6 DEF CallbackInv
<1> QED
    BY <1>9, <1>10, <1>11 DEF StackInv

(* Removing the first element of a sequence.                                *)
LEMMA SpliceFirst ==
    ASSUME NEW S, NEW s \in Seq(S), Len(s) >= 1
    PROVE  /\ Len(Splice(s, 1)) = Len(s) - 1
           /\ \A n \in 1..(Len(s) - 1) : Splice(s, 1)[n] = s[n + 1]
<1>1. Len(s) \in Nat /\ 1 \in 1..Len(s)
    BY LenProperties
<1> DEFINE t == SubSeq(s, 2, Len(s))
<1>2. SubSeq(s, 1, 0) = <<>>
    BY SubSeqEmpty
<1>3. /\ t \in Seq(S)
      /\ Len(t) = Len(s) - 1
      /\ \A n \in 1..(Len(s) - 1) : t[n] = s[n + 1]
    <2>1. \A i \in 2..Len(s) : s[i] \in S
        BY <1>1, ElementOfSeq
    <2>2. /\ t \in Seq(S)
          /\ Len(t) = IF 2 <= Len(s) THEN Len(s) - 2 + 1 ELSE 0
          /\ \A i \in 1..(Len(s) - 2 + 1) : t[i] = s[2 + i - 1]
        BY <1>1, <2>1, SubSeqProperties
    <2> HIDE DEF t
    <2>3. Len(t) = Len(s) - 1
        <3>1. Len(t) = IF 2 <= Len(s) THEN Len(s) - 2 + 1 ELSE 0
            BY <2>2
        <3>2. CASE 2 <= Len(s)
            BY <1>1, <3>1, <3>2
        <3>3. CASE Len(s) = 1
            <4>1. Len(t) = 0
                BY <3>1, <3>3
            <4> QED
                BY <3>3, <4>1
        <3> QED
            BY <1>1, <3>2, <3>3
    <2>4. ASSUME NEW n \in 1..(Len(s) - 1) PROVE t[n] = s[n + 1]
        <3>1. n \in 1..(Len(s) - 2 + 1) /\ 2 + n - 1 = n + 1
            BY <1>1
        <3> QED
            BY <2>2, <3>1
    <2> QED
        BY <2>2, <2>3, <2>4
<1>4. Splice(s, 1) = SubSeq(s, 1, 0) \o t
    BY <1>1 DEF Splice
<1>5. Splice(s, 1) = t
    BY <1>2, <1>3, <1>4, ConcatEmptySeq
<1> QED
    BY <1>3, <1>5

(* The operation that is removed is the first one, and the only user        *)
(* callback in progress is over.                                            *)
LEMMA ReturnStep ==
    ASSUME CallbackInOrder, TypeOK, StackInv, ProgressInv, CallbackInv,
           UserCallbackReturns
    PROVE  (StackInv /\ ProgressInv /\ CallbackInv)'
<1>1. /\ stack # <<>> /\ Top.pc = "userCallback"
      /\ operations' = Splice(operations, Top.index)
      /\ status' = [status EXCEPT ![Top.op] = "complete"]
      /\ current' = current + 1
      /\ stack' = Append(Caller, Call("fire", 0))
      /\ UNCHANGED <<completing, ended, fired>>
    BY DEF UserCallbackReturns, RemoveOperation, Running
<1>2. /\ stack \in Seq(Frame) /\ Len(stack) \in Nat \ {0}
      /\ Caller \in Seq(Frame)
      /\ Total \in Nat /\ Len(operations) \in Nat
    BY <1>1, StackFacts, LenProperties DEF TypeOK, Total
<1>3. Top.op = current /\ Top.index = 1 /\ current \in 1..Total
    <2>1. CallOK(Top, status, current)
        BY <1>1, StackFacts DEF TypeOK, StackInv, StackOK, Top
    <2> QED
        BY <1>1, <1>2, <2>1 DEF CallOK, ProgressInv, Total
<1>4. /\ Total' = Total
      /\ \A n \in 1..Total : status'[n] = IF n = current THEN "complete" ELSE status[n]
    BY <1>1, <1>3, OverwriteSeq DEF TypeOK, Total, OperationState
<1>5. InProgress("userCallback") = {Len(stack)}
    <2>1. Len(stack) \in InProgress("userCallback")
        BY <1>1, <1>2 DEF InProgress, CallsOf, Top
    <2> QED
        BY <2>1 DEF CallbackInv, FiredOneByOne
<1>6. /\ AllSuspended(Caller) /\ Users(Caller) = {}
      /\ StackOK(Caller, status, current)
    BY <1>1, <1>2, <1>5, StackPop DEF StackInv, Caller, Users, InProgress
<1>7. StackOK(Caller, status', current')
    <2>1. Len(status) \in Nat /\ Len(status') \in Nat /\ Len(status) <= Len(status')
        BY <1>2, <1>4 DEF Total
    <2> QED
        BY <1>2, <1>3, <1>6, <2>1, StackChange
<1>8. /\ Call("fire", 0) \in Frame /\ Call("fire", 0).pc = "fire"
      /\ CallOK(Call("fire", 0), status', current')
    BY CallIsFrame DEF Call, CallOK, Pcs
<1>9. StackOK(stack', status', current') /\ Users(stack') = {}
    BY <1>1, <1>2, <1>6, <1>7, <1>8, StackPush
<1>10. ProgressInv'
    <2>1. Len(operations) >= 1
        BY <1>2, <1>3 DEF ProgressInv
    <2>2. /\ Len(operations') = Len(operations) - 1
          /\ \A n \in 1..(Len(operations) - 1) : operations'[n] = operations[n + 1]
        BY <1>1, <1>3, <2>1, SpliceFirst DEF TypeOK
    <2>3. /\ current' \in 1..(Total' + 1)
          /\ Len(operations') = Total' + 1 - current'
        <3>1. Len(operations) = Total + 1 - current /\ current \in Nat
            BY <1>2, <1>3 DEF ProgressInv
        <3>2. current' = current + 1 /\ Total' = Total /\ Len(operations') = Len(operations) - 1
            BY <1>1, <1>4, <2>2
        <3> QED
            BY <1>2, <1>3, <3>1, <3>2
    <2>4. ASSUME NEW n \in 1..Total' PROVE status'[n] = "complete" <=> n < current'
        BY <1>1, <1>2, <1>3, <1>4 DEF ProgressInv
    <2>5. ASSUME NEW n \in 1..Len(operations')
          PROVE  operations'[n] = current' + n - 1
        BY <1>1, <1>2, <1>3, <2>2 DEF ProgressInv
    <2>6. ~ended'
        BY <1>1, <1>2, <1>3 DEF ProgressInv
    <2> QED
        BY <2>3, <2>4, <2>5, <2>6 DEF ProgressInv
<1>11. CallbackInv'
    <2>1. InProgress("userCallback")' = {}
        BY <1>9 DEF InProgress, Users
    <2>2. Len(fired') = current' - 1
        <3>1. Len(fired) = current
            BY <1>5 DEF CallbackInv
        <3> QED
            BY <1>1, <1>3, <3>1
    <2> QED
        BY <1>1, <2>1, <2>2 DEF CallbackInv, FiredOneByOne, FiredInOrder
<1> QED
    BY <1>9, <1>10, <1>11 DEF StackInv

-----------------------------------------------------------------------------
LEMMA SequenceInit == Init => SequenceInv
<1> SUFFICES ASSUME Init, CallbackInOrder
             PROVE  StackInv /\ ProgressInv /\ CallbackInv
    BY DEF SequenceInv
<1>1. /\ Len(status) = 0 /\ Len(operations) = 0 /\ Len(fired) = 0
      /\ Len(stack) = 0 /\ stack = <<>> /\ current = 1 /\ ended = FALSE
    BY EmptySeq DEF Init
<1> QED
    BY <1>1 DEF StackInv, StackOK, ProgressInv, CallbackInv, FiredOneByOne,
       FiredInOrder, InProgress, CallsOf, Running, Total

LEMMA SequenceNext == TypeOK /\ SequenceInv /\ [Next]_vars => SequenceInv'
<1> SUFFICES ASSUME CallbackInOrder, TypeOK, StackInv, ProgressInv, CallbackInv,
                    [Next]_vars
             PROVE  (StackInv /\ ProgressInv /\ CallbackInv)'
    BY DEF SequenceInv
<1>1. CASE RunRequest \/ RunNoOperation
    BY <1>1, RunSteps
<1>2. CASE BatchOperationCallback
    BY <1>2, SettleStep
<1>3. CASE FireUserCallback
    BY <1>3, FireStep
<1>4. CASE UserCallbackReturns
    BY <1>4, ReturnStep
<1>5. CASE \/ RunAfterError \/ Ran \/ FireWhilePaused \/ FireNothing
           \/ EmitEnd \/ NotComplete \/ EmitDrain \/ NoDrain \/ ListenerReturns
    BY <1>5, ControlSteps
<1>6. CASE UserAdds
    BY <1>6, UserAddsStep
<1>7. CASE UserEnablesComplete \/ UserPauses \/ UserResumes
    BY <1>7, UserSteps
<1>8. ASSUME NEW i \in 1..Total, NEW failed \in BOOLEAN, RequestDone(i, failed)
      PROVE  (StackInv /\ ProgressInv /\ CallbackInv)'
    BY <1>8, RequestDoneStep
<1>9. CASE UNCHANGED vars
    BY <1>9 DEF vars, StackInv, ProgressInv, CallbackInv, FiredOneByOne,
       FiredInOrder, InProgress, Running, Top, Total
<1> QED
    BY <1>1, <1>2, <1>3, <1>4, <1>5, <1>6, <1>7, <1>8, <1>9
       DEF Next, Step, Terminated

(* The invariant of sequence mode: the operations that are not kept any     *)
(* more are those before the current one, and their callbacks were fired.   *)
THEOREM SequenceInvariant == Spec => []SequenceInv
    BY TypeInit, TypeNext, SequenceInit, SequenceNext, PTL DEF Spec

(* FiredInOrder: the n-th user callback that is fired is that of the n-th   *)
(* operation, so that a download writes its ranges in order and once.       *)
THEOREM FiresInOrder == Spec => []FiredInOrder
<1>1. SequenceInv => FiredInOrder
    BY DEF SequenceInv, CallbackInv, FiredInOrder
<1> QED
    BY <1>1, SequenceInvariant, PTL

(* FiredOneByOne, in sequence mode: a user callback never starts inside     *)
(* another one, however the batch is re-entered.                            *)
THEOREM FiresOneByOne ==
    ASSUME CallbackInOrder PROVE Spec => []FiredOneByOne
<1>1. SequenceInv => FiredOneByOne
    BY DEF SequenceInv, CallbackInv
<1> QED
    BY <1>1, SequenceInvariant, PTL

(* NoDebugError: getBatchOperationCallback never finds an operation that    *)
(* the sequence has passed already.                                         *)
THEOREM NeverDebugError == Spec => []NoDebugError
<1>1. TypeOK /\ SequenceInv => NoDebugError
    <2> SUFFICES ASSUME TypeOK, StackInv, ProgressInv, Settling
                 PROVE  current <= Top.op
        BY DEF SequenceInv, NoDebugError
    <2>1. CallOK(Top, status, current)
        BY StackFacts DEF TypeOK, StackInv, StackOK, Top, Settling, Running
    <2>2. Top.op \in 1..Total /\ status[Top.op] # "complete"
        BY <2>1 DEF CallOK, Settling, Running, Total
    <2> QED
        BY <2>2, LenProperties DEF ProgressInv, TypeOK, Total
<1> QED
    BY <1>1, SequenceInvariant, TypeCorrect, PTL

(* EndMeansDone, in sequence mode: after 'end' every operation that was     *)
(* added is complete and its user callback was fired.                       *)
THEOREM EndIsFinal ==
    ASSUME CallbackInOrder PROVE Spec => []EndMeansDone
<1>1. TypeOK /\ SequenceInv => EndMeansDone
    <2> SUFFICES ASSUME TypeOK, StackInv, ProgressInv, CallbackInv, ended
                 PROVE  Unfinished = {} /\ Len(fired) = Total
        BY DEF SequenceInv, EndMeansDone
    <2>1. current = Total + 1 /\ Total \in Nat
        BY LenProperties DEF ProgressInv, TypeOK, Total
    <2>2. Unfinished = {}
        BY <2>1 DEF ProgressInv, Unfinished
    <2>3. InProgress("userCallback") = {}
        <3>1. ASSUME NEW n \in InProgress("userCallback") PROVE FALSE
            BY <2>1 DEF StackInv, StackOK, CallOK, InProgress, CallsOf, Total
        <3> QED
            BY <3>1
    <2> QED
        BY <2>1, <2>2, <2>3 DEF CallbackInv
<1> QED
    BY <1>1, SequenceInvariant, TypeCorrect, PTL

-----------------------------------------------------------------------------
(* No user callback is lost while the batch is paused, resumed and          *)
(* re-entered, and every step of the batch is one of Delivery or changes    *)
(* nothing that Delivery speaks of.                                         *)


(* An operation that has not been run yet has the call that will run it, or *)
(* report the previous error; and once the callback of the current          *)
(* operation may be fired, there is a call that fires it or has fired it.   *)
Awaited(s, i) == \E n \in 1..Len(s) : s[n].pc \in {"run", "fail"} /\ s[n].op = i
Firing(s) == \E n \in 1..Len(s) : s[n].pc \in {"fire", "userCallback"}

CallbackDue == current <= Total /\ status[current] = "callback"

PendingInv ==
    /\ \A i \in 1..Total :
          /\ status[i] \in {"queued", "running", "callback", "complete"}
          /\ status[i] = "queued" => Awaited(stack, i)
    /\ ~paused /\ CallbackDue => Firing(stack)

LEMMA PushKeeps ==
    ASSUME NEW s \in Seq(Frame), NEW f \in Frame
    PROVE  /\ \A i : Awaited(s, i) => Awaited(Append(s, f), i)
           /\ f.pc \in {"run", "fail"} => Awaited(Append(s, f), f.op)
           /\ Firing(s) => Firing(Append(s, f))
           /\ f.pc \in {"fire", "userCallback"} => Firing(Append(s, f))
<1> DEFINE t == Append(s, f)
<1>1. /\ Len(s) \in Nat /\ Len(t) = Len(s) + 1
      /\ \A n \in 1..Len(s) : t[n] = s[n]
      /\ t[Len(s) + 1] = f
    BY PushCall, LenProperties
<1> HIDE DEF t
<1>2. \A i : Awaited(s, i) => Awaited(t, i)
    BY <1>1 DEF Awaited
<1>3. f.pc \in {"run", "fail"} => Awaited(t, f.op)
    BY <1>1 DEF Awaited
<1>4. Firing(s) => Firing(t)
    BY <1>1 DEF Firing
<1>5. f.pc \in {"fire", "userCallback"} => Firing(t)
    BY <1>1 DEF Firing
<1> QED
    BY <1>2, <1>3, <1>4, <1>5 DEF t

LEMMA CallerKeeps ==
    ASSUME TypeOK, stack # <<>>
    PROVE  /\ \A i : Awaited(stack, i) =>
                        Awaited(Caller, i) \/ (Top.pc \in {"run", "fail"} /\ Top.op = i)
           /\ Firing(stack) => Firing(Caller) \/ Top.pc \in {"fire", "userCallback"}
<1>1. /\ Len(stack) \in Nat \ {0} /\ Len(Caller) = Len(stack) - 1
      /\ \A n \in 1..(Len(stack) - 1) : Caller[n] = stack[n]
    BY StackFacts DEF TypeOK
<1>2. ASSUME NEW i, Awaited(stack, i)
      PROVE  Awaited(Caller, i) \/ (Top.pc \in {"run", "fail"} /\ Top.op = i)
    BY <1>1, <1>2 DEF Awaited, Top
<1>3. Firing(stack) => Firing(Caller) \/ Top.pc \in {"fire", "userCallback"}
    BY <1>1 DEF Firing, Top
<1> QED
    BY <1>2, <1>3

(* A step that changes no state of an operation, and loses no call that     *)
(* something waits for, keeps the invariant.                                *)
LEMMA PendingSame ==
    ASSUME PendingInv, UNCHANGED <<status, current>>,
           \A i \in 1..Total : Awaited(stack, i) => Awaited(stack', i),
           ~paused' => ~paused \/ Firing(stack'),
           Firing(stack) => Firing(stack') \/ paused' \/ ~CallbackDue
    PROVE  PendingInv'
<1>1. Total' = Total /\ (CallbackDue' <=> CallbackDue)
    BY DEF Total, CallbackDue
<1>2. ASSUME NEW i \in 1..Total' PROVE status'[i] = "queued" => Awaited(stack', i)
    BY <1>1 DEF PendingInv
<1>3. \A i \in 1..Total' : status'[i] \in {"queued", "running", "callback", "complete"}
    BY <1>1 DEF PendingInv
<1>4. ~paused' /\ CallbackDue' => Firing(stack')
    BY <1>1 DEF PendingInv
<1> QED
    BY <1>2, <1>3, <1>4 DEF PendingInv

(* When no index is found the callback of the current operation is not due. *)
LEMMA NothingFound ==
    ASSUME CallbackInOrder, TypeOK, ProgressInv, CallbackOperationIndex = 0
    PROVE  ~CallbackDue
<1> DEFINE ready == {n \in 1..Len(operations) : MayFire(operations[n])}
<1>1. Total \in Nat /\ Len(operations) \in Nat
    BY LenProperties DEF TypeOK, Total
<1>2. SUFFICES ASSUME CallbackDue PROVE FALSE
    OBVIOUS
<1>3. 1 \in 1..Len(operations) /\ operations[1] = current
    BY <1>1, <1>2 DEF ProgressInv, CallbackDue
<1>4. 1 \in ready /\ ready \subseteq Nat
    BY <1>1, <1>2, <1>3 DEF MayFire, CallbackDue
<1>5. \E n \in ready : \A m \in ready : n <= m
    BY <1>4, LeastNatural
<1>6. CallbackOperationIndex \in ready
    BY <1>4, <1>5 DEF CallbackOperationIndex
<1> QED
    BY <1>6

(* Calls that the batch replaces, and that return.                          *)
LEMMA ControlPending ==
    ASSUME CallbackInOrder, TypeOK, ProgressInv, PendingInv,
           \/ RunAfterError \/ Ran \/ FireWhilePaused \/ FireNothing
           \/ EmitEnd \/ NotComplete \/ EmitDrain \/ NoDrain \/ ListenerReturns
    PROVE  PendingInv'
<1>1. /\ stack # <<>> /\ Top.op \in Nat /\ Caller \in Seq(Frame)
      /\ UNCHANGED <<status, current, paused>>
    BY StackFacts DEF TypeOK, Running, RunAfterError, Ran, FireWhilePaused,
       FireNothing, EmitEnd, NotComplete, EmitDrain, NoDrain, ListenerReturns, batch
<1>2. CASE RunAfterError
    <2> DEFINE ran == Append(Caller, Call("ran", Top.op))
    <2>1. /\ Top.pc = "run" /\ stack' = Append(ran, Call("fail", Top.op))
          /\ Call("fail", Top.op) \in Frame /\ Call("ran", Top.op) \in Frame
          /\ Call("fail", Top.op).pc = "fail" /\ Call("fail", Top.op).op = Top.op
        BY <1>1, <1>2, CallIsFrame DEF RunAfterError, Running, Call, Pcs
    <2>2. /\ ran \in Seq(Frame)
          /\ \A i : Awaited(Caller, i) => Awaited(ran, i)
          /\ Firing(Caller) => Firing(ran)
        BY <1>1, <2>1, PushKeeps, PushCall
    <2> HIDE DEF ran
    <2>3. /\ \A i : Awaited(ran, i) => Awaited(stack', i)
          /\ Awaited(stack', Top.op) /\ (Firing(ran) => Firing(stack'))
        BY <2>1, <2>2, PushKeeps
    <2>4. /\ \A i : Awaited(stack, i) => Awaited(stack', i)
          /\ Firing(stack) => Firing(stack')
        BY <1>1, <2>1, <2>2, <2>3, CallerKeeps
    <2> QED
        BY <1>1, <2>4, PendingSame
<1>3. CASE Ran \/ NoDrain \/ ListenerReturns
    <2>1. Top.pc \notin {"run", "fail", "fire", "userCallback"} /\ stack' = Caller
        BY <1>3 DEF Ran, NoDrain, ListenerReturns, Running
    <2> QED
        BY <1>1, <2>1, CallerKeeps, PendingSame
<1>4. CASE FireWhilePaused \/ FireNothing \/ EmitEnd \/ NotComplete \/ EmitDrain
    <2>1. /\ Top.pc \in {"fire", "tryEnd", "tryDrain"}
          /\ Top.pc = "fire" => paused \/ ~CallbackDue
        BY <1>4, NothingFound
           DEF FireWhilePaused, FireNothing, EmitEnd, NotComplete, EmitDrain, Running
    <2>2. \E pc \in {"tryDrain", "tryEnd", "onDrain", "onEnd"} :
              stack' = Append(Caller, Call(pc, 0))
        BY <1>4 DEF FireWhilePaused, FireNothing, EmitEnd, NotComplete, EmitDrain
    <2>3. \A pc \in {"tryDrain", "tryEnd", "onDrain", "onEnd"} : Call(pc, 0) \in Frame
        BY CallIsFrame DEF Pcs
    <2>4. /\ \A i : Awaited(Caller, i) => Awaited(stack', i)
          /\ Firing(Caller) => Firing(stack')
        BY <1>1, <2>2, <2>3, PushKeeps
    <2>5. /\ \A i : Awaited(stack, i) => Awaited(stack', i)
          /\ Firing(stack) => Firing(stack') \/ paused' \/ ~CallbackDue
        BY <1>1, <2>1, <2>4, CallerKeeps
    <2> QED
        BY <1>1, <2>5, PendingSame
<1> QED
    BY <1>2, <1>3, <1>4

(* Calls that the user and the event loop make.                             *)
LEMMA CallsPending ==
    ASSUME TypeOK, PendingInv,
           \/ UserEnablesComplete \/ UserPauses \/ UserResumes
           \/ \E i \in 1..Total, failed \in BOOLEAN : RequestDone(i, failed)
    PROVE  PendingInv'
<1>1. stack \in Seq(Frame) /\ Total \in Nat
    BY LenProperties DEF TypeOK, Total
<1>2. ASSUME NEW f \in Frame, stack' = Append(stack, f), UNCHANGED <<status, current>>,
             paused' = paused \/ f.pc = "fire"
      PROVE  PendingInv'
    <2>1. /\ \A i : Awaited(stack, i) => Awaited(stack', i)
          /\ Firing(stack) => Firing(stack')
          /\ f.pc = "fire" => Firing(stack')
        BY <1>1, <1>2, PushKeeps
    <2> QED
        BY <1>2, <2>1, PendingSame
<1>3. CASE UserEnablesComplete
    BY <1>2, <1>3, CallIsFrame DEF UserEnablesComplete, EnableComplete, Pcs
<1>4. CASE UserResumes
    <2>1. Call("fire", 0) \in Frame /\ Call("fire", 0).pc = "fire"
        BY CallIsFrame DEF Call, Pcs
    <2> QED
        BY <1>2, <1>4, <2>1 DEF UserResumes, Resume
<1>5. CASE UserPauses
    BY <1>5, PendingSame DEF UserPauses, Pause
<1>6. ASSUME NEW i \in 1..Total, NEW failed \in BOOLEAN, RequestDone(i, failed)
      PROVE  PendingInv'
    <2> DEFINE pc == IF failed THEN "fail" ELSE "succeed"
    <2>1. Call(pc, i) \in Frame
        BY <1>1, CallIsFrame DEF Pcs
    <2>2. stack' = Append(stack, Call(pc, i)) /\ UNCHANGED <<status, current, paused>>
        BY <1>6 DEF RequestDone, RequestDoneIn, batch
    <2> QED
        BY <1>2, <2>1, <2>2
<1> QED
    BY <1>3, <1>4, <1>5, <1>6

(* An operation that is added is run by the call that adds it.              *)
LEMMA AddsPending ==
    ASSUME TypeOK, ProgressInv, PendingInv, UserAdds
    PROVE  PendingInv'
<1> DEFINE run == Call("run", Total + 1)
<1>1. /\ status' = Append(status, "queued") /\ UNCHANGED <<current, paused>>
      /\ stack' = Append(stack, run)
    BY DEF UserAdds, AddOperation, AddOperationAs
<1>2. /\ Total \in Nat /\ Total' = Total + 1
      /\ \A i \in 1..Total : status'[i] = status[i]
      /\ status'[Total + 1] = "queued"
    BY <1>1, PushCall, LenProperties DEF TypeOK, Total, OperationState
<1>3. run \in Frame /\ run.pc = "run" /\ run.op = Total + 1 /\ stack \in Seq(Frame)
    BY <1>2, CallIsFrame DEF Call, Pcs, TypeOK
<1> HIDE DEF run
<1>4. /\ \A i : Awaited(stack, i) => Awaited(stack', i)
      /\ Awaited(stack', Total + 1)
      /\ Firing(stack) => Firing(stack')
    BY <1>1, <1>3, PushKeeps
<1>5. ASSUME NEW i \in 1..Total'
      PROVE  /\ status'[i] \in {"queued", "running", "callback", "complete"}
             /\ status'[i] = "queued" => Awaited(stack', i)
    <2>1. CASE i \in 1..Total
        BY <1>2, <1>4, <2>1 DEF PendingInv
    <2>2. CASE i = Total + 1
        BY <1>2, <1>4, <2>2
    <2> QED
        BY <1>2, <2>1, <2>2
<1>6. CallbackDue' => CallbackDue
    <2>1. CASE current <= Total
        BY <1>1, <1>2, <2>1 DEF CallbackDue, ProgressInv
    <2>2. CASE current = Total + 1
        BY <1>1, <1>2, <2>2 DEF CallbackDue
    <2> QED
        BY <1>2, <2>1, <2>2 DEF ProgressInv
<1> QED
    BY <1>1, <1>4, <1>5, <1>6 DEF PendingInv

(* The innermost call gives its operation another state.                    *)
LEMMA StatePending ==
    ASSUME TypeOK, StackInv, PendingInv, stack # <<>>,
           Running("run") \/ Settling \/ Running("userCallback"),
           NEW state \in {"running", "callback", "complete"},
           status' = [status EXCEPT ![Top.op] = state],
           \A i : Awaited(Caller, i) => Awaited(stack', i),
           ~paused' /\ CallbackDue' => Firing(stack')
    PROVE  PendingInv'
<1>1. /\ Total' = Total /\ Total \in Nat
      /\ \A n \in 1..Total : status'[n] = IF n = Top.op THEN state ELSE status[n]
    BY OverwriteSeq, LenProperties DEF TypeOK, Total, OperationState
<1>2. ASSUME NEW i \in 1..Total', status'[i] = "queued"
      PROVE  Awaited(stack', i)
    <2>1. i # Top.op /\ Awaited(stack, i)
        BY <1>1, <1>2 DEF PendingInv
    <2> QED
        BY <2>1, CallerKeeps
<1>3. \A i \in 1..Total' : status'[i] \in {"queued", "running", "callback", "complete"}
    BY <1>1 DEF PendingInv
<1> QED
    BY <1>2, <1>3 DEF PendingInv

LEMMA RunsPending ==
    ASSUME TypeOK, StackInv, ProgressInv, PendingInv, RunRequest \/ RunNoOperation
    PROVE  PendingInv'
<1> DEFINE ran == Append(Caller, Call("ran", Top.op))
           done == Call("succeed", Top.op)
<1>1. /\ Running("run") /\ stack # <<>> /\ Top.pc = "run"
      /\ status' = [status EXCEPT ![Top.op] = "running"]
      /\ UNCHANGED <<current, paused>>
      /\ stack' = ran \/ stack' = Append(ran, done)
    BY DEF RunRequest, RunNoOperation, Running
<1>2. /\ Caller \in Seq(Frame) /\ done \in Frame /\ Call("ran", Top.op) \in Frame
    BY <1>1, StackFacts, CallIsFrame DEF TypeOK, Pcs
<1>3. /\ ran \in Seq(Frame)
      /\ \A i : Awaited(Caller, i) => Awaited(ran, i)
      /\ Firing(Caller) => Firing(ran)
    BY <1>2, PushKeeps, PushCall
<1> HIDE DEF ran, done
<1>4. /\ \A i : Awaited(Caller, i) => Awaited(stack', i)
      /\ Firing(Caller) => Firing(stack')
    BY <1>1, <1>2, <1>3, PushKeeps
<1>5. /\ Total' = Total /\ Total \in Nat
      /\ \A n \in 1..Total : status'[n] = IF n = Top.op THEN "running" ELSE status[n]
    BY <1>1, OverwriteSeq, LenProperties DEF TypeOK, Total, OperationState
<1>6. ~paused' /\ CallbackDue' => Firing(stack')
    <2>1. CallbackDue' => CallbackDue
        BY <1>1, <1>5 DEF CallbackDue, ProgressInv
    <2> QED
        BY <1>1, <1>4, <2>1, CallerKeeps DEF PendingInv
<1> QED
    BY <1>1, <1>4, <1>6, StatePending

(* The callback of the current operation is fired at once, that of another  *)
(* one waits for it.                                                        *)
LEMMA SettlePending ==
    ASSUME CallbackInOrder, TypeOK, StackInv, ProgressInv, PendingInv,
           BatchOperationCallback
    PROVE  PendingInv'
<1> DEFINE tail == Append(Caller, Call("tryDrain", 0))
           fire == Call("fire", Top.op)
<1>1. /\ Settling /\ stack # <<>> /\ Top.pc \in {"succeed", "fail"}
      /\ status' = [status EXCEPT ![Top.op] = "callback"]
      /\ UNCHANGED <<current, paused>>
      /\ stack' = IF MayFireNow THEN Append(tail, fire) ELSE tail
    BY DEF BatchOperationCallback, SettleWith, Settling, Running
<1>2. /\ Caller \in Seq(Frame) /\ Call("tryDrain", 0) \in Frame
      /\ fire \in Frame /\ fire.pc = "fire"
    BY <1>1, StackFacts, CallIsFrame DEF TypeOK, Call, Pcs
<1>3. /\ tail \in Seq(Frame)
      /\ \A i : Awaited(Caller, i) => Awaited(tail, i)
      /\ Firing(Caller) => Firing(tail)
    BY <1>2, PushKeeps, PushCall
<1> HIDE DEF tail, fire
<1>4. /\ \A i : Awaited(Caller, i) => Awaited(stack', i)
      /\ Firing(Caller) => Firing(stack')
      /\ MayFireNow => Firing(stack')
    BY <1>1, <1>2, <1>3, PushKeeps
<1>5. /\ Total' = Total /\ Total \in Nat
      /\ \A n \in 1..Total : status'[n] = IF n = Top.op THEN "callback" ELSE status[n]
    BY <1>1, OverwriteSeq, LenProperties DEF TypeOK, Total, OperationState
<1>6. ~paused' /\ CallbackDue' => Firing(stack')
    <2>1. CASE current = Top.op
        BY <1>1, <1>4, <2>1 DEF MayFireNow
    <2>2. CASE current # Top.op
        <3>1. CallbackDue' => CallbackDue
            BY <1>1, <1>5, <2>2 DEF CallbackDue, ProgressInv
        <3> QED
            BY <1>1, <1>4, <3>1, CallerKeeps DEF PendingInv
    <2> QED
        BY <2>1, <2>2
<1> QED
    BY <1>1, <1>4, <1>6, StatePending

(* A callback that is being fired stands for the one that is due.           *)
LEMMA FirePending ==
    ASSUME TypeOK, PendingInv, FireUserCallback
    PROVE  PendingInv'
<1> DEFINE index == CallbackOperationIndex
           i == IF Top.op # 0 \/ index = 0 THEN Top.op ELSE operations[index]
           firing == [pc |-> "userCallback", op |-> i, index |-> index]
<1>1. /\ stack # <<>> /\ Top.pc = "fire" /\ stack' = Append(Caller, firing)
      /\ UNCHANGED <<status, current, paused>>
    BY DEF FireUserCallback, Running, batch
<1>2. Caller \in Seq(Frame) /\ Top.op \in Nat
    BY <1>1, StackFacts DEF TypeOK
<1>3. index \in Nat /\ i \in Nat
    BY <1>2, CallbackOperationIndexType, ElementOfSeq, LenProperties DEF TypeOK
<1>4. firing \in Frame /\ firing.pc = "userCallback"
    BY <1>3 DEF Frame, Pcs
<1> HIDE DEF firing
<1>5. /\ \A j : Awaited(Caller, j) => Awaited(stack', j)
      /\ Firing(stack')
    BY <1>1, <1>2, <1>4, PushKeeps
<1>6. \A j : Awaited(stack, j) => Awaited(stack', j)
    BY <1>1, <1>5, CallerKeeps
<1> QED
    BY <1>1, <1>5, <1>6, PendingSame

(* After a user callback the next one is looked for.                        *)
LEMMA ReturnPending ==
    ASSUME TypeOK, StackInv, PendingInv, UserCallbackReturns
    PROVE  PendingInv'
<1>1. /\ Running("userCallback") /\ stack # <<>>
      /\ status' = [status EXCEPT ![Top.op] = "complete"]
      /\ stack' = Append(Caller, Call("fire", 0))
    BY DEF UserCallbackReturns, RemoveOperation, Running
<1>2. /\ Caller \in Seq(Frame) /\ Call("fire", 0) \in Frame /\ Call("fire", 0).pc = "fire"
    BY <1>1, StackFacts, CallIsFrame DEF TypeOK, Call, Pcs
<1>3. (\A j : Awaited(Caller, j) => Awaited(stack', j)) /\ Firing(stack')
    BY <1>1, <1>2, PushKeeps
<1> QED
    BY <1>1, <1>3, StatePending

LEMMA PendingInit == ASSUME CallbackInOrder, Init PROVE PendingInv
<1>1. Total = 0 /\ ~CallbackDue
    BY EmptySeq DEF Init, Total, CallbackDue
<1> QED
    BY <1>1 DEF PendingInv

LEMMA PendingNext ==
    ASSUME CallbackInOrder, TypeOK, SequenceInv, PendingInv, [Next]_vars
    PROVE  PendingInv'
<1> USE DEF SequenceInv
<1>1. CASE RunRequest \/ RunNoOperation
    BY <1>1, RunsPending
<1>2. CASE BatchOperationCallback
    BY <1>2, SettlePending
<1>3. CASE FireUserCallback
    BY <1>3, FirePending
<1>4. CASE UserCallbackReturns
    BY <1>4, ReturnPending
<1>5. CASE \/ RunAfterError \/ Ran \/ FireWhilePaused \/ FireNothing
           \/ EmitEnd \/ NotComplete \/ EmitDrain \/ NoDrain \/ ListenerReturns
    BY <1>5, ControlPending
<1>6. CASE UserAdds
    BY <1>6, AddsPending
<1>7. CASE \/ UserEnablesComplete \/ UserPauses \/ UserResumes
           \/ \E i \in 1..Total, failed \in BOOLEAN : RequestDone(i, failed)
    BY <1>7, CallsPending
<1>8. CASE UNCHANGED vars
    BY <1>8 DEF vars, PendingInv, CallbackDue, Total
<1> QED
    BY <1>1, <1>2, <1>3, <1>4, <1>5, <1>6, <1>7, <1>8 DEF Next, Step, Terminated

(* NoLostCallback, in sequence mode: a callback that was held back, because *)
(* the batch was paused or an earlier operation was missing, is fired as    *)
(* soon as it may be; an idle batch waits for a request.                    *)
THEOREM NothingLost ==
    ASSUME CallbackInOrder PROVE Spec => []NoLostCallback
<1>1. TypeOK /\ SequenceInv /\ PendingInv => NoLostCallback
    <2> SUFFICES ASSUME TypeOK, ProgressInv, PendingInv, Idle, ~paused,
                        NEW i \in Unfinished
                 PROVE  status[i] = "running" \/ \E j \in 1..(i - 1) : status[j] = "running"
        BY DEF SequenceInv, NoLostCallback
    <2>1. Len(stack) = 0 /\ Total \in Nat
        BY EmptySeq, LenProperties DEF Idle, TypeOK, Total
    <2>2. (\A j : ~Awaited(stack, j)) /\ ~Firing(stack)
        BY <2>1 DEF Awaited, Firing
    <2>3. i \in 1..Total /\ i >= current /\ current \in 1..Total
        BY <2>1 DEF Unfinished, ProgressInv
    <2>4. status[current] = "running"
        BY <2>2, <2>3 DEF PendingInv, CallbackDue, ProgressInv
    <2> QED
        BY <2>1, <2>3, <2>4
<1>2. TypeOK /\ SequenceInv /\ PendingInv /\ [Next]_vars => PendingInv'
    BY PendingNext
<1>3. Init => PendingInv
    BY PendingInit
<1> QED
    BY <1>1, <1>2, <1>3, TypeInit, TypeNext, SequenceInit, SequenceNext, PTL DEF Spec
-----------------------------------------------------------------------------
(* The promise.  What Delivery calls settled are the operations that have   *)
(* called back; the other variables that it speaks of are the batch's own.  *)
Settled == {i \in 1..Total : status[i] \notin {"queued", "running"}}
BoundInv == Total <= MaxOperations

(* A step that keeps which operations have called back.                     *)
LEMMA SettledSame ==
    ASSUME TypeOK, Total' = Total,
           \A i \in 1..Total : (status'[i] \in {"queued", "running"}) <=> (status[i] \in {"queued", "running"})
    PROVE  Settled' = Settled
BY DEF Settled

(* A step of a call that gives its operation another state.                 *)
LEMMA StateGiven ==
    ASSUME TypeOK, NEW i \in 1..Total, NEW state \in OperationState,
           status' = [status EXCEPT ![i] = state]
    PROVE  /\ Total' = Total
           /\ \A n \in 1..Total : status'[n] = IF n = i THEN state ELSE status[n]
BY OverwriteSeq, LenProperties DEF TypeOK, Total

(* The call that runs or settles belongs to an operation that has not       *)
(* called back.                                                             *)
LEMMA TopOperation ==
    ASSUME TypeOK, StackInv, Running("run") \/ Settling
    PROVE  Top.op \in 1..Total /\ status[Top.op] \in {"queued", "running"}
<1>1. stack # <<>> /\ Top.pc \in {"run", "succeed", "fail"}
    BY DEF Running, Settling
<1>2. CallOK(Top, status, current)
    BY <1>1, StackFacts DEF TypeOK, StackInv, StackOK, Top
<1> QED
    BY <1>1, <1>2 DEF CallOK, Total

(* An operation is added: Submit.                                           *)
LEMMA AddsSubmits ==
    ASSUME TypeOK, UserAdds PROVE Promise!Submit
<1>1. /\ status' = Append(status, "queued") /\ UNCHANGED <<fired, completing, ended>>
      /\ ~completing /\ Total < MaxOperations
    BY DEF UserAdds, AddOperation, AddOperationAs
<1>2. /\ Total \in Nat /\ Total' = Total + 1
      /\ \A i \in 1..Total : status'[i] = status[i]
      /\ status'[Total + 1] = "queued"
    BY <1>1, PushCall, LenProperties DEF TypeOK, Total, OperationState
<1>3. Settled' = Settled
    BY <1>2 DEF Settled
<1> QED
    BY <1>1, <1>2, <1>3 DEF Promise!Submit, Settled

(* A request calls back: Settle.                                            *)
LEMMA SettleSettles ==
    ASSUME CallbackInOrder, TypeOK, StackInv, BatchOperationCallback
    PROVE  Promise!Settle(Top.op) /\ Top.op \in 1..Total
<1>1. /\ Settling /\ status' = [status EXCEPT ![Top.op] = "callback"]
      /\ UNCHANGED <<fired, completing, ended>>
    BY DEF BatchOperationCallback, SettleWith
<1>2. Top.op \in 1..Total /\ status[Top.op] \in {"queued", "running"}
    BY <1>1, TopOperation
<1>3. /\ Total' = Total
      /\ \A n \in 1..Total : status'[n] = IF n = Top.op THEN "callback" ELSE status[n]
    BY <1>1, <1>2, StateGiven DEF OperationState
<1>4. Settled' = Settled \cup {Top.op} /\ Top.op \notin Settled
    BY <1>2, <1>3 DEF Settled
<1> QED
    BY <1>1, <1>2, <1>3, <1>4 DEF Promise!Settle, Settled

(* A user callback is called: Deliver, of the operation whose turn it is.   *)
LEMMA FireDelivers ==
    ASSUME CallbackInOrder, TypeOK, StackInv, ProgressInv, CallbackInv, FireUserCallback
    PROVE  Promise!Deliver(current) /\ current \in 1..Total
<1> DEFINE i == IF Top.op # 0 \/ CallbackOperationIndex = 0 THEN Top.op
                ELSE operations[CallbackOperationIndex]
           firing == [pc |-> "userCallback", op |-> i, index |-> CallbackOperationIndex]
<1>1. /\ stack # <<>> /\ stack' = Append(Caller, firing)
      /\ fired' = Append(fired, i)
      /\ UNCHANGED <<status, operations, current, completing, ended>>
      /\ InProgress("userCallback") = {}
    BY DEF FireUserCallback, Running, batch, CallbackInv
<1>2. /\ Total \in Nat /\ Len(fired) \in Nat /\ Caller \in Seq(Frame) /\ Top.op \in Nat
      /\ Len(fired) = current - 1 /\ current \in Nat
    BY <1>1, LenProperties, StackFacts DEF TypeOK, Total, CallbackInv, ProgressInv
<1>3. StackInv' /\ CallbackInv'
    BY FireStep
<1>4. i \in Nat /\ CallbackOperationIndex \in Nat
    BY <1>2, CallbackOperationIndexType, ElementOfSeq, LenProperties DEF TypeOK
<1>5. firing \in Frame /\ firing.pc = "userCallback"
    BY <1>4 DEF Frame, Pcs
<1>6. InProgress("userCallback")' # {}
    <2> HIDE DEF firing
    <2>1. /\ Len(stack') = Len(Caller) + 1 /\ stack'[Len(Caller) + 1] = firing
          /\ Len(Caller) \in Nat
        BY <1>1, <1>2, <1>5, PushCall, LenProperties
    <2> QED
        BY <1>5, <2>1 DEF InProgress, CallsOf
<1>7. status[current] = "callback" /\ Len(fired') = current
    BY <1>1, <1>3, <1>6 DEF CallbackInv
<1>8. /\ Len(fired') = Len(fired) + 1 /\ fired'[Len(fired) + 1] = i
      /\ \A n \in 1..Len(fired) : fired'[n] = fired[n]
    BY <1>1, <1>2, <1>4, PushCall DEF TypeOK
<1>9. i = current
    BY <1>2, <1>3, <1>8 DEF CallbackInv, FiredInOrder
<1>10. current \in 1..Total
    <2>1. PICK n \in 1..Len(stack') : stack'[n].pc = "userCallback"
        BY <1>6 DEF InProgress, CallsOf
    <2>2. CallOK(stack'[n], status', current')
        BY <1>3, <2>1 DEF StackInv, StackOK
    <2>3. current <= Total
        BY <1>1, <2>1, <2>2 DEF CallOK, Total
    <2>4. current \in 1..(Total + 1)
        BY DEF ProgressInv
    <2> QED
        BY <1>2, <2>3, <2>4
<1>11. current \notin {fired[n] : n \in 1..Len(fired)}
    BY <1>2 DEF CallbackInv, FiredInOrder
<1>12. current \in Settled /\ Settled' = Settled /\ Total' = Total
    BY <1>1, <1>7, <1>10 DEF Settled, Total
<1>13. current = Len(fired) + 1 /\ fired' = Append(fired, current)
    BY <1>1, <1>2, <1>9
<1> QED
    BY <1>1, <1>10, <1>11, <1>12, <1>13 DEF Promise!Deliver, Promise!Delivered, Settled

(* Calls to run an operation, and the return of a user callback.            *)
LEMMA RunsStutter ==
    ASSUME CallbackInOrder, TypeOK, StackInv, RunRequest \/ RunNoOperation
    PROVE  UNCHANGED <<Total, Settled, fired, completing, ended>>
<1>1. /\ Running("run") /\ status' = [status EXCEPT ![Top.op] = "running"]
      /\ UNCHANGED <<fired, completing, ended>>
    BY DEF RunRequest, RunNoOperation
<1>2. Top.op \in 1..Total /\ status[Top.op] \in {"queued", "running"}
    BY <1>1, TopOperation
<1>3. /\ Total' = Total
      /\ \A n \in 1..Total : status'[n] = IF n = Top.op THEN "running" ELSE status[n]
    BY <1>1, <1>2, StateGiven DEF OperationState
<1>4. Settled' = Settled
    BY <1>2, <1>3 DEF Settled
<1> QED
    BY <1>1, <1>3, <1>4

LEMMA ReturnStutters ==
    ASSUME CallbackInOrder, TypeOK, StackInv, ProgressInv, CallbackInv,
           UserCallbackReturns
    PROVE  UNCHANGED <<Total, Settled, fired, completing, ended>>
<1>1. /\ Running("userCallback") /\ status' = [status EXCEPT ![Top.op] = "complete"]
      /\ UNCHANGED <<fired, completing, ended>>
    BY DEF UserCallbackReturns, RemoveOperation
<1>2. /\ Len(stack) \in 1..Len(stack) /\ stack[Len(stack)] = Top
      /\ Top.pc = "userCallback" /\ Top.op \in Nat
    BY <1>1, StackFacts DEF TypeOK, Running, Top
<1>3. Top.op = current /\ current <= Total /\ InProgress("userCallback") # {}
    BY <1>2 DEF StackInv, StackOK, CallOK, Total, InProgress, CallsOf
<1>4. status[Top.op] = "callback"
    BY <1>3 DEF CallbackInv
<1>5. Top.op \in 1..Total
    BY <1>2, <1>3 DEF ProgressInv
<1>6. /\ Total' = Total
      /\ \A n \in 1..Total : status'[n] = IF n = Top.op THEN "complete" ELSE status[n]
    BY <1>1, <1>5, StateGiven DEF OperationState
<1>7. Settled' = Settled
    BY <1>4, <1>6 DEF Settled
<1> QED
    BY <1>1, <1>6, <1>7

(* 'end' is emitted after the last user callback: Finish, the first time.   *)
LEMMA EndFinishes ==
    ASSUME CallbackInOrder, TypeOK, StackInv, ProgressInv, CallbackInv, EmitEnd
    PROVE  Promise!Finish \/ UNCHANGED <<Total, Settled, fired, completing, ended>>
<1>1. /\ completing /\ operations = <<>> /\ ended'
      /\ UNCHANGED <<status, fired, completing>> /\ ended' = TRUE
    BY DEF EmitEnd, Complete
<1>2. Total' = Total /\ Settled' = Settled /\ Total \in Nat
    BY <1>1, LenProperties DEF Total, Settled, TypeOK
<1>3. current = Total + 1
    BY <1>1, <1>2, EmptySeq DEF ProgressInv
<1>4. InProgress("userCallback") = {}
    BY <1>2, <1>3 DEF InProgress, CallsOf, StackInv, StackOK, CallOK, Total
<1>5. Len(fired) = Total
    BY <1>2, <1>3, <1>4 DEF CallbackInv
<1>6. CASE ended
    BY <1>1, <1>2, <1>6 DEF TypeOK
<1>7. CASE ~ended
    BY <1>1, <1>2, <1>5, <1>7 DEF Promise!Finish, Settled
<1> QED
    BY <1>6, <1>7

(* The other steps change nothing that Delivery speaks of, or close it.     *)
LEMMA OthersStutter ==
    ASSUME \/ RunAfterError \/ Ran \/ FireWhilePaused \/ FireNothing
           \/ NotComplete \/ EmitDrain \/ NoDrain \/ ListenerReturns
           \/ UserPauses \/ UserResumes \/ Terminated
           \/ \E i \in 1..Total, failed \in BOOLEAN : RequestDone(i, failed)
           \/ UNCHANGED vars
    PROVE  UNCHANGED <<Total, Settled, fired, completing, ended>>
<1>1. UNCHANGED <<status, fired, completing, ended>>
    BY DEF RunAfterError, Ran, FireWhilePaused, FireNothing, NotComplete, EmitDrain,
       NoDrain, ListenerReturns, UserPauses, Pause, UserResumes, Resume, Terminated,
       RequestDone, RequestDoneIn, batch, vars
<1> QED
    BY <1>1 DEF Total, Settled

LEMMA EnablesCloses ==
    ASSUME TypeOK, UserEnablesComplete
    PROVE  Promise!Close \/ UNCHANGED <<Total, Settled, fired, completing, ended>>
<1>1. completing' = TRUE /\ UNCHANGED <<status, fired, ended>>
    BY DEF UserEnablesComplete, EnableComplete
<1>2. Total' = Total /\ Settled' = Settled
    BY <1>1 DEF Total, Settled
<1>3. CASE completing
    BY <1>1, <1>2, <1>3 DEF TypeOK
<1>4. CASE ~completing
    BY <1>1, <1>2, <1>4 DEF Promise!Close, Settled
<1> QED
    BY <1>3, <1>4

(* No more operations are added than the bound allows.                      *)
LEMMA BoundNext ==
    ASSUME TypeOK, BoundInv,
           Promise!Submit \/ Promise!Close \/ Promise!Finish
           \/ (\E i \in 1..Total : Promise!Settle(i) \/ Promise!Deliver(i))
           \/ UNCHANGED <<Total, Settled, fired, completing, ended>>
    PROVE  BoundInv'
<1>1. Total \in Nat /\ MaxOperations \in Nat
    BY LenProperties, BatchAssumption DEF TypeOK, Total
<1>2. Total' = Total \/ (Total < MaxOperations /\ Total' = Total + 1)
    BY DEF Promise!Submit, Promise!Close, Promise!Finish, Promise!Settle, Promise!Deliver
<1> QED
    BY <1>1, <1>2 DEF BoundInv

(* Every step of the batch is a step of the promise or a stutter.           *)
LEMMA StepDelivers ==
    ASSUME CallbackInOrder, TypeOK, SequenceInv, [Next]_vars
    PROVE  \/ Promise!Submit \/ Promise!Close \/ Promise!Finish
           \/ \E i \in 1..Total : Promise!Settle(i) \/ Promise!Deliver(i)
           \/ UNCHANGED <<Total, Settled, fired, completing, ended>>
<1> USE DEF SequenceInv
<1>1. CASE RunRequest \/ RunNoOperation
    BY <1>1, RunsStutter
<1>2. CASE BatchOperationCallback
    <2>1. Promise!Settle(Top.op) /\ Top.op \in 1..Total
        BY <1>2, SettleSettles
    <2>2. PICK i \in 1..Total : i = Top.op
        BY <2>1
    <2>3. Promise!Settle(i)
        BY <2>1, <2>2 DEF Promise!Settle
    <2> QED
        BY <2>3
<1>3. CASE FireUserCallback
    BY <1>3, FireDelivers
<1>4. CASE UserCallbackReturns
    BY <1>4, ReturnStutters
<1>5. CASE EmitEnd
    BY <1>5, EndFinishes
<1>6. CASE UserAdds
    BY <1>6, AddsSubmits
<1>7. CASE UserEnablesComplete
    BY <1>7, EnablesCloses
<1>8. CASE \/ RunAfterError \/ Ran \/ FireWhilePaused \/ FireNothing
           \/ NotComplete \/ EmitDrain \/ NoDrain \/ ListenerReturns
           \/ UserPauses \/ UserResumes \/ Terminated
           \/ \E i \in 1..Total, failed \in BOOLEAN : RequestDone(i, failed)
           \/ UNCHANGED vars
    BY <1>8, OthersStutter
<1> QED
    BY <1>1, <1>2, <1>3, <1>4, <1>5, <1>6, <1>7, <1>8 DEF Next, Step

LEMMA PromiseInit == Init => Promise!Init /\ BoundInv
<1> SUFFICES ASSUME Init PROVE Promise!Init /\ BoundInv
    OBVIOUS
<1>1. Total = 0 /\ MaxOperations \in Nat
    BY EmptySeq, BatchAssumption DEF Init, Total
<1> QED
    BY <1>1 DEF Init, Promise!Init, BoundInv
=============================================================================
